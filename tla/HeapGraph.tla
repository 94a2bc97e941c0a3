----------------------------- MODULE HeapGraph -----------------------------
(***************************************************************************)
(* The object graph of the interpreter, as the garbage collector sees it:  *)
(* which objects a set of values keeps alive through the references the    *)
(* collector follows.  The source computes it by recursion                 *)
(* (MemoryManager::mark); here it is the least closed set, a definition    *)
(* without recursion that can be reasoned about.                           *)
(***************************************************************************)
CONSTANT Object      \* the heap objects (HeapObject addresses)

\* S contains everything its own members refer to.
Closed(S, kids) == \A x \in S : kids[x] \subseteq S

\* The objects reachable from the set `from': the least closed superset.
Reach(from, kids) ==
  {o \in Object : \A S \in SUBSET Object :
                     from \subseteq S /\ Closed(S, kids) => o \in S}
=============================================================================
