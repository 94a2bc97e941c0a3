----------------------------- MODULE Collector -----------------------------
(***************************************************************************)
(* What the garbage collector promises its client, the bytecode            *)
(* interpreter: a collection is one atomic step that frees exactly the     *)
(* registered objects nothing refers to any more, and between collections  *)
(* no registered object disappears.  MemoryManager is shown to implement   *)
(* this specification.                                                     *)
(***************************************************************************)
EXTENDS HeapGraph

VARIABLES
  live,    \* the registered objects: those the collector may free
  roots,   \* the objects held by stacks, globals, constants and builtins
  kids     \* for each object, the objects the collector reaches through it

abstractVars == <<live, roots, kids>>

Init ==
  /\ live = {}
  /\ roots = {}
  /\ kids = [o \in Object |-> {}]

\* The program runs: it registers objects, moves references, frees nothing.
Mutate ==
  /\ live' \in SUBSET Object
  /\ live \subseteq live'
  /\ roots' \in SUBSET Object
  /\ kids' \in [Object -> SUBSET Object]

\* A whole collection: what is unreachable goes, what is reachable stays.
Collect ==
  /\ live' = live \cap Reach(roots, kids)
  /\ UNCHANGED <<roots, kids>>

Next == Mutate \/ Collect

Spec == Init /\ [][Next]_abstractVars
=============================================================================
