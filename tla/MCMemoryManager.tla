--------------------------- MODULE MCMemoryManager --------------------------
(***************************************************************************)
(* A small heap for TLC: a list and a closure, which may refer to each     *)
(* other or to themselves in a cycle, and a string.                       *)
(***************************************************************************)
EXTENDS MemoryManager

CONSTANTS l, k, s    \* the addresses: a list, a closure, a string

MCObject == {l, k, s}
MCKind == [o \in MCObject |->
             CASE o = l -> "List" [] o = k -> "Closure" [] o = s -> "Leaf"]
=============================================================================
