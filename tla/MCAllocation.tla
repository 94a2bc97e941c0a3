---------------------------- MODULE MCAllocation ----------------------------
(***************************************************************************)
(* A small heap for TLC: what each address is used for.                    *)
(***************************************************************************)
EXTENDS Allocation

CONSTANTS c, s, l1, l2, k

MCObject == {c, s, l1, l2, k}
MCConstants == {c}
MCKind == [o \in MCObject |-> CASE o \in {c, s} -> "String"
                                [] o \in {l1, l2} -> "List"
                                [] o = k -> "Closure"]
=============================================================================
