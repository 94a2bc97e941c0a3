---------------------------- MODULE MCSymbolTable ----------------------------
(***************************************************************************)
(* Names for TLC: a variable, and a builtin a program may shadow with a    *)
(* parameter.  Four levels are needed for a capture through a function in  *)
(* between, three slots for a for-in loop over a new name.                 *)
(***************************************************************************)
EXTENDS SymbolTable

CONSTANTS x, len

MCMaxDefinitions == <<1, 3, 2, 1>>
=============================================================================
