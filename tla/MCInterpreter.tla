---------------------------- MODULE MCInterpreter ----------------------------
(***************************************************************************)
(* Two functions for TLC: f takes one argument and has one more local, v   *)
(* takes any number of arguments.                                          *)
(***************************************************************************)
EXTENDS Interpreter

CONSTANTS f, v

MCParams == [x \in {f, v} |-> 1]
MCLocals == [x \in {f, v} |-> IF x = f THEN 2 ELSE 1]
=============================================================================
