----------------------------- MODULE MCCodegen -----------------------------
(***************************************************************************)
(* Programs of bounded length for TLC.                                     *)
(***************************************************************************)
EXTENDS Codegen
=============================================================================
