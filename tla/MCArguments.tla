----------------------------- MODULE MCArguments -----------------------------
(***************************************************************************)
(* Instance of Arguments for TLC.                                          *)
(***************************************************************************)
EXTENDS Arguments, TLC

(* Functions differ in nothing but their ids. *)
Symmetry == Permutations(FunctionIds)
=============================================================================
