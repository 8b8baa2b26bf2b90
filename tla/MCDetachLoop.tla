---------------------------- MODULE MCDetachLoop ----------------------------
(***************************************************************************)
(* A small instance of DetachLoop.                                         *)
(***************************************************************************)
EXTENDS DetachLoop

ThreeIds == <<"a1", "a2", "a3">>
=============================================================================
