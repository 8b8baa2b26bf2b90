---------------------------- MODULE MCNodeVolume ----------------------------
(***************************************************************************)
(* Small instances of NodeVolume.                                          *)
(***************************************************************************)
EXTENDS NodeVolume, TLC

Distinct == {}

Symmetry == Permutations(Call) \cup Permutations(Volume)
=============================================================================
