--------------------------- MODULE MCProvisioning ---------------------------
(***************************************************************************)
(* Small instances of Provisioning: with a GiB of two bytes and volumes of *)
(* one to five GiB, a request without a range asks for three GiB and one   *)
(* with a limit of four bytes for two.                                     *)
(***************************************************************************)
EXTENDS Provisioning, TLC

Ranges == {NoRange, [given |-> TRUE, limit |-> 4, required |-> 1]}

Plans == {"standard", "performance"}

OneRange == {NoRange}

OnePlan == {"standard"}

Symmetry == Permutations(Call) \cup Permutations(VolumeId)
=============================================================================
