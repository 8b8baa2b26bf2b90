--------------------------- MODULE VolumeRequest ---------------------------
(***************************************************************************)
(* What a CreateVolume request asks the provider for: the size in GiB that *)
(* the driver derives from the CSI capacity range, and the storage plan it *)
(* derives from the "plan" parameter.                                      *)
(*                                                                         *)
(* pkg/driver/controller.go (getSizeRequest, getPlanID) and the bounds of  *)
(* pkg/packet/volume.go.  Byte counts are naturals: the CSI field is an    *)
(* int64 and a negative count ends at MinVolumeSizeGi like a small one.    *)
(***************************************************************************)
EXTENDS Naturals

CONSTANTS
  Gibi,                 \* bytes in a GiB
  MinVolumeSizeGi,      \* smallest volume the provider makes
  DefaultVolumeSizeGi,  \* size of a request without a capacity range
  MaxVolumeSizeGi       \* largest volume the provider makes

ASSUME GibiAssumption == Gibi \in Nat \ {0}

ASSUME SizeAssumption ==
  /\ MinVolumeSizeGi \in Nat
  /\ DefaultVolumeSizeGi \in Nat
  /\ MaxVolumeSizeGi \in Nat
  /\ MinVolumeSizeGi <= DefaultVolumeSizeGi
  /\ DefaultVolumeSizeGi <= MaxVolumeSizeGi

\* The sizes a volume may have.
Size == MinVolumeSizeGi .. MaxVolumeSizeGi

\* A capacity range.  given = FALSE is a request without one (a nil pointer);
\* a bound of 0 is a bound that is not set (proto3).
CapacityRange == [given : BOOLEAN, limit : Nat, required : Nat]

NoRange == [given |-> FALSE, limit |-> 0, required |-> 0]

\* The two plans, by the role of their IDs.
PlanID == {"standard", "performance"}

-----------------------------------------------------------------------------
(***************************************************************************)
(* A plausible slip in the size computation, for the mutation runs.        *)
(***************************************************************************)

\* An off-by-one in the bytes: a request for exactly n GiB gets n - 1.
RequestedExclusive(range) ==
  IF ~range.given THEN DefaultVolumeSizeGi
  ELSE LET bytes == IF range.limit # 0 THEN range.limit ELSE range.required
       IN  IF bytes = 0 THEN 0 ELSE (bytes - 1) \div Gibi

-----------------------------------------------------------------------------

\* The limit if there is one, else what is required, in whole GiB; 0 when the
\* range is there but empty.
Requested(range) ==
  IF ~range.given THEN DefaultVolumeSizeGi
  ELSE (IF range.limit # 0 THEN range.limit ELSE range.required) \div Gibi

Within(n) ==
  IF n > MaxVolumeSizeGi THEN MaxVolumeSizeGi
  ELSE IF n < MinVolumeSizeGi THEN MinVolumeSizeGi
  ELSE n

getSizeRequest(range) == Within(Requested(range))

\* Any plan parameter but "performance", a missing one included, is standard.
getPlanID(plan) == IF plan = "performance" THEN "performance" ELSE "standard"

-----------------------------------------------------------------------------
(***************************************************************************)
(* What is promised of one capacity range.                                 *)
(***************************************************************************)

\* The range is there and names a bound.
Bounded(range) == range.given /\ (range.limit # 0 \/ range.required # 0)

\* The comment on getSizeRequest read as a definition without arithmetic, for
\* a range that names a bound: of the sizes on offer the answer is the largest
\* that fits in the bound, or the smallest on offer when none fits.
LargestThatFits(range, size) ==
  LET bytes   == IF range.limit # 0 THEN range.limit ELSE range.required
      fitting == {s \in Size : s * Gibi <= bytes}
  IN  /\ size \in Size
      /\ IF fitting = {} THEN size = MinVolumeSizeGi
         ELSE size \in fitting /\ \A s \in fitting : s <= size

\* The capacity that an OK answer reports, asked for again as the limit, as
\* what is required, or as both, is the same size: a caller that retries with
\* the capacity it was told is not turned away with a mismatch.
AskedAgain(size) ==
  \A limit, required \in {0, size * Gibi} :
    LET range == [given |-> TRUE, limit |-> limit, required |-> required]
    IN  Bounded(range) => getSizeRequest(range) = size
=============================================================================
