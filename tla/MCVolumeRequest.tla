-------------------------- MODULE MCVolumeRequest --------------------------
(***************************************************************************)
(* Every capacity range with bounds up to MaxBytes, one per state, so that *)
(* TLC compares getSizeRequest with the comment above it on all of them.   *)
(***************************************************************************)
EXTENDS VolumeRequest

CONSTANT MaxBytes   \* bound on the byte counts enumerated

VARIABLE range

Init == range = NoRange

\* The next request names some limit and some required capacity, or, with
\* both 0, a range without a bound.
NextRange ==
  \E limit, required \in 0 .. MaxBytes :
    range' = [given |-> TRUE, limit |-> limit, required |-> required]

Next == NextRange

Spec == Init /\ [][Next]_range

\* controller.go:51-55: "limit if specified, required otherwise, within
\* restrictions of max, min, default otherwise": a request that specifies
\* neither bound asks for the default size.
DefaultOtherwise ==
  ~Bounded(range) => getSizeRequest(range) = DefaultVolumeSizeGi
=============================================================================
