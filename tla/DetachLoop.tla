----------------------------- MODULE DetachLoop -----------------------------
(***************************************************************************)
(* The slices of the detach loop of ControllerUnpublishVolume              *)
(* (pkg/driver/controller.go:352-398), and that they implement             *)
(* DetachRounds.                                                           *)
(*                                                                         *)
(* The first round ranges over attachmentIDs and appends to retryIDs, a    *)
(* slice with an array of its own.  Then attachmentIDs = retryIDs[:] and   *)
(* retryIDs = retryIDs[:0] let both share that array: from the second      *)
(* round on the loop writes to the array that it reads.                    *)
(***************************************************************************)
EXTENDS Naturals

CONSTANTS N,                 \* how many attachments there are to detach
          Listed,            \* their IDs, in the order of the provider's list
          NoId,              \* what is in an array slot not yet written
          DetachMaxRetries

Positions == 1 .. N

Id == {Listed[k] : k \in Positions}

ASSUME NAssumption == N \in Nat \ {0}
ASSUME ListedAssumption ==   \* the provider's IDs are distinct
  /\ Listed \in [Positions -> Id]
  /\ \A j, k \in Positions : Listed[j] = Listed[k] => j = k
ASSUME MaxAssumption == DetachMaxRetries \in Nat

VARIABLES
  retries,   \* the array of retryIDs, and in later rounds of attachmentIDs
  length,    \* len(attachmentIDs)
  kept,      \* len(retryIDs)
  next,      \* position that the range loop reads next
  count,     \* counter
  failed,    \* is there anything in failed[]?
  attached,  \* the provider's attachments that are still there
  verdict    \* the answer

vars == <<retries, length, kept, next, count, failed, attached, verdict>>

TypeOK ==
  /\ retries \in [Positions -> Id \cup {NoId}]
  /\ length \in 0 .. N
  /\ kept \in 0 .. N
  /\ next \in 1 .. (N + 1)
  /\ count \in 0 .. DetachMaxRetries
  /\ failed \in BOOLEAN
  /\ attached \subseteq Id
  /\ verdict \in {"none", "OK", "error"}

\* What the range loop reads at position k: attachmentIDs has an array of its own
\* in the first round, and that of retryIDs in the later ones.
Element(k) == IF count = 0 THEN Listed[k] ELSE retries[k]

Init ==
  /\ retries = [k \in Positions |-> NoId]
  /\ length = N
  /\ kept = 0
  /\ next = 1
  /\ count = 0
  /\ failed = FALSE
  /\ attached = Id
  /\ verdict = "none"

InRound == verdict = "none" /\ next <= length

\* Detach removes the attachment.
DetachGoes ==
  /\ InRound
  /\ attached' = attached \ {Element(next)}
  /\ next' = next + 1
  /\ UNCHANGED <<retries, length, kept, count, failed, verdict>>

\* retryIDs = append(retryIDs, a), after a has been read.  In the first round
\* append may move the array; from the second on there is always room.
KeepElsewhere ==
  /\ retries' = [retries EXCEPT ![next] = Element(next)]
  /\ kept' = kept + 1

Keep ==
  /\ retries' = [retries EXCEPT ![kept + 1] = Element(next)]
  /\ kept' = kept + 1

\* Detach reports that the attachment is in use.
DetachInUse ==
  /\ InRound
  /\ Element(next) \in attached
  /\ Keep
  /\ next' = next + 1
  /\ UNCHANGED <<length, count, failed, attached, verdict>>

\* Detach fails otherwise; the attachment may be gone all the same.
DetachFails ==
  /\ InRound
  /\ attached' \in {attached, attached \ {Element(next)}}
  /\ failed' = TRUE
  /\ next' = next + 1
  /\ UNCHANGED <<retries, length, kept, count, verdict>>

\* The slices for the next round.
KeepRetries == length' = kept /\ kept' = kept

ResetRetries == length' = kept /\ kept' = 0

NextRound ==
  /\ verdict = "none" /\ next > length
  /\ kept > 0 /\ count < DetachMaxRetries
  /\ count' = count + 1
  /\ ResetRetries
  /\ next' = 1
  /\ UNCHANGED <<retries, failed, attached, verdict>>

\* The answer: what is left to retry counts as failed.
ResultIgnoresRetries == IF failed THEN "error" ELSE "OK"

Result == IF failed \/ kept > 0 THEN "error" ELSE "OK"

Finish ==
  /\ verdict = "none" /\ next > length
  /\ kept = 0 \/ count >= DetachMaxRetries
  /\ verdict' = Result
  /\ UNCHANGED <<retries, length, kept, next, count, failed, attached>>

Next == DetachGoes \/ DetachInUse \/ DetachFails \/ NextRound \/ Finish

Spec == Init /\ [][Next]_vars

-----------------------------------------------------------------------------
(***************************************************************************)
(* The properties.                                                         *)
(***************************************************************************)

Unread == {Element(k) : k \in next .. length}

Kept == {retries[k] : k \in 1 .. kept}

Rounds == INSTANCE DetachRounds
            WITH todo <- Unread, retry <- Kept

\* The loop does what DetachRounds promises: writing to the array that it
\* reads (controller.go:382-383), it neither skips an attachment nor asks one
\* twice in a round, and retries just those in use.
ImplementsRounds == Rounds!Spec

\* No attachment is left after an OK answer (controller.go:387-398).
OkMeansDetached == verdict = "OK" => attached = {}

-----------------------------------------------------------------------------
(***************************************************************************)
(* Why the shared array is safe: the loop writes behind its reading        *)
(* position.                                                               *)
(***************************************************************************)

WritesBehind ==
  /\ next <= length + 1
  /\ kept < next
  /\ kept <= length

\* What is unread and what is kept are distinct IDs.
Distinct ==
  /\ \A j, k \in next .. length : Element(j) = Element(k) => j = k
  /\ \A j, k \in 1 .. kept : retries[j] = retries[k] => j = k
  /\ \A j \in next .. length, k \in 1 .. kept : Element(j) # retries[k]
  /\ \A j \in next .. length : Element(j) \in Id
  /\ \A k \in 1 .. kept : retries[k] \in Id

\* What is still attached is unread, kept for the next round, or has failed.
Accounted == ~failed => attached \subseteq Unread \cup Kept

\* The answer comes after a full round, and OK only with nothing to retry.
Answered == verdict # "none" => next > length /\ (verdict = "OK" => ~failed /\ kept = 0)

Inv == TypeOK /\ WritesBehind /\ Distinct /\ Accounted /\ Answered
=============================================================================
