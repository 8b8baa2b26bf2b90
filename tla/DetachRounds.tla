---------------------------- MODULE DetachRounds ----------------------------
(***************************************************************************)
(* What the detach loop of ControllerUnpublishVolume promises, in terms of *)
(* sets: in each round every attachment of the round is asked to go, once  *)
(* and in any order; those still in use make up the next round; and the    *)
(* answer is OK only if nothing failed and nothing is left.                *)
(***************************************************************************)
EXTENDS Naturals

CONSTANTS Id,               \* the attachments that Unpublish chose to detach
          DetachMaxRetries

VARIABLES
  attached,  \* the attachments that are still there
  todo,      \* left to ask in this round
  retry,     \* in use when asked: left for the next round
  count,     \* rounds after the first
  failed,    \* has a request failed for another reason?
  verdict    \* the answer

vars == <<attached, todo, retry, count, failed, verdict>>

Init == /\ attached = Id
        /\ todo = Id
        /\ retry = {}
        /\ count = 0
        /\ failed = FALSE
        /\ verdict = "none"

Goes(a) ==
  /\ a \in todo
  /\ todo' = todo \ {a}
  /\ attached' = attached \ {a}
  /\ UNCHANGED <<retry, count, failed, verdict>>

InUse(a) ==
  /\ a \in todo
  /\ a \in attached
  /\ todo' = todo \ {a}
  /\ retry' = retry \cup {a}
  /\ UNCHANGED <<attached, count, failed, verdict>>

\* The request fails, and may have removed the attachment all the same.
Fails(a) ==
  /\ a \in todo
  /\ todo' = todo \ {a}
  /\ attached' \in {attached, attached \ {a}}
  /\ failed' = TRUE
  /\ UNCHANGED <<retry, count, verdict>>

\* The answer when the loop ends.
Outcome(somethingFailed, left) ==
  IF somethingFailed \/ left # {} THEN "error" ELSE "OK"

NextRound ==
  /\ todo = {} /\ verdict = "none"
  /\ retry # {} /\ count < DetachMaxRetries
  /\ count' = count + 1
  /\ todo' = retry
  /\ retry' = {}
  /\ UNCHANGED <<attached, failed, verdict>>

Finish ==
  /\ todo = {} /\ verdict = "none"
  /\ retry = {} \/ count >= DetachMaxRetries
  /\ verdict' = Outcome(failed, retry)
  /\ UNCHANGED <<attached, todo, retry, count, failed>>

Next == \/ \E a \in Id : Goes(a) \/ InUse(a) \/ Fails(a)
        \/ NextRound
        \/ Finish

Spec == Init /\ [][Next]_vars

=============================================================================
