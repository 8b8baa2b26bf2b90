-------------------------- MODULE DetachLoopProofs --------------------------
(***************************************************************************)
(* Proofs about DetachLoop, for any number of attachments and of rounds:   *)
(* the invariant Inv, the answer, and the refinement of DetachRounds.      *)
(***************************************************************************)
EXTENDS DetachLoop, TLAPS

USE NAssumption, ListedAssumption, MaxAssumption

\* The IDs that the loop starts from, as one set.
LEMMA ListedIsId == Id = {Listed[k] : k \in 1 .. N} /\ \A k \in 1 .. N : Listed[k] \in Id
  BY DEF Id, Positions

\* Inv holds at the start.
LEMMA InitInv == Init => Inv
<1> SUFFICES ASSUME Init PROVE Inv
  OBVIOUS
<1> USE DEF Init
<1>1. TypeOK
  <2>1. retries \in [Positions -> Id \cup {NoId}]
    OBVIOUS
  <2>2. /\ length \in 0 .. N /\ kept \in 0 .. N /\ next \in 1 .. (N + 1)
        /\ count \in 0 .. DetachMaxRetries
    OBVIOUS
  <2> QED
    BY <2>1, <2>2 DEF TypeOK
<1>2. \A k \in 1 .. N : Element(k) = Listed[k]
  BY DEF Element
<1>3. WritesBehind
  BY DEF WritesBehind
<1>4. Distinct
  BY <1>2, ListedIsId DEF Distinct, Positions
<1>5. Accounted
  BY <1>2, ListedIsId DEF Accounted, Unread
<1>6. Answered
  BY DEF Answered
<1> QED
  BY <1>1, <1>3, <1>4, <1>5, <1>6 DEF Inv

-----------------------------------------------------------------------------
(***************************************************************************)
(* What one position of the range loop does to the attachments unread and  *)
(* kept, when the attachment at that position is not kept and when it is.  *)
(***************************************************************************)

\* Passing a position by takes its attachment, and no other, off the unread.
LEMMA PassedBy ==
  ASSUME Inv, InRound, UNCHANGED <<retries, length, kept, count>>, next' = next + 1
  PROVE  /\ WritesBehind' /\ Distinct'
         /\ Element(next) \in Unread
         /\ Unread' = Unread \ {Element(next)}
         /\ Kept' = Kept
         /\ next' \in 1 .. (N + 1)
<1> USE DEF Inv, TypeOK, InRound
<1>1. WritesBehind'
  BY DEF WritesBehind
<1>2. \A k : Element(k)' = Element(k)
  BY DEF Element
<1>3. next \in next .. length /\ next' .. length' = (next .. length) \ {next}
  OBVIOUS
<1>4. Distinct'
  BY <1>2, <1>3 DEF Distinct
<1>5. Element(next) \in Unread
  BY <1>3 DEF Unread
<1>6. Unread' = Unread \ {Element(next)}
  BY <1>2, <1>3 DEF Unread, Distinct
<1>7. Kept' = Kept
  BY DEF Kept
<1> QED
  BY <1>1, <1>4, <1>5, <1>6, <1>7 DEF WritesBehind

\* Keeping it writes to a position that the loop has read already.
LEMMA PassedOn ==
  ASSUME Inv, InRound, Keep, UNCHANGED <<length, count>>, next' = next + 1
  PROVE  /\ WritesBehind' /\ Distinct'
         /\ Element(next) \in Unread
         /\ Unread' = Unread \ {Element(next)}
         /\ Kept' = Kept \cup {Element(next)}
         /\ next' \in 1 .. (N + 1) /\ kept' \in 0 .. N
         /\ retries' \in [Positions -> Id \cup {NoId}]
<1> USE DEF Inv, TypeOK, InRound
<1> DEFINE e == Element(next)
<1>1. kept < next /\ next <= length /\ kept + 1 \in Positions /\ kept' = kept + 1
  BY DEF WritesBehind, Keep, Positions
<1>2. WritesBehind'
  BY <1>1 DEF WritesBehind
<1>3. next \in next .. length /\ next' .. length' = (next .. length) \ {next}
  BY <1>1
<1>4. e \in Id /\ e \in Unread
  BY <1>3 DEF Distinct, Unread
<1>5. retries' \in [Positions -> Id \cup {NoId}]
  BY <1>1, <1>4 DEF Keep
<1>6. retries'[kept + 1] = e /\ \A k \in Positions \ {kept + 1} : retries'[k] = retries[k]
  BY <1>1 DEF Keep
<1> HIDE DEF e
<1>7. \A k \in next' .. length' : Element(k)' = Element(k)
  BY <1>1, <1>6 DEF Element, Positions
<1>8. \A k \in 1 .. kept : retries'[k] = retries[k]
  BY <1>1, <1>6 DEF Positions
<1>9. 1 .. kept' = (1 .. kept) \cup {kept + 1}
  BY <1>1
<1>10. \A k \in (next .. length) \ {next} : Element(k) # e
  BY <1>3 DEF Distinct, e
<1>11. \A k \in 1 .. kept : retries[k] # e
  BY <1>3 DEF Distinct, e
<1>12. Distinct'
  <2>1. \A j, k \in next' .. length' : Element(j)' = Element(k)' => j = k
    BY <1>3, <1>7 DEF Distinct
  <2>2. \A j, k \in 1 .. kept' : retries'[j] = retries'[k] => j = k
    BY <1>6, <1>8, <1>9, <1>11 DEF Distinct
  <2>3. \A j \in next' .. length', k \in 1 .. kept' : Element(j)' # retries'[k]
    BY <1>3, <1>6, <1>7, <1>8, <1>9, <1>10 DEF Distinct
  <2>4. \A j \in next' .. length' : Element(j)' \in Id
    BY <1>3, <1>7 DEF Distinct
  <2>5. \A k \in 1 .. kept' : retries'[k] \in Id
    BY <1>4, <1>6, <1>8, <1>9 DEF Distinct
  <2> QED
    BY <2>1, <2>2, <2>3, <2>4, <2>5 DEF Distinct
<1>13. Unread' = Unread \ {e}
  BY <1>3, <1>7, <1>10 DEF Unread, e
<1>14. Kept' = Kept \cup {e}
  BY <1>6, <1>8, <1>9 DEF Kept
<1> QED
  BY <1>1, <1>2, <1>4, <1>5, <1>12, <1>13, <1>14 DEF e, Positions

\* The next round reads what was kept.
LEMMA RoundTurned ==
  ASSUME Inv, NextRound
  PROVE  /\ WritesBehind' /\ Distinct'
         /\ Unread = {} /\ Unread' = Kept /\ Kept' = {}
<1> USE DEF Inv, TypeOK, NextRound, ResetRetries
<1>1. count' # 0 /\ next' = 1 /\ length' = kept /\ kept' = 0 /\ kept > 0
  OBVIOUS
<1>2. WritesBehind'
  BY <1>1 DEF WritesBehind
<1>3. \A k : Element(k)' = retries[k]
  BY <1>1 DEF Element
<1>4. Distinct'
  BY <1>1, <1>3 DEF Distinct
<1>5. next .. length = {} /\ 1 .. kept' = {}
  BY <1>1
<1> QED
  BY <1>1, <1>2, <1>3, <1>4, <1>5 DEF Unread, Kept

-----------------------------------------------------------------------------
\* Inv is inductive.
LEMMA NextInv == Inv /\ [Next]_vars => Inv'
<1> SUFFICES ASSUME Inv, [Next]_vars PROVE Inv'
  OBVIOUS
<1>1. CASE DetachGoes
  <2>1. InRound /\ UNCHANGED <<retries, length, kept, count>> /\ next' = next + 1
    BY <1>1 DEF DetachGoes
  <2>2. WritesBehind' /\ Distinct' /\ Unread' = Unread \ {Element(next)}
        /\ Kept' = Kept /\ next' \in 1 .. (N + 1)
    BY <2>1, PassedBy
  <2>3. TypeOK'
    BY <1>1, <2>1, <2>2 DEF DetachGoes, Inv, TypeOK
  <2>4. Accounted'
    BY <1>1, <2>2 DEF DetachGoes, Inv, Accounted
  <2>5. Answered'
    BY <1>1 DEF DetachGoes, InRound, Answered
  <2> QED
    BY <2>2, <2>3, <2>4, <2>5 DEF Inv
<1>2. CASE DetachInUse
  <2>1. InRound /\ Keep /\ UNCHANGED <<length, count>> /\ next' = next + 1
    BY <1>2 DEF DetachInUse
  <2>2. WritesBehind' /\ Distinct' /\ Unread' = Unread \ {Element(next)}
        /\ Kept' = Kept \cup {Element(next)} /\ next' \in 1 .. (N + 1)
        /\ kept' \in 0 .. N /\ retries' \in [Positions -> Id \cup {NoId}]
    BY <2>1, PassedOn
  <2>3. TypeOK'
    BY <1>2, <2>1, <2>2 DEF DetachInUse, Inv, TypeOK
  <2>4. Accounted'
    BY <1>2, <2>2 DEF DetachInUse, Inv, Accounted
  <2>5. Answered'
    BY <1>2 DEF DetachInUse, InRound, Answered
  <2> QED
    BY <2>2, <2>3, <2>4, <2>5 DEF Inv
<1>3. CASE DetachFails
  <2>1. InRound /\ UNCHANGED <<retries, length, kept, count>> /\ next' = next + 1
    BY <1>3 DEF DetachFails
  <2>2. WritesBehind' /\ Distinct' /\ next' \in 1 .. (N + 1)
    BY <2>1, PassedBy
  <2>3. TypeOK'
    BY <1>3, <2>1, <2>2 DEF DetachFails, Inv, TypeOK
  <2>4. Accounted'
    BY <1>3 DEF DetachFails, Accounted
  <2>5. Answered'
    BY <1>3 DEF DetachFails, InRound, Answered
  <2> QED
    BY <2>2, <2>3, <2>4, <2>5 DEF Inv
<1>4. CASE NextRound
  <2>1. WritesBehind' /\ Distinct' /\ Unread = {} /\ Unread' = Kept /\ Kept' = {}
    BY <1>4, RoundTurned
  <2>2. TypeOK'
    BY <1>4 DEF NextRound, ResetRetries, Inv, TypeOK
  <2>3. Accounted'
    BY <1>4, <2>1 DEF NextRound, Inv, Accounted
  <2>4. Answered'
    BY <1>4 DEF NextRound, Answered
  <2> QED
    BY <2>1, <2>2, <2>3, <2>4 DEF Inv
<1>5. CASE Finish
  <2>1. TypeOK'
    BY <1>5 DEF Finish, Result, Inv, TypeOK
  <2>2. WritesBehind' /\ Distinct'
    BY <1>5 DEF Finish, Inv, WritesBehind, Distinct, Element
  <2>3. Unread' = Unread /\ Kept' = Kept
    BY <1>5 DEF Finish, Unread, Kept, Element
  <2>4. Accounted'
    BY <1>5, <2>3 DEF Finish, Inv, Accounted
  <2>5. Answered'
    BY <1>5 DEF Finish, Result, Inv, TypeOK, Answered
  <2> QED
    BY <2>1, <2>2, <2>4, <2>5 DEF Inv
<1>6. CASE UNCHANGED vars
  <2> USE DEF vars, Inv
  <2>1. TypeOK' /\ WritesBehind' /\ Answered'
    BY <1>6 DEF TypeOK, WritesBehind, Answered
  <2>2. Distinct'
    BY <1>6 DEF Distinct, Element
  <2>3. Unread' = Unread /\ Kept' = Kept
    BY <1>6 DEF Unread, Kept, Element
  <2>4. Accounted'
    BY <1>6, <2>3 DEF Accounted
  <2> QED
    BY <2>1, <2>2, <2>4
<1> QED
  BY <1>1, <1>2, <1>3, <1>4, <1>5, <1>6 DEF Next

\* The loop writes behind its reading position, for ever and for any number of
\* attachments (controller.go:360-385).
THEOREM InvHolds == Spec => []Inv
  BY InitInv, NextInv, PTL DEF Spec

\* The variables keep to their types; the counter to DetachMaxRetries
\* (controller.go:376-379).
THEOREM TypeCorrect == Spec => []TypeOK
<1>1. Inv => TypeOK
  BY DEF Inv
<1> QED
  BY <1>1, InvHolds, PTL

\* After an OK answer no attachment is left (controller.go:387-398).
THEOREM OkMeansDetachedHolds == Spec => []OkMeansDetached
<1>1. Inv => OkMeansDetached
  <2> SUFFICES ASSUME Inv, verdict = "OK" PROVE attached = {}
    BY DEF OkMeansDetached
  <2>1. next > length /\ ~failed /\ kept = 0
    BY DEF Inv, Answered
  <2>2. next .. length = {} /\ 1 .. kept = {}
    BY <2>1 DEF Inv, TypeOK
  <2> QED
    BY <2>1, <2>2 DEF Inv, Accounted, Unread, Kept
<1> QED
  BY <1>1, InvHolds, PTL

-----------------------------------------------------------------------------
\* There is something to retry when the slice is not empty.
LEMMA KeptIsEmpty == Inv => (Kept = {} <=> kept = 0)
<1> SUFFICES ASSUME Inv PROVE Kept = {} <=> kept = 0
  OBVIOUS
<1>1. kept \in Nat
  BY DEF Inv, TypeOK
<1>2. CASE kept = 0
  <2>1. 1 .. kept = {}
    BY <1>2
  <2> QED
    BY <1>2, <2>1 DEF Kept
<1>3. CASE kept # 0
  <2>1. 1 \in 1 .. kept
    BY <1>1, <1>3
  <2>2. retries[1] \in Kept
    BY <2>1 DEF Kept
  <2> QED
    BY <1>3, <2>2
<1> QED
  BY <1>2, <1>3

\* The loop begins as DetachRounds does.
LEMMA InitRefines == Init => Rounds!Init
<1> SUFFICES ASSUME Init PROVE Rounds!Init
  OBVIOUS
<1>1. \A k \in 1 .. N : Element(k) = Listed[k]
  BY DEF Init, Element
<1>2. Unread = Id /\ Kept = {}
  BY <1>1, ListedIsId DEF Init, Unread, Kept
<1> QED
  BY <1>2 DEF Init, Rounds!Init

\* Each of its steps is a step of DetachRounds.
LEMMA NextRefines == Inv /\ [Next]_vars => [Rounds!Next]_(Rounds!vars)
<1> SUFFICES ASSUME Inv, [Next]_vars PROVE [Rounds!Next]_(Rounds!vars)
  OBVIOUS
<1> DEFINE e == Element(next)
<1>1. InRound => e \in Id
  BY DEF Inv, TypeOK, InRound, Distinct
<1>2. CASE DetachGoes
  <2>1. InRound /\ UNCHANGED <<retries, length, kept, count>> /\ next' = next + 1
    BY <1>2 DEF DetachGoes
  <2>2. e \in Unread /\ Unread' = Unread \ {e} /\ Kept' = Kept
    BY <2>1, PassedBy
  <2>3. Rounds!Goes(e)
    BY <1>2, <2>2 DEF DetachGoes, Rounds!Goes
  <2> QED
    BY <1>1, <2>1, <2>3 DEF Rounds!Next
<1>3. CASE DetachInUse
  <2>1. InRound /\ Keep /\ UNCHANGED <<length, count>> /\ next' = next + 1
    BY <1>3 DEF DetachInUse
  <2>2. e \in Unread /\ Unread' = Unread \ {e} /\ Kept' = Kept \cup {e}
    BY <2>1, PassedOn
  <2>3. Rounds!InUse(e)
    BY <1>3, <2>2 DEF DetachInUse, Rounds!InUse
  <2> QED
    BY <1>1, <2>1, <2>3 DEF Rounds!Next
<1>4. CASE DetachFails
  <2>1. InRound /\ UNCHANGED <<retries, length, kept, count>> /\ next' = next + 1
    BY <1>4 DEF DetachFails
  <2>2. e \in Unread /\ Unread' = Unread \ {e} /\ Kept' = Kept
    BY <2>1, PassedBy
  <2>3. Rounds!Fails(e)
    BY <1>4, <2>2 DEF DetachFails, Rounds!Fails
  <2> QED
    BY <1>1, <2>1, <2>3 DEF Rounds!Next
<1>5. CASE NextRound
  <2>1. Unread = {} /\ Unread' = Kept /\ Kept' = {}
    BY <1>5, RoundTurned
  <2>2. Kept # {}
    BY <1>5, KeptIsEmpty DEF NextRound, Inv, TypeOK
  <2>3. Rounds!NextRound
    BY <1>5, <2>1, <2>2 DEF NextRound, Rounds!NextRound
  <2> QED
    BY <2>3 DEF Rounds!Next
<1>6. CASE Finish
  <2>1. Unread = {} /\ Unread' = Unread /\ Kept' = Kept
    BY <1>6 DEF Finish, Inv, TypeOK, Unread, Kept, Element
  <2>2. Kept = {} <=> kept = 0
    BY KeptIsEmpty
  <2>3. verdict' = Rounds!Outcome(failed, Kept)
    BY <1>6, <2>2 DEF Finish, Result, Rounds!Outcome, Inv, TypeOK
  <2>4. Rounds!Finish
    BY <1>6, <2>1, <2>2, <2>3 DEF Finish, Rounds!Finish
  <2> QED
    BY <2>4 DEF Rounds!Next
<1>7. CASE UNCHANGED vars
  <2>1. Unread' = Unread /\ Kept' = Kept
    BY <1>7 DEF vars, Unread, Kept, Element
  <2> QED
    BY <1>7, <2>1 DEF vars, Rounds!vars
<1> QED
  BY <1>2, <1>3, <1>4, <1>5, <1>6, <1>7 DEF Next

\* The loop over its two slices does what DetachRounds promises: every
\* attachment of a round is asked to go, and those in use make up the next
\* round (controller.go:359-398).
THEOREM Refinement == Spec => ImplementsRounds
  BY InitRefines, NextRefines, InvHolds, PTL DEF Spec, ImplementsRounds, Rounds!Spec
=============================================================================
