-------------------------- MODULE AttachmentProofs --------------------------
(***************************************************************************)
(* Proofs of the safety properties of Attachment.                          *)
(***************************************************************************)
EXTENDS Attachment, TLAPS

LEMMA NewCallType == NewCall \in CallState
  BY NoneAssumption DEF NewCall, CallState, Code

-----------------------------------------------------------------------------
(***************************************************************************)
(* How the attachments change.                                             *)
(***************************************************************************)

\* An attachment, once made, keeps its volume and its node, and once gone stays
\* gone.
AttachmentsGrow ==
  /\ attachments' \in [AttachmentId -> Attachment]
  /\ \A a \in AttachmentId :
       attachments[a].state # "free" =>
         /\ attachments'[a].state # "free"
         /\ attachments'[a].volume = attachments[a].volume
         /\ attachments'[a].node = attachments[a].node
         /\ attachments[a].state = "gone" => attachments'[a].state = "gone"

LEMMA AttachmentsSame ==
  ASSUME TypeOK, UNCHANGED attachments
  PROVE  AttachmentsGrow
  BY DEF TypeOK, AttachmentsGrow

\* Another state for a live attachment.
LEMMA AttachmentsState ==
  ASSUME TypeOK, NEW a \in AttachmentId,
         NEW state \in {"idle", "busy", "gone"}, Live(a),
         attachments' = [attachments EXCEPT ![a].state = state]
  PROVE  /\ AttachmentsGrow
         /\ attachments'[a].state = state
         /\ \A b \in AttachmentId : /\ b # a => attachments'[b] = attachments[b]
                                   /\ attachments'[b].volume = attachments[b].volume
                                   /\ attachments'[b].node = attachments[b].node
<1> DEFINE new == [attachments[a] EXCEPT !.state = state]
<1>1. attachments \in [AttachmentId -> Attachment]
  BY DEF TypeOK
<1>2. /\ new \in Attachment
      /\ new.state = state
      /\ new.volume = attachments[a].volume /\ new.node = attachments[a].node
  BY <1>1 DEF Attachment
<1>3. attachments' = [attachments EXCEPT ![a] = new]
  BY <1>1
<1> HIDE DEF new
<1>4. attachments' \in [AttachmentId -> Attachment]
  BY <1>1, <1>2, <1>3
<1>5. /\ attachments'[a] = new
      /\ \A b \in AttachmentId : b # a => attachments'[b] = attachments[b]
  BY <1>1, <1>3
<1>6. AttachmentsGrow
  BY <1>2, <1>4, <1>5 DEF AttachmentsGrow, Live
<1> QED
  BY <1>2, <1>5, <1>6

LEMMA AttachmentsNew ==
  ASSUME TypeOK, NEW c \in Call, NEW a \in AttachmentId, Attach(c, a)
  PROVE  /\ AttachmentsGrow
         /\ attachments'[a].state = "idle"
         /\ attachments'[a].volume = call[c].volume
         /\ attachments'[a].node = call[c].node
         /\ \A b \in AttachmentId : b # a => attachments'[b] = attachments[b]
<1> DEFINE new == [state |-> "idle", volume |-> call[c].volume,
                   node |-> call[c].node]
<1>1. /\ attachments' = [attachments EXCEPT ![a] = new]
      /\ attachments[a].state = "free"
  BY DEF Attach
<1>2. new \in Attachment
  BY DEF TypeOK, CallState, Attachment
<1>3. /\ new.state = "idle" /\ new.volume = call[c].volume
      /\ new.node = call[c].node
  OBVIOUS
<1> HIDE DEF new
<1>4. attachments \in [AttachmentId -> Attachment]
  BY DEF TypeOK
<1>5. attachments' \in [AttachmentId -> Attachment]
  BY <1>1, <1>2, <1>4
<1>6. /\ attachments'[a] = new
      /\ \A b \in AttachmentId : b # a => attachments'[b] = attachments[b]
  BY <1>1, <1>4
<1>7. AttachmentsGrow
  BY <1>1, <1>5, <1>6 DEF AttachmentsGrow
<1> QED
  BY <1>3, <1>6, <1>7

\* What a record says of the attachments stays true as they change.
LEMMA RecordStable ==
  ASSUME TypeOK, AttachmentsGrow, NEW k \in CallState, RecordOK(k, attachments)
  PROVE  RecordOK(k, attachments')
<1>1. ASSUME NEW a \in AttachmentId, Asked(k, attachments[a])
      PROVE  /\ Asked(k, attachments'[a])
             /\ attachments[a].state = "gone" => attachments'[a].state = "gone"
  BY <1>1 DEF Asked, AttachmentsGrow
<1>2. k.chosen \subseteq AttachmentId
  BY DEF CallState
<1> QED
  BY <1>1, <1>2 DEF RecordOK
-----------------------------------------------------------------------------
(***************************************************************************)
(* How the record of a call changes.  A step of call c replaces its record *)
(* by another one, k, and leaves the other calls alone.                    *)
(***************************************************************************)

Bounded(k) ==
  k.count <= IF k.op = "publish" THEN AttachMaxRetries + 1
             ELSE DetachMaxRetries

\* Call c has the new record k, and asks for what it asked for.
Becomes(c, k) ==
  /\ k \in CallState /\ Bounded(k)
  /\ call' = [call EXCEPT ![c] = k]
  /\ k.op = call[c].op
  /\ k.volume = call[c].volume /\ k.node = call[c].node
  /\ k.abandoned = call[c].abandoned

\* The rest of the record, but for the counter and the program counter.
SameWork(k, l) ==
  /\ k.id = l.id /\ k.chosen = l.chosen
  /\ k.todo = l.todo /\ k.retry = l.retry /\ k.failed = l.failed

LEMMA AnswerRecord ==
  ASSUME TypeOK, NEW c \in Call, NEW code \in Code, Answer(c, code)
  PROVE  \E k : /\ Becomes(c, k) /\ SameWork(k, call[c])
                /\ k.pc = "done" /\ k.code = code
<1> DEFINE k == [call[c] EXCEPT !.pc = "done", !.code = code]
<1>1. call[c] \in CallState /\ Bounded(call[c])
  BY DEF TypeOK, Bounded
<1>2. k \in CallState
  BY <1>1 DEF CallState
<1>3. call' = [call EXCEPT ![c] = k]
  BY DEF Answer, TypeOK, CallState
<1>4. /\ k.op = call[c].op /\ k.volume = call[c].volume
      /\ k.node = call[c].node /\ k.abandoned = call[c].abandoned
      /\ k.pc = "done" /\ k.code = code /\ k.count = call[c].count
      /\ SameWork(k, call[c])
  BY <1>1 DEF CallState, SameWork
<1> HIDE DEF k
<1> QED
  BY <1>1, <1>2, <1>3, <1>4 DEF Becomes, Bounded

\* Publish goes on to look at the attachments, or to make one.
LEMMA PcRecord ==
  ASSUME TypeOK, NEW c \in Call, NEW pc \in {"precheck", "create"},
         call' = [call EXCEPT ![c].pc = pc]
  PROVE  \E k : /\ Becomes(c, k) /\ SameWork(k, call[c])
                /\ k.pc = pc /\ k.code = call[c].code
<1> DEFINE k == [call[c] EXCEPT !.pc = pc]
<1>1. call[c] \in CallState /\ Bounded(call[c])
  BY DEF TypeOK, Bounded
<1>2. k \in CallState
  BY <1>1 DEF CallState
<1>3. call' = [call EXCEPT ![c] = k]
  BY DEF TypeOK, CallState
<1>4. /\ k.op = call[c].op /\ k.volume = call[c].volume
      /\ k.node = call[c].node /\ k.abandoned = call[c].abandoned
      /\ k.pc = pc /\ k.code = call[c].code
      /\ k.count = call[c].count /\ SameWork(k, call[c])
  BY <1>1 DEF CallState, SameWork
<1> HIDE DEF k
<1> QED
  BY <1>1, <1>2, <1>3, <1>4 DEF Becomes, Bounded

Found(c, pc, code, a) ==
  call' = [call EXCEPT ![c] = [@ EXCEPT !.pc = pc, !.code = code, !.id = a]]

\* Publish has found attachment a, or made it.
LEMMA FoundRecord ==
  ASSUME TypeOK, NEW c \in Call, NEW a \in AttachmentId,
         NEW pc \in {"fetch", "done"}, NEW code \in Code,
         Found(c, pc, code, a)
  PROVE  \E k : /\ Becomes(c, k) /\ k.pc = pc /\ k.code = code /\ k.id = a
                /\ k.chosen = call[c].chosen /\ k.failed = call[c].failed
                /\ k.todo = call[c].todo /\ k.retry = call[c].retry
<1> DEFINE k == [call[c] EXCEPT !.pc = pc, !.code = code, !.id = a]
<1>1. call[c] \in CallState /\ Bounded(call[c])
  BY DEF TypeOK, Bounded
<1>2. k \in CallState
  BY <1>1 DEF CallState
<1>3. call' = [call EXCEPT ![c] = k]
  BY DEF TypeOK, Found
<1>4. /\ k.op = call[c].op /\ k.volume = call[c].volume
      /\ k.node = call[c].node /\ k.abandoned = call[c].abandoned
      /\ k.pc = pc /\ k.id = a /\ k.code = code
      /\ k.count = call[c].count
      /\ k.chosen = call[c].chosen /\ k.failed = call[c].failed
      /\ k.todo = call[c].todo /\ k.retry = call[c].retry
  BY <1>1 DEF CallState
<1> HIDE DEF k
<1> QED
  BY <1>1, <1>2, <1>3, <1>4 DEF Becomes, Bounded

\* Publish tries again, or gives up, as the volume is attached elsewhere.
LEMMA WrongDeviceRecord ==
  ASSUME TypeOK, NEW c \in Call, call[c].op = "publish", WrongDevice(c)
  PROVE  \E k : /\ Becomes(c, k) /\ SameWork(k, call[c])
                /\ \/ k.pc = call[c].pc /\ k.code = call[c].code
                   \/ k.pc = "done" /\ k.code = "Unknown"
<1>1. call[c] \in CallState /\ Bounded(call[c])
  BY DEF TypeOK, Bounded
<1>2. CASE WrongDeviceByPointer /\ call[c].count <= AttachMaxRetries
  <2> DEFINE count == call[c].count + 1
             k == [call[c] EXCEPT !.wrongDevice = TRUE, !.count = count]
  <2>0. call[c].count \in Nat /\ count \in Nat
    BY <1>1 DEF CallState
  <2>1. k \in CallState
    <3> HIDE DEF count
    <3> QED
      BY <1>1, <2>0 DEF CallState
  <2>2. call' = [call EXCEPT ![c] = k]
    BY <1>2 DEF WrongDevice, NextCount, TypeOK, CallState
  <2>3. /\ k.op = call[c].op /\ k.volume = call[c].volume
        /\ k.node = call[c].node /\ k.abandoned = call[c].abandoned
        /\ k.pc = call[c].pc /\ k.code = call[c].code
        /\ k.count = count /\ SameWork(k, call[c])
    BY <1>1 DEF CallState, SameWork
  <2> HIDE DEF k
  <2>4. Bounded(k)
    BY <1>2, <2>0, <2>3, RetriesAssumption DEF Bounded
  <2> QED
    BY <2>1, <2>2, <2>3, <2>4 DEF Becomes
<1>3. CASE ~(WrongDeviceByPointer /\ call[c].count <= AttachMaxRetries)
  <2> DEFINE k == [call[c] EXCEPT !.wrongDevice = TRUE, !.pc = "done",
                                  !.code = "Unknown"]
  <2>1. k \in CallState
    BY <1>1 DEF CallState, Code
  <2>2. call' = [call EXCEPT ![c] = k]
    BY <1>3 DEF WrongDevice, TypeOK, CallState
  <2>3. /\ k.op = call[c].op /\ k.volume = call[c].volume
        /\ k.node = call[c].node /\ k.abandoned = call[c].abandoned
        /\ k.pc = "done" /\ k.code = "Unknown"
        /\ k.count = call[c].count /\ SameWork(k, call[c])
    BY <1>1 DEF CallState, SameWork
  <2> HIDE DEF k
  <2> QED
    BY <1>1, <2>1, <2>2, <2>3 DEF Becomes, Bounded
<1> QED
  BY <1>2, <1>3
\* Unpublish has chosen what to detach.
LEMMA SelectRecord ==
  ASSUME TypeOK, NEW c \in Call,
         call' = [call EXCEPT ![c].pc = "detach", ![c].chosen = Matching(c),
                              ![c].todo = Matching(c)]
  PROVE  \E k : /\ Becomes(c, k) /\ k.pc = "detach" /\ k.code = call[c].code
                /\ k.chosen = Matching(c) /\ k.todo = Matching(c)
                /\ k.id = call[c].id /\ k.retry = call[c].retry
<1> DEFINE set == Matching(c)
           k == [call[c] EXCEPT !.pc = "detach", !.chosen = set, !.todo = set]
<1>0. set \in SUBSET AttachmentId
  BY DEF Matching, On
<1>1. call[c] \in CallState /\ Bounded(call[c])
  BY DEF TypeOK, Bounded
<1> HIDE DEF set
<1>2. k \in CallState
  BY <1>0, <1>1 DEF CallState
<1>3. call' = [call EXCEPT ![c] = k]
  BY DEF TypeOK, CallState, set
<1>4. /\ k.op = call[c].op /\ k.volume = call[c].volume
      /\ k.node = call[c].node /\ k.abandoned = call[c].abandoned
      /\ k.pc = "detach" /\ k.code = call[c].code
      /\ k.chosen = set /\ k.todo = set
      /\ k.id = call[c].id /\ k.retry = call[c].retry
      /\ k.count = call[c].count
  BY <1>1 DEF CallState
<1> HIDE DEF k
<1> QED
  BY <1>1, <1>2, <1>3, <1>4 DEF Becomes, Bounded, set

\* Unpublish has dealt with attachment a of this round: what else is left stays
\* left, and a does if it is in use.
LEMMA DetachedRecord ==
  ASSUME TypeOK, NEW c \in Call, call[c].op = "unpublish",
         NEW a \in call[c].todo,
         NEW inUse \in BOOLEAN, NEW fails \in BOOLEAN,
         Detached(c, a, inUse, fails)
  PROVE  \E k : /\ Becomes(c, k) /\ k.chosen = call[c].chosen
                /\ k.failed = (call[c].failed \/ fails)
                /\ k.todo \cup k.retry \subseteq call[c].todo \cup call[c].retry
                /\ \A b \in call[c].todo \cup call[c].retry :
                     b # a \/ inUse => b \in k.todo \cup k.retry
                /\ \/ k.pc = call[c].pc /\ k.code = call[c].code
                   \/ /\ k.pc = "done" /\ k.code \in {"OK", "Unknown"}
                      /\ k.code = "OK" =>
                           ~k.failed /\ k.todo = {} /\ k.retry = {}
<1> DEFINE todo   == call[c].todo \ {a}
           retry  == IF inUse THEN call[c].retry \cup {a} ELSE call[c].retry
           failed == call[c].failed \/ fails
<1>1. call[c] \in CallState /\ Bounded(call[c])
  BY DEF TypeOK, Bounded
<1>2. /\ a \in AttachmentId /\ todo \in SUBSET AttachmentId
      /\ retry \in SUBSET AttachmentId /\ failed \in BOOLEAN
      /\ call[c].count \in Nat
  BY <1>1 DEF CallState
<1>3. /\ todo \cup retry \subseteq call[c].todo \cup call[c].retry
      /\ \A b \in call[c].todo \cup call[c].retry :
           b # a \/ inUse => b \in todo \cup retry
  OBVIOUS
<1>4. CASE todo # {}
  <2> DEFINE k == [call[c] EXCEPT !.todo = todo, !.retry = retry,
                                  !.failed = failed]
  <2>1. call' = [call EXCEPT ![c].todo = todo, ![c].retry = retry,
                             ![c].failed = failed]
    BY <1>4 DEF Detached
  <2> HIDE DEF todo, retry, failed
  <2>2. k \in CallState
    BY <1>1, <1>2 DEF CallState
  <2>3. call' = [call EXCEPT ![c] = k]
    BY <2>1 DEF TypeOK, CallState
  <2>4. /\ k.op = call[c].op /\ k.volume = call[c].volume
        /\ k.node = call[c].node /\ k.abandoned = call[c].abandoned
        /\ k.pc = call[c].pc /\ k.code = call[c].code
        /\ k.chosen = call[c].chosen /\ k.count = call[c].count
        /\ k.todo = todo /\ k.retry = retry /\ k.failed = failed
    BY <1>1 DEF CallState
  <2> HIDE DEF k
  <2>5. Becomes(c, k)
    BY <1>1, <2>2, <2>3, <2>4 DEF Becomes, Bounded
  <2> QED
    BY <1>3, <2>4, <2>5 DEF failed
<1>5. CASE todo = {} /\ (retry = {} \/ LastRound(c))
  <2> DEFINE code == Verdict(failed, retry)
             k == [call[c] EXCEPT !.todo = {}, !.retry = retry,
                                  !.failed = failed, !.pc = "done",
                                  !.code = code]
  <2>1. call' = [call EXCEPT ![c].todo = {}, ![c].retry = retry,
                             ![c].failed = failed, ![c].pc = "done",
                             ![c].code = code]
    BY <1>5 DEF Detached
  <2>2. /\ code \in {"OK", "Unknown"}
        /\ code = "OK" => ~failed /\ retry = {}
    BY DEF Verdict
  <2>3. retry = todo \cup retry
    BY <1>5
  <2> HIDE DEF todo, retry, failed, code
  <2>4. k \in CallState
    BY <1>1, <1>2, <2>2 DEF CallState, Code
  <2>5. call' = [call EXCEPT ![c] = k]
    BY <2>1 DEF TypeOK, CallState
  <2>6. /\ k.op = call[c].op /\ k.volume = call[c].volume
        /\ k.node = call[c].node /\ k.abandoned = call[c].abandoned
        /\ k.pc = "done" /\ k.code = code
        /\ k.chosen = call[c].chosen /\ k.count = call[c].count
        /\ k.todo = {} /\ k.retry = retry /\ k.failed = failed
    BY <1>1 DEF CallState
  <2> HIDE DEF k
  <2>7. Becomes(c, k)
    BY <1>1, <2>4, <2>5, <2>6 DEF Becomes, Bounded
  <2>8. k.todo \cup k.retry = todo \cup retry
    BY <2>3, <2>6
  <2> QED
    BY <1>3, <2>2, <2>6, <2>7, <2>8 DEF failed
<1>6. CASE todo = {} /\ ~(retry = {} \/ LastRound(c))
  <2> DEFINE count == call[c].count + 1
             k == [call[c] EXCEPT !.todo = retry, !.retry = {},
                                  !.failed = failed, !.count = count]
  <2>1. call' = [call EXCEPT ![c].todo = retry, ![c].retry = {},
                             ![c].failed = failed, ![c].count = count]
    BY <1>6 DEF Detached, NextCount
  <2>2. count \in Nat /\ count <= DetachMaxRetries
    BY <1>2, <1>6, RetriesAssumption DEF LastRound
  <2>3. retry = todo \cup retry
    BY <1>6
  <2> HIDE DEF todo, retry, failed, count
  <2>4. k \in CallState
    BY <1>1, <1>2, <2>2 DEF CallState
  <2>5. call' = [call EXCEPT ![c] = k]
    BY <2>1 DEF TypeOK, CallState
  <2>6. /\ k.op = call[c].op /\ k.volume = call[c].volume
        /\ k.node = call[c].node /\ k.abandoned = call[c].abandoned
        /\ k.pc = call[c].pc /\ k.code = call[c].code
        /\ k.chosen = call[c].chosen /\ k.count = count
        /\ k.todo = retry /\ k.retry = {} /\ k.failed = failed
    BY <1>1 DEF CallState
  <2> HIDE DEF k
  <2>7. Becomes(c, k)
    BY <2>2, <2>4, <2>5, <2>6 DEF Becomes, Bounded
  <2>8. k.todo \cup k.retry = todo \cup retry
    BY <2>3, <2>6
  <2> QED
    BY <1>3, <2>6, <2>7, <2>8 DEF failed
<1> QED
  BY <1>4, <1>5, <1>6
\* Call c is a new call, with record k.
Begun(c, k, op, v, n, check, pc) ==
  /\ k \in CallState /\ Bounded(k)
  /\ call' = [call EXCEPT ![c] = k]
  /\ k.op = op /\ k.volume = v /\ k.node = n /\ ~k.abandoned
  /\ k.chosen = {} /\ k.todo = {} /\ k.retry = {} /\ ~k.failed
  /\ \/ k.pc = pc /\ k.code = "none" /\ check = "OK"
     \/ k.pc = "done" /\ k.code = check /\ check # "OK"

\* A new call is under way, or a check of its arguments has answered it.
LEMMA BeginRecord ==
  ASSUME TypeOK, NEW c \in Call, NEW op \in {"publish", "unpublish"},
         NEW v \in Volume \cup {NoVolume}, NEW n \in Node \cup {NoNode},
         NEW check \in {"OK", "Internal", "InvalidArgument"},
         NEW pc \in {"get", "select"}, Begin(c, op, v, n, check, pc)
  PROVE  \E k : Begun(c, k, op, v, n, check, pc)
<1> DEFINE step   == IF check = "OK" THEN pc ELSE "done"
           answer == IF check = "OK" THEN "none" ELSE check
           k == [NewCall EXCEPT !.op = op, !.volume = v, !.node = n,
                                !.pc = step, !.code = answer]
<1>1. call' = [call EXCEPT ![c] = k]
  BY DEF Begin
<1>2. \/ step = pc /\ answer = "none" /\ check = "OK"
      \/ step = "done" /\ answer = check /\ check # "OK"
  OBVIOUS
<1> HIDE DEF step, answer
<1>3. k \in CallState
  <2>1. step \in {"get", "select", "done"} /\ answer \in Code
    BY <1>2 DEF Code
  <2> QED
    BY <2>1, NewCallType DEF CallState
<1>4. /\ k.op = op /\ k.volume = v /\ k.node = n /\ ~k.abandoned
      /\ k.chosen = {} /\ k.todo = {} /\ k.retry = {} /\ ~k.failed
      /\ k.pc = step /\ k.code = answer /\ k.count = 0
  BY DEF NewCall
<1> HIDE DEF k
<1>5. Bounded(k)
  BY <1>4, RetriesAssumption DEF Bounded
<1>6. Begun(c, k, op, v, n, check, pc)
  BY <1>1, <1>2, <1>3, <1>4, <1>5 DEF Begun
<1> QED
  BY <1>6

\* The CO gives up on call c, and changes nothing else.
LEMMA TimeOutRecord ==
  ASSUME TypeOK, NEW c \in Call, TimeOut(c)
  PROVE  \E k \in CallState :
           /\ call' = [call EXCEPT ![c] = k] /\ Bounded(k)
           /\ k.op = call[c].op /\ k.pc = call[c].pc /\ k.code = call[c].code
           /\ k.volume = call[c].volume /\ k.node = call[c].node
           /\ SameWork(k, call[c])
           /\ k.abandoned /\ k.op \in GivenUp
<1> DEFINE k == [call[c] EXCEPT !.abandoned = TRUE]
<1>1. call[c] \in CallState /\ Bounded(call[c])
  BY DEF TypeOK, Bounded
<1>2. k \in CallState
  BY <1>1 DEF CallState
<1>3. call' = [call EXCEPT ![c] = k]
  BY DEF TimeOut, TypeOK, CallState
<1>4. /\ k.op = call[c].op /\ k.pc = call[c].pc /\ k.code = call[c].code
      /\ k.volume = call[c].volume /\ k.node = call[c].node
      /\ k.count = call[c].count /\ k.abandoned = TRUE
      /\ SameWork(k, call[c])
  BY <1>1 DEF CallState, SameWork
<1> HIDE DEF k
<1> QED
  BY <1>1, <1>2, <1>3, <1>4 DEF Bounded, TimeOut

\* A crash loses the calls in flight and changes nothing else.
LEMMA CrashRecord ==
  ASSUME TypeOK, Crash, NEW d \in Call
  PROVE  /\ call'[d] \in CallState /\ Bounded(call'[d])
         /\ call'[d].op = call[d].op
         /\ call'[d].volume = call[d].volume /\ call'[d].node = call[d].node
         /\ call'[d].abandoned = call[d].abandoned
         /\ SameWork(call'[d], call[d])
         /\ call'[d].pc \in {"idle", "done"}
         /\ \/ call'[d] = call[d]
            \/ Running(d) /\ call'[d].pc = "done" /\ call'[d].code = "Lost"
<1> DEFINE k == [call[d] EXCEPT !.pc = "done", !.code = "Lost"]
<1>1. call[d] \in CallState /\ Bounded(call[d])
  BY DEF TypeOK, Bounded
<1>2. k \in CallState
  BY <1>1 DEF CallState, Code
<1>3. call'[d] = IF Running(d) THEN k ELSE call[d]
  BY DEF Crash
<1>4. /\ k.op = call[d].op /\ k.volume = call[d].volume
      /\ k.node = call[d].node /\ k.abandoned = call[d].abandoned
      /\ k.count = call[d].count /\ SameWork(k, call[d])
      /\ k.pc = "done" /\ k.code = "Lost"
  BY <1>1 DEF CallState, SameWork
<1> HIDE DEF k
<1>5. CASE Running(d)
  BY <1>1, <1>2, <1>3, <1>4, <1>5 DEF Bounded
<1>6. CASE ~Running(d)
  <2>1. call[d].pc \in {"idle", "done"} /\ call'[d] = call[d]
    BY <1>1, <1>3, <1>6 DEF CallState, Running
  <2> QED
    BY <1>1, <2>1 DEF SameWork
<1> QED
  BY <1>5, <1>6

-----------------------------------------------------------------------------
(***************************************************************************)
(* What the steps of a handler do.                                         *)
(***************************************************************************)

Good == TypeOK /\ Consistent

\* Attachment a is made by Publish, for the volume and the node it was called
\* with.
Made(c, k, a) ==
  /\ call[c].pc = "create" /\ k.pc = "done" /\ k.op = "publish"
  /\ ~Live(a) /\ Live(a)'
  /\ attachments'[a].volume = k.volume /\ attachments'[a].node = k.node
  /\ k.volume \in exists

\* What the call knows of the attachments has just been looked up, or is what it
\* knew before.
Looked(c, k) ==
  /\ k.pc = "create" => On(k.volume) = {} /\ UNCHANGED attachments
  /\ k.pc = "detach" =>
       \/ call[c].pc = "detach" /\ k.chosen = call[c].chosen
       \/ k.chosen = Matching(c) /\ UNCHANGED attachments
  /\ k.op = "unpublish" /\ k.code = "OK" =>
       \/ call[c].pc = "detach" /\ k.chosen = call[c].chosen
       \/ k.volume \notin exists

\* A step of call c after which its record is k.
Effect(c, k) ==
  /\ Running(c) /\ Becomes(c, k) /\ RecordOK(k, attachments')
  /\ AttachmentsGrow /\ UNCHANGED exists
  /\ \A a \in AttachmentId :
       attachments'[a].state = "gone" =>
         \/ attachments[a].state = "gone"
         \/ k.op = "unpublish" /\ Asked(k, attachments'[a])
  /\ \A a \in AttachmentId : Live(a)' => Live(a) \/ Made(c, k, a)
  /\ \A a, b \in AttachmentId : Made(c, k, a) /\ Made(c, k, b) => a = b
  /\ Looked(c, k)

LEMMA GoodFacts ==
  ASSUME Good, NEW c \in Call
  PROVE  /\ TypeOK
         /\ call[c] \in CallState /\ RecordOK(call[c], attachments)
         /\ {"NotFound", "Unknown", "OK"} \subseteq Code
  BY DEF Good, Consistent, TypeOK, Code

\* A step that leaves the attachments alone.
LEMMA EffectQuiet ==
  ASSUME Good, NEW c \in Call, Running(c), NEW k, Becomes(c, k),
         RecordOK(k, attachments), Looked(c, k),
         UNCHANGED <<attachments, exists>>
  PROVE  Effect(c, k)
<1>1. AttachmentsGrow
  BY AttachmentsSame DEF Good
<1>2. RecordOK(k, attachments')
  OBVIOUS
<1>3. \A a \in AttachmentId : ~Made(c, k, a)
  BY DEF Made, Live
<1>4. \A a \in AttachmentId : Live(a)' => Live(a)
  BY DEF Live
<1> QED
  BY <1>1, <1>2, <1>3, <1>4 DEF Effect

\* A handler stops with an answer other than OK.
LEMMA EffectFails ==
  ASSUME Good, NEW c \in Call, Running(c), NEW code \in {"NotFound", "Unknown"},
         Answer(c, code), UNCHANGED <<attachments, exists>>
  PROVE  \E k : Effect(c, k)
<1>1. PICK k : /\ Becomes(c, k) /\ SameWork(k, call[c])
               /\ k.pc = "done" /\ k.code = code
  BY AnswerRecord, GoodFacts
<1>2. RecordOK(k, attachments)
  BY <1>1, GoodFacts DEF RecordOK, Becomes, SameWork, Asked, Running
<1>3. Looked(c, k)
  BY <1>1 DEF Looked
<1> QED
  BY <1>1, <1>2, <1>3, EffectQuiet

LEMMA EffectGet ==
  ASSUME Good, NEW c \in Call, Get(c)
  PROVE  \E k : Effect(c, k)
<1>1. Running(c) /\ UNCHANGED <<attachments, exists>>
  BY DEF Get, Running
<1>2. CASE call' = [call EXCEPT ![c].pc = "precheck"]
  <2>1. PICK k : /\ Becomes(c, k) /\ SameWork(k, call[c])
                 /\ k.pc = "precheck" /\ k.code = call[c].code
    BY <1>2, PcRecord, GoodFacts
  <2>2. RecordOK(k, attachments)
    BY <2>1, GoodFacts DEF RecordOK, Becomes, SameWork, Asked, Get
  <2>3. Looked(c, k)
    BY <2>1, <2>2 DEF Looked, RecordOK
  <2> QED
    BY <1>1, <2>1, <2>2, <2>3, EffectQuiet
<1>3. CASE Answer(c, "NotFound")
  BY <1>1, <1>3, EffectFails
<1> QED
  BY <1>2, <1>3 DEF Get
\* Publish looks where the volume is attached.
LEMMA EffectPrecheck ==
  ASSUME Good, NEW c \in Call, Precheck(c)
  PROVE  \E k : Effect(c, k)
<1>1. /\ call[c].pc = "precheck" /\ Running(c)
      /\ UNCHANGED <<attachments, exists>>
  BY DEF Precheck, Running
<1>2. call[c].op = "publish" /\ call[c].node # NoNode /\ call[c].code = "none"
  BY <1>1, GoodFacts DEF RecordOK
<1>3. CASE On(call[c].volume) = {} /\ call' = [call EXCEPT ![c].pc = "create"]
  <2>1. PICK k : /\ Becomes(c, k) /\ SameWork(k, call[c])
                 /\ k.pc = "create" /\ k.code = call[c].code
    BY <1>3, PcRecord, GoodFacts
  <2>2. RecordOK(k, attachments)
    BY <1>2, <2>1, GoodFacts DEF RecordOK, Becomes, SameWork, Asked
  <2>3. Looked(c, k)
    BY <1>1, <1>2, <1>3, <2>1 DEF Looked, Becomes
  <2> QED
    BY <1>1, <2>1, <2>2, <2>3, EffectQuiet
<1>4. ASSUME NEW a \in AttachmentId, On(call[c].volume) = {a},
             attachments[a].node = call[c].node,
             call' = [call EXCEPT ![c].pc = "fetch", ![c].id = a]
      PROVE  \E k : Effect(c, k)
  <2>1. PICK k : /\ Becomes(c, k) /\ k.pc = "fetch"
                 /\ k.code = call[c].code /\ k.id = a
                 /\ k.chosen = call[c].chosen /\ k.failed = call[c].failed
                 /\ k.todo = call[c].todo /\ k.retry = call[c].retry
    <3>1. PICK code \in Code : code = call[c].code
      BY GoodFacts DEF CallState
    <3>2. [call[c] EXCEPT !.pc = "fetch", !.id = a]
            = [call[c] EXCEPT !.pc = "fetch", !.code = code, !.id = a]
      BY <3>1, GoodFacts DEF CallState
    <3>3. Found(c, "fetch", code, a)
      BY <1>4, <3>2, GoodFacts DEF TypeOK, CallState, Found
    <3> QED
      BY <3>1, <3>3, FoundRecord, GoodFacts
  <2>2. Asked(k, attachments[a])
    BY <1>4, <2>1 DEF On, Live, Asked, Becomes
  <2>3. RecordOK(k, attachments)
    BY <1>2, <2>1, <2>2, GoodFacts DEF RecordOK, Becomes, Asked
  <2>4. Looked(c, k)
    BY <1>2, <2>1 DEF Looked, Becomes
  <2> QED
    BY <1>1, <2>1, <2>3, <2>4, EffectQuiet
<1>5. CASE WrongDevice(c)
  <2>1. PICK k : /\ Becomes(c, k) /\ SameWork(k, call[c])
                 /\ \/ k.pc = call[c].pc /\ k.code = call[c].code
                    \/ k.pc = "done" /\ k.code = "Unknown"
    BY <1>2, <1>5, WrongDeviceRecord, GoodFacts
  <2>2. RecordOK(k, attachments)
    BY <1>1, <1>2, <2>1, GoodFacts DEF RecordOK, Becomes, SameWork, Asked
  <2>3. Looked(c, k)
    BY <1>1, <1>2, <2>1 DEF Looked, Becomes
  <2> QED
    BY <1>1, <2>1, <2>2, <2>3, EffectQuiet
<1>6. CASE Answer(c, "Unknown")
  BY <1>1, <1>6, EffectFails
<1> QED
  BY <1>3, <1>4, <1>5, <1>6 DEF Precheck

LEMMA EffectFetch ==
  ASSUME Good, NEW c \in Call, FetchAttachment(c)
  PROVE  \E k : Effect(c, k)
<1>1. /\ call[c].pc = "fetch" /\ Running(c)
      /\ UNCHANGED <<attachments, exists>>
  BY DEF FetchAttachment, Running
<1>2. CASE Answer(c, "NotFound")
  BY <1>1, <1>2, EffectFails
<1>3. CASE Answer(c, "OK")
  <2>1. PICK k : /\ Becomes(c, k) /\ SameWork(k, call[c])
                 /\ k.pc = "done" /\ k.code = "OK"
    BY <1>3, AnswerRecord, GoodFacts
  <2>2. RecordOK(k, attachments)
    BY <1>1, <2>1, GoodFacts DEF RecordOK, Becomes, SameWork, Asked
  <2>3. Looked(c, k)
    BY <1>1, <2>1, GoodFacts DEF Looked, Becomes, RecordOK
  <2> QED
    BY <1>1, <2>1, <2>2, <2>3, EffectQuiet
<1> QED
  BY <1>2, <1>3 DEF FetchAttachment

\* Publish makes attachment a, and is answered with it or with an error.
LEMMA EffectAttach ==
  ASSUME Good, NEW c \in Call, NEW a \in AttachmentId, Attach(c, a),
         \/ call' = [call EXCEPT ![c].pc = "done", ![c].code = "OK",
                                 ![c].id = a]
         \/ Answer(c, "Unknown")
  PROVE  \E k : Effect(c, k)
<1>1. /\ call[c].pc = "create" /\ Running(c) /\ UNCHANGED exists
      /\ call[c].volume \in exists /\ attachments[a].state = "free"
  BY DEF Attach, Running
<1>2. call[c].op = "publish" /\ call[c].node # NoNode
  BY <1>1, GoodFacts DEF RecordOK
<1>3. PICK k : /\ Becomes(c, k) /\ k.pc = "done"
               /\ \/ k.code = "OK" /\ k.id = a
                  \/ k.code = "Unknown"
               /\ k.chosen = call[c].chosen
               /\ k.todo = call[c].todo /\ k.retry = call[c].retry
  <2>1. CASE call' = [call EXCEPT ![c].pc = "done", ![c].code = "OK",
                                  ![c].id = a]
    <3>1. Found(c, "done", "OK", a)
      BY <2>1, GoodFacts DEF TypeOK, CallState, Found
    <3> QED
      BY <3>1, FoundRecord, GoodFacts
  <2>2. CASE Answer(c, "Unknown")
    BY <2>2, AnswerRecord, GoodFacts DEF SameWork
  <2> QED
    BY <2>1, <2>2
<1>4. /\ AttachmentsGrow
      /\ attachments'[a].state = "idle"
      /\ attachments'[a].volume = k.volume /\ attachments'[a].node = k.node
      /\ \A b \in AttachmentId : b # a => attachments'[b] = attachments[b]
  BY <1>3, AttachmentsNew, GoodFacts DEF Becomes
<1>5. Asked(k, attachments'[a])
  BY <1>4 DEF Asked
<1>6. RecordOK(k, attachments')
  <2>1. \A b \in k.chosen : Asked(k, attachments'[b])
    <3>1. k.chosen \subseteq AttachmentId
      BY <1>3, GoodFacts DEF CallState
    <3>2. \A b \in k.chosen : Asked(call[c], attachments[b])
      BY <1>3, GoodFacts DEF RecordOK
    <3> QED
      BY <1>3, <1>4, <3>1, <3>2 DEF Asked, Becomes, AttachmentsGrow
  <2> QED
    BY <1>2, <1>3, <1>5, <2>1, GoodFacts DEF RecordOK, Becomes
<1>7. \A b \in AttachmentId :
        attachments'[b].state = "gone" => attachments[b].state = "gone"
  BY <1>4
<1>8. \A b \in AttachmentId : Live(b)' => Live(b) \/ b = a
  BY <1>4 DEF Live
<1>9. Made(c, k, a) /\ \A b \in AttachmentId : Made(c, k, b) => b = a
  BY <1>1, <1>2, <1>3, <1>4, <1>8 DEF Made, Live, Becomes
<1>10. Looked(c, k)
  BY <1>2, <1>3 DEF Looked, Becomes
<1> QED
  BY <1>1, <1>3, <1>4, <1>6, <1>7, <1>8, <1>9, <1>10 DEF Effect
\* Unpublish chooses what to detach.
LEMMA EffectSelect ==
  ASSUME Good, NEW c \in Call, Select(c)
  PROVE  \E k : Effect(c, k)
<1>1. /\ call[c].pc = "select" /\ Running(c)
      /\ UNCHANGED <<attachments, exists>>
  BY DEF Select, Running
<1>2. call[c].op = "unpublish" /\ call[c].code = "none"
  BY <1>1, GoodFacts DEF RecordOK
<1>3. CASE call[c].volume \notin exists /\ Answer(c, "OK")
  <2>1. PICK k : /\ Becomes(c, k) /\ SameWork(k, call[c])
                 /\ k.pc = "done" /\ k.code = "OK"
    BY <1>3, AnswerRecord, GoodFacts
  <2>2. RecordOK(k, attachments)
    BY <1>1, <2>1, GoodFacts DEF RecordOK, Becomes, SameWork, Asked
  <2>3. Looked(c, k)
    BY <1>3, <2>1 DEF Looked, Becomes
  <2> QED
    BY <1>1, <2>1, <2>2, <2>3, EffectQuiet
<1>4. CASE Answer(c, "Unknown")
  BY <1>1, <1>4, EffectFails
<1>5. CASE call' = [call EXCEPT ![c].pc = "detach", ![c].chosen = Matching(c),
                                ![c].todo = Matching(c)]
  <2>2. PICK k : /\ Becomes(c, k) /\ k.pc = "detach"
                 /\ k.code = call[c].code
                 /\ k.chosen = Matching(c) /\ k.todo = Matching(c)
                 /\ k.id = call[c].id /\ k.retry = call[c].retry
    BY <1>5, SelectRecord, GoodFacts
  <2>3. \A a \in Matching(c) : Asked(k, attachments[a])
    BY <2>2 DEF Matching, On, Live, Asked, Becomes
  <2>4. RecordOK(k, attachments)
    BY <1>1, <1>2, <2>2, <2>3, GoodFacts DEF RecordOK, Becomes
  <2>5. Looked(c, k)
    BY <1>1, <1>2, <2>2 DEF Looked, Becomes
  <2> QED
    BY <1>1, <2>2, <2>4, <2>5, EffectQuiet
<1> QED
  BY <1>3, <1>4, <1>5 DEF Select

\* Unpublish has dealt with attachment a of its round, after which a is gone,
\* is tried again, or counts as failed.
LEMMA EffectDetached ==
  ASSUME Good, NEW c \in Call, call[c].pc = "detach", NEW a \in call[c].todo,
         NEW inUse \in BOOLEAN, NEW fails \in BOOLEAN,
         Detached(c, a, inUse, fails), UNCHANGED exists,
         \/ UNCHANGED attachments
         \/ attachments[a].state = "idle" /\ Remove(a),
         \/ inUse \/ fails \/ attachments'[a].state = "gone"
  PROVE  \E k : Effect(c, k)
<1>1. Running(c) /\ call[c].op = "unpublish" /\ call[c].code = "none"
  BY GoodFacts DEF RecordOK, Running
<1>2. /\ a \in AttachmentId /\ Asked(call[c], attachments[a])
      /\ call[c].chosen \subseteq AttachmentId
  BY GoodFacts DEF CallState, RecordOK
<1>3. PICK k : /\ Becomes(c, k) /\ k.chosen = call[c].chosen
               /\ k.failed = (call[c].failed \/ fails)
               /\ k.todo \cup k.retry \subseteq call[c].todo \cup call[c].retry
               /\ \A b \in call[c].todo \cup call[c].retry :
                    b # a \/ inUse => b \in k.todo \cup k.retry
               /\ \/ k.pc = call[c].pc /\ k.code = call[c].code
                  \/ /\ k.pc = "done" /\ k.code \in {"OK", "Unknown"}
                     /\ k.code = "OK" =>
                          ~k.failed /\ k.todo = {} /\ k.retry = {}
  BY <1>1, DetachedRecord, GoodFacts
<1>4. /\ AttachmentsGrow
      /\ \A b \in AttachmentId : b # a => attachments'[b] = attachments[b]
      /\ attachments'[a] = attachments[a] \/ attachments'[a].state = "gone"
      /\ Asked(k, attachments'[a])
  <2>1. CASE UNCHANGED attachments
    <3>1. AttachmentsGrow
      BY <2>1, AttachmentsSame, GoodFacts
    <3>2. Asked(k, attachments'[a])
      BY <1>2, <1>3, <2>1 DEF Asked, Becomes
    <3> QED
      BY <2>1, <3>1, <3>2
  <2>2. CASE attachments[a].state = "idle" /\ Remove(a)
    <3>1. /\ AttachmentsGrow /\ attachments'[a].state = "gone"
          /\ \A b \in AttachmentId : b # a => attachments'[b] = attachments[b]
      BY <1>2, <2>2, AttachmentsState, GoodFacts DEF Remove, Live
    <3>2. Asked(k, attachments'[a])
      BY <1>2, <1>3, <3>1 DEF Asked, Becomes, AttachmentsGrow
    <3> QED
      BY <3>1, <3>2
  <2> QED
    BY <2>1, <2>2
<1>5. \A b \in k.chosen : Asked(k, attachments'[b])
  <2>1. \A b \in k.chosen : Asked(call[c], attachments[b])
    BY <1>3, GoodFacts DEF RecordOK
  <2> QED
    BY <1>2, <1>3, <1>4, <2>1 DEF Asked, Becomes
<1>6. ~k.failed => \A b \in k.chosen :
        b \in k.todo \cup k.retry \/ attachments'[b].state = "gone"
  <2>1. SUFFICES ASSUME ~k.failed, NEW b \in k.chosen
                 PROVE  b \in k.todo \cup k.retry \/ attachments'[b].state = "gone"
    OBVIOUS
  <2>2. ~call[c].failed /\ ~fails
    BY <1>3, <2>1
  <2>3. b \in call[c].todo \cup call[c].retry \/ attachments[b].state = "gone"
    BY <1>1, <1>3, <2>2, GoodFacts DEF RecordOK
  <2> QED
    BY <1>2, <1>3, <1>4, <2>2, <2>3
<1>7. RecordOK(k, attachments')
  <2>1. k.op = "unpublish" /\ k.todo \cup k.retry \subseteq k.chosen
    BY <1>1, <1>3, GoodFacts DEF RecordOK, Becomes
  <2> QED
    BY <1>1, <1>3, <1>5, <1>6, <2>1, GoodFacts DEF RecordOK
<1>8. \A b \in AttachmentId :
        attachments'[b].state = "gone" =>
          \/ attachments[b].state = "gone"
          \/ k.op = "unpublish" /\ Asked(k, attachments'[b])
  BY <1>1, <1>3, <1>4 DEF Becomes
<1>9. \A b \in AttachmentId : ~Made(c, k, b) /\ (Live(b)' => Live(b))
  BY <1>4 DEF Made, Live
<1>10. Looked(c, k)
  BY <1>3 DEF Looked
<1> QED
  BY <1>1, <1>3, <1>4, <1>7, <1>8, <1>9, <1>10 DEF Effect

\* What every step of a handler does.
LEMMA EffectStep ==
  ASSUME Good, NEW c \in Call, Step(c)
  PROVE  \E k : Effect(c, k)
<1>1. CASE Get(c)
  BY <1>1, EffectGet
<1>2. CASE PublishFails(c)
  BY <1>2, EffectFails DEF PublishFails, Running
<1>3. CASE Precheck(c)
  BY <1>3, EffectPrecheck
<1>4. CASE AttachGone(c)
  BY <1>4, EffectFails DEF AttachGone, Running
<1>5. CASE CreateAttachment(c)
  BY <1>5, EffectAttach DEF CreateAttachment
<1>6. CASE CreateAttachmentLost(c)
  BY <1>6, EffectAttach DEF CreateAttachmentLost
<1>7. CASE FetchAttachment(c)
  BY <1>7, EffectFetch
<1>8. CASE Select(c)
  BY <1>8, EffectSelect
<1>9. CASE SelectFails(c)
  BY <1>9, EffectFails DEF SelectFails, Running
<1>10. CASE DetachIdle(c)
  <2>1. PICK a \in call[c].todo : /\ attachments[a].state = "idle" /\ Remove(a)
                                  /\ Detached(c, a, FALSE, FALSE)
    BY <1>10 DEF DetachIdle
  <2>2. attachments'[a].state = "gone"
    <3>1. a \in AttachmentId
      BY <2>1, GoodFacts DEF CallState
    <3> QED
      BY <2>1, <3>1, AttachmentsState, GoodFacts DEF Remove, Live
  <2> QED
    BY <1>10, <2>1, <2>2, EffectDetached DEF DetachIdle
<1>11. CASE DetachBusy(c)
  BY <1>11, EffectDetached DEF DetachBusy
<1>12. CASE DetachGone(c)
  BY <1>12, EffectDetached DEF DetachGone
<1>13. CASE DetachFails(c)
  BY <1>13, EffectDetached DEF DetachFails
<1>14. CASE DetachLost(c)
  BY <1>14, EffectDetached DEF DetachLost
<1> QED
  BY <1>1, <1>2, <1>3, <1>4, <1>5, <1>6, <1>7, <1>8, <1>9, <1>10, <1>11,
     <1>12, <1>13, <1>14 DEF Step

-----------------------------------------------------------------------------
(***************************************************************************)
(* The answers, whatever overlaps, fails, times out or crashes.            *)
(***************************************************************************)

LEMMA GoodInit == Init => Good
<1> SUFFICES ASSUME Init PROVE Good
  OBVIOUS
<1>1. \A c \in Call : call[c] = NewCall
  BY DEF Init
<1>2. \A c \in Call : call[c] \in CallState /\ Bounded(call[c])
  <2>1. NewCall.count = 0 /\ NewCall.op = "none"
    BY DEF NewCall
  <2>2. Bounded(NewCall)
    BY <2>1, RetriesAssumption DEF Bounded
  <2> QED
    BY <1>1, <2>2, NewCallType
<1>3. call \in [Call -> CallState]
  BY <1>2 DEF Init
<1>4. /\ attachments \in [AttachmentId -> Attachment]
      /\ \A a \in AttachmentId :
           attachments[a].state # "gone" /\ (Live(a) => attachments[a].volume \in Volume)
  <2>1. /\ FreeAttachment \in Attachment /\ FreeAttachment.state = "free"
        /\ NoneAttached \in [AttachmentId -> Attachment]
        /\ \A a \in AttachmentId : NoneAttached[a] = FreeAttachment
    BY DEF FreeAttachment, NoneAttached, Attachment
  <2>2. CASE attachments = NoneAttached
    BY <2>1, <2>2 DEF Live
  <2>3. ASSUME NEW a \in AttachmentId, NEW v \in Volume, NEW n \in Node,
               attachments = [NoneAttached EXCEPT ![a] =
                 [state |-> "idle", volume |-> v, node |-> n]]
        PROVE  <1>4
    <3> DEFINE new == [state |-> "idle", volume |-> v, node |-> n]
    <3>1. new \in Attachment /\ new.state = "idle" /\ new.volume = v
      BY DEF Attachment
    <3>2. attachments = [NoneAttached EXCEPT ![a] = new]
      BY <2>3
    <3> HIDE DEF new
    <3> QED
      BY <2>1, <3>1, <3>2 DEF Live
  <2> QED
    BY <2>2, <2>3 DEF Init
<1>5. exists = Volume
  BY DEF Init
<1>6. TypeOK
  BY <1>2, <1>3, <1>4, <1>5 DEF TypeOK, Bounded
<1>7. \A c \in Call : RecordOK(call[c], attachments)
  <2>1. /\ NewCall.op = "none" /\ NewCall.pc = "idle" /\ NewCall.code = "none"
        /\ NewCall.chosen = {} /\ NewCall.todo = {} /\ NewCall.retry = {}
    BY DEF NewCall
  <2>2. RecordOK(NewCall, attachments)
    BY <2>1 DEF RecordOK
  <2> QED
    BY <1>1, <2>2
<1> QED
  BY <1>4, <1>5, <1>6, <1>7 DEF Good, Consistent

\* No request is forgotten, and an attachment that goes was asked to go.
Traced ==
  /\ AttachmentsGrow
  /\ \A d \in Call : call[d].op # "none" =>
       /\ call'[d].op = call[d].op
       /\ call'[d].volume = call[d].volume
       /\ call'[d].node = call[d].node
  /\ \A a \in AttachmentId : attachments'[a].state = "gone" =>
       \/ attachments[a].state = "gone"
       \/ \E d \in Call : /\ call'[d].op = "unpublish"
                          /\ Asked(call'[d], attachments'[a])

LEMMA RequestedStep ==
  ASSUME OnlyRequestedDetached, Traced
  PROVE  OnlyRequestedDetached'
<1>1. ASSUME NEW a \in AttachmentId, attachments'[a].state = "gone"
      PROVE  \E d \in Call :
               /\ call'[d].op = "unpublish"
               /\ call'[d].volume = attachments'[a].volume
               /\ call'[d].node \in {NoNode, attachments'[a].node}
  <2>1. CASE attachments[a].state = "gone"
    <3>1. PICK d \in Call :
            /\ call[d].op = "unpublish"
            /\ call[d].volume = attachments[a].volume
            /\ call[d].node \in {NoNode, attachments[a].node}
      BY <2>1 DEF OnlyRequestedDetached
    <3> QED
      BY <2>1, <3>1 DEF Traced, AttachmentsGrow
  <2>2. CASE \E d \in Call : /\ call'[d].op = "unpublish"
                             /\ Asked(call'[d], attachments'[a])
    BY <2>2 DEF Asked
  <2> QED
    BY <1>1, <2>1, <2>2 DEF Traced
<1> QED
  BY <1>1 DEF OnlyRequestedDetached

\* The step lemma for a step of a handler.
LEMMA GoodEffect ==
  ASSUME Good, NEW c \in Call, NEW k, Effect(c, k)
  PROVE  Good' /\ Traced
<1>1. /\ Becomes(c, k) /\ k \in CallState /\ Bounded(k)
      /\ call' = [call EXCEPT ![c] = k] /\ call \in [Call -> CallState]
      /\ RecordOK(k, attachments') /\ AttachmentsGrow /\ exists' = exists
  BY DEF Good, TypeOK, Effect, Becomes
<1>2. call'[c] = k /\ \A d \in Call : d # c => call'[d] = call[d]
  BY <1>1
<1>3. ASSUME NEW d \in Call PROVE RecordOK(call'[d], attachments')
  <2>1. call[d] \in CallState /\ RecordOK(call[d], attachments)
    BY GoodFacts
  <2>2. RecordOK(call[d], attachments')
    BY <1>1, <2>1, RecordStable DEF Good
  <2> QED
    BY <1>1, <1>2, <2>2
<1>4. \A d \in Call : /\ call'[d].op = call[d].op
                      /\ call'[d].volume = call[d].volume
                      /\ call'[d].node = call[d].node
  BY <1>1, <1>2 DEF Becomes
<1>5. ASSUME NEW a \in AttachmentId, attachments'[a].state = "gone"
      PROVE  \/ attachments[a].state = "gone"
             \/ \E d \in Call : /\ call'[d].op = "unpublish"
                                /\ Asked(call'[d], attachments'[a])
  BY <1>2, <1>5 DEF Effect
<1>6. ASSUME NEW a \in AttachmentId, Live(a)'
      PROVE  attachments'[a].volume \in exists'
  <2>1. CASE Live(a)
    <3>1. attachments'[a].volume = attachments[a].volume
      BY <1>1, <2>1 DEF AttachmentsGrow, Live
    <3> QED
      BY <1>1, <2>1, <3>1 DEF Good, Consistent
  <2>2. CASE Made(c, k, a)
    BY <1>1, <2>2 DEF Made
  <2> QED
    BY <1>6, <2>1, <2>2 DEF Effect
<1>7. Consistent'
  BY <1>3, <1>6 DEF Consistent
<1>8. TypeOK'
  <2>1. call' \in [Call -> CallState]
    BY <1>1
  <2>2. \A d \in Call : Bounded(call'[d])
    BY <1>1, <1>2 DEF Good, TypeOK, Bounded
  <2> QED
    BY <1>1, <2>1, <2>2 DEF Good, TypeOK, Bounded, AttachmentsGrow
<1>9. Traced
  BY <1>1, <1>4, <1>5 DEF Traced
<1> QED
  BY <1>7, <1>8, <1>9 DEF Good

LEMMA GoodBegin ==
  ASSUME Good, NEW c \in Call, NEW op \in {"publish", "unpublish"},
         NEW v \in Volume \cup {NoVolume}, NEW n \in Node \cup {NoNode},
         NEW check \in {"OK", "Internal", "InvalidArgument"},
         NEW pc \in {"get", "select"},
         op = "publish" => (pc = "get" /\ (check = "OK" => n # NoNode)),
         op = "unpublish" => pc = "select",
         Begin(c, op, v, n, check, pc)
  PROVE  Good' /\ Traced
<1>0. PICK k : Begun(c, k, op, v, n, check, pc)
  BY BeginRecord DEF Good
<1>1. /\ k \in CallState /\ Bounded(k)
      /\ call' = [call EXCEPT ![c] = k]
      /\ k.op = op /\ k.volume = v /\ k.node = n
      /\ k.chosen = {} /\ k.todo = {} /\ k.retry = {} /\ ~k.failed
      /\ \/ k.pc = pc /\ k.code = "none" /\ check = "OK"
         \/ k.pc = "done" /\ k.code = check /\ check # "OK"
  BY <1>0 DEF Begun
<1>2. /\ call[c].pc = "idle" /\ UNCHANGED <<attachments, exists>>
      /\ call \in [Call -> CallState]
  BY DEF Begin, Good, TypeOK
<1>3. AttachmentsGrow
  BY <1>2, AttachmentsSame DEF Good
<1>4. call'[c] = k /\ \A d \in Call : d # c => call'[d] = call[d]
  BY <1>1, <1>2
<1>5. RecordOK(k, attachments)
  BY <1>1 DEF RecordOK
<1>6. ASSUME NEW d \in Call PROVE RecordOK(call'[d], attachments')
  <2>1. attachments' = attachments
    BY <1>2
  <2>2. CASE d = c
    BY <1>4, <1>5, <2>1, <2>2
  <2>3. CASE d # c
    BY <1>4, <2>1, <2>3, GoodFacts
  <2> QED
    BY <2>2, <2>3
<1>7. call[c].op = "none"
  BY <1>2, GoodFacts DEF RecordOK
<1>8. \A a \in AttachmentId : Live(a)' => attachments'[a].volume \in exists'
  BY <1>2 DEF Good, Consistent, Live
<1>9. Consistent'
  BY <1>6, <1>8 DEF Consistent
<1>10. TypeOK'
  <2>1. \A d \in Call : Bounded(call'[d])
    BY <1>1, <1>4 DEF Good, TypeOK, Bounded
  <2> QED
    BY <1>1, <1>2, <2>1 DEF Good, TypeOK, Bounded
<1>11. Traced
  BY <1>2, <1>3, <1>4, <1>7 DEF Traced
<1> QED
  BY <1>9, <1>10, <1>11 DEF Good

LEMMA GoodTimeOut ==
  ASSUME Good, NEW c \in Call, TimeOut(c)
  PROVE  Good' /\ Traced
<1>1. PICK k \in CallState :
        /\ call' = [call EXCEPT ![c] = k] /\ Bounded(k)
        /\ k.op = call[c].op /\ k.pc = call[c].pc /\ k.code = call[c].code
        /\ k.volume = call[c].volume /\ k.node = call[c].node
        /\ SameWork(k, call[c])
        /\ k.abandoned /\ k.op \in GivenUp
  BY TimeOutRecord DEF Good
<1>2. /\ attachments' = attachments /\ exists' = exists
      /\ call \in [Call -> CallState]
  BY DEF TimeOut, Good, TypeOK
<1>3. AttachmentsGrow
  BY <1>2, AttachmentsSame DEF Good
<1>4. call'[c] = k /\ \A d \in Call : d # c => call'[d] = call[d]
  BY <1>1, <1>2
<1>5. RecordOK(k, attachments)
  BY <1>1, GoodFacts DEF RecordOK, SameWork, Asked
<1>6. ASSUME NEW d \in Call PROVE RecordOK(call'[d], attachments')
  <2>1. CASE d = c
    BY <1>2, <1>4, <1>5, <2>1
  <2>2. CASE d # c
    BY <1>2, <1>4, <2>2, GoodFacts
  <2> QED
    BY <2>1, <2>2
<1>7. \A a \in AttachmentId : Live(a)' => attachments'[a].volume \in exists'
  BY <1>2 DEF Good, Consistent, Live
<1>8. Consistent'
  BY <1>6, <1>7 DEF Consistent
<1>9. TypeOK'
  <2>1. \A d \in Call : Bounded(call'[d])
    BY <1>1, <1>4 DEF Good, TypeOK, Bounded
  <2> QED
    BY <1>1, <1>2, <2>1 DEF Good, TypeOK, Bounded
<1>10. Traced
  BY <1>1, <1>2, <1>3, <1>4 DEF Traced
<1> QED
  BY <1>8, <1>9, <1>10 DEF Good

LEMMA GoodCrash ==
  ASSUME Good, Crash
  PROVE  Good' /\ Traced
<1>1. attachments' = attachments /\ exists' = exists /\ AttachmentsGrow
  BY AttachmentsSame DEF Crash, Good
<1>2. ASSUME NEW d \in Call PROVE RecordOK(call'[d], attachments')
  <2>1. CASE call'[d] = call[d]
    BY <1>1, <2>1, GoodFacts
  <2>2. CASE Running(d) /\ call'[d].pc = "done" /\ call'[d].code = "Lost"
    BY <1>1, <2>2, GoodFacts, CrashRecord
       DEF RecordOK, SameWork, Asked, Running, Good
  <2> QED
    BY <2>1, <2>2, CrashRecord DEF Good
<1>3. \A a \in AttachmentId : Live(a)' => attachments'[a].volume \in exists'
  BY <1>1 DEF Good, Consistent, Live
<1>4. Consistent'
  BY <1>2, <1>3 DEF Consistent
<1>5. TypeOK'
  <2>1. \A d \in Call : call'[d] \in CallState /\ Bounded(call'[d])
    BY CrashRecord DEF Good
  <2>2. call' \in [Call -> CallState]
    BY <2>1 DEF Crash
  <2> QED
    BY <1>1, <2>1, <2>2 DEF Good, TypeOK, Bounded
<1>6. Traced
  BY <1>1, CrashRecord DEF Traced, Good
<1> QED
  BY <1>4, <1>5, <1>6 DEF Good

\* A node logs in or out.
LEMMA GoodSession ==
  ASSUME Good, NEW a \in AttachmentId, Login(a) \/ Logout(a)
  PROVE  Good' /\ Traced
<1>1. /\ call' = call /\ exists' = exists
      /\ AttachmentsGrow
      /\ attachments'[a].state \in {"idle", "busy"} /\ Live(a)
      /\ \A b \in AttachmentId : b # a => attachments'[b] = attachments[b]
  BY AttachmentsState DEF Login, Logout, Live, Good
<1>2. \A d \in Call : RecordOK(call'[d], attachments')
  BY <1>1, GoodFacts, RecordStable DEF Good
<1>3. \A b \in AttachmentId : Live(b)' => attachments'[b].volume \in exists'
  BY <1>1 DEF Good, Consistent, Live, AttachmentsGrow
<1>4. \A b \in AttachmentId :
        attachments'[b].state = "gone" => attachments[b].state = "gone"
  BY <1>1
<1>5. Consistent'
  BY <1>2, <1>3 DEF Consistent
<1>6. TypeOK'
  BY <1>1 DEF Good, TypeOK, AttachmentsGrow
<1>7. Traced
  BY <1>1, <1>4 DEF Traced
<1> QED
  BY <1>5, <1>6, <1>7 DEF Good

LEMMA GoodVolumeDeleted ==
  ASSUME Good, NEW v \in Volume, VolumeDeleted(v)
  PROVE  Good' /\ Traced
<1>1. /\ call' = call /\ attachments' = attachments
      /\ exists' = exists \ {v} /\ On(v) = {} /\ AttachmentsGrow
  BY AttachmentsSame DEF VolumeDeleted, Good
<1>2. \A d \in Call : RecordOK(call'[d], attachments')
  BY <1>1, GoodFacts
<1>3. \A a \in AttachmentId : Live(a)' => attachments'[a].volume \in exists'
  BY <1>1 DEF Good, Consistent, Live, On
<1>4. Consistent'
  BY <1>2, <1>3 DEF Consistent
<1>5. TypeOK'
  BY <1>1 DEF Good, TypeOK
<1>6. Traced
  BY <1>1 DEF Traced
<1> QED
  BY <1>4, <1>5, <1>6 DEF Good

LEMMA GoodNext ==
  ASSUME Good, [Next]_vars
  PROVE  Good' /\ Traced
<1>1. ASSUME NEW c \in Call, NEW hasController \in BOOLEAN,
             NEW v \in Volume \cup {NoVolume}, NEW n \in Node \cup {NoNode},
             NEW hasCapability \in BOOLEAN,
             CallPublish(c, hasController, v, n, hasCapability)
      PROVE  Good' /\ Traced
  <2> DEFINE check == CheckPublish(hasController, v, n, hasCapability)
  <2>1. /\ check \in {"OK", "Internal", "InvalidArgument"}
        /\ check = "OK" => n # NoNode
    BY DEF CheckPublish
  <2>2. Begin(c, "publish", v, n, check, "get")
    BY <1>1 DEF CallPublish
  <2> HIDE DEF check
  <2> QED
    BY <2>1, <2>2, GoodBegin
<1>2. ASSUME NEW c \in Call, NEW hasController \in BOOLEAN,
             NEW v \in Volume \cup {NoVolume}, NEW n \in Node \cup {NoNode},
             CallUnpublish(c, hasController, v, n)
      PROVE  Good' /\ Traced
  <2> DEFINE check == CheckUnpublish(hasController, v)
  <2>1. check \in {"OK", "Internal", "InvalidArgument"}
    BY DEF CheckUnpublish
  <2>2. Begin(c, "unpublish", v, n, check, "select")
    BY <1>2 DEF CallUnpublish
  <2> HIDE DEF check
  <2> QED
    BY <2>1, <2>2, GoodBegin
<1>3. ASSUME NEW c \in Call, Step(c) PROVE Good' /\ Traced
  BY <1>3, EffectStep, GoodEffect
<1>4. CASE UNCHANGED vars
  BY <1>4, AttachmentsSame DEF vars, Good, TypeOK, Consistent, Live, Traced
<1> QED
  BY <1>1, <1>2, <1>3, <1>4, GoodTimeOut, GoodCrash, GoodSession,
     GoodVolumeDeleted DEF Next

LEMMA GoodAlways == Spec => []Good
<1>1. Good /\ [Next]_vars => Good'
  BY GoodNext
<1> QED
  BY GoodInit, <1>1, PTL DEF Spec

\* The state keeps its types, and no handler goes past its number of attempts
\* (controller.go:258-274, 348-385), whatever overlaps, fails or crashes.
THEOREM TypeCorrect == Spec => []TypeOK
<1>1. Good => TypeOK
  BY DEF Good
<1> QED
  BY GoodAlways, <1>1, PTL

\* An OK answer to Publish names an attachment of that volume to that node
\* (controller.go:265-292, provider.go:167-176).
THEOREM PublishAnswersRequestHolds == Spec => []PublishAnswersRequest
<1>1. Good => PublishAnswersRequest
  BY DEF Good, Consistent, RecordOK, Asked, PublishAnswersRequest
<1> QED
  BY GoodAlways, <1>1, PTL

\* After an OK answer to Unpublish all it chose to detach is gone
\* (controller.go:333-398).
THEOREM UnpublishedIsGoneHolds == Spec => []UnpublishedIsGone
<1>1. ASSUME Good, NEW c \in Call,
             call[c].op = "unpublish", call[c].code = "OK",
             NEW a \in call[c].chosen
      PROVE  ~Live(a)
  <2>1. attachments[a].state = "gone"
    BY <1>1, GoodFacts DEF RecordOK
  <2> QED
    BY <2>1 DEF Live
<1>2. Good => UnpublishedIsGone
  BY <1>1 DEF UnpublishedIsGone
<1> QED
  BY GoodAlways, <1>2, PTL

\* An attachment goes only when a call asked for it to go: for its volume, and
\* for its node or for every node (controller.go:333-345).
THEOREM OnlyRequestedDetachedHolds == Spec => []OnlyRequestedDetached
<1>1. Init => OnlyRequestedDetached
  <2> SUFFICES ASSUME Init, NEW a \in AttachmentId
               PROVE  attachments[a].state # "gone"
    BY DEF OnlyRequestedDetached
  <2>1. \A b \in AttachmentId : NoneAttached[b].state = "free"
    BY DEF NoneAttached, FreeAttachment
  <2>2. CASE attachments = NoneAttached
    BY <2>1, <2>2
  <2>3. ASSUME NEW b \in AttachmentId, NEW v \in Volume, NEW n \in Node,
               attachments = [NoneAttached EXCEPT ![b] =
                 [state |-> "idle", volume |-> v, node |-> n]]
        PROVE  attachments[a].state # "gone"
    BY <2>1, <2>3 DEF NoneAttached
  <2> QED
    BY <2>2, <2>3 DEF Init
<1>2. Good /\ OnlyRequestedDetached /\ [Next]_vars => OnlyRequestedDetached'
  BY GoodNext, RequestedStep
<1> QED
  BY GoodAlways, <1>1, <1>2, PTL DEF Spec

-----------------------------------------------------------------------------
(***************************************************************************)
(* Calls that the CO keeps apart.                                          *)
(***************************************************************************)

\* Two calls under way that the CO still waits for, for one volume and for
\* nodes that it keeps apart, are the same call.
LEMMA ApartCalls ==
  ASSUME Undisturbed, NEW c \in Call, NEW d \in Call,
         Running(c), ~call[c].abandoned, Running(d), ~call[d].abandoned,
         call[c].volume = call[d].volume,
         Related(call[c].node, call[d].node)
  PROVE  c = d
  BY DEF Undisturbed, Apart

LEMMA UndisturbedInit == Init => Undisturbed
<1> SUFFICES ASSUME Init PROVE Undisturbed
  OBVIOUS
<1>1. /\ NewCall.op = "none" /\ NewCall.pc = "idle"
  BY DEF NewCall
<1>2. \A c \in Call : /\ call[c].op = "none" /\ call[c].pc = "idle"
                      /\ ~Running(c)
  BY <1>1 DEF Init, Running
<1>3. Exclusive
  <2>1. \A a \in AttachmentId : NoneAttached[a].state = "free"
    BY DEF NoneAttached, FreeAttachment
  <2>2. CASE attachments = NoneAttached
    BY <2>1, <2>2 DEF Exclusive, Live
  <2>3. ASSUME NEW a \in AttachmentId, NEW v \in Volume, NEW n \in Node,
               attachments = [NoneAttached EXCEPT ![a] =
                 [state |-> "idle", volume |-> v, node |-> n]]
        PROVE  Exclusive
    <3>1. \A b \in AttachmentId : b # a => attachments[b] = NoneAttached[b]
      BY <2>3 DEF NoneAttached
    <3>2. \A b \in AttachmentId : Live(b) => b = a
      BY <2>1, <3>1 DEF Live
    <3> QED
      BY <3>2 DEF Exclusive
  <2> QED
    BY <2>2, <2>3 DEF Init
<1> QED
  BY <1>2, <1>3 DEF Undisturbed, Apart

\* An attachment that another call makes is one that call c, which the CO waits
\* for, does not depend on.
LEMMA MadeApart ==
  ASSUME Good, Undisturbed, NEW c \in Call, NEW k, Effect(c, k),
         NEW d \in Call, d # c, Running(d), ~call[d].abandoned,
         NEW a \in AttachmentId, Made(c, k, a)
  PROVE  ~ (/\ call[d].volume = attachments'[a].volume
            /\ \/ Serial
               \/ call[d].node = NoNode
               \/ call[d].node = attachments'[a].node)
<1>1. /\ k.op = "publish" /\ Running(c)
      /\ attachments'[a].volume = k.volume /\ attachments'[a].node = k.node
      /\ k.op = call[c].op
      /\ k.volume = call[c].volume /\ k.node = call[c].node
  BY DEF Effect, Becomes, Made
<1>2. ~call[c].abandoned
  BY <1>1 DEF Undisturbed
<1>3. SUFFICES ASSUME call[d].volume = call[c].volume,
                      \/ Serial
                      \/ call[d].node = NoNode
                      \/ call[d].node = call[c].node
               PROVE  FALSE
  BY <1>1
<1>4. Related(call[c].node, call[d].node)
  BY <1>3 DEF Related
<1> QED
  BY <1>1, <1>2, <1>3, <1>4, ApartCalls

LEMMA UndisturbedEffect ==
  ASSUME Good, Undisturbed, NEW c \in Call, NEW k, Effect(c, k)
  PROVE  Undisturbed'
<1>1. /\ Running(c) /\ RecordOK(k, attachments') /\ Looked(c, k)
      /\ k.op = call[c].op
      /\ k.volume = call[c].volume /\ k.node = call[c].node
      /\ k.abandoned = call[c].abandoned
      /\ call' = [call EXCEPT ![c] = k] /\ call \in [Call -> CallState]
  BY DEF Good, TypeOK, Effect, Becomes
<1>2. call'[c] = k /\ \A d \in Call : d # c => call'[d] = call[d]
  BY <1>1
<1>3. \A d \in Call : /\ Running(d)' => Running(d)
                      /\ call'[d].op = call[d].op
                      /\ call'[d].volume = call[d].volume
                      /\ call'[d].node = call[d].node
                      /\ call'[d].abandoned = call[d].abandoned
  BY <1>1, <1>2 DEF Running
<1>4. Apart'
  BY <1>3 DEF Apart, Undisturbed, Related
<1>5. \A d \in Call : call'[d].op = "publish" => ~call'[d].abandoned
  BY <1>3 DEF Undisturbed
<1>6. \A a \in AttachmentId :
        Live(a) => /\ attachments'[a].volume = attachments[a].volume
                   /\ attachments'[a].node = attachments[a].node
  BY DEF Effect, AttachmentsGrow, Live
<1>7. ASSUME NEW a \in AttachmentId, Live(a)'
      PROVE  Live(a) \/ Made(c, k, a)
  BY <1>7 DEF Effect
<1>8. ASSUME NEW d \in Call, call'[d].pc = "detach", ~call'[d].abandoned,
             NEW a \in Matching(d)'
      PROVE  a \in call'[d].chosen
  <2>1. /\ a \in AttachmentId /\ Live(a)'
        /\ attachments'[a].volume = call[d].volume
        /\ call[d].node = NoNode \/ call[d].node = attachments'[a].node
    BY <1>3, <1>8 DEF Matching, On
  <2>2. CASE d = c /\ ~(call[c].pc = "detach" /\ k.chosen = call[c].chosen)
    <3>1. k.chosen = Matching(c) /\ attachments' = attachments
      BY <1>1, <1>2, <1>8, <2>2 DEF Looked
    <3>2. a \in Matching(c)
      BY <2>1, <2>2, <3>1 DEF Matching, On, Live
    <3> QED
      BY <1>2, <2>2, <3>1, <3>2
  <2>3. CASE call[d].pc = "detach" /\ call'[d].chosen = call[d].chosen
    <3>1. CASE Live(a)
      <4>1. a \in Matching(d)
        BY <1>6, <2>1, <3>1 DEF Matching, On
      <4> QED
        BY <1>3, <1>8, <2>3, <4>1 DEF Undisturbed
    <3>2. CASE Made(c, k, a)
      <4>1. d # c
        BY <2>3, <3>2 DEF Made
      <4>2. Running(d) /\ ~call[d].abandoned
        BY <1>3, <1>8, <2>3 DEF Running
      <4> QED
        BY <2>1, <3>2, <4>1, <4>2, MadeApart
    <3> QED
      BY <1>7, <2>1, <3>1, <3>2
  <2> QED
    BY <1>2, <1>8, <2>2, <2>3
<1>9. ASSUME Serial, NEW a \in AttachmentId, NEW b \in AttachmentId,
             Live(a)', Live(b)', attachments'[a].volume = attachments'[b].volume
      PROVE  a = b
  <2>1. ASSUME NEW x \in AttachmentId, NEW y \in AttachmentId,
               Made(c, k, x), Live(y), attachments'[x].volume = attachments'[y].volume
        PROVE  FALSE
    <3>1. call[c].pc = "create" /\ attachments'[x].volume = call[c].volume
      BY <1>1, <2>1 DEF Made
    <3>2. y \in On(call[c].volume)
      BY <1>6, <2>1, <3>1 DEF On
    <3> QED
      BY <1>9, <3>1, <3>2 DEF Undisturbed
  <2>2. CASE Live(a) /\ Live(b)
    BY <1>6, <1>9, <2>2 DEF Undisturbed, Exclusive
  <2>3. CASE Made(c, k, a) /\ Made(c, k, b)
    <3>1. \A x, y \in AttachmentId : Made(c, k, x) /\ Made(c, k, y) => x = y
      BY DEF Effect
    <3> QED
      BY <2>3, <3>1
  <2> QED
    BY <1>7, <1>9, <2>1, <2>2, <2>3
<1>10. ASSUME Serial, NEW d \in Call, call'[d].pc = "create",
              NEW a \in On(call[d].volume)'
       PROVE  FALSE
  <2>1. /\ a \in AttachmentId /\ Live(a)'
        /\ attachments'[a].volume = call[d].volume
    BY <1>3, <1>10 DEF On
  <2>2. CASE d = c
    <3>1. On(k.volume) = {} /\ attachments' = attachments
      BY <1>1, <1>2, <1>10, <2>2 DEF Looked
    <3>2. a \in On(k.volume)
      BY <1>1, <2>1, <2>2, <3>1 DEF On, Live
    <3> QED
      BY <3>1, <3>2
  <2>3. CASE d # c
    <3>1. call[d].pc = "create" /\ Running(d)
      BY <1>2, <1>10, <2>3 DEF Running
    <3>2. call[d].op = "publish" /\ ~call[d].abandoned
      BY <3>1, GoodFacts DEF RecordOK, Undisturbed
    <3>3. ~Made(c, k, a)
      BY <1>10, <2>1, <2>3, <3>1, <3>2, MadeApart
    <3>4. a \in On(call[d].volume)
      BY <1>6, <1>7, <2>1, <3>3 DEF On
    <3> QED
      BY <1>10, <3>1, <3>4 DEF Undisturbed
  <2> QED
    BY <2>2, <2>3
<1>11. Serial => Exclusive'
  BY <1>9 DEF Exclusive
<1>12. Serial => \A d \in Call :
         call'[d].pc = "create" => On(call[d].volume)' = {}
  BY <1>10 DEF On
<1>13. \A d \in Call : call'[d].pc = "detach" /\ ~call'[d].abandoned =>
         Matching(d)' \subseteq call'[d].chosen
  BY <1>8
<1> QED
  BY <1>4, <1>5, <1>11, <1>12, <1>13 DEF Undisturbed

\* A call is made only where the CO does not wait for one already.
LEMMA UndisturbedBegin ==
  ASSUME Good, Undisturbed, NEW c \in Call, NEW op \in {"publish", "unpublish"},
         NEW v \in Volume \cup {NoVolume}, NEW n \in Node \cup {NoNode},
         NEW check \in {"OK", "Internal", "InvalidArgument"},
         NEW pc \in {"get", "select"}, Begin(c, op, v, n, check, pc)
  PROVE  Undisturbed'
<1>1. PICK k : Begun(c, k, op, v, n, check, pc)
  BY BeginRecord DEF Good
<1>2. /\ k.volume = v /\ k.node = n /\ ~k.abandoned
      /\ k.pc \in {"get", "select", "done"}
      /\ call' = [call EXCEPT ![c] = k] /\ call \in [Call -> CallState]
      /\ MayStart(v, n) /\ attachments' = attachments
  BY <1>1 DEF Begun, Begin, Good, TypeOK
<1>3. call'[c] = k /\ \A d \in Call : d # c => call'[d] = call[d]
  BY <1>2
<1>4. ASSUME NEW d \in Call, Running(d), ~call[d].abandoned,
             call[d].volume = v
      PROVE  ~Related(call[d].node, n) /\ ~Related(n, call[d].node)
  BY <1>2, <1>4 DEF MayStart, Related
<1>5. \A d \in Call : d # c =>
        /\ Running(d)' => Running(d)
        /\ call'[d].volume = call[d].volume /\ call'[d].node = call[d].node
        /\ call'[d].abandoned = call[d].abandoned
  BY <1>3 DEF Running
<1>6. Apart'
  BY <1>2, <1>3, <1>4, <1>5 DEF Apart, Undisturbed, Related
<1>7. \A d \in Call : call'[d].op = "publish" => ~call'[d].abandoned
  BY <1>2, <1>3 DEF Undisturbed
<1>8. ASSUME NEW d \in Call, call'[d].pc \in {"create", "detach"}
      PROVE  call'[d] = call[d]
  BY <1>2, <1>3, <1>8
<1>9. ASSUME NEW d \in Call, call'[d].pc = "detach", ~call'[d].abandoned
      PROVE  Matching(d)' \subseteq call'[d].chosen
  <2>1. call'[d] = call[d]
    BY <1>8, <1>9
  <2>2. Matching(d)' = Matching(d)
    BY <1>2, <2>1 DEF Matching, On, Live
  <2> QED
    BY <1>9, <2>1, <2>2 DEF Undisturbed
<1>10. ASSUME Serial, NEW d \in Call, call'[d].pc = "create"
       PROVE  On(call[d].volume)' = {}
  <2>1. call'[d] = call[d]
    BY <1>8, <1>10
  <2>2. On(call[d].volume)' = On(call[d].volume)
    BY <1>2, <2>1 DEF On, Live
  <2> QED
    BY <1>10, <2>1, <2>2 DEF Undisturbed
<1>11. Serial => Exclusive'
  BY <1>2 DEF Undisturbed, Exclusive, Live
<1> QED
  BY <1>6, <1>7, <1>9, <1>10, <1>11 DEF Undisturbed

\* The steps outside the handlers: the attachments that live stay alive and no
\* other comes to life, and the calls under way are at most given up or lost.
LEMMA UndisturbedElse ==
  ASSUME Good, Undisturbed,
         \A a \in AttachmentId : Live(a)' =>
           /\ Live(a)
           /\ attachments'[a].volume = attachments[a].volume
           /\ attachments'[a].node = attachments[a].node,
         \A d \in Call :
           /\ Running(d)' => Running(d) /\ call'[d].pc = call[d].pc
           /\ call'[d].op = call[d].op /\ call'[d].chosen = call[d].chosen
           /\ call'[d].volume = call[d].volume
           /\ call'[d].node = call[d].node
           /\ call[d].abandoned => call'[d].abandoned
           /\ call'[d].op = "publish" => ~call'[d].abandoned
  PROVE  Undisturbed'
<1>1. Apart'
  BY DEF Undisturbed, Apart, Related
<1>2. ASSUME NEW d \in Call, call'[d].pc = "detach", ~call'[d].abandoned,
             NEW a \in Matching(d)'
      PROVE  a \in call'[d].chosen
  <2>1. call[d].pc = "detach" /\ ~call[d].abandoned
    BY <1>2 DEF Running
  <2>2. a \in Matching(d)
    BY <1>2 DEF Matching, On
  <2> QED
    BY <2>1, <2>2 DEF Undisturbed
<1>3. Serial => Exclusive'
  BY DEF Undisturbed, Exclusive
<1>4. ASSUME Serial, NEW d \in Call, call'[d].pc = "create"
      PROVE  On(call[d].volume)' = {}
  <2>1. call[d].pc = "create"
    BY <1>4 DEF Running
  <2>2. On(call[d].volume) = {}
    BY <1>4, <2>1 DEF Undisturbed
  <2> QED
    BY <1>4, <2>2 DEF On
<1> QED
  BY <1>1, <1>2, <1>3, <1>4 DEF Undisturbed

LEMMA UndisturbedNext ==
  ASSUME "publish" \notin GivenUp, Good, Undisturbed, [Next]_vars
  PROVE  Undisturbed'
<1>1. ASSUME NEW c \in Call, NEW hasController \in BOOLEAN,
             NEW v \in Volume \cup {NoVolume}, NEW n \in Node \cup {NoNode},
             NEW hasCapability \in BOOLEAN,
             CallPublish(c, hasController, v, n, hasCapability)
      PROVE  Undisturbed'
  <2> DEFINE check == CheckPublish(hasController, v, n, hasCapability)
  <2>1. check \in {"OK", "Internal", "InvalidArgument"}
    BY DEF CheckPublish
  <2>2. Begin(c, "publish", v, n, check, "get")
    BY <1>1 DEF CallPublish
  <2> HIDE DEF check
  <2> QED
    BY <2>1, <2>2, UndisturbedBegin
<1>2. ASSUME NEW c \in Call, NEW hasController \in BOOLEAN,
             NEW v \in Volume \cup {NoVolume}, NEW n \in Node \cup {NoNode},
             CallUnpublish(c, hasController, v, n)
      PROVE  Undisturbed'
  <2> DEFINE check == CheckUnpublish(hasController, v)
  <2>1. check \in {"OK", "Internal", "InvalidArgument"}
    BY DEF CheckUnpublish
  <2>2. Begin(c, "unpublish", v, n, check, "select")
    BY <1>2 DEF CallUnpublish
  <2> HIDE DEF check
  <2> QED
    BY <2>1, <2>2, UndisturbedBegin
<1>3. ASSUME NEW c \in Call, Step(c) PROVE Undisturbed'
  BY <1>3, EffectStep, UndisturbedEffect
<1>4. ASSUME NEW c \in Call, TimeOut(c) PROVE Undisturbed'
  <2>1. PICK k \in CallState :
          /\ call' = [call EXCEPT ![c] = k] /\ Bounded(k)
          /\ k.op = call[c].op /\ k.pc = call[c].pc /\ k.code = call[c].code
          /\ k.volume = call[c].volume /\ k.node = call[c].node
          /\ SameWork(k, call[c])
          /\ k.abandoned /\ k.op \in GivenUp
    BY <1>4, TimeOutRecord DEF Good
  <2>2. attachments' = attachments /\ call \in [Call -> CallState]
    BY <1>4 DEF TimeOut, Good, TypeOK
  <2>3. call'[c] = k /\ \A d \in Call : d # c => call'[d] = call[d]
    BY <2>1, <2>2
  <2>4. ASSUME NEW d \in Call
        PROVE  /\ Running(d)' => Running(d) /\ call'[d].pc = call[d].pc
               /\ call'[d].op = call[d].op /\ call'[d].chosen = call[d].chosen
               /\ call'[d].volume = call[d].volume
               /\ call'[d].node = call[d].node
               /\ call[d].abandoned => call'[d].abandoned
               /\ call'[d].op = "publish" => ~call'[d].abandoned
    <3>1. CASE d = c
      BY <2>1, <2>3, <3>1 DEF Running, SameWork
    <3>2. CASE d # c
      BY <2>3, <3>2 DEF Running, Undisturbed
    <3> QED
      BY <3>1, <3>2
  <2> QED
    BY <2>2, <2>4, UndisturbedElse DEF Live
<1>5. CASE Crash
  <2>1. attachments' = attachments
    BY <1>5 DEF Crash
  <2>2. \A d \in Call :
          /\ ~Running(d)'
          /\ call'[d].op = call[d].op /\ call'[d].chosen = call[d].chosen
          /\ call'[d].volume = call[d].volume /\ call'[d].node = call[d].node
          /\ call'[d].abandoned = call[d].abandoned
    BY <1>5, CrashRecord DEF Good, Running, SameWork
  <2>3. \A d \in Call : call[d].op = "publish" => ~call[d].abandoned
    BY DEF Undisturbed
  <2> QED
    BY <2>1, <2>2, <2>3, UndisturbedElse DEF Live
<1>6. ASSUME call' = call,
             \A a \in AttachmentId : Live(a)' =>
               /\ Live(a)
               /\ attachments'[a].volume = attachments[a].volume
               /\ attachments'[a].node = attachments[a].node
      PROVE  Undisturbed'
  <2>1. \A d \in Call : call[d].op = "publish" => ~call[d].abandoned
    BY DEF Undisturbed
  <2> QED
    BY <1>6, <2>1, UndisturbedElse DEF Running
<1>7. ASSUME NEW a \in AttachmentId, Login(a) \/ Logout(a)
      PROVE  Undisturbed'
  <2>1. /\ Live(a) /\ call' = call
        /\ \A b \in AttachmentId :
             /\ b # a => attachments'[b] = attachments[b]
             /\ attachments'[b].volume = attachments[b].volume
             /\ attachments'[b].node = attachments[b].node
    BY <1>7, AttachmentsState DEF Login, Logout, Live, Good
  <2> QED
    BY <1>6, <2>1 DEF Live
<1>8. ASSUME NEW v \in Volume, VolumeDeleted(v) PROVE Undisturbed'
  BY <1>6, <1>8 DEF VolumeDeleted, Live
<1>9. CASE UNCHANGED vars
  BY <1>6, <1>9 DEF vars, Live
<1> QED
  BY <1>1, <1>2, <1>3, <1>4, <1>5, <1>7, <1>8, <1>9 DEF Next

LEMMA UndisturbedAlways ==
  ASSUME "publish" \notin GivenUp
  PROVE  Spec => [](Good /\ Undisturbed)
<1>1. Init => Good /\ Undisturbed
  BY GoodInit, UndisturbedInit
<1>2. Good /\ Undisturbed /\ [Next]_vars => (Good /\ Undisturbed)'
  BY GoodNext, UndisturbedNext
<1> QED
  BY <1>1, <1>2, PTL DEF Spec

\* A volume has at most one attachment (provider.go:162-176), as long as the CO
\* makes its calls for a volume one after the other and waits for each Publish
\* to answer, or for the process to die.
THEOREM ExclusiveHolds ==
  ASSUME Serial = TRUE, "publish" \notin GivenUp
  PROVE  Spec => []Exclusive
<1>1. Good /\ Undisturbed => Exclusive
  BY DEF Undisturbed
<1> QED
  BY UndisturbedAlways, <1>1, PTL

\* An OK answer to Unpublish, if the CO still waits for it, leaves no attachment
\* of the volume to that node, one made after the choice included
\* (controller.go:314-345); calls for other nodes may overlap with it.
THEOREM UnpublishLeavesNoneHolds ==
  ASSUME "publish" \notin GivenUp
  PROVE  Spec => UnpublishLeavesNone
<1>1. ASSUME Good, Undisturbed, [Next]_vars, NEW d \in Call
      PROVE  LeavesNone(d)
  <2>1. SUFFICES ASSUME call[d].op = "unpublish", ~call[d].abandoned,
                        call[d].code # "OK", call'[d].code = "OK",
                        NEW a \in On(call[d].volume)',
                        \/ call[d].node = NoNode
                        \/ attachments'[a].node = call[d].node
                 PROVE  FALSE
    BY DEF LeavesNone
  <2>2. call[d].pc # "idle" /\ call \in [Call -> CallState]
    BY <1>1, <2>1, GoodFacts DEF RecordOK, Good, TypeOK
  <2>3. \E k : Effect(d, k)
    <3>1. ASSUME NEW c \in Call, NEW k, c # d, call' = [call EXCEPT ![c] = k]
          PROVE  FALSE
      BY <2>1, <2>2, <3>1
    <3>2. ASSUME NEW c \in Call, Step(c) PROVE \E k : Effect(d, k)
      <4>1. PICK k : Effect(c, k)
        BY <1>1, <3>2, EffectStep
      <4>2. c = d
        BY <3>1, <4>1 DEF Effect, Becomes
      <4> QED
        BY <4>1, <4>2
    <3>3. ASSUME NEW c \in Call, TimeOut(c) PROVE FALSE
      <4>1. PICK k \in CallState :
              call' = [call EXCEPT ![c] = k] /\ k.code = call[c].code
        BY <1>1, <3>3, TimeOutRecord DEF Good
      <4> QED
        BY <2>1, <2>2, <4>1
    <3>4. ~Crash
      BY <1>1, <2>1, CrashRecord DEF Good
    <3>5. call' # call
      BY <2>1
    <3>6. ASSUME NEW c \in Call, NEW k, call' = [call EXCEPT ![c] = k],
                 call[c].pc = "idle"
          PROVE  FALSE
      BY <2>2, <3>1, <3>6
    <3>7. \E c \in Call : Step(c)
      <4>1. ASSUME NEW c \in Call, NEW op, NEW v, NEW n, NEW check, NEW pc,
                   Begin(c, op, v, n, check, pc)
            PROVE  FALSE
        BY <3>6, <4>1 DEF Begin
      <4> QED
        BY <1>1, <3>3, <3>4, <3>5, <4>1
           DEF Next, CallPublish, CallUnpublish, Login, Logout, VolumeDeleted, vars
    <3> QED
      BY <3>2, <3>7
  <2>4. PICK k : Effect(d, k)
    BY <2>3
  <2>5. /\ call'[d] = k /\ k.op = "unpublish" /\ k.code = "OK"
        /\ k.volume = call[d].volume /\ k.node = call[d].node
        /\ RecordOK(k, attachments') /\ Looked(d, k) /\ exists' = exists
        /\ AttachmentsGrow
    BY <2>1, <2>2, <2>4 DEF Effect, Becomes
  <2>6. /\ a \in AttachmentId /\ Live(a)'
        /\ attachments'[a].volume = call[d].volume
    BY <2>1, <2>5 DEF On
  <2>7. call[d].volume \in exists
    <3>1. attachments'[a].volume \in exists'
      BY <1>1, <2>6, GoodNext DEF Good, Consistent
    <3> QED
      BY <2>5, <2>6, <3>1
  <2>8. call[d].pc = "detach" /\ k.chosen = call[d].chosen
    BY <2>5, <2>7 DEF Looked
  <2>9. Live(a)
    BY <2>4, <2>6, <2>8 DEF Effect, Made
  <2>10. a \in Matching(d)
    BY <2>1, <2>5, <2>6, <2>9 DEF Matching, On, AttachmentsGrow, Live
  <2>11. a \in k.chosen
    BY <1>1, <2>1, <2>8, <2>10 DEF Undisturbed
  <2>12. attachments'[a].state = "gone"
    BY <2>5, <2>11 DEF RecordOK
  <2> QED
    BY <2>6, <2>12 DEF Live
<1>2. Good /\ Undisturbed /\ [Next]_vars => [\A c \in Call : LeavesNone(c)]_vars
  BY <1>1
<1> QED
  BY <1>2, UndisturbedAlways, PTL DEF Spec, UnpublishLeavesNone
=============================================================================
