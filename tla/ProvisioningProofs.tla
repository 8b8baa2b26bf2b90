------------------------- MODULE ProvisioningProofs -------------------------
(***************************************************************************)
(* Proofs of the safety properties of Provisioning.                        *)
(***************************************************************************)
EXTENDS Provisioning, VolumeRequestProofs, TLAPS

-----------------------------------------------------------------------------
(***************************************************************************)
(* Type correctness.  A step of call c replaces its record by another and  *)
(* leaves the other calls alone: each helper of the actions gets a lemma   *)
(* that names the new record.                                              *)
(***************************************************************************)

LEMMA NewCallType == NewCall \in CallState
  BY SizeAssumption, RetriesAssumption DEF NewCall, CallState, Code, Size, PlanID

LEMMA InitType == Init => TypeOK
<1> SUFFICES ASSUME Init PROVE TypeOK
  OBVIOUS
<1>1. NewCall \in CallState
  BY NewCallType
<1>2. FreeVolume \in Volume /\ [FreeVolume EXCEPT !.state = "active"] \in Volume
  BY SizeAssumption DEF FreeVolume, Volume, Size, PlanID
<1> QED
  BY <1>1, <1>2 DEF Init, TypeOK

\* Call c now has the record k, which differs from the old one in pc, id and
\* code (and polls).
Becomes(c, k, pc, id, code) ==
  /\ k \in CallState
  /\ call' = [call EXCEPT ![c] = k]
  /\ k.op = call[c].op
  /\ k.name = call[c].name
  /\ k.size = call[c].size
  /\ k.plan = call[c].plan
  /\ k.abandoned = call[c].abandoned
  /\ k.pc = pc
  /\ k.id = id
  /\ k.code = code

LEMMA AnswerRecord ==
  ASSUME TypeOK, NEW c \in Call, NEW code \in Code,
         NEW v \in VolumeId \cup {NoVolume}, Answer(c, code, v)
  PROVE  \E k : Becomes(c, k, "done", v, code)
<1> DEFINE k == [call[c] EXCEPT !.pc = "done", !.code = code, !.id = v]
<1>1. k \in CallState
  BY DEF TypeOK, CallState
<1>2. call' = [call EXCEPT ![c] = k]
  BY DEF Answer, TypeOK, CallState
<1>3. call[c] \in CallState
  BY DEF TypeOK
<1>4. Becomes(c, k, "done", v, code)
  BY <1>1, <1>2, <1>3 DEF Becomes, CallState
<1> QED
  BY <1>4

LEMMA PollRecord ==
  ASSUME TypeOK, NEW c \in Call, NEW v \in VolumeId,
         NEW polls \in 0 .. VolumeMaxRetries,
         call' = [call EXCEPT ![c].pc = "poll", ![c].id = v, ![c].polls = polls]
  PROVE  \E k : Becomes(c, k, "poll", v, call[c].code)
<1> DEFINE k == [call[c] EXCEPT !.pc = "poll", !.id = v, !.polls = polls]
<1>1. k \in CallState
  BY DEF TypeOK, CallState
<1>2. call' = [call EXCEPT ![c] = k]
  BY DEF TypeOK, CallState
<1>3. call[c] \in CallState
  BY DEF TypeOK
<1>4. Becomes(c, k, "poll", v, call[c].code)
  BY <1>1, <1>2, <1>3 DEF Becomes, CallState
<1> QED
  BY <1>4

\* Settle answers, or goes on polling; it answers OK only about a ready volume.
LEMMA SettleRecord ==
  ASSUME TypeOK, NEW c \in Call, NEW v \in VolumeId,
         NEW polls \in 0 .. (VolumeMaxRetries + 1), NEW ready \in BOOLEAN,
         Settle(c, v, polls, ready)
  PROVE  \E k : \/ ready /\ Becomes(c, k, "done", v, "OK")
               \/ Becomes(c, k, "done", v, "Unknown")
               \/ Becomes(c, k, "poll", v, call[c].code)
<1>1. CASE ready
  <2>1. Answer(c, "OK", v) /\ "OK" \in Code
    BY <1>1 DEF Settle, Code
  <2>2. \E k : Becomes(c, k, "done", v, "OK")
    BY <2>1, AnswerRecord
  <2> QED
    BY <1>1, <2>2
<1>2. CASE ~ready /\ polls >= VolumeMaxRetries
  <2>1. Answer(c, "Unknown", v) /\ "Unknown" \in Code
    BY <1>2 DEF Settle, Code
  <2>2. \E k : Becomes(c, k, "done", v, "Unknown")
    BY <2>1, AnswerRecord
  <2> QED
    BY <2>2
<1>3. CASE ~ready /\ ~(polls >= VolumeMaxRetries)
  <2>1. polls \in 0 .. VolumeMaxRetries
    BY <1>3, RetriesAssumption
  <2>2. call' = [call EXCEPT ![c].pc = "poll", ![c].id = v, ![c].polls = polls]
    BY <1>3 DEF Settle
  <2>3. \E k : Becomes(c, k, "poll", v, call[c].code)
    BY <2>1, <2>2, PollRecord
  <2> QED
    BY <2>3
<1> QED
  BY <1>1, <1>2, <1>3

\* Losing the calls in flight answers those and changes nothing else.
LEMMA LoseCallsRecord ==
  ASSUME TypeOK, LoseCalls, NEW d \in Call
  PROVE  /\ call'[d] \in CallState
         /\ call'[d].op = call[d].op
         /\ call'[d].name = call[d].name
         /\ call'[d].size = call[d].size
         /\ call'[d].plan = call[d].plan
         /\ call'[d].abandoned = call[d].abandoned
         /\ call'[d].id = call[d].id
         /\ call'[d].pc \in {"idle", "done"}
         /\ \/ call'[d] = call[d]
            \/ call'[d].pc = "done" /\ call'[d].code = "Lost"
<1> DEFINE k == [call[d] EXCEPT !.pc = "done", !.code = "Lost"]
<1>1. call[d] \in CallState
  BY DEF TypeOK
<1>2. k \in CallState
  BY <1>1 DEF CallState, Code
<1>3. call'[d] = IF Running(d) THEN k ELSE call[d]
  BY DEF LoseCalls
<1>4. CASE Running(d)
  BY <1>1, <1>2, <1>3, <1>4 DEF CallState
<1>5. CASE ~Running(d)
  <2>1. call[d].pc \in {"idle", "done"}
    BY <1>1, <1>5 DEF CallState, Running
  <2>2. call'[d] = call[d]
    BY <1>3, <1>5
  <2> QED
    BY <1>1, <2>1, <2>2
<1> QED
  BY <1>4, <1>5

\* A new call is under way, or a check of its arguments has answered it.
LEMMA CallCreateRecord ==
  ASSUME TypeOK, NEW c \in Call, NEW hasController \in BOOLEAN,
         NEW n \in Name \cup {NoName}, NEW hasCapabilities \in BOOLEAN,
         NEW range \in Range, NEW plan \in Plan,
         CallCreateVolume(c, hasController, n, hasCapabilities, range, plan)
  PROVE  \E k \in CallState :
           /\ call' = [call EXCEPT ![c] = k]
           /\ k.op = "create" /\ k.name = n /\ ~k.abandoned
           /\ \/ k.pc = "list" /\ n \in Name /\ k.code = "none"
              \/ k.pc = "done" /\ k.code \in {"Internal", "InvalidArgument"}
<1> DEFINE code == CheckCreate(hasController, n, hasCapabilities)
           size == getSizeRequest(range)
           planID == getPlanID(plan)
           pc == IF code = "OK" THEN "list" ELSE "done"
           answer == IF code = "OK" THEN "none" ELSE code
           k == [NewCall EXCEPT !.op = "create", !.name = n, !.size = size,
                                !.plan = planID, !.pc = pc, !.code = answer]
<1>1. /\ code \in {"OK", "Internal", "InvalidArgument"}
      /\ code = "OK" => n \in Name
  BY DEF CheckCreate
<1>2. size \in Size /\ planID \in PlanID
  BY SizeOnOffer, RangeAssumption DEF getPlanID, PlanID
<1>3. call' = [call EXCEPT ![c] = k]
  BY DEF CallCreateVolume
<1> HIDE DEF code, size, planID
<1>4. \/ pc = "list" /\ n \in Name /\ answer = "none"
      \/ pc = "done" /\ answer \in {"Internal", "InvalidArgument"}
  BY <1>1
<1> HIDE DEF pc, answer
<1>5. k \in CallState
  <2>1. pc \in {"list", "done"} /\ answer \in Code
    BY <1>4 DEF Code
  <2> QED
    BY <1>2, <2>1, NewCallType DEF CallState
<1>6. /\ k.op = "create" /\ k.name = n /\ ~k.abandoned
      /\ k.pc = pc /\ k.code = answer
  BY DEF NewCall
<1> HIDE DEF k
<1> QED
  BY <1>3, <1>4, <1>5, <1>6

LEMMA CallDeleteRecord ==
  ASSUME TypeOK, NEW c \in Call, NEW hasController \in BOOLEAN,
         NEW v \in VolumeId \cup {NoVolume},
         CallDeleteVolume(c, hasController, v)
  PROVE  \E k \in CallState :
           /\ call' = [call EXCEPT ![c] = k]
           /\ k.op = "delete" /\ k.id = v /\ ~k.abandoned
           /\ \/ k.pc = "delete" /\ v \in VolumeId /\ k.code = "none"
              \/ k.pc = "done" /\ k.code \in {"Internal", "InvalidArgument"}
<1> DEFINE code == CheckDelete(hasController, v)
           pc == IF code = "OK" THEN "delete" ELSE "done"
           answer == IF code = "OK" THEN "none" ELSE code
           k == [NewCall EXCEPT !.op = "delete", !.id = v,
                                !.pc = pc, !.code = answer]
<1>1. /\ code \in {"OK", "Internal", "InvalidArgument"}
      /\ code = "OK" => v \in VolumeId
  BY DEF CheckDelete
<1>2. DefaultVolumeSizeGi \in Size
  BY SizeAssumption DEF Size
<1>3. call' = [call EXCEPT ![c] = k]
  BY DEF CallDeleteVolume
<1> HIDE DEF code
<1>4. \/ pc = "delete" /\ v \in VolumeId /\ answer = "none"
      \/ pc = "done" /\ answer \in {"Internal", "InvalidArgument"}
  BY <1>1
<1> HIDE DEF pc, answer
<1>5. k \in CallState
  <2>1. pc \in {"delete", "done"} /\ answer \in Code
    BY <1>4 DEF Code
  <2> QED
    BY <1>2, <2>1, NewCallType DEF CallState
<1>6. /\ k.op = "delete" /\ k.id = v /\ ~k.abandoned
      /\ k.pc = pc /\ k.code = answer
  BY DEF NewCall
<1> HIDE DEF k
<1> QED
  BY <1>3, <1>4, <1>5, <1>6

-----------------------------------------------------------------------------
(***************************************************************************)
(* How the volumes change.                                                 *)
(***************************************************************************)

\* A volume, once made, keeps its name, size and plan, and once deleted stays
\* deleted.
VolumesGrow ==
  /\ volumes' \in [VolumeId -> Volume]
  /\ \A v \in VolumeId :
       volumes[v].state # "free" =>
         /\ volumes'[v].state # "free"
         /\ volumes'[v].name = volumes[v].name
         /\ volumes'[v].size = volumes[v].size
         /\ volumes'[v].plan = volumes[v].plan
         /\ volumes[v].state = "deleted" => volumes'[v].state = "deleted"

\* No volume gets a name, or it is made as the record k requests.
NamedFor(k) ==
  \A v \in VolumeId :
    volumes'[v].name # NoName =>
      \/ volumes[v].name = volumes'[v].name /\ volumes[v].state # "free"
      \/ RequestedBy(volumes'[v], k)

LEMMA VolumesSame ==
  ASSUME TypeOK, Consistent, UNCHANGED volumes, NEW k
  PROVE  VolumesGrow /\ NamedFor(k)
<1>1. \A v \in VolumeId : volumes[v].name # NoName => volumes[v].state # "free"
  BY DEF Consistent, RequestedBy, AsRequested
<1>2. volumes' = volumes
  OBVIOUS
<1> QED
  BY <1>1, <1>2 DEF TypeOK, VolumesGrow, NamedFor

LEMMA VolumesStore ==
  ASSUME TypeOK, Consistent, NEW c \in Call, NEW v \in VolumeId,
         NEW state \in {"queued", "active"}, NEW name \in {call[c].name, NoName},
         call[c].op = "create", Store(c, v, state, name),
         NEW k, k.op = call[c].op, k.name = call[c].name,
         k.size = call[c].size, k.plan = call[c].plan
  PROVE  /\ VolumesGrow /\ NamedFor(k)
         /\ volumes'[v].state = state
         /\ name = call[c].name => AsRequested(volumes'[v], k)
         /\ \A w \in VolumeId : w # v => volumes'[w] = volumes[w]
<1> DEFINE new == [state |-> state, name |-> name,
                   size |-> call[c].size, plan |-> call[c].plan]
<1>1. /\ volumes' = [volumes EXCEPT ![v] = new]
      /\ volumes[v].state = "free"
  BY DEF Store
<1>2. new \in Volume
  BY DEF TypeOK, CallState, Volume
<1>3. /\ new.state = state /\ new.state # "free" /\ new.name = name
      /\ new.size = call[c].size /\ new.plan = call[c].plan
  OBVIOUS
<1> HIDE DEF new
<1>4. volumes \in [VolumeId -> Volume]
  BY DEF TypeOK
<1>5. volumes' \in [VolumeId -> Volume]
  BY <1>1, <1>2, <1>4
<1>6. volumes'[v] = new /\ \A w \in VolumeId : w # v => volumes'[w] = volumes[w]
  BY <1>1, <1>4
<1>7. VolumesGrow
  BY <1>1, <1>5, <1>6 DEF VolumesGrow
<1>8. \A w \in VolumeId : volumes[w].name # NoName => volumes[w].state # "free"
  BY DEF Consistent, RequestedBy, AsRequested
<1>9. NamedFor(k)
  BY <1>3, <1>6, <1>8 DEF NamedFor, RequestedBy, AsRequested
<1> QED
  BY <1>3, <1>6, <1>7, <1>9 DEF AsRequested

LEMMA VolumesState ==
  ASSUME TypeOK, Consistent, NEW k, NEW v \in VolumeId,
         NEW state \in {"active", "deleted"},
         volumes[v].state \in {"queued", "active"},
         volumes[v].state = "active" => state = "deleted",
         volumes' = [volumes EXCEPT ![v].state = state]
  PROVE  /\ VolumesGrow /\ NamedFor(k)
         /\ volumes'[v].state = state
         /\ \A w \in VolumeId : /\ w # v => volumes'[w] = volumes[w]
                               /\ volumes'[w].name = volumes[w].name
<1> DEFINE new == [volumes[v] EXCEPT !.state = state]
<1>1. volumes \in [VolumeId -> Volume]
  BY DEF TypeOK
<1>2. /\ new \in Volume
      /\ new.state = state /\ new.name = volumes[v].name
      /\ new.size = volumes[v].size /\ new.plan = volumes[v].plan
  BY <1>1 DEF Volume
<1>3. volumes' = [volumes EXCEPT ![v] = new]
  BY <1>1
<1> HIDE DEF new
<1>4. volumes' \in [VolumeId -> Volume]
  BY <1>1, <1>2, <1>3
<1>5. volumes'[v] = new /\ \A w \in VolumeId : w # v => volumes'[w] = volumes[w]
  BY <1>1, <1>3
<1>6. VolumesGrow
  BY <1>2, <1>4, <1>5 DEF VolumesGrow
<1>7. \A w \in VolumeId : volumes[w].name # NoName => volumes[w].state # "free"
  BY DEF Consistent, RequestedBy, AsRequested
<1>8. NamedFor(k)
  BY <1>2, <1>5, <1>7 DEF NamedFor
<1> QED
  BY <1>2, <1>5, <1>6, <1>8

LEMMA VolumesRemove ==
  ASSUME TypeOK, Consistent, NEW k, NEW v \in VolumeId,
         volumes[v].state # "free", Remove(v)
  PROVE  /\ VolumesGrow /\ NamedFor(k)
         /\ volumes'[v].state = "deleted"
         /\ \A w \in VolumeId : /\ w # v => volumes'[w] = volumes[w]
                               /\ volumes'[w].name = volumes[w].name
<1>1. CASE Live(v)
  <2>1. /\ volumes' = [volumes EXCEPT ![v].state = "deleted"]
        /\ volumes[v].state \in {"queued", "active"}
    BY <1>1 DEF Remove, Live
  <2> QED
    BY <2>1, VolumesState
<1>2. CASE ~Live(v)
  <2>1. volumes' = volumes
    BY <1>2 DEF Remove
  <2>2. volumes[v].state = "deleted"
    BY <1>2 DEF TypeOK, Volume, Live
  <2> QED
    BY <2>1, <2>2, VolumesSame
<1> QED
  BY <1>1, <1>2

-----------------------------------------------------------------------------
(***************************************************************************)
(* Consistency with overlapping calls, failures and crashes.               *)
(***************************************************************************)

\* What a record says of the volumes stays true as they change.
LEMMA RecordStable ==
  ASSUME TypeOK, VolumesGrow, NEW k \in CallState, RecordOK(k, volumes)
  PROVE  RecordOK(k, volumes')
  BY DEF TypeOK, VolumesGrow, RecordOK, AsRequested, CallState, Volume

\* The request that a conflict is about: another size or plan for one name.
Rival(k, l) ==
  l.op = "create" /\ l.name = k.name /\ (l.size # k.size \/ l.plan # k.plan)

\* The requests are kept: every call that was made keeps what it asked for.
RequestsKept ==
  \A d \in Call :
    call[d].op # "none" =>
      /\ call'[d].op = call[d].op
      /\ call'[d].name = call[d].name
      /\ call'[d].size = call[d].size
      /\ call'[d].plan = call[d].plan

\* The step lemma.  The volumes grow, named at most for a request that some
\* call now makes, and each new record is right about them.
LEMMA ConsistentStep ==
  ASSUME TypeOK, Consistent, VolumesGrow, RequestsKept,
         \A d \in Call : RecordOK(call'[d], volumes'),
         \A v \in VolumeId : volumes'[v].name # NoName =>
            \/ volumes[v].name = volumes'[v].name /\ volumes[v].state # "free"
            \/ \E d \in Call : RequestedBy(volumes'[v], call'[d]),
         \A d \in Call : call'[d].code = "AlreadyExists" =>
            \/ /\ call[d].code = "AlreadyExists"
               /\ call[d].op # "none"
            \/ \E e \in Call : Rival(call'[d], call[e])
  PROVE  Consistent'
<1>1. \A d \in Call : RecordOK(call'[d], volumes')
  OBVIOUS
<1>2. ASSUME NEW v \in VolumeId, volumes'[v].name # NoName
      PROVE  \E d \in Call : RequestedBy(volumes'[v], call'[d])
  <2>1. CASE volumes[v].name = volumes'[v].name /\ volumes[v].state # "free"
    <3>1. PICK d \in Call : RequestedBy(volumes[v], call[d])
      BY <1>2, <2>1 DEF Consistent
    <3>2. RequestedBy(volumes'[v], call'[d])
      BY <2>1, <3>1 DEF RequestedBy, AsRequested, VolumesGrow, RequestsKept
    <3> QED
      BY <3>2
  <2> QED
    BY <1>2, <2>1
<1>3. ASSUME NEW d \in Call, call'[d].code = "AlreadyExists"
      PROVE  \E e \in Call : Rival(call'[d], call'[e])
  <2>1. \E e \in Call : Rival(call'[d], call[e])
    <3>1. CASE call[d].code = "AlreadyExists" /\ call[d].op # "none"
      <4>1. \E e \in Call : Rival(call[d], call[e])
        BY <3>1 DEF Consistent, NoFalseConflict, Rival
      <4> QED
        BY <3>1, <4>1 DEF Rival, RequestsKept
    <3> QED
      BY <1>3, <3>1
  <2>2. PICK e \in Call : Rival(call'[d], call[e])
    BY <2>1
  <2>3. Rival(call'[d], call'[e])
    BY <2>2 DEF Rival, RequestsKept
  <2> QED
    BY <2>3
<1>4. NoFalseConflict'
  BY <1>3 DEF NoFalseConflict, Rival
<1> QED
  BY <1>1, <1>2, <1>4 DEF Consistent

\* The step lemma for a step that replaces the record of one call.
LEMMA ConsistentCall ==
  ASSUME TypeOK, Consistent, VolumesGrow, NEW c \in Call, NEW k \in CallState,
         call' = [call EXCEPT ![c] = k], NamedFor(k), RecordOK(k, volumes'),
         \/ call[c].op = "none"
         \/ /\ k.op = call[c].op /\ k.name = call[c].name
            /\ k.size = call[c].size /\ k.plan = call[c].plan,
         k.code = "AlreadyExists" => \E e \in Call : Rival(k, call[e])
  PROVE  Consistent'
<1>1. call'[c] = k /\ \A d \in Call : d # c => call'[d] = call[d]
  BY DEF TypeOK
<1>2. \A d \in Call : call[d] \in CallState /\ RecordOK(call[d], volumes)
  BY DEF TypeOK, Consistent
<1>3. \A d \in Call : RecordOK(call[d], volumes')
  BY <1>2, RecordStable
<1>4. \A d \in Call : RecordOK(call'[d], volumes')
  BY <1>1, <1>3
<1>5. RequestsKept
  BY <1>1 DEF RequestsKept
<1>6. \A d \in Call : call[d].code = "AlreadyExists" => call[d].op # "none"
  BY <1>2 DEF RecordOK
<1>7. ASSUME NEW d \in Call, call'[d].code = "AlreadyExists"
      PROVE  \/ call[d].code = "AlreadyExists" /\ call[d].op # "none"
             \/ \E e \in Call : Rival(call'[d], call[e])
  BY <1>1, <1>6, <1>7
<1>8. \A v \in VolumeId : RequestedBy(volumes'[v], k)
        => RequestedBy(volumes'[v], call'[c])
  BY <1>1
<1> QED
  BY <1>4, <1>5, <1>7, <1>8, ConsistentStep DEF NamedFor

\* The step lemma for the steps in which the process dies.
LEMMA ConsistentCrash ==
  ASSUME TypeOK, Consistent, VolumesGrow, LoseCalls, NamedFor(NewCall)
  PROVE  Consistent'
<1>1. \A d \in Call : call[d] \in CallState /\ RecordOK(call[d], volumes')
  BY RecordStable DEF TypeOK, Consistent
<1>2. RequestsKept
  BY LoseCallsRecord DEF RequestsKept
<1>3. ASSUME NEW d \in Call PROVE RecordOK(call'[d], volumes')
  <2>1. CASE call'[d] = call[d]
    BY <1>1, <2>1
  <2>2. CASE call'[d].pc = "done" /\ call'[d].code = "Lost" /\ call'[d] # call[d]
    <3>1. Running(d)
      BY <2>2 DEF LoseCalls
    <3>2. call[d].op # "none" /\ call'[d].op = call[d].op
      BY <1>1, <3>1, LoseCallsRecord DEF RecordOK, Running
    <3> QED
      BY <2>2, <3>2 DEF RecordOK
  <2> QED
    BY <2>1, <2>2, LoseCallsRecord
<1>4. ASSUME NEW d \in Call, call'[d].code = "AlreadyExists"
      PROVE  call[d].code = "AlreadyExists" /\ call[d].op # "none"
  <2>1. call'[d] = call[d]
    BY <1>4, LoseCallsRecord
  <2> QED
    BY <1>1, <1>4, <2>1 DEF RecordOK
<1>5. \A v \in VolumeId : ~RequestedBy(volumes'[v], NewCall)
  BY DEF RequestedBy, NewCall
<1> QED
  BY <1>2, <1>3, <1>4, <1>5, ConsistentStep DEF NamedFor

Good == TypeOK /\ Consistent

\* A call under way is answered without a change of the volumes.
LEMMA GoodAnswer ==
  ASSUME Good, NEW c \in Call, Running(c),
         NEW code \in Code \ {"none", "OK", "AlreadyExists"},
         NEW v \in VolumeId \cup {NoVolume}, Answer(c, code, v),
         UNCHANGED volumes
  PROVE  Good'
<1>1. PICK k : Becomes(c, k, "done", v, code)
  BY AnswerRecord DEF Good
<1>2. RecordOK(call[c], volumes) /\ call[c] \in CallState
  BY DEF Good, Consistent, TypeOK
<1>3. RecordOK(k, volumes')
  BY <1>1, <1>2 DEF RecordOK, Becomes, Running
<1>4. VolumesGrow /\ NamedFor(k)
  BY VolumesSame DEF Good
<1>5. Consistent'
  BY <1>1, <1>3, <1>4, ConsistentCall DEF Good, Becomes
<1>6. TypeOK'
  BY <1>1 DEF Good, TypeOK, Becomes
<1> QED
  BY <1>5, <1>6 DEF Good

LEMMA GoodListVolumes ==
  ASSUME Good, NEW c \in Call, ListVolumes(c)
  PROVE  Good'
<1>1. /\ RecordOK(call[c], volumes) /\ call[c] \in CallState
      /\ call[c].pc = "list" /\ UNCHANGED volumes
  BY DEF Good, Consistent, TypeOK, ListVolumes
<1>2. \A k : VolumesGrow /\ NamedFor(k)
  BY <1>1, VolumesSame DEF Good
<1>3. CASE call' = [call EXCEPT ![c].pc = "create"]
  <2> DEFINE k == [call[c] EXCEPT !.pc = "create"]
  <2>1. k \in CallState
    BY <1>1 DEF CallState
  <2>2. call' = [call EXCEPT ![c] = k]
    BY <1>3 DEF Good, TypeOK
  <2>3. /\ k.pc = "create" /\ k.op = call[c].op /\ k.name = call[c].name
        /\ k.size = call[c].size /\ k.plan = call[c].plan /\ k.code = call[c].code
    BY <1>1 DEF CallState
  <2> HIDE DEF k
  <2>4. RecordOK(k, volumes')
    BY <1>1, <2>3 DEF RecordOK
  <2>5. k.code # "AlreadyExists"
    BY <1>1, <2>3 DEF RecordOK
  <2>6. Consistent'
    BY <1>2, <2>1, <2>2, <2>3, <2>4, <2>5, ConsistentCall DEF Good
  <2>7. TypeOK'
    BY <1>1, <2>1, <2>2 DEF Good, TypeOK
  <2> QED
    BY <2>6, <2>7 DEF Good
<1>4. ASSUME NEW v \in Hits(c), Answer(c, MatchExisting(c, v), v)
      PROVE  Good'
  <2> DEFINE code == MatchExisting(c, v)
  <2>1. v \in VolumeId /\ Live(v) /\ volumes[v].name = call[c].name
    BY DEF Hits
  <2>2. /\ code \in {"AlreadyExists", "OK"}
        /\ code = "OK" => /\ volumes[v].size = call[c].size
                          /\ volumes[v].plan = call[c].plan
        /\ code = "AlreadyExists" => \/ volumes[v].size # call[c].size
                                     \/ volumes[v].plan # call[c].plan
    BY DEF MatchExisting
  <2>3. Answer(c, code, v)
    BY <1>4
  <2> HIDE DEF code
  <2>4. code \in Code
    BY <2>2 DEF Code
  <2>5. PICK k : Becomes(c, k, "done", v, code)
    BY <2>1, <2>3, <2>4, AnswerRecord DEF Good
  <2>6. RecordOK(k, volumes')
    BY <1>1, <2>1, <2>2, <2>5 DEF RecordOK, Becomes, AsRequested, Live
  <2>7. k.code = "AlreadyExists" => \E e \in Call : Rival(k, call[e])
    <3>1. SUFFICES ASSUME k.code = "AlreadyExists"
                   PROVE  \E e \in Call : Rival(k, call[e])
      OBVIOUS
    <3>2. volumes[v].name # NoName
      BY <1>1, <2>1, NameAssumption DEF RecordOK
    <3>3. PICK e \in Call : RequestedBy(volumes[v], call[e])
      BY <2>1, <3>2 DEF Good, Consistent
    <3>4. Rival(k, call[e])
      BY <2>1, <2>2, <2>5, <3>1, <3>3 DEF Rival, RequestedBy, AsRequested, Becomes
    <3> QED
      BY <3>4
  <2>8. Consistent'
    BY <1>2, <2>5, <2>6, <2>7, ConsistentCall DEF Good, Becomes
  <2>9. TypeOK'
    BY <1>1, <2>5 DEF Good, TypeOK, Becomes
  <2> QED
    BY <2>8, <2>9 DEF Good
<1> QED
  BY <1>3, <1>4 DEF ListVolumes

\* Create, whose volume may already be ready.
LEMMA GoodCreate ==
  ASSUME Good, NEW c \in Call, Create(c)
  PROVE  Good'
<1>1. /\ RecordOK(call[c], volumes) /\ call[c] \in CallState
      /\ call[c].pc = "create"
  BY DEF Good, Consistent, TypeOK, Create
<1>2. PICK v \in VolumeId, state \in {"queued", "active"} :
        /\ Store(c, v, state, call[c].name)
        /\ Settle(c, v, 0, state = "active")
  BY DEF Create
<1>3. PICK k : \/ Becomes(c, k, "done", v, "OK")
               \/ Becomes(c, k, "done", v, "Unknown")
               \/ Becomes(c, k, "poll", v, call[c].code)
  <2>1. 0 \in 0 .. (VolumeMaxRetries + 1) /\ (state = "active") \in BOOLEAN
    BY RetriesAssumption
  <2> QED
    BY <1>2, <2>1, SettleRecord DEF Good
<1>4. /\ k \in CallState /\ call' = [call EXCEPT ![c] = k]
      /\ k.op = call[c].op /\ k.name = call[c].name
      /\ k.size = call[c].size /\ k.plan = call[c].plan /\ k.id = v
      /\ k.pc \in {"done", "poll"}
      /\ k.pc = "poll" => k.code = call[c].code
      /\ k.code # "AlreadyExists"
  BY <1>1, <1>3 DEF Becomes, RecordOK
<1>5. call[c].op = "create" /\ call[c].name \in Name
  BY <1>1 DEF RecordOK
<1>6. VolumesGrow /\ NamedFor(k) /\ AsRequested(volumes'[v], k)
  BY <1>2, <1>4, <1>5, VolumesStore DEF Good
<1>7. RecordOK(k, volumes')
  BY <1>1, <1>4, <1>5, <1>6 DEF RecordOK
<1>8. Consistent'
  BY <1>4, <1>6, <1>7, ConsistentCall DEF Good
<1>9. TypeOK'
  BY <1>1, <1>4, <1>6 DEF Good, TypeOK, VolumesGrow
<1> QED
  BY <1>8, <1>9 DEF Good

\* A Create whose answer is an error, whatever the description says.
LEMMA GoodCreateError ==
  ASSUME Good, NEW c \in Call, call[c].pc = "create", NEW v \in VolumeId,
         NEW name \in {call[c].name, NoName}, Store(c, v, "queued", name),
         Answer(c, "Unknown", NoVolume)
  PROVE  Good'
<1>1. RecordOK(call[c], volumes) /\ call[c] \in CallState
  BY DEF Good, Consistent, TypeOK
<1>2. PICK k : Becomes(c, k, "done", NoVolume, "Unknown")
  BY AnswerRecord DEF Good, Code
<1>3. call[c].op = "create" /\ call[c].name \in Name
  BY <1>1 DEF RecordOK
<1>4. VolumesGrow /\ NamedFor(k)
  BY <1>2, <1>3, VolumesStore DEF Good, Becomes
<1>5. RecordOK(k, volumes')
  BY <1>1, <1>2, <1>3 DEF RecordOK, Becomes
<1>6. Consistent'
  BY <1>2, <1>4, <1>5, ConsistentCall DEF Good, Becomes
<1>7. TypeOK'
  BY <1>2, <1>4 DEF Good, TypeOK, VolumesGrow, Becomes
<1> QED
  BY <1>6, <1>7 DEF Good

LEMMA GoodPoll ==
  ASSUME Good, NEW c \in Call, Poll(c)
  PROVE  Good'
<1>1. /\ RecordOK(call[c], volumes) /\ call[c] \in CallState
      /\ call[c].pc = "poll" /\ UNCHANGED volumes
  BY DEF Good, Consistent, TypeOK, Poll
<1>2. PICK v \in VolumeId : v = call[c].id
  BY <1>1 DEF RecordOK
<1>3. PICK polls \in 0 .. VolumeMaxRetries : polls = call[c].polls
  BY <1>1 DEF CallState
<1>4. Settle(c, v, polls + 1, volumes[v].state = "active")
  BY <1>2, <1>3 DEF Poll
<1>5. PICK ready \in BOOLEAN : ready = (volumes[v].state = "active")
  OBVIOUS
<1>6. polls + 1 \in 0 .. (VolumeMaxRetries + 1)
  BY RetriesAssumption
<1>7. PICK k : \/ Becomes(c, k, "done", v, "OK")
               \/ Becomes(c, k, "done", v, "Unknown")
               \/ Becomes(c, k, "poll", v, call[c].code)
  BY <1>4, <1>5, <1>6, SettleRecord DEF Good
<1>8. /\ k \in CallState /\ call' = [call EXCEPT ![c] = k]
      /\ k.op = call[c].op /\ k.name = call[c].name
      /\ k.size = call[c].size /\ k.plan = call[c].plan /\ k.id = v
      /\ k.pc \in {"done", "poll"}
      /\ k.pc = "poll" => k.code = call[c].code
      /\ k.code # "AlreadyExists"
  BY <1>1, <1>7 DEF Becomes, RecordOK
<1>9. RecordOK(k, volumes')
  BY <1>1, <1>2, <1>8 DEF RecordOK, AsRequested
<1>10. VolumesGrow /\ NamedFor(k)
  BY <1>1, VolumesSame DEF Good
<1>11. Consistent'
  BY <1>8, <1>9, <1>10, ConsistentCall DEF Good
<1>12. TypeOK'
  BY <1>1, <1>8 DEF Good, TypeOK
<1> QED
  BY <1>11, <1>12 DEF Good

\* Delete, and the failures of it that may have removed the volume.
LEMMA GoodRemove ==
  ASSUME Good, NEW c \in Call, call[c].pc = "delete",
         NEW code \in {"OK", "Unknown"}, NEW v \in VolumeId, v = call[c].id,
         Remove(v), Answer(c, code, v)
  PROVE  Good'
<1>1. RecordOK(call[c], volumes) /\ call[c] \in CallState
  BY DEF Good, Consistent, TypeOK
<1>2. PICK k : Becomes(c, k, "done", v, code)
  BY AnswerRecord DEF Good, Code
<1>3. call[c].op = "delete" /\ volumes[v].state # "free"
  BY <1>1 DEF RecordOK
<1>4. VolumesGrow /\ NamedFor(k) /\ volumes'[v].state = "deleted"
  BY <1>3, VolumesRemove DEF Good
<1>5. RecordOK(k, volumes')
  BY <1>1, <1>2, <1>3, <1>4 DEF RecordOK, Becomes
<1>6. k.code # "AlreadyExists"
  BY <1>2 DEF Becomes
<1>7. Consistent'
  BY <1>2, <1>4, <1>5, <1>6, ConsistentCall DEF Good, Becomes
<1>8. TypeOK'
  BY <1>2, <1>4 DEF Good, TypeOK, VolumesGrow, Becomes
<1> QED
  BY <1>7, <1>8 DEF Good

\* The process dies, after a change of the volumes or without one.
LEMMA GoodLoseCalls ==
  ASSUME Good, LoseCalls, VolumesGrow, NamedFor(NewCall)
  PROVE  Good'
<1>1. Consistent'
  BY ConsistentCrash DEF Good
<1>2. call' \in [Call -> CallState]
  <2>1. \A d \in Call : call'[d] \in CallState
    BY LoseCallsRecord DEF Good
  <2> QED
    BY <2>1 DEF LoseCalls
<1>3. TypeOK'
  BY <1>2 DEF TypeOK, VolumesGrow
<1> QED
  BY <1>1, <1>3 DEF Good

LEMMA GoodStep ==
  ASSUME Good, NEW c \in Call, Step(c)
  PROVE  Good'
<1>0. /\ TypeOK /\ Consistent
      /\ RecordOK(call[c], volumes) /\ call[c] \in CallState
      /\ {"Unknown", "FailedPrecondition"} \subseteq Code \ {"none", "OK", "AlreadyExists"}
  BY DEF Good, Consistent, TypeOK, Code
<1>1. CASE ListVolumes(c)
  BY <1>1, GoodListVolumes
<1>2. CASE ListVolumesFails(c)
  BY <1>0, <1>2, GoodAnswer DEF ListVolumesFails, Running
<1>3. CASE ListVolumesPanics(c)
  BY <1>0, <1>3, VolumesSame, GoodLoseCalls DEF ListVolumesPanics, Panic
<1>4. CASE Create(c)
  BY <1>4, GoodCreate
<1>5. CASE CreateLost(c)
  BY <1>5, GoodCreateError DEF CreateLost
<1>6. CASE CreateGarbled(c)
  BY <1>6, GoodCreateError DEF CreateGarbled
<1>7. CASE CreateFails(c)
  BY <1>0, <1>7, GoodAnswer DEF CreateFails, Running
<1>8. CASE Poll(c)
  BY <1>8, GoodPoll
<1>9. CASE PollFails(c)
  <2>1. PICK v \in VolumeId : v = call[c].id
    BY <1>0, <1>9 DEF RecordOK, PollFails
  <2> QED
    BY <1>0, <1>9, <2>1, GoodAnswer DEF PollFails, Running
<1>10. ASSUME call[c].pc = "delete" PROVE \E v \in VolumeId : v = call[c].id
  BY <1>0, <1>10 DEF RecordOK
<1>11. CASE Delete(c)
  <2>1. PICK v \in VolumeId : v = call[c].id
    BY <1>10, <1>11 DEF Delete
  <2> QED
    BY <1>11, <2>1, GoodRemove DEF Delete
<1>12. CASE DeleteBusy(c)
  <2>1. PICK v \in VolumeId : v = call[c].id
    BY <1>10, <1>12 DEF DeleteBusy
  <2> QED
    BY <1>0, <1>12, <2>1, GoodAnswer DEF DeleteBusy, BusyCode, Running
<1>13. CASE DeleteFails(c)
  <2>1. PICK v \in VolumeId : v = call[c].id
    BY <1>10, <1>13 DEF DeleteFails
  <2>2. CASE UNCHANGED volumes
    BY <1>0, <1>13, <2>1, <2>2, GoodAnswer DEF DeleteFails, Running
  <2>3. CASE Remove(v)
    BY <1>13, <2>1, <2>3, GoodRemove DEF DeleteFails
  <2> QED
    BY <1>13, <2>1, <2>2, <2>3 DEF DeleteFails
<1>14. CASE DeletePanics(c)
  <2>1. PICK v \in VolumeId : v = call[c].id
    BY <1>10, <1>14 DEF DeletePanics
  <2>2. volumes[v].state # "free"
    BY <1>0, <1>14, <2>1 DEF RecordOK, DeletePanics
  <2>3. VolumesGrow /\ NamedFor(NewCall)
    BY <1>0, <1>14, <2>1, <2>2, VolumesSame, VolumesRemove DEF DeletePanics
  <2> QED
    BY <1>14, <2>3, GoodLoseCalls DEF DeletePanics, Panic
<1> QED
  BY <1>1, <1>2, <1>3, <1>4, <1>5, <1>6, <1>7, <1>8, <1>9, <1>11, <1>12,
     <1>13, <1>14 DEF Step

LEMMA GoodNext == Good /\ [Next]_vars => Good'
<1> SUFFICES ASSUME Good, [Next]_vars PROVE Good'
  OBVIOUS
<1>0. /\ TypeOK /\ Consistent
      /\ \A c \in Call : RecordOK(call[c], volumes) /\ call[c] \in CallState
  BY DEF Good, Consistent, TypeOK
<1>1. ASSUME NEW c \in Call, NEW hasController \in BOOLEAN,
             NEW hasCapabilities \in BOOLEAN, NEW n \in Name \cup {NoName},
             NEW range \in Range, NEW plan \in Plan,
             CallCreateVolume(c, hasController, n, hasCapabilities, range, plan)
      PROVE  Good'
  <2>1. PICK k \in CallState :
          /\ call' = [call EXCEPT ![c] = k]
          /\ k.op = "create" /\ k.name = n /\ ~k.abandoned
          /\ \/ k.pc = "list" /\ n \in Name /\ k.code = "none"
             \/ k.pc = "done" /\ k.code \in {"Internal", "InvalidArgument"}
    BY <1>0, <1>1, CallCreateRecord
  <2>2. call[c].pc = "idle" /\ UNCHANGED volumes
    BY <1>1 DEF CallCreateVolume
  <2>3. RecordOK(k, volumes') /\ call[c].op = "none"
    BY <1>0, <2>1, <2>2 DEF RecordOK
  <2>4. VolumesGrow /\ NamedFor(k)
    BY <1>0, <2>2, VolumesSame
  <2>5. Consistent'
    BY <1>0, <2>1, <2>3, <2>4, ConsistentCall
  <2> QED
    BY <1>0, <2>1, <2>2, <2>5 DEF Good, TypeOK
<1>2. ASSUME NEW c \in Call, NEW hasController \in BOOLEAN,
             NEW v \in VolumeId \cup {NoVolume},
             CallDeleteVolume(c, hasController, v)
      PROVE  Good'
  <2>1. PICK k \in CallState :
          /\ call' = [call EXCEPT ![c] = k]
          /\ k.op = "delete" /\ k.id = v /\ ~k.abandoned
          /\ \/ k.pc = "delete" /\ v \in VolumeId /\ k.code = "none"
             \/ k.pc = "done" /\ k.code \in {"Internal", "InvalidArgument"}
    BY <1>0, <1>2, CallDeleteRecord
  <2>2. /\ call[c].pc = "idle" /\ UNCHANGED volumes
        /\ v \in VolumeId => volumes[v].state # "free"
    BY <1>2, NameAssumption DEF CallDeleteVolume
  <2>3. RecordOK(k, volumes') /\ call[c].op = "none"
    BY <1>0, <2>1, <2>2 DEF RecordOK
  <2>4. VolumesGrow /\ NamedFor(k)
    BY <1>0, <2>2, VolumesSame
  <2>5. Consistent'
    BY <1>0, <2>1, <2>3, <2>4, ConsistentCall
  <2> QED
    BY <1>0, <2>1, <2>2, <2>5 DEF Good, TypeOK
<1>3. ASSUME NEW c \in Call, Step(c) PROVE Good'
  BY <1>3, GoodStep
<1>4. ASSUME NEW c \in Call, TimeOut(c) PROVE Good'
  <2> DEFINE k == [call[c] EXCEPT !.abandoned = TRUE]
  <2>1. k \in CallState
    BY <1>0 DEF CallState
  <2>2. call' = [call EXCEPT ![c] = k] /\ UNCHANGED volumes /\ Running(c)
    BY <1>0, <1>4 DEF TimeOut, TypeOK
  <2>3. /\ k.pc = call[c].pc /\ k.op = call[c].op /\ k.name = call[c].name
        /\ k.size = call[c].size /\ k.plan = call[c].plan
        /\ k.code = call[c].code /\ k.id = call[c].id
    BY <1>0 DEF CallState
  <2> HIDE DEF k
  <2>4. RecordOK(k, volumes') /\ k.code # "AlreadyExists"
    BY <1>0, <2>2, <2>3 DEF RecordOK, AsRequested, Running
  <2>5. VolumesGrow /\ NamedFor(k)
    BY <1>0, <2>2, VolumesSame
  <2>6. Consistent'
    BY <1>0, <2>1, <2>2, <2>3, <2>4, <2>5, ConsistentCall
  <2> QED
    BY <1>0, <2>1, <2>2, <2>6 DEF Good, TypeOK
<1>5. ASSUME NEW v \in VolumeId, Activate(v) PROVE Good'
  <2>1. /\ volumes[v].state = "queued" /\ UNCHANGED call
        /\ volumes' = [volumes EXCEPT ![v].state = "active"]
    BY <1>5 DEF Activate
  <2>2. VolumesGrow /\ NamedFor(NewCall)
    BY <1>0, <2>1, VolumesState
  <2>3. \A d \in Call : RecordOK(call'[d], volumes')
    BY <1>0, <2>1, <2>2, RecordStable
  <2>4. RequestsKept
    BY <2>1 DEF RequestsKept
  <2>5. \A w \in VolumeId : ~RequestedBy(volumes'[w], NewCall)
    BY DEF RequestedBy, NewCall
  <2>6. \A d \in Call : call'[d].code = "AlreadyExists"
          => call[d].code = "AlreadyExists" /\ call[d].op # "none"
    BY <1>0, <2>1 DEF RecordOK
  <2>7. Consistent'
    BY <1>0, <2>2, <2>3, <2>4, <2>5, <2>6, ConsistentStep DEF NamedFor
  <2> QED
    BY <1>0, <2>1, <2>2, <2>7 DEF Good, TypeOK, VolumesGrow
<1>6. CASE Crash
  BY <1>0, <1>6, VolumesSame, GoodLoseCalls DEF Crash, TypeOK
<1>7. CASE UNCHANGED vars
  BY <1>7 DEF Good, vars, TypeOK, Consistent, NoFalseConflict
<1> QED
  BY <1>1, <1>2, <1>3, <1>4, <1>5, <1>6, <1>7 DEF Next

LEMMA GoodInit == Init => Good
<1> SUFFICES ASSUME Init PROVE Good
  OBVIOUS
<1>1. \A c \in Call : call[c] = NewCall
  BY DEF Init
<1>2. \A v \in VolumeId : volumes[v].name = NoName
  BY DEF Init, FreeVolume
<1>3. RecordOK(NewCall, volumes)
  BY DEF RecordOK, NewCall
<1>4. NoFalseConflict
  BY <1>1 DEF NoFalseConflict, NewCall
<1> QED
  BY <1>1, <1>2, <1>3, <1>4, InitType DEF Good, Consistent

-----------------------------------------------------------------------------
(***************************************************************************)
(* The theorems that hold however calls overlap.                           *)
(***************************************************************************)

LEMMA GoodInvariant == Spec => []Good
  BY GoodInit, GoodNext, PTL DEF Spec

\* The types of Provisioning are right.
THEOREM TypeCorrect == Spec => []TypeOK
<1>1. Good => TypeOK
  BY DEF Good
<1> QED
  BY <1>1, GoodInvariant, PTL

\* The volume of an OK answer to CreateVolume is the one asked for
\* (controller.go:131-152, 156-200).
THEOREM AnswerMatchesRequestHolds == Spec => []AnswerMatchesRequest
<1>1. Good => AnswerMatchesRequest
  BY DEF Good, Consistent, RecordOK, AsRequested, AnswerMatchesRequest
<1> QED
  BY <1>1, GoodInvariant, PTL

\* The capacity that an OK answer reports is granted again, for every unit and
\* every choice of bounds (controller.go:50-79, 137-139).
THEOREM CapacityRoundTripHolds == Spec => []CapacityRoundTrip
<1>1. ASSUME Good PROVE CapacityRoundTrip
  <2>1. \A c \in Call : call[c].op = "create" /\ call[c].code = "OK" =>
          volumes[call[c].id].size \in Size
    BY <1>1 DEF Good, Consistent, RecordOK, TypeOK, Volume
  <2> QED
    BY <2>1, GrantedAgain DEF CapacityRoundTrip
<1> QED
  BY <1>1, GoodInvariant, PTL

\* AlreadyExists is answered only when there is a rival request
\* (controller.go:137-142).
THEOREM NoFalseConflictHolds == Spec => []NoFalseConflict
<1>1. Good => NoFalseConflict
  BY DEF Good, Consistent
<1> QED
  BY <1>1, GoodInvariant, PTL

\* After an OK answer to DeleteVolume the volume is gone for good
\* (controller.go:216-227).
THEOREM DeletedIsGoneHolds == Spec => []DeletedIsGone
<1>1. Good => DeletedIsGone
  BY DEF Good, Consistent, RecordOK, DeletedIsGone, Live
<1> QED
  BY <1>1, GoodInvariant, PTL

\* A step of call c changes no other call, unless it kills the process.
LEMMA StepFrame ==
  ASSUME TypeOK, NEW c \in Call, Step(c), ~LoseCalls, NEW d \in Call, d # c
  PROVE  call'[d] = call[d]
<1>1. ASSUME NEW code, NEW v, Answer(c, code, v) PROVE call'[d] = call[d]
  BY <1>1 DEF Answer, TypeOK
<1>2. ASSUME NEW v, NEW polls, NEW ready, Settle(c, v, polls, ready)
      PROVE  call'[d] = call[d]
  BY <1>2 DEF Settle, Answer, TypeOK
<1>3. CASE ListVolumes(c)
  <2>1. CASE call' = [call EXCEPT ![c].pc = "create"]
    BY <2>1 DEF TypeOK
  <2>2. CASE \E v \in Hits(c) : Answer(c, MatchExisting(c, v), v)
    BY <2>2 DEF Answer, TypeOK
  <2> QED
    BY <1>3, <2>1, <2>2 DEF ListVolumes
<1>4. CASE Create(c)
  BY <1>4 DEF Create, Settle, Answer, TypeOK
<1>5. CASE Poll(c)
  BY <1>5 DEF Poll, Settle, Answer, TypeOK
<1>6. CASE \/ ListVolumesFails(c) \/ CreateLost(c) \/ CreateGarbled(c)
           \/ CreateFails(c) \/ PollFails(c)
           \/ Delete(c) \/ DeleteBusy(c) \/ DeleteFails(c)
  BY <1>6 DEF ListVolumesFails, CreateLost, CreateGarbled, CreateFails, PollFails,
     Delete, DeleteBusy, DeleteFails, Answer, TypeOK
<1>7. CASE ListVolumesPanics(c) \/ DeletePanics(c)
  BY <1>7 DEF ListVolumesPanics, DeletePanics, Panic
<1> QED
  BY <1>3, <1>4, <1>5, <1>6, <1>7 DEF Step

\* A handler that made a volume answers OK only when it is ready
\* (controller.go:176-192).
THEOREM NewVolumeIsReadyHolds == Spec => NewVolumeIsReady
<1> DEFINE Ready(d) == call[d].pc \in {"create", "poll"} /\ call'[d].code = "OK"
                         => volumes'[call'[d].id].state = "active"
<1>1. ASSUME Good, [Next]_vars, NEW d \in Call
      PROVE  Ready(d)
  <2>0. /\ TypeOK /\ Consistent
        /\ RecordOK(call[d], volumes) /\ call[d] \in CallState
    BY <1>1 DEF Good, Consistent, TypeOK
  <2>1. SUFFICES ASSUME call[d].pc \in {"create", "poll"}, call'[d].code = "OK"
                 PROVE  volumes'[call'[d].id].state = "active"
    OBVIOUS
  <2>2. call[d].code = "none" /\ call'[d] # call[d]
    BY <2>0, <2>1 DEF RecordOK
  <2>3. ~LoseCalls
    BY <2>0, <2>1, <2>2, LoseCallsRecord
  <2>4. Step(d)
    <3>1. ASSUME NEW c \in Call, NEW k, c # d, call' = [call EXCEPT ![c] = k]
          PROVE  FALSE
      BY <2>0, <2>2, <3>1 DEF TypeOK
    <3>2. ASSUME NEW c \in Call, NEW k, call' = [call EXCEPT ![c] = k],
                 call[c].pc = "idle"
          PROVE  FALSE
      BY <2>1, <3>1, <3>2
    <3>3. ASSUME NEW c \in Call, TimeOut(c) PROVE FALSE
      <4>1. call'[d].code = call[d].code
        BY <2>0, <3>3 DEF TimeOut, TypeOK, CallState
      <4> QED
        BY <2>1, <2>2, <4>1
    <3>4. \E c \in Call : Step(c)
      BY <1>1, <2>2, <2>3, <3>2, <3>3
         DEF Next, CallCreateVolume, CallDeleteVolume, Activate, Crash, vars
    <3> QED
      BY <2>0, <2>2, <2>3, <3>4, StepFrame
  <2>5. ASSUME NEW code \in Code \ {"OK"}, NEW v \in VolumeId \cup {NoVolume},
               Answer(d, code, v)
        PROVE  FALSE
    <3>1. PICK k : Becomes(d, k, "done", v, code)
      BY <2>0, <2>5, AnswerRecord
    <3> QED
      BY <2>0, <2>1, <3>1 DEF Becomes, TypeOK
  <2>6. ASSUME NEW v \in VolumeId, NEW polls \in 0 .. (VolumeMaxRetries + 1),
               NEW ready \in BOOLEAN, Settle(d, v, polls, ready)
        PROVE  ready /\ call'[d].id = v
    <3>1. PICK k : \/ ready /\ Becomes(d, k, "done", v, "OK")
                   \/ Becomes(d, k, "done", v, "Unknown")
                   \/ Becomes(d, k, "poll", v, call[d].code)
      BY <2>0, <2>6, SettleRecord
    <3> QED
      BY <2>0, <2>1, <2>2, <3>1 DEF Becomes, TypeOK
  <2>7. CASE Create(d)
    <3>1. PICK v \in VolumeId, state \in {"queued", "active"} :
            /\ Store(d, v, state, call[d].name)
            /\ Settle(d, v, 0, state = "active")
      BY <2>7 DEF Create
    <3>2. 0 \in 0 .. (VolumeMaxRetries + 1) /\ (state = "active") \in BOOLEAN
      BY RetriesAssumption
    <3>3. state = "active" /\ call'[d].id = v
      BY <2>6, <3>1, <3>2
    <3>4. call[d].op = "create"
      BY <2>0, <2>1 DEF RecordOK
    <3>5. volumes'[v].state = state
      BY <2>0, <3>1, <3>4, VolumesStore
    <3> QED
      BY <3>3, <3>5
  <2>8. CASE Poll(d)
    <3>1. PICK v \in VolumeId : v = call[d].id
      BY <2>0, <2>8 DEF RecordOK, Poll
    <3>2. PICK polls \in 0 .. VolumeMaxRetries : polls = call[d].polls
      BY <2>0 DEF CallState
    <3>3. PICK ready \in BOOLEAN : ready = (volumes[v].state = "active")
      OBVIOUS
    <3>4. polls + 1 \in 0 .. (VolumeMaxRetries + 1)
      BY RetriesAssumption
    <3>5. Settle(d, v, polls + 1, ready) /\ volumes' = volumes
      BY <2>8, <3>1, <3>2, <3>3 DEF Poll
    <3> QED
      BY <2>6, <3>3, <3>4, <3>5
  <2>9. CASE CreateLost(d) \/ CreateGarbled(d) \/ CreateFails(d)
    BY <2>5, <2>9 DEF CreateLost, CreateGarbled, CreateFails, Code
  <2>10. CASE PollFails(d)
    <3>1. call[d].id \in VolumeId
      BY <2>0, <2>10 DEF RecordOK, PollFails
    <3> QED
      BY <2>5, <2>10, <3>1 DEF PollFails, Code
  <2> QED
    BY <2>1, <2>3, <2>4, <2>7, <2>8, <2>9, <2>10
       DEF Step, ListVolumes, ListVolumesFails, ListVolumesPanics, Panic,
           Delete, DeleteBusy, DeleteFails, DeletePanics
<1>2. Good /\ [Next]_vars => [\A c \in Call : Ready(c)]_vars
  BY <1>1
<1>3. NewVolumeIsReady <=> [][\A c \in Call : Ready(c)]_vars
  BY DEF NewVolumeIsReady
<1> QED
  BY <1>2, GoodInvariant, PTL DEF Spec, NewVolumeIsReady
-----------------------------------------------------------------------------
(***************************************************************************)
(* One volume for each name.  This needs the CO to wait for its calls: an  *)
(* abandoned CreateVolume runs on, between its look at the provider's list *)
(* and its Create, while the repeated call takes the same look.            *)
(***************************************************************************)

\* No volume appears.
NoNewVolume ==
  \A v \in VolumeId :
    Live(v)' => Live(v) /\ volumes'[v].name = volumes[v].name

CreatePhase(k) == k.pc \in {"list", "create", "poll"}

\* Replacing the record of call c keeps the calls for a name apart.
LEMMA SerialCalls ==
  ASSUME TypeOK, Serialised, NEW c \in Call, NEW k \in CallState,
         call' = [call EXCEPT ![c] = k], ~k.abandoned,
         CreatePhase(k) => \A d \in Call :
           d # c /\ CreatePhase(call[d]) => call[d].name # k.name
  PROVE  /\ \A d \in Call : ~call'[d].abandoned
         /\ \A d, e \in Call :
              Creating(d)' /\ Creating(e)' /\ call'[d].name = call'[e].name
                => d = e
<1>1. call'[c] = k /\ \A d \in Call : d # c => call'[d] = call[d]
  BY DEF TypeOK
<1>2. /\ \A d \in Call : ~call[d].abandoned
      /\ \A d, e \in Call :
           /\ CreatePhase(call[d])
           /\ CreatePhase(call[e])
           /\ call[d].name = call[e].name
           => d = e
  BY DEF Serialised, Creating, CreatePhase
<1>3. \A d \in Call : Creating(d)' <=> CreatePhase(call'[d])
  BY DEF Creating, CreatePhase
<1>4. \A d \in Call : ~call'[d].abandoned
  BY <1>1, <1>2
<1>5. ASSUME NEW d \in Call, NEW e \in Call, CreatePhase(call'[d]),
             CreatePhase(call'[e]), call'[d].name = call'[e].name
      PROVE  d = e
  BY <1>1, <1>2, <1>5
<1> QED
  BY <1>3, <1>4, <1>5

\* A step of a call that makes no volume.
LEMMA SerialQuiet ==
  ASSUME TypeOK, Serialised, NoNewVolume, NEW c \in Call, NEW k \in CallState,
         call' = [call EXCEPT ![c] = k], ~k.abandoned,
         CreatePhase(k) => \A d \in Call :
           d # c /\ CreatePhase(call[d]) => call[d].name # k.name,
         k.pc = "create" =>
           \A v \in VolumeId : Live(v) => volumes[v].name # k.name
  PROVE  Serialised'
<1>1. call'[c] = k /\ \A d \in Call : d # c => call'[d] = call[d]
  BY DEF TypeOK
<1>2. ASSUME NEW d \in Call, call'[d].pc = "create", NEW v \in VolumeId, Live(v)'
      PROVE  volumes'[v].name # call'[d].name
  <2>1. Live(v) /\ volumes'[v].name = volumes[v].name
    BY <1>2 DEF NoNewVolume
  <2> QED
    BY <1>1, <1>2, <2>1 DEF Serialised
<1>3. UniqueName'
  BY DEF Serialised, UniqueName, NoNewVolume
<1> QED
  BY <1>2, <1>3, SerialCalls DEF Serialised

\* A call under way goes on with the same request.
LEMMA SerialBecomes ==
  ASSUME TypeOK, Serialised, NoNewVolume, NEW c \in Call, NEW k, NEW pc, NEW id,
         NEW code, Becomes(c, k, pc, id, code), pc = "done" \/ Creating(c),
         pc # "create"
  PROVE  Serialised'
<1>1. /\ k \in CallState /\ call' = [call EXCEPT ![c] = k]
      /\ k.name = call[c].name /\ k.abandoned = call[c].abandoned /\ k.pc = pc
  BY DEF Becomes
<1>2. CreatePhase(k) => \A d \in Call :
        d # c /\ CreatePhase(call[d]) => call[d].name # k.name
  BY <1>1 DEF Serialised, Creating, CreatePhase
<1> QED
  BY <1>1, <1>2, SerialQuiet DEF Serialised

\* A step that makes a volume, with the requested name or without one.
LEMMA SerialStore ==
  ASSUME TypeOK, Consistent, Serialised, NEW c \in Call, call[c].pc = "create",
         NEW v \in VolumeId, NEW state \in {"queued", "active"},
         NEW name \in {call[c].name, NoName}, Store(c, v, state, name),
         NEW k, NEW pc \in {"poll", "done"}, NEW id, NEW code,
         Becomes(c, k, pc, id, code)
  PROVE  Serialised'
<1>1. /\ k \in CallState /\ call' = [call EXCEPT ![c] = k]
      /\ k.op = call[c].op /\ k.size = call[c].size /\ k.plan = call[c].plan
      /\ k.name = call[c].name /\ k.abandoned = call[c].abandoned /\ k.pc = pc
  BY DEF Becomes
<1>2. call'[c] = k /\ \A d \in Call : d # c => call'[d] = call[d]
  BY <1>1 DEF TypeOK
<1>3. \A d \in Call : call[d].pc = "create" =>
        call[d].op = "create" /\ call[d].name \in Name
  BY DEF Consistent, RecordOK
<1>4. /\ \A w \in VolumeId : w # v => volumes'[w] = volumes[w]
      /\ volumes'[v].name = name
  <2>1. volumes' = [volumes EXCEPT ![v] =
          [state |-> state, name |-> name,
           size |-> call[c].size, plan |-> call[c].plan]]
    BY DEF Store
  <2> QED
    BY <2>1 DEF TypeOK
<1>5. CreatePhase(k) => \A d \in Call :
        d # c /\ CreatePhase(call[d]) => call[d].name # k.name
  BY <1>1 DEF Serialised, Creating, CreatePhase
<1>6. \A w \in VolumeId : w # v /\ Live(w)' => Live(w)
  BY <1>4 DEF Live
<1>7. \A w \in VolumeId : Live(w) => volumes[w].name # call[c].name
  BY DEF Serialised
<1>8. ASSUME NEW d \in Call, call'[d].pc = "create", NEW w \in VolumeId, Live(w)'
      PROVE  volumes'[w].name # call'[d].name
  <2>1. d # c /\ call[d].pc = "create" /\ call'[d] = call[d]
    BY <1>1, <1>2, <1>8
  <2>2. call[d].name \in Name /\ call[d].name # call[c].name
    BY <1>3, <2>1 DEF Serialised, Creating
  <2>3. CASE w = v
    BY <1>4, <2>1, <2>2, <2>3, NameAssumption
  <2>4. CASE w # v
    BY <1>4, <1>6, <1>8, <2>1, <2>4 DEF Serialised
  <2> QED
    BY <2>3, <2>4
<1>9. UniqueName'
  <2>1. SUFFICES ASSUME NEW u \in VolumeId, NEW w \in VolumeId,
                        Live(u)', Live(w)', u # w,
                        volumes'[u].name = volumes'[w].name,
                        volumes'[u].name # NoName
                 PROVE  FALSE
    BY DEF UniqueName
  <2>2. CASE u = v
    BY <1>4, <1>6, <1>7, <2>1, <2>2
  <2>3. CASE w = v
    BY <1>4, <1>6, <1>7, <2>1, <2>3
  <2>4. CASE u # v /\ w # v
    BY <1>4, <1>6, <2>1, <2>4 DEF Serialised, UniqueName
  <2> QED
    BY <2>2, <2>3, <2>4
<1>10. ~k.abandoned
  BY <1>1 DEF Serialised
<1>11. /\ \A d \in Call : ~call'[d].abandoned
       /\ \A d, e \in Call :
            Creating(d)' /\ Creating(e)' /\ call'[d].name = call'[e].name
              => d = e
  BY <1>1, <1>5, <1>10, SerialCalls
<1> QED
  BY <1>8, <1>9, <1>11 DEF Serialised
LEMMA QuietSame ==
  ASSUME UNCHANGED volumes
  PROVE  NoNewVolume
  BY DEF NoNewVolume, Live

LEMMA QuietState ==
  ASSUME TypeOK, NEW v \in VolumeId, Live(v), NEW state,
         volumes' = [volumes EXCEPT ![v].state = state]
  PROVE  NoNewVolume
<1> DEFINE new == [volumes[v] EXCEPT !.state = state]
<1>1. new.name = volumes[v].name /\ volumes' = [volumes EXCEPT ![v] = new]
  BY DEF TypeOK, Volume
<1> HIDE DEF new
<1>2. volumes'[v] = new /\ \A w \in VolumeId : w # v => volumes'[w] = volumes[w]
  BY <1>1 DEF TypeOK
<1> QED
  BY <1>1, <1>2 DEF NoNewVolume, Live

LEMMA QuietRemove ==
  ASSUME TypeOK, NEW v \in VolumeId, Remove(v)
  PROVE  NoNewVolume
  BY QuietSame, QuietState DEF Remove

\* The process dies: the CO knows that its calls are over.
LEMMA SerialCrash ==
  ASSUME TypeOK, Serialised, NoNewVolume, LoseCalls
  PROVE  Serialised'
<1>1. \A d \in Call : ~Creating(d)' /\ ~call'[d].abandoned
  BY LoseCallsRecord DEF Creating, Serialised
<1>2. UniqueName'
  BY DEF Serialised, UniqueName, NoNewVolume
<1> QED
  BY <1>1, <1>2 DEF Serialised, Creating

LEMMA SerialStep ==
  ASSUME Good, Serialised, NEW c \in Call, Step(c)
  PROVE  Serialised'
<1>0. /\ TypeOK /\ Consistent
      /\ RecordOK(call[c], volumes) /\ call[c] \in CallState
      /\ {"Unknown", "FailedPrecondition", "OK", "AlreadyExists"} \subseteq Code
  BY DEF Good, Consistent, TypeOK, Code
<1>1. ASSUME NEW code \in Code, NEW v \in VolumeId \cup {NoVolume},
             Answer(c, code, v), NoNewVolume
      PROVE  Serialised'
  <2>1. PICK k : Becomes(c, k, "done", v, code)
    BY <1>0, <1>1, AnswerRecord
  <2> QED
    BY <1>0, <1>1, <2>1, SerialBecomes
<1>2. CASE ListVolumes(c)
  <2>1. call[c].pc = "list" /\ NoNewVolume
    BY <1>2, QuietSame DEF ListVolumes
  <2>2. CASE Hits(c) = {} /\ call' = [call EXCEPT ![c].pc = "create"]
    <3> DEFINE k == [call[c] EXCEPT !.pc = "create"]
    <3>1. k \in CallState /\ call' = [call EXCEPT ![c] = k]
      BY <1>0, <2>2 DEF CallState, TypeOK
    <3>2. k.name = call[c].name /\ k.abandoned = call[c].abandoned
      BY <1>0 DEF CallState
    <3> HIDE DEF k
    <3>3. \A d \in Call : d # c /\ CreatePhase(call[d]) => call[d].name # k.name
      BY <2>1, <3>2 DEF Serialised, Creating, CreatePhase
    <3>4. \A v \in VolumeId : Live(v) => volumes[v].name # k.name
      BY <2>2, <3>2 DEF Hits
    <3> QED
      BY <1>0, <2>1, <3>1, <3>2, <3>3, <3>4, SerialQuiet DEF Serialised
  <2>3. ASSUME NEW v \in Hits(c), Answer(c, MatchExisting(c, v), v)
        PROVE  Serialised'
    BY <1>0, <1>1, <2>1, <2>3 DEF Hits, MatchExisting
  <2> QED
    BY <1>2, <2>2, <2>3 DEF ListVolumes
<1>3. CASE Create(c)
  <2>1. PICK v \in VolumeId, state \in {"queued", "active"} :
          /\ Store(c, v, state, call[c].name)
          /\ Settle(c, v, 0, state = "active")
    BY <1>3 DEF Create
  <2>2. PICK k : \/ Becomes(c, k, "done", v, "OK")
                 \/ Becomes(c, k, "done", v, "Unknown")
                 \/ Becomes(c, k, "poll", v, call[c].code)
    <3>1. 0 \in 0 .. (VolumeMaxRetries + 1) /\ (state = "active") \in BOOLEAN
      BY RetriesAssumption
    <3> QED
      BY <1>0, <2>1, <3>1, SettleRecord
  <2> QED
    BY <1>0, <1>3, <2>1, <2>2, SerialStore DEF Create
<1>4. CASE CreateLost(c) \/ CreateGarbled(c)
  <2>1. PICK v \in VolumeId, name \in {call[c].name, NoName} :
          Store(c, v, "queued", name)
    BY <1>4 DEF CreateLost, CreateGarbled
  <2>2. call[c].pc = "create" /\ Answer(c, "Unknown", NoVolume)
    BY <1>4 DEF CreateLost, CreateGarbled
  <2>3. PICK k : Becomes(c, k, "done", NoVolume, "Unknown")
    BY <1>0, <2>2, AnswerRecord
  <2> QED
    BY <1>0, <2>1, <2>2, <2>3, SerialStore
<1>5. CASE Poll(c)
  <2>1. PICK v \in VolumeId : v = call[c].id
    BY <1>0, <1>5 DEF RecordOK, Poll
  <2>2. PICK polls \in 0 .. VolumeMaxRetries : polls = call[c].polls
    BY <1>0 DEF CallState
  <2>3. PICK ready \in BOOLEAN : ready = (volumes[v].state = "active")
    OBVIOUS
  <2>4. polls + 1 \in 0 .. (VolumeMaxRetries + 1)
    BY RetriesAssumption
  <2>5. Settle(c, v, polls + 1, ready)
    BY <1>5, <2>1, <2>2, <2>3 DEF Poll
  <2>6. PICK k : \/ Becomes(c, k, "done", v, "OK")
                 \/ Becomes(c, k, "done", v, "Unknown")
                 \/ Becomes(c, k, "poll", v, call[c].code)
    BY <1>0, <2>4, <2>5, SettleRecord
  <2>7. NoNewVolume /\ Creating(c)
    BY <1>5, QuietSame DEF Poll, Creating
  <2> QED
    BY <1>0, <2>6, <2>7, SerialBecomes
<1>6. CASE ListVolumesFails(c) \/ CreateFails(c)
  BY <1>0, <1>1, <1>6, QuietSame DEF ListVolumesFails, CreateFails
<1>7. call[c].pc \in {"poll", "delete"} => call[c].id \in VolumeId
  BY <1>0 DEF RecordOK
<1>8. CASE PollFails(c) \/ DeleteBusy(c)
  BY <1>0, <1>1, <1>7, <1>8, QuietSame DEF PollFails, DeleteBusy, BusyCode
<1>9. CASE Delete(c) \/ DeleteFails(c)
  <2>1. PICK v \in VolumeId : v = call[c].id
    BY <1>7, <1>9 DEF Delete, DeleteFails
  <2>2. NoNewVolume
    BY <1>0, <1>9, <2>1, QuietSame, QuietRemove DEF Delete, DeleteFails
  <2> QED
    BY <1>0, <1>1, <1>9, <2>1, <2>2 DEF Delete, DeleteFails
<1>10. CASE ListVolumesPanics(c) \/ DeletePanics(c)
  <2>1. NoNewVolume
    BY <1>0, <1>7, <1>10, QuietSame, QuietRemove
       DEF ListVolumesPanics, DeletePanics
  <2> QED
    BY <1>0, <1>10, <2>1, SerialCrash DEF ListVolumesPanics, DeletePanics, Panic
<1> QED
  BY <1>2, <1>3, <1>4, <1>5, <1>6, <1>8, <1>9, <1>10 DEF Step

LEMMA SerialNext ==
  ASSUME Timeouts = FALSE
  PROVE  Good /\ Serialised /\ [Next]_vars => Serialised'
<1> SUFFICES ASSUME Good, Serialised, [Next]_vars PROVE Serialised'
  OBVIOUS
<1>0. /\ TypeOK /\ Consistent
      /\ \A c \in Call : RecordOK(call[c], volumes) /\ call[c] \in CallState
  BY DEF Good, Consistent, TypeOK
<1>1. ASSUME NEW c \in Call, NEW hasController \in BOOLEAN,
             NEW hasCapabilities \in BOOLEAN, NEW n \in Name \cup {NoName},
             NEW range \in Range, NEW plan \in Plan,
             CallCreateVolume(c, hasController, n, hasCapabilities, range, plan)
      PROVE  Serialised'
  <2>1. PICK k \in CallState :
          /\ call' = [call EXCEPT ![c] = k]
          /\ k.op = "create" /\ k.name = n /\ ~k.abandoned
          /\ \/ k.pc = "list" /\ n \in Name /\ k.code = "none"
             \/ k.pc = "done" /\ k.code \in {"Internal", "InvalidArgument"}
    BY <1>0, <1>1, CallCreateRecord
  <2>2. NoNewVolume /\ MayCreate(n)
    BY <1>1, QuietSame DEF CallCreateVolume
  <2>3. \A d \in Call : CreatePhase(call[d]) => call[d].name # n
    BY <1>0, <2>2 DEF MayCreate, Running, CreatePhase, RecordOK, Serialised
  <2> QED
    BY <1>0, <2>1, <2>2, <2>3, SerialQuiet
<1>2. ASSUME NEW c \in Call, NEW hasController \in BOOLEAN,
             NEW v \in VolumeId \cup {NoVolume},
             CallDeleteVolume(c, hasController, v)
      PROVE  Serialised'
  <2>1. PICK k \in CallState :
          /\ call' = [call EXCEPT ![c] = k]
          /\ k.op = "delete" /\ k.id = v /\ ~k.abandoned
          /\ \/ k.pc = "delete" /\ v \in VolumeId /\ k.code = "none"
             \/ k.pc = "done" /\ k.code \in {"Internal", "InvalidArgument"}
    BY <1>0, <1>2, CallDeleteRecord
  <2>2. NoNewVolume /\ ~CreatePhase(k)
    BY <1>2, <2>1, QuietSame DEF CallDeleteVolume, CreatePhase
  <2> QED
    BY <1>0, <2>1, <2>2, SerialQuiet DEF CreatePhase
<1>3. ASSUME NEW c \in Call, Step(c) PROVE Serialised'
  BY <1>3, SerialStep
<1>4. ASSUME NEW c \in Call PROVE ~TimeOut(c)
  BY DEF TimeOut
<1>5. ASSUME NEW v \in VolumeId, Activate(v) PROVE Serialised'
  <2>1. NoNewVolume /\ call' = call
    BY <1>0, <1>5, QuietState DEF Activate, Live
  <2> QED
    BY <2>1 DEF Serialised, Creating, UniqueName, NoNewVolume
<1>6. CASE Crash
  BY <1>0, <1>6, QuietSame, SerialCrash DEF Crash
<1>7. CASE UNCHANGED vars
  BY <1>7 DEF vars, Serialised, Creating, UniqueName, Live
<1> QED
  BY <1>1, <1>2, <1>3, <1>4, <1>5, <1>6, <1>7 DEF Next

LEMMA SerialInit == Init => Serialised
  BY DEF Init, Serialised, Creating, UniqueName, NewCall, FreeVolume

\* As long as the CO waits for its calls the provider holds one volume for a
\* CSI name, whatever fails and whenever the process dies
\* (controller.go:123-163).
THEOREM UniqueNameHolds ==
  ASSUME Timeouts = FALSE
  PROVE  Spec => []UniqueName
<1>1. Good /\ Serialised /\ [Next]_vars => Serialised'
  BY SerialNext
<1>2. Serialised => UniqueName
  BY DEF Serialised
<1> QED
  BY <1>1, <1>2, SerialInit, GoodInvariant, PTL DEF Spec
=============================================================================
