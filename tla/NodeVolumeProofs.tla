--------------------------- MODULE NodeVolumeProofs ---------------------------
(***************************************************************************)
(* Proofs of the safety properties of NodeVolume, and that it implements   *)
(* NodePromise.                                                            *)
(***************************************************************************)
EXTENDS NodeVolume, TLAPS

-----------------------------------------------------------------------------
(***************************************************************************)
(* The calls: what a step makes of the record of its call.                 *)
(***************************************************************************)

\* The bodies of TypeOK about the node and about the counters.
NodeTypeOK ==
  /\ sessions \subseteq Volume \X Portal
  /\ bindings \subseteq Volume /\ mapped \subseteq Volume
  /\ fs \in [Volume -> {"none", "empty", "data"}]
  /\ staged \subseteq Volume
  /\ target \in [Volume -> Seq({"volume", "directory"})]
  /\ phase \in [Volume -> {"unstaged", "uncertain", "staged", "publishing",
                           "published", "unpublishing"}]

CountersOK ==
  starts \in 0 .. MaxStarts /\ faults \in 0 .. MaxFaults
  /\ restarts \in 0 .. MaxRestarts

CallsOK == /\ call \in [Call -> CallState]
           /\ \A c \in Call : RecordOK(call[c])

\* The inductive invariant of TypeOK: whatever the kubelet gives up.
Good == CallsOK /\ NodeTypeOK /\ CountersOK

\* Only a session that is there was passed over, and target paths are volumes'.
Recorded == unseen \subseteq sessions /\ paths \subseteq Volume

LEMMA GoodTypeOK == Good /\ Recorded => TypeOK
  BY DEF Good, Recorded, CallsOK, NodeTypeOK, CountersOK, TypeOK

LEMMA GoodFacts ==
  ASSUME Good, NEW c \in Call
  PROVE  /\ call \in [Call -> CallState] /\ call[c] \in CallState
         /\ RecordOK(call[c])
         /\ Running(c) => call[c].volume \in Volume
         /\ call[c].pc # "idle" <=> Running(c)
  BY DEF Good, CallsOK, RecordOK, Running

\* The steps of a handler.
Pc == {"idle", "check", "login", "device", "read", "truncate", "write",
       "map", "inspect", "format", "mount", "unmount", "flush", "logout",
       "bind", "unbind", "reply"}

\* Nothing happens to the other calls.
Others(c) == /\ call' \in [Call -> CallState]
             /\ \A d \in Call : d # c => call'[d] = call[d]

\* Call c is now at pc, and portal is its next portal.
Moves(c, pc, portal) ==
  /\ Others(c)
  /\ call'[c].op = call[c].op /\ call'[c].volume = call[c].volume
  /\ call'[c].heard = call[c].heard
  /\ call'[c].pc = pc /\ call'[c].portal = portal

Ends(c) == Others(c) /\ call'[c] = NewCall

LEMMA NewCallType ==
  /\ NewCall \in CallState /\ NewCall.op = "none" /\ NewCall.pc = "idle"
  /\ NewCall.portal = 1 /\ NewCall.heard = FALSE
<1>1. 1 \in 1 .. (Portals + 1)
  BY PortalsAssumption
<1> QED
  BY <1>1 DEF NewCall, CallState

LEMMA MovesGoto ==
  ASSUME Good, NEW c \in Call, NEW pc \in Pc, Goto(c, pc)
  PROVE  Moves(c, pc, call[c].portal)
<1> DEFINE k == [call[c] EXCEPT !.pc = pc]
<1>1. k \in CallState /\ k.op = call[c].op /\ k.volume = call[c].volume
      /\ k.heard = call[c].heard /\ k.pc = pc /\ k.portal = call[c].portal
  BY GoodFacts DEF CallState, Pc
<1>2. call' = [call EXCEPT ![c] = k]
  BY GoodFacts DEF Goto
<1> HIDE DEF k
<1> QED
  BY <1>1, <1>2, GoodFacts DEF Moves, Others

LEMMA MovesNextPortal ==
  ASSUME Good, NEW c \in Call, NEW pc \in Pc, NextPortal(c, pc),
         call[c].portal <= Portals
  PROVE  /\ call[c].portal + 1 \in 1 .. (Portals + 1)
         /\ IF call[c].portal < Portals
            THEN Moves(c, call[c].pc, call[c].portal + 1)
            ELSE Moves(c, pc, call[c].portal + 1) /\ call[c].portal = Portals
<1> DEFINE q == call[c].portal + 1
           to == IF call[c].portal < Portals THEN call[c].pc ELSE pc
           k == [call[c] EXCEPT !.portal = q, !.pc = to]
<1>1. call[c].portal \in 1 .. (Portals + 1)
  BY GoodFacts DEF CallState
<1>2. q \in 1 .. (Portals + 1) /\ (call[c].portal < Portals \/ call[c].portal = Portals)
  BY <1>1, PortalsAssumption
<1>3. call' = [call EXCEPT ![c] = k]
  BY GoodFacts DEF NextPortal, LastPortal
<1>4. to \in Pc
  BY GoodFacts DEF CallState, Pc
<1>5. to = IF call[c].portal < Portals THEN call[c].pc ELSE pc
  OBVIOUS
<1> HIDE DEF q, to
<1>6. k \in CallState /\ k.op = call[c].op /\ k.volume = call[c].volume
      /\ k.heard = call[c].heard /\ k.pc = to /\ k.portal = q
  BY <1>2, <1>4, GoodFacts DEF CallState, Pc
<1> HIDE DEF k
<1>7. Moves(c, to, q)
  BY <1>3, <1>6, GoodFacts DEF Moves, Others
<1> QED
  BY <1>2, <1>5, <1>7 DEF q

LEMMA EndsError ==
  ASSUME Good, NEW c \in Call, call' = [call EXCEPT ![c] = NewCall]
  PROVE  Ends(c)
  BY NewCallType, GoodFacts DEF Ends, Others

LEMMA CallsAfter ==
  ASSUME Good, NEW c \in Call, Others(c), RecordOK(call'[c])
  PROVE  CallsOK'
  BY DEF Others, Good, CallsOK

LEMMA CallsEnd ==
  ASSUME Good, NEW c \in Call, Ends(c)
  PROVE  CallsOK'
<1>1. RecordOK(NewCall)
  BY NewCallType DEF RecordOK
<1> QED
  BY <1>1, CallsAfter DEF Ends

-----------------------------------------------------------------------------
(***************************************************************************)
(* Types.                                                                  *)
(***************************************************************************)

LEMMA MoreCounts ==
  ASSUME CountersOK
  PROVE  /\ starts < MaxStarts => starts + 1 \in 0 .. MaxStarts
         /\ faults < MaxFaults => faults + 1 \in 0 .. MaxFaults
         /\ restarts < MaxRestarts => restarts + 1 \in 0 .. MaxRestarts
  BY BoundsAssumption DEF CountersOK

LEMMA GoodInit == Init => Good
<1> SUFFICES ASSUME Init PROVE Good
  OBVIOUS
<1>1. CallsOK
  <2>1. \A c \in Call : call[c] = NewCall
    BY DEF Init
  <2>2. RecordOK(NewCall)
    BY NewCallType DEF RecordOK
  <2>3. call \in [Call -> CallState]
    BY NewCallType DEF Init
  <2> QED
    BY <2>1, <2>2, <2>3 DEF CallsOK
<1>2. NodeTypeOK
  BY DEF Init, NodeTypeOK
<1>3. CountersOK
  BY BoundsAssumption DEF Init, CountersOK
<1> QED
  BY <1>1, <1>2, <1>3 DEF Good

\* A call about v begins at step pc, and the kubelet knows that it does.
Begun(c, op, v, pc, known) ==
  /\ Others(c) /\ ~Running(c)
  /\ call'[c].op = op /\ call'[c].volume = v /\ call'[c].pc = pc
  /\ call'[c].portal = 1 /\ call'[c].heard = TRUE
  /\ phase' = [phase EXCEPT ![v] = known]
  /\ UNCHANGED <<node, faults, restarts>>

LEMMA BeginFacts ==
  ASSUME Good, NEW c \in Call, NEW v \in Volume,
         NEW op \in {"stage", "unstage", "publish", "unpublish"},
         NEW pc \in Pc, NEW known, Begin(c, op, v, pc, known)
  PROVE  Begun(c, op, v, pc, known)
<1> DEFINE k == [NewCall EXCEPT !.op = op, !.volume = v, !.pc = pc,
                                !.heard = TRUE]
<1>1. 1 \in 1 .. (Portals + 1)
  BY PortalsAssumption
<1>2. k \in CallState /\ k.op = op /\ k.volume = v /\ k.pc = pc
      /\ k.portal = 1 /\ k.heard = TRUE
  BY <1>1 DEF NewCall, CallState, Pc
<1>3. call' = [call EXCEPT ![c] = k]
  BY DEF Begin
<1> HIDE DEF k
<1> QED
  BY <1>2, <1>3, GoodFacts DEF Begin, Begun, Others

LEMMA GoodKubelet ==
  ASSUME Good, NEW c \in Call, NEW v \in Volume, Kubelet(c, v)
  PROVE  Good'
<1>1. PICK op \in {"stage", "unstage", "publish", "unpublish"},
           pc \in {"check", "unmount", "bind", "unbind"},
           known \in {"uncertain", "publishing", "unpublishing"} :
        /\ Begin(c, op, v, pc, known)
        /\ \/ op = "stage" /\ pc = "check"
           \/ op = "unstage" /\ pc = "unmount"
           \/ op = "publish" /\ pc = "bind"
           \/ op = "unpublish" /\ pc = "unbind"
  BY DEF Kubelet, CallStage, CallUnstage, CallPublish, CallUnpublish
<1>2. starts' = starts \/ (starts < MaxStarts /\ starts' = starts + 1)
  BY DEF Kubelet, CallStage, CallUnstage, CallPublish, CallUnpublish
<1>3. pc \in Pc
  BY <1>1 DEF Pc
<1>4. Begun(c, op, v, pc, known)
  BY <1>1, <1>3, BeginFacts
<1>5. RecordOK(call'[c])
  BY <1>1, <1>4 DEF RecordOK, Begun
<1>6. NodeTypeOK'
  BY <1>4 DEF Good, NodeTypeOK, node, Begun
<1>7. CountersOK'
  BY <1>2, <1>4, MoreCounts DEF Good, CountersOK, Begun
<1> QED
  BY <1>4, <1>5, <1>6, <1>7, CallsAfter DEF Good, Begun

\* The steps of every call.
LEMMA GoodShared ==
  ASSUME Good, NEW c \in Call,
         Check(c) \/ ReadBindings(c) \/ CreateBindings(c) \/ WriteBindings(c)
  PROVE  Good'
<1>1. ASSUME Check(c) PROVE Good'
  <2>1. PICK pc \in {"login", "read"} :
          Goto(c, pc) /\ (pc = "login" <=> call[c].op = "stage")
    BY <1>1 DEF Check
  <2>2. Moves(c, pc, call[c].portal)
    BY <2>1, MovesGoto DEF Pc
  <2>3. call[c].pc = "check" /\ 1 <= Portals
    BY <1>1, PortalsAssumption DEF Check
  <2>4. RecordOK(call'[c])
    BY <2>1, <2>2, <2>3, GoodFacts DEF RecordOK, Moves
  <2>5. UNCHANGED <<sessions, bindings, mapped, fs, staged, target, phase,
                    starts, faults, restarts>>
    BY <1>1 DEF Check, Goto, node, counters
  <2> QED
    BY <2>2, <2>4, <2>5, CallsAfter DEF Moves, Good, NodeTypeOK, CountersOK
<1>2. ASSUME ReadBindings(c) PROVE Good'
  <2> DEFINE k == [call[c] EXCEPT !.seen = bindings, !.pc = "truncate"]
  <2>1. k \in CallState /\ k.op = call[c].op /\ k.volume = call[c].volume
        /\ k.pc = "truncate" /\ k.portal = call[c].portal
    BY GoodFacts DEF CallState, Good, NodeTypeOK
  <2>2. call' = [call EXCEPT ![c] = k]
    BY <1>2, GoodFacts DEF ReadBindings
  <2> HIDE DEF k
  <2>3. Others(c) /\ call'[c] = k
    BY <2>1, <2>2, GoodFacts DEF Others
  <2>4. RecordOK(k)
    BY <1>2, <2>1, GoodFacts DEF RecordOK, ReadBindings
  <2>5. UNCHANGED <<sessions, bindings, mapped, fs, staged, target, phase,
                    starts, faults, restarts>>
    BY <1>2 DEF ReadBindings, node, counters
  <2> QED
    BY <2>3, <2>4, <2>5, CallsAfter DEF Good, NodeTypeOK, CountersOK
<1>3. ASSUME CreateBindings(c) PROVE Good'
  <2>1. Moves(c, "write", call[c].portal)
    BY <1>3, MovesGoto DEF CreateBindings, Pc
  <2>2. RecordOK(call'[c])
    BY <1>3, <2>1, GoodFacts DEF RecordOK, Moves, CreateBindings
  <2>3. /\ bindings' = {}
        /\ UNCHANGED <<sessions, mapped, fs, staged, target, phase,
                       starts, faults, restarts>>
    BY <1>3 DEF CreateBindings, Goto, counters
  <2> QED
    BY <2>1, <2>2, <2>3, CallsAfter DEF Moves, Good, NodeTypeOK, CountersOK
<1>4. ASSUME WriteBindings(c) PROVE Good'
  <2>1. PICK pc \in {"map", "flush"} :
          Goto(c, pc) /\ (pc = "map" <=> call[c].op = "stage")
    BY <1>4 DEF WriteBindings
  <2>2. Moves(c, pc, call[c].portal)
    BY <2>1, MovesGoto DEF Pc
  <2>3. call[c].pc = "write"
    BY <1>4 DEF WriteBindings
  <2>4. RecordOK(call'[c])
    BY <2>1, <2>2, <2>3, GoodFacts DEF RecordOK, Moves
  <2>5. call[c].volume \in Volume /\ call[c].seen \subseteq Volume
    BY <2>3, GoodFacts DEF CallState
  <2>6. bindings' \subseteq Volume
    BY <1>4, <2>5 DEF WriteBindings, Over, Written, Good, NodeTypeOK
  <2>7. /\ UNCHANGED <<sessions, mapped, fs, staged, target, phase, starts,
                       restarts>>
        /\ faults' = faults \/ (faults < MaxFaults /\ faults' = faults + 1)
    BY <1>4 DEF WriteBindings, Goto
  <2>8. CountersOK'
    BY <2>7, MoreCounts DEF Good, CountersOK
  <2>9. NodeTypeOK'
    BY <2>6, <2>7 DEF Good, NodeTypeOK
  <2> QED
    BY <2>2, <2>4, <2>8, <2>9, CallsAfter DEF Moves, Good
<1> QED
  BY <1>1, <1>2, <1>3, <1>4

LEMMA GoodReply ==
  ASSUME Good, NEW c \in Call, Reply(c)
  PROVE  Good'
<1>1. call[c].pc = "reply" /\ Ends(c)
  BY EndsError DEF Reply
<1>2. /\ call[c].volume \in Volume
      /\ call[c].op \in {"stage", "unstage", "publish", "unpublish"}
  BY <1>1, GoodFacts DEF CallState, RecordOK
<1>3. After(call[c].op) \in {"staged", "unstaged", "published"}
  BY <1>2 DEF After
<1>4. phase' \in [Volume -> {"unstaged", "uncertain", "staged", "publishing",
                             "published", "unpublishing"}]
  BY <1>3 DEF Reply, Good, NodeTypeOK
<1>5. UNCHANGED <<sessions, bindings, mapped, fs, staged, target, starts,
                  faults, restarts>>
  BY DEF Reply, node, counters
<1> QED
  BY <1>1, <1>4, <1>5, CallsEnd DEF Good, NodeTypeOK, CountersOK

\* A step that moves its call on, or ends it.
LEMMA GoodMoves ==
  ASSUME Good, NEW c \in Call, NEW pc, NEW portal,
         (Moves(c, pc, portal) /\ RecordOK(call'[c])) \/ Ends(c)
  PROVE  CallsOK'
  BY CallsAfter, CallsEnd DEF Moves

LEMMA SameCounters ==
  ASSUME Good, UNCHANGED <<starts, faults, restarts>>
  PROVE  CountersOK'
  BY DEF Good, CountersOK

LEMMA GoodSessions ==
  ASSUME Good, NEW c \in Call, Login(c) \/ Logout(c)
  PROVE  Good'
<1> DEFINE v == call[c].volume
           p == call[c].portal
<1>1. ASSUME Login(c) PROVE Good'
  <2>1. /\ call[c].pc = "login" /\ v \in Volume /\ p <= Portals
        /\ call[c].op = "stage" /\ p \in 1 .. (Portals + 1)
    BY <1>1, GoodFacts DEF Login, RecordOK, CallState
  <2>2. p \in Portal
    BY <2>1, PortalsAssumption DEF Portal
  <2>3. \/ p < Portals /\ Moves(c, "login", p + 1)
        \/ Moves(c, "device", p + 1)
    BY <1>1, <2>1, MovesNextPortal DEF Login, Pc
  <2>4. p < Portals => p + 1 <= Portals
    BY <2>2, PortalsAssumption DEF Portal
  <2>5. PICK pc \in {"login", "device"} : Moves(c, pc, p + 1)
          /\ (pc = "login" => p + 1 <= Portals)
    BY <2>3, <2>4
  <2>6. RecordOK(call'[c])
    BY <2>1, <2>5 DEF RecordOK, Moves
  <2>7. sessions' \subseteq Volume \X Portal
    BY <1>1, <2>1, <2>2 DEF Login, Good, NodeTypeOK
  <2>8. UNCHANGED <<bindings, mapped, fs, staged, target, phase, starts, faults,
                    restarts>>
    BY <1>1 DEF Login, NextPortal, counters
  <2>9. NodeTypeOK'
    BY <2>7, <2>8 DEF Good, NodeTypeOK
  <2> QED
    BY <2>5, <2>6, <2>8, <2>9, GoodMoves, SameCounters DEF Good
<1>2. ASSUME Logout(c) PROVE Good'
  <2>1. /\ call[c].pc = "logout" /\ v \in Volume /\ p <= Portals
        /\ call[c].op = "unstage" /\ p \in 1 .. (Portals + 1)
    BY <1>2, GoodFacts DEF Logout, RecordOK, CallState
  <2>2. p \in Portal
    BY <2>1, PortalsAssumption DEF Portal
  <2>3. \/ p < Portals /\ Moves(c, "logout", p + 1)
        \/ Moves(c, "reply", p + 1)
        \/ Ends(c)
    BY <1>2, <2>1, MovesNextPortal, EndsError DEF Logout, Pc, Error
  <2>4. p < Portals => p + 1 <= Portals
    BY <2>2, PortalsAssumption DEF Portal
  <2>5. PICK pc \in {"logout", "reply"} :
          \/ Moves(c, pc, p + 1) /\ (pc = "logout" => p + 1 <= Portals)
          \/ Ends(c)
    BY <2>3, <2>4
  <2>6. RecordOK(call'[c]) \/ Ends(c)
    BY <2>1, <2>5 DEF RecordOK, Moves
  <2>7. sessions' \subseteq Volume \X Portal
    BY <1>2 DEF Logout, Good, NodeTypeOK
  <2>8. UNCHANGED <<bindings, mapped, fs, staged, target, phase, starts, faults,
                    restarts>>
    BY <1>2 DEF Logout, NextPortal, Error, counters
  <2>9. NodeTypeOK'
    BY <2>7, <2>8 DEF Good, NodeTypeOK
  <2> QED
    BY <2>5, <2>6, <2>8, <2>9, GoodMoves, SameCounters DEF Good
<1> QED
  BY <1>1, <1>2

\* The steps of Stage behind the logins.
LEMMA GoodStage ==
  ASSUME Good, NEW c \in Call,
         Device(c) \/ Map(c) \/ Inspect(c) \/ Format(c) \/ Mount(c)
  PROVE  Good'
<1> DEFINE v == call[c].volume
<1>1. PICK pc \in {"read", "inspect", "format", "mount", "reply"} :
        Moves(c, pc, call[c].portal) \/ Ends(c)
  <2>1. PICK pc \in {"read", "inspect", "format", "mount", "reply"} :
          Goto(c, pc) \/ Error(c)
    BY DEF Device, Map, Inspect, Format, Mount
  <2>2. pc \in Pc
    BY <2>1 DEF Pc
  <2> QED
    BY <2>1, <2>2, MovesGoto, EndsError DEF Error
<1>2. /\ call[c].pc \in {"device", "map", "inspect", "format", "mount"}
      /\ call[c].op = "stage" /\ v \in Volume
  BY GoodFacts DEF Device, Map, Inspect, Format, Mount, RecordOK, CallState
<1>3. RecordOK(call'[c]) \/ Ends(c)
  BY <1>1, <1>2 DEF RecordOK, Moves
<1>4. /\ UNCHANGED <<sessions, bindings, target, phase, starts, faults, restarts>>
      /\ mapped' \in {mapped, mapped \cup {v}}
      /\ staged' \in {staged, staged \cup {v}}
      /\ fs' \in {fs, [fs EXCEPT ![v] = "empty"]}
  BY DEF Device, Map, Inspect, Format, Mount, Goto, Error, node, counters
<1>5. NodeTypeOK'
  BY <1>2, <1>4 DEF Good, NodeTypeOK
<1> QED
  BY <1>1, <1>3, <1>4, <1>5, GoodMoves, SameCounters DEF Good

\* Those of Unstage before the logouts.
LEMMA GoodUnstage ==
  ASSUME Good, NEW c \in Call, Unmount(c) \/ Flush(c)
  PROVE  Good'
<1>1. PICK pc \in {"check", "logout"} :
        /\ Moves(c, pc, call[c].portal)
        /\ call[c].pc = IF pc = "check" THEN "unmount" ELSE "flush"
  BY MovesGoto DEF Unmount, Flush, Unmountable, Pc
<1>2. call[c].op = "unstage" /\ call[c].portal = 1 /\ 1 <= Portals
  BY <1>1, GoodFacts, PortalsAssumption DEF RecordOK, CallState
<1>3. RecordOK(call'[c])
  BY <1>1, <1>2, GoodFacts DEF RecordOK, Moves
<1>4. /\ UNCHANGED <<sessions, bindings, fs, target, phase, starts, faults,
                     restarts>>
      /\ mapped' \subseteq mapped /\ staged' \subseteq staged
  BY DEF Unmount, Flush, Unmountable, Goto, counters
<1>5. NodeTypeOK'
  BY <1>4 DEF Good, NodeTypeOK
<1> QED
  BY <1>1, <1>3, <1>4, <1>5, GoodMoves, SameCounters DEF Good

\* What is mounted at a target path, and what is left below the top mount.
LEMMA Mounts ==
  ASSUME NEW s \in Seq({"volume", "directory"})
  PROVE  /\ \A m \in {"volume", "directory"} :
              Append(s, m) \in Seq({"volume", "directory"})
         /\ Len(s) # 0 =>
              SubSeq(s, 1, Len(s) - 1) \in Seq({"volume", "directory"})
  OBVIOUS

\* Publish and Unpublish.
LEMMA GoodTarget ==
  ASSUME Good, NEW c \in Call, BindMount(c) \/ UnmountTarget(c)
  PROVE  Good'
<1> DEFINE v == call[c].volume
<1>1. Moves(c, "reply", call[c].portal) \/ Ends(c)
  BY MovesGoto, EndsError DEF BindMount, UnmountTarget, Error, Pc
<1>2. /\ call[c].pc \in {"bind", "unbind"} /\ v \in Volume
      /\ call[c].op \in {"publish", "unpublish"}
  BY GoodFacts DEF BindMount, UnmountTarget, RecordOK, CallState
<1>3. RecordOK(call'[c]) \/ Ends(c)
  BY <1>1, <1>2 DEF RecordOK, Moves
<1>4. UNCHANGED <<sessions, bindings, mapped, fs, staged, phase, starts, faults,
                  restarts>>
  BY DEF BindMount, UnmountTarget, Error, Goto, counters
<1>5. target[v] \in Seq({"volume", "directory"})
  BY <1>2 DEF Good, NodeTypeOK
<1>6. PICK s \in Seq({"volume", "directory"}) :
        target' = [target EXCEPT ![v] = s]
  BY <1>5, Mounts DEF BindMount, UnmountTarget
<1>7. NodeTypeOK'
  BY <1>4, <1>6 DEF Good, NodeTypeOK
<1> QED
  BY <1>1, <1>3, <1>4, <1>7, GoodMoves, SameCounters DEF Good

\* What a failing command may have done.
LEMMA PartialFacts ==
  ASSUME NEW c \in Call, Fails(c)
  PROVE  /\ Running(c)
         /\ \/ UNCHANGED <<sessions, unseen, fs>>
            \/ /\ call[c].pc = "login" /\ UNCHANGED <<unseen, fs>>
               /\ sessions' = sessions \cup {<<call[c].volume, call[c].portal>>}
            \/ /\ call[c].pc = "logout" /\ UNCHANGED fs
               /\ sessions' = sessions \ {<<call[c].volume, call[c].portal>>}
               /\ unseen' = unseen \ {<<call[c].volume, call[c].portal>>}
            \/ /\ call[c].pc = "format" /\ UNCHANGED <<sessions, unseen>>
               /\ fs' = [fs EXCEPT ![call[c].volume] = "empty"]
         /\ paths' = paths \/ paths' = paths \cup {call[c].volume}
         /\ UNCHANGED <<bindings, mapped, staged, target, phase, starts, restarts>>
         /\ faults < MaxFaults /\ faults' = faults + 1
<1>1. UNCHANGED <<sessions, unseen, fs, paths>> \/ PartialEffect(c)
  BY DEF Fails
<1>2. PartialEffect(c) =>
        /\ \/ UNCHANGED <<sessions, unseen, fs>>
           \/ /\ call[c].pc = "login" /\ UNCHANGED <<unseen, fs>>
              /\ sessions' = sessions \cup {<<call[c].volume, call[c].portal>>}
           \/ /\ call[c].pc = "logout" /\ UNCHANGED fs
              /\ sessions' = sessions \ {<<call[c].volume, call[c].portal>>}
              /\ unseen' = unseen \ {<<call[c].volume, call[c].portal>>}
           \/ /\ call[c].pc = "format" /\ UNCHANGED <<sessions, unseen>>
              /\ fs' = [fs EXCEPT ![call[c].volume] = "empty"]
        /\ paths' = paths \/ paths' = paths \cup {call[c].volume}
  BY DEF PartialEffect
<1> QED
  BY <1>1, <1>2 DEF Fails, Error

LEMMA GoodFails ==
  ASSUME Good, NEW c \in Call, Fails(c)
  PROVE  Good'
<1> DEFINE v == call[c].volume
           p == call[c].portal
<1>1. Ends(c)
  BY EndsError DEF Fails, Error
<1>2. v \in Volume /\ (call[c].pc = "login" => p \in Portal)
  <2>1. call[c].pc = "login" => p \in 1 .. (Portals + 1) /\ p <= Portals
    BY GoodFacts DEF RecordOK, CallState
  <2> QED
    BY <2>1, PartialFacts, GoodFacts, PortalsAssumption DEF Portal
<1>3. sessions' \subseteq Volume \X Portal
  BY <1>2, PartialFacts DEF Good, NodeTypeOK
<1>4. fs' \in [Volume -> {"none", "empty", "data"}]
  BY <1>2, PartialFacts DEF Good, NodeTypeOK
<1>5. NodeTypeOK'
  BY <1>3, <1>4, PartialFacts DEF Good, NodeTypeOK
<1>6. CountersOK'
  BY PartialFacts, MoreCounts DEF Good, CountersOK
<1> QED
  BY <1>1, <1>5, <1>6, CallsEnd DEF Good

\* A list of sessions that cannot be read moves the loops on.
LEMMA ListFacts ==
  ASSUME Good, NEW c \in Call, ListFails(c)
  PROVE  \E v \in Volume, p \in Portal :
           /\ v = call[c].volume /\ p = call[c].portal /\ Running(c)
           /\ \/ /\ call[c].pc = "login" /\ call[c].op = "stage"
                 /\ sessions' = sessions \cup {<<v, p>>} /\ UNCHANGED unseen
                 /\ \/ Moves(c, "login", p + 1) /\ p + 1 <= Portals
                    \/ Moves(c, "device", p + 1) /\ p = Portals
              \/ /\ call[c].pc = "logout" /\ call[c].op = "unstage"
                 /\ unseen' = unseen \cup ({<<v, p>>} \cap sessions)
                 /\ UNCHANGED sessions
                 /\ \/ Moves(c, "logout", p + 1) /\ p + 1 <= Portals
                    \/ Moves(c, "reply", p + 1) /\ p = Portals
           /\ UNCHANGED <<bindings, mapped, fs, staged, target, paths, phase,
                          starts, restarts>>
           /\ faults < MaxFaults /\ faults' = faults + 1
<1> DEFINE v == call[c].volume
           p == call[c].portal
<1>1. \/ /\ call[c].pc = "login" /\ sessions' = sessions \cup {<<v, p>>}
         /\ NextPortal(c, "device") /\ UNCHANGED unseen
      \/ /\ call[c].pc = "logout" /\ NextPortal(c, "reply")
         /\ unseen' = unseen \cup ({<<v, p>>} \cap sessions)
         /\ UNCHANGED sessions
  BY DEF ListFails
<1>2. /\ v \in Volume /\ p <= Portals /\ p \in 1 .. (Portals + 1) /\ Running(c)
      /\ call[c].pc = "login" => call[c].op = "stage"
      /\ call[c].pc = "logout" => call[c].op = "unstage"
  BY <1>1, GoodFacts DEF RecordOK, CallState
<1>3. p \in Portal
  BY <1>2, PortalsAssumption DEF Portal
<1>4. p < Portals => p + 1 <= Portals
  BY <1>3, PortalsAssumption DEF Portal
<1>5. /\ UNCHANGED <<bindings, mapped, fs, staged, target, paths, phase, starts,
                     restarts>>
      /\ faults < MaxFaults /\ faults' = faults + 1
  BY DEF ListFails, NextPortal
<1>6. CASE call[c].pc = "login"
  <2>1. \/ Moves(c, "login", p + 1) /\ p + 1 <= Portals
        \/ Moves(c, "device", p + 1) /\ p = Portals
    BY <1>1, <1>2, <1>4, <1>6, MovesNextPortal DEF Pc
  <2> QED
    BY <1>1, <1>2, <1>3, <1>5, <1>6, <2>1
<1>7. CASE call[c].pc = "logout"
  <2>1. \/ Moves(c, "logout", p + 1) /\ p + 1 <= Portals
        \/ Moves(c, "reply", p + 1) /\ p = Portals
    BY <1>1, <1>2, <1>4, <1>7, MovesNextPortal DEF Pc
  <2> QED
    BY <1>1, <1>2, <1>3, <1>5, <1>7, <2>1
<1> QED
  BY <1>1, <1>6, <1>7

LEMMA GoodListFails ==
  ASSUME Good, NEW c \in Call, ListFails(c)
  PROVE  Good'
<1>1. PICK v \in Volume, p \in Portal, pc \in {"login", "device", "logout", "reply"} :
        /\ sessions' \in {sessions, sessions \cup {<<v, p>>}}
        /\ Moves(c, pc, p + 1)
        /\ \/ call[c].op = "stage" /\ pc = "login" /\ p + 1 <= Portals
           \/ call[c].op = "stage" /\ pc = "device"
           \/ call[c].op = "unstage" /\ pc = "logout" /\ p + 1 <= Portals
           \/ call[c].op = "unstage" /\ pc = "reply"
        /\ call[c].volume \in Volume
        /\ UNCHANGED <<bindings, mapped, fs, staged, target, phase, starts,
                       restarts>>
        /\ faults < MaxFaults /\ faults' = faults + 1
  BY ListFacts
<1>2. RecordOK(call'[c])
  BY <1>1 DEF RecordOK, Moves
<1>3. NodeTypeOK'
  BY <1>1 DEF Good, NodeTypeOK
<1>4. CountersOK'
  BY <1>1, MoreCounts DEF Good, CountersOK
<1> QED
  BY <1>1, <1>2, <1>3, <1>4, GoodMoves DEF Good

LEMMA GoodTimeOut ==
  ASSUME Good, NEW c \in Call, TimeOut(c)
  PROVE  Good'
<1> DEFINE k == [call[c] EXCEPT !.heard = FALSE]
<1>1. /\ k \in CallState /\ k.op = call[c].op /\ k.volume = call[c].volume
      /\ k.pc = call[c].pc /\ k.portal = call[c].portal
  BY GoodFacts DEF CallState
<1>2. call' = [call EXCEPT ![c] = k]
  BY GoodFacts DEF TimeOut
<1> HIDE DEF k
<1>3. Others(c) /\ call'[c] = k
  BY <1>1, <1>2, GoodFacts DEF Others
<1>4. RecordOK(k)
  BY <1>1, GoodFacts DEF RecordOK
<1>5. NodeTypeOK'
  BY DEF TimeOut, Good, NodeTypeOK, node
<1>6. CountersOK'
  BY MoreCounts DEF TimeOut, Good, CountersOK
<1> QED
  BY <1>3, <1>4, <1>5, <1>6, CallsAfter DEF Good

\* The pod, and the restarts.
LEMMA GoodOutside ==
  ASSUME Good, (\E v \in Volume : PodWrites(v)) \/ Restart \/ Reboot
  PROVE  Good'
<1>1. CallsOK'
  <2>1. CASE call' = call
    BY <2>1 DEF Good, CallsOK
  <2>2. CASE call' = [c \in Call |-> NewCall]
    <3>1. RecordOK(NewCall)
      BY NewCallType DEF RecordOK
    <3>2. \A c \in Call : call'[c] = NewCall
      BY <2>2
    <3>3. call' \in [Call -> CallState]
      BY <2>2, NewCallType
    <3> QED
      BY <3>1, <3>2, <3>3 DEF CallsOK
  <2> QED
    BY <2>1, <2>2 DEF PodWrites, Restart, Reboot
<1>2. NodeTypeOK'
  <2>1. ASSUME NEW v \in Volume, PodWrites(v) PROVE NodeTypeOK'
    BY <2>1 DEF Good, NodeTypeOK, PodWrites
  <2>2. CASE Restart
    BY <2>2 DEF Good, NodeTypeOK, Restart, node
  <2>3. CASE Reboot
    <3>1. target' \in [Volume -> Seq({"volume", "directory"})]
      BY <2>3 DEF Reboot
    <3>2. phase' \in [Volume -> {"unstaged", "uncertain", "staged", "publishing",
                                 "published", "unpublishing"}]
      BY <2>3 DEF Reboot
    <3> QED
      BY <2>3, <3>1, <3>2 DEF Good, NodeTypeOK, Reboot
  <2> QED
    BY <2>1, <2>2, <2>3
<1>3. CountersOK'
  BY MoreCounts DEF Good, CountersOK, PodWrites, Restart, Reboot, counters
<1> QED
  BY <1>1, <1>2, <1>3 DEF Good

LEMMA GoodNext ==
  ASSUME Good, [Next]_vars
  PROVE  Good'
<1>1. CASE UNCHANGED vars
  BY <1>1 DEF vars, node, counters, Good, CallsOK, NodeTypeOK, CountersOK
<1>2. ASSUME NEW c \in Call, Step(c) PROVE Good'
  BY <1>2, GoodShared, GoodReply, GoodSessions, GoodStage, GoodUnstage, GoodTarget
     DEF Step, Shared, Stage, Unstage, Publish, Unpublish
<1>3. CASE Next
  BY <1>2, <1>3, GoodListFails, GoodFails, GoodTimeOut, GoodKubelet, GoodOutside
     DEF Next
<1> QED
  BY <1>1, <1>3

\* What a step passes over is a session that was there before it.
LEMMA RecordedStep ==
  ASSUME Good, Recorded, NEW c \in Call, Step(c) \/ ListFails(c) \/ Fails(c)
  PROVE  /\ unseen' \subseteq sessions /\ unseen' \subseteq sessions'
         /\ paths' \subseteq Volume
<1> DEFINE v == call[c].volume
           s == <<call[c].volume, call[c].portal>>
<1>1. CASE Shared(c)
  BY <1>1 DEF Shared, Check, ReadBindings, CreateBindings, WriteBindings, Reply,
              Recorded, node
<1>2. CASE Stage(c)
  BY <1>2 DEF Stage, Login, Device, Map, Inspect, Format, Mount, Recorded, node
<1>3. CASE Unstage(c)
  BY <1>3 DEF Unstage, Unmount, Flush, Logout, Recorded
<1>4. CASE Publish(c) \/ Unpublish(c)
  <2>1. UnmountTarget(c) \/ v \in Volume
    BY <1>4, GoodFacts DEF Publish, Unpublish, BindMount
  <2> QED
    BY <1>4, <2>1 DEF Publish, Unpublish, BindMount, UnmountTarget, Recorded
<1>5. CASE ListFails(c)
  BY <1>5, ListFacts DEF Recorded
<1>6. CASE Fails(c)
  <2>1. v \in Volume
    BY <1>6, PartialFacts, GoodFacts
  <2> QED
    BY <1>6, <2>1, PartialFacts DEF Recorded
<1> QED
  BY <1>1, <1>2, <1>3, <1>4, <1>5, <1>6 DEF Step

LEMMA RecordedNext ==
  ASSUME Good, Recorded, [Next]_vars
  PROVE  Recorded'
<1>1. ASSUME NEW c \in Call, Step(c) \/ ListFails(c) \/ Fails(c) PROVE Recorded'
  BY <1>1, RecordedStep DEF Recorded
<1>2. ASSUME NEW c \in Call, NEW v \in Volume, Kubelet(c, v) PROVE Recorded'
  BY <1>2 DEF Kubelet, CallStage, CallUnstage, CallPublish, CallUnpublish, Begin,
              node, Recorded
<1>3. CASE \/ \E c \in Call : TimeOut(c)
           \/ \E v \in Volume : PodWrites(v)
           \/ Restart \/ Reboot \/ UNCHANGED vars
  BY <1>3 DEF TimeOut, PodWrites, Restart, Reboot, vars, node, Recorded
<1> QED
  BY <1>1, <1>2, <1>3 DEF Next

LEMMA GoodAlways == Spec => [](Good /\ Recorded)
<1>1. Init => Recorded
  BY DEF Init, Recorded
<1>2. Good /\ Recorded /\ [Next]_vars => Good' /\ Recorded'
  BY GoodNext, RecordedNext
<1> QED
  BY GoodInit, <1>1, <1>2, PTL DEF Spec

-----------------------------------------------------------------------------
(***************************************************************************)
(* What the calls know of the node, when the kubelet gives up on none and  *)
(* no portal's address begins with another's.                              *)
(***************************************************************************)

\* Nothing of volume v changes.
Same(v) ==
  /\ v \in staged' <=> v \in staged
  /\ v \in mapped' <=> v \in mapped
  /\ \A p \in Portal : <<v, p>> \in sessions' <=> <<v, p>> \in sessions
  /\ \A p \in Portal : <<v, p>> \in unseen' <=> <<v, p>> \in unseen
  /\ fs'[v] = fs[v] /\ target'[v] = target[v] /\ phase'[v] = phase[v]

OnlyAbout(v) == \A w \in Volume : w # v => Same(w)

\* Call c, if it is any, is the one about v.
Alone(c, v) == /\ Running(c) => call[c].volume = v
               /\ \A d \in Call : d # c /\ Running(d) => call[d].volume # v

LEMMA AloneRunning ==
  ASSUME Undisturbed, NEW c \in Call, Running(c)
  PROVE  Alone(c, call[c].volume)
  BY DEF Undisturbed, OneCall, Alone

\* What c does to v does not touch what the other calls and volumes rest on.
LEMMA Frame ==
  ASSUME Good, Undisturbed, NEW c \in Call, NEW v \in Volume,
         Others(c), OnlyAbout(v), Alone(c, v), restarts' = restarts,
         call'[c].op # "none" => call'[c].volume = v /\ call'[c].heard,
         CallOK(call[c])', VolumeOK(v)'
  PROVE  Undisturbed'
<1>1. ASSUME NEW d \in Call PROVE CallOK(call[d])'
  <2>1. CASE d = c
    BY <2>1
  <2>2. CASE d # c
    <3>1. call'[d] = call[d] /\ CallOK(call[d])
      BY <2>2 DEF Others, Undisturbed
    <3>2. CASE call[d].op = "none"
      BY <3>1, <3>2 DEF CallOK
    <3>3. CASE call[d].op # "none"
      <4>1. call[d].volume \in Volume /\ Same(call[d].volume)
        BY <2>2, <3>3, GoodFacts DEF Alone, Running, OnlyAbout
      <4> QED
        BY <3>1, <4>1 DEF CallOK, LoggedIn, LoggedOut, Shows, Same
    <3> QED
      BY <3>2, <3>3
  <2> QED
    BY <2>1, <2>2
<1>2. ASSUME NEW w \in Volume PROVE VolumeOK(w)'
  <2>1. CASE w = v
    BY <2>1
  <2>2. CASE w # v
    <3>1. Same(w) /\ VolumeOK(w)
      BY <2>2 DEF OnlyAbout, Undisturbed
    <3>2. \A d \in Call :
            call[d].op = "publish" /\ call[d].pc = "reply" /\ call[d].volume = w
              => call'[d] = call[d]
      BY <2>2 DEF Alone, Others, Running
    <3> QED
      BY <3>1, <3>2 DEF VolumeOK, LoggedIn, LoggedOut, Shows, Staged, Same
  <2> QED
    BY <2>1, <2>2
<1>3. OneCall'
  BY DEF Others, Alone, Undisturbed, OneCall, Running
<1> QED
  BY <1>1, <1>2, <1>3 DEF Undisturbed

LEMMA EndOK ==
  ASSUME NEW c \in Call, Ends(c)
  PROVE  CallOK(call[c])' /\ call'[c].op = "none"
  BY NewCallType DEF CallOK, Ends

\* A volume whose Stage or Unstage has begun.
LEMMA UncertainOK ==
  ASSUME NEW v \in Volume, VolumeOK(v), phase[v] = "uncertain",
         phase'[v] = "uncertain", target'[v] = target[v], restarts' = restarts,
         v \in staged' => v \in mapped' /\ LoggedIn(v)'
  PROVE  VolumeOK(v)'
  BY DEF VolumeOK, Staged

\* A step of call c changes nothing of any other volume.
LEMMA StepOnlyAbout ==
  ASSUME Good, NEW c \in Call, Step(c) \/ ListFails(c) \/ Fails(c)
  PROVE  /\ OnlyAbout(call[c].volume) /\ Running(c)
         /\ call[c].volume \in Volume /\ restarts' = restarts
<1> DEFINE v == call[c].volume
           p == call[c].portal
<1>1. Running(c)
  <2>1. Step(c) => call[c].pc # "idle"
    BY DEF Step, Shared, Stage, Unstage, Publish, Unpublish, Check, ReadBindings,
       CreateBindings, WriteBindings, Reply, Login, Device, Map, Inspect, Format,
       Mount, Unmount, Flush, Logout, BindMount, UnmountTarget
  <2> QED
    BY <2>1, GoodFacts, ListFacts DEF Fails
<1>2. v \in Volume
  BY <1>1, GoodFacts
<1>3. CASE Shared(c)
  <2>1. /\ UNCHANGED <<sessions, unseen, mapped, fs, staged, target, restarts>>
        /\ phase' \in {phase, [phase EXCEPT ![v] = After(call[c].op)]}
    BY <1>3 DEF Shared, Check, ReadBindings, CreateBindings, WriteBindings, Reply,
                node, counters, Goto
  <2> QED
    BY <1>1, <1>2, <2>1 DEF OnlyAbout, Same, Good, NodeTypeOK
<1>4. CASE Stage(c) \/ Unstage(c)
  <2>1. /\ UNCHANGED <<target, phase, restarts>>
        /\ sessions' \in {sessions, sessions \cup {<<v, p>>},
                          sessions \ {<<v, p>>}}
        /\ unseen' \in {unseen, unseen \ {<<v, p>>}, unseen \ ({v} \X Portal)}
        /\ mapped' \in {mapped, mapped \cup {v}, mapped \ {v}}
        /\ staged' \in {staged, staged \cup {v}, staged \ {v}}
        /\ fs' \in {fs, [fs EXCEPT ![v] = "empty"]}
    BY <1>4 DEF Stage, Unstage, Login, Device, Map, Inspect, Format, Mount,
                Unmount, Flush, Logout, NextPortal, Error, Goto, node, counters
  <2> QED
    BY <1>1, <1>2, <2>1 DEF OnlyAbout, Same, Good, NodeTypeOK
<1>5. CASE Publish(c) \/ Unpublish(c)
  <2>1. UNCHANGED <<sessions, unseen, mapped, fs, staged, phase, restarts>>
    BY <1>5 DEF Publish, Unpublish, BindMount, UnmountTarget, Error, Goto, counters
  <2>2. \A w \in Volume : w # v => target'[w] = target[w]
    BY <1>2, <1>5 DEF Publish, Unpublish, BindMount, UnmountTarget, Good, NodeTypeOK
  <2> QED
    BY <1>1, <1>2, <2>1, <2>2 DEF OnlyAbout, Same
<1>6. CASE Fails(c)
  <2>1. /\ UNCHANGED <<mapped, staged, target, phase, restarts>>
        /\ sessions' \in {sessions, sessions \cup {<<v, p>>},
                          sessions \ {<<v, p>>}}
        /\ unseen' \in {unseen, unseen \ {<<v, p>>}}
        /\ fs' \in {fs, [fs EXCEPT ![v] = "empty"]}
    BY <1>6, PartialFacts
  <2> QED
    BY <1>1, <1>2, <2>1 DEF OnlyAbout, Same, Good, NodeTypeOK
<1>7. CASE ListFails(c)
  <2>1. /\ UNCHANGED <<mapped, fs, staged, target, phase, restarts>>
        /\ sessions' \in {sessions, sessions \cup {<<v, p>>}}
        /\ unseen' \in {unseen, unseen \cup ({<<v, p>>} \cap sessions)}
    BY <1>7, ListFacts
  <2> QED
    BY <1>1, <1>2, <2>1 DEF OnlyAbout, Same
<1> QED
  BY <1>3, <1>4, <1>5, <1>6, <1>7 DEF Step

\* The steps that are common to Stage and Unstage.
LEMMA KeepsShared ==
  ASSUME Good, Undisturbed, NEW c \in Call,
         Check(c) \/ ReadBindings(c) \/ CreateBindings(c) \/ WriteBindings(c)
  PROVE  Undisturbed'
<1>1. PICK v \in Volume :
        /\ v = call[c].volume
        /\ OnlyAbout(v) /\ Running(c) /\ restarts' = restarts
  BY StepOnlyAbout DEF Step, Shared
<1>2. Alone(c, v)
  BY <1>1, AloneRunning
<1>3. /\ UNCHANGED <<sessions, unseen, mapped, fs, staged, target, phase>>
      /\ call[c].pc \in {"check", "read", "truncate", "write"}
  BY DEF Check, ReadBindings, CreateBindings, WriteBindings, Goto, node
<1>4. call[c].op \in {"stage", "unstage"} /\ CallOK(call[c]) /\ VolumeOK(v)
      /\ call[c].heard
  BY <1>1, <1>3, GoodFacts DEF RecordOK, CallState, Undisturbed, OneCall
<1>5. PICK pc \in {"login", "read", "truncate", "write", "map", "flush"} :
        /\ Moves(c, pc, call[c].portal)
        /\ pc = "login" => call[c].op = "stage" /\ call[c].pc = "check"
        /\ call[c].pc = "check" =>
             pc = IF call[c].op = "stage" THEN "login" ELSE "read"
  <2>1. CASE ReadBindings(c)
    <3> DEFINE k == [call[c] EXCEPT !.seen = bindings, !.pc = "truncate"]
    <3>1. k \in CallState /\ k.op = call[c].op /\ k.volume = call[c].volume
          /\ k.pc = "truncate" /\ k.portal = call[c].portal
          /\ k.heard = call[c].heard
      BY GoodFacts DEF CallState, Good, NodeTypeOK
    <3>2. call' = [call EXCEPT ![c] = k]
      BY <2>1, GoodFacts DEF ReadBindings
    <3> HIDE DEF k
    <3> QED
      BY <2>1, <3>1, <3>2, GoodFacts DEF Moves, Others, ReadBindings
  <2>2. CASE ~ReadBindings(c)
    <3>1. PICK pc \in {"login", "read", "write", "map", "flush"} :
            /\ Goto(c, pc)
            /\ pc = "login" => call[c].op = "stage" /\ call[c].pc = "check"
            /\ call[c].pc = "check" =>
                 pc = IF call[c].op = "stage" THEN "login" ELSE "read"
      BY <2>2 DEF Check, CreateBindings, WriteBindings
    <3> QED
      BY <3>1, MovesGoto DEF Pc
  <2> QED
    BY <2>1, <2>2
<1>6. phase[v] = "uncertain"
  BY <1>1, <1>4 DEF CallOK
<1>7. CallOK(call[c])'
  <2>1. CASE call[c].op = "unstage"
    BY <1>3, <1>4, <1>5, <2>1 DEF CallOK, Moves
  <2>2. CASE call[c].op = "stage" /\ call[c].pc = "check"
    <3>1. call[c].portal = 1
      BY <2>2, GoodFacts DEF RecordOK
    <3>2. \A p \in Portal : ~(p < 1)
      BY DEF Portal
    <3> QED
      BY <1>3, <1>4, <1>5, <2>2, <3>1, <3>2 DEF CallOK, Moves
  <2>3. CASE call[c].op = "stage" /\ call[c].pc # "check"
    BY <1>3, <1>4, <1>5, <2>3 DEF CallOK, Moves, LoggedIn
  <2> QED
    BY <1>4, <2>1, <2>2, <2>3
<1>8. VolumeOK(v)'
  BY <1>1, <1>3, <1>4, <1>6, UncertainOK DEF VolumeOK, LoggedIn
<1>9. Others(c) /\ call'[c].volume = v /\ call'[c].heard
  BY <1>1, <1>4, <1>5 DEF Moves
<1> QED
  BY <1>1, <1>2, <1>7, <1>8, <1>9, Frame

LEMMA HasSessionIs ==
  ASSUME Similar = {}, NEW v, NEW p \in Portal
  PROVE  HasSession(v, p) <=> <<v, p>> \in sessions
  BY DEF HasSession

LEMMA KeepsLogin ==
  ASSUME Good, Undisturbed, Similar = {}, NEW c \in Call,
         Login(c) \/ (ListFails(c) /\ call[c].pc = "login")
  PROVE  Undisturbed'
<1>1. PICK v \in Volume :
        /\ v = call[c].volume
        /\ OnlyAbout(v) /\ Running(c) /\ restarts' = restarts
  BY StepOnlyAbout DEF Step, Stage
<1>2. Alone(c, v)
  BY <1>1, AloneRunning
<1>3. /\ call[c].pc = "login" /\ call[c].op = "stage"
      /\ call[c].portal <= Portals /\ call[c].portal \in 1 .. (Portals + 1)
      /\ UNCHANGED <<mapped, fs, staged, target, phase>>
  BY GoodFacts DEF Login, ListFails, NextPortal, RecordOK, CallState
<1>4. PICK p \in Portal : p = call[c].portal
  BY <1>3, PortalsAssumption DEF Portal
<1>5. CallOK(call[c]) /\ VolumeOK(v) /\ call[c].heard /\ phase[v] = "uncertain"
      /\ \A q \in Portal : q < p => <<v, q>> \in sessions
  BY <1>1, <1>3, <1>4 DEF Undisturbed, OneCall, CallOK
<1>6. sessions' = sessions \cup {<<v, p>>}
  BY <1>1, <1>3, <1>4, HasSessionIs, ListFacts DEF Login
<1>7. \A q \in Portal : q < p + 1 => <<v, q>> \in sessions'
  <2>1. \A q \in Portal : q < p + 1 => q < p \/ q = p
    BY <1>4, PortalsAssumption DEF Portal
  <2> QED
    BY <1>5, <1>6, <2>1
<1>8. \/ Moves(c, "login", p + 1)
      \/ Moves(c, "device", p + 1) /\ p = Portals
  BY <1>3, <1>4, MovesNextPortal, ListFacts DEF Login, Pc
<1>9. p = Portals => LoggedIn(v)'
  <2>1. \A q \in Portal : q < Portals + 1
    BY PortalsAssumption DEF Portal
  <2> QED
    BY <1>7, <2>1 DEF LoggedIn
<1>10. CallOK(call[c])'
  <2>1. CASE Moves(c, "login", p + 1)
    BY <1>1, <1>3, <1>5, <1>7, <2>1 DEF CallOK, Moves
  <2>2. CASE Moves(c, "device", p + 1) /\ p = Portals
    BY <1>1, <1>3, <1>5, <1>9, <2>2 DEF CallOK, Moves, LoggedIn
  <2> QED
    BY <1>8, <2>1, <2>2
<1>11. VolumeOK(v)'
  BY <1>1, <1>3, <1>5, <1>6, UncertainOK DEF VolumeOK, LoggedIn
<1>12. Others(c) /\ call'[c].volume = v /\ call'[c].heard
  BY <1>1, <1>5, <1>8 DEF Moves
<1> QED
  BY <1>1, <1>2, <1>10, <1>11, <1>12, Frame

LEMMA KeepsStage ==
  ASSUME Good, Undisturbed, NEW c \in Call,
         Device(c) \/ Map(c) \/ Inspect(c) \/ Format(c) \/ Mount(c)
  PROVE  Undisturbed'
<1>1. PICK v \in Volume :
        /\ v = call[c].volume
        /\ OnlyAbout(v) /\ Running(c) /\ restarts' = restarts
  BY StepOnlyAbout DEF Step, Stage
<1>2. Alone(c, v)
  BY <1>1, AloneRunning
<1>3. /\ call[c].pc \in {"device", "map", "inspect", "format", "mount"}
      /\ call[c].op = "stage"
  BY GoodFacts DEF Device, Map, Inspect, Format, Mount, RecordOK, CallState
<1>4. CallOK(call[c]) /\ VolumeOK(v) /\ call[c].heard
      /\ phase[v] = "uncertain" /\ LoggedIn(v)
  BY <1>1, <1>3 DEF Undisturbed, OneCall, CallOK
<1>5. /\ UNCHANGED <<sessions, target, phase>> /\ mapped \subseteq mapped'
      /\ staged' = staged \/ (v \in mapped /\ staged' = staged \cup {v})
  BY <1>1 DEF Device, Map, Inspect, Format, Mount, Goto, Error, node
<1>6. PICK pc \in {"read", "inspect", "format", "mount", "reply"} :
        /\ Goto(c, pc) \/ Error(c)
        /\ Goto(c, pc) =>
             /\ pc \in {"format", "mount", "reply"} => v \in mapped
             /\ pc = "format" => fs'[v] = "none"
             /\ pc = "reply" => v \in staged'
  <2>1. CASE Device(c)
    BY <2>1 DEF Device
  <2>2. CASE Map(c)
    BY <2>2 DEF Map
  <2>3. CASE Inspect(c)
    BY <1>1, <2>3 DEF Inspect, NeedsFormat, node
  <2>4. CASE Format(c)
    BY <1>1, <1>3, <1>4, <2>4 DEF Format, CallOK
  <2>5. CASE Mount(c)
    BY <1>1, <2>5 DEF Mount
  <2> QED
    BY <2>1, <2>2, <2>3, <2>4, <2>5
<1>7. pc \in Pc
  BY <1>6 DEF Pc
<1>8. CASE Goto(c, pc)
  <2>1. Moves(c, pc, call[c].portal)
    BY <1>7, <1>8, MovesGoto
  <2>2. CallOK(call[c])'
    <3>1. /\ pc \in {"format", "mount", "reply"} => v \in mapped'
          /\ LoggedIn(v)'
      BY <1>4, <1>5, <1>6, <1>8 DEF LoggedIn
    <3> QED
      BY <1>1, <1>3, <1>4, <1>5, <1>6, <1>8, <2>1, <3>1 DEF CallOK, Moves, LoggedIn
  <2>3. VolumeOK(v)'
    BY <1>1, <1>4, <1>5, UncertainOK DEF VolumeOK, LoggedIn
  <2>4. Others(c) /\ call'[c].volume = v /\ call'[c].heard
    BY <1>1, <1>4, <2>1 DEF Moves
  <2> QED
    BY <1>1, <1>2, <2>2, <2>3, <2>4, Frame
<1>9. CASE Error(c)
  <2>1. Ends(c)
    BY <1>9, EndsError DEF Error
  <2>2. VolumeOK(v)'
    BY <1>1, <1>4, <1>5, UncertainOK DEF VolumeOK, LoggedIn
  <2> QED
    BY <1>1, <1>2, <2>1, <2>2, EndOK, Frame DEF Ends
<1> QED
  BY <1>6, <1>8, <1>9

LEMMA KeepsUnstage ==
  ASSUME Good, Undisturbed, NEW c \in Call, Unmount(c) \/ Flush(c)
  PROVE  Undisturbed'
<1>1. PICK v \in Volume :
        /\ v = call[c].volume
        /\ OnlyAbout(v) /\ Running(c) /\ restarts' = restarts
  BY StepOnlyAbout DEF Step, Unstage
<1>2. Alone(c, v)
  BY <1>1, AloneRunning
<1>3. PICK pc \in {"check", "logout"} :
        /\ Moves(c, pc, call[c].portal)
        /\ call[c].pc = IF pc = "check" THEN "unmount" ELSE "flush"
        /\ staged' = IF pc = "check" THEN staged \ {v} ELSE staged
        /\ UNCHANGED <<sessions, unseen, target, phase>>
  BY <1>1, MovesGoto DEF Unmount, Flush, Unmountable, Goto, Pc
<1>4. call[c].op = "unstage" /\ call[c].portal = 1
  BY <1>3, GoodFacts DEF RecordOK, CallState
<1>5. CallOK(call[c]) /\ VolumeOK(v) /\ call[c].heard /\ phase[v] = "uncertain"
  BY <1>1, <1>4 DEF Undisturbed, OneCall, CallOK
<1>6. v \notin staged'
  BY <1>1, <1>3, <1>4, <1>5 DEF CallOK
<1>7. \A p \in Portal : ~(p < 1)
  BY DEF Portal
<1>8. CallOK(call[c])'
  BY <1>1, <1>3, <1>4, <1>5, <1>6, <1>7 DEF CallOK, Moves
<1>9. VolumeOK(v)'
  BY <1>1, <1>3, <1>5, <1>6, UncertainOK
<1>10. Others(c) /\ call'[c].volume = v /\ call'[c].heard
  BY <1>1, <1>3, <1>5 DEF Moves
<1> QED
  BY <1>1, <1>2, <1>8, <1>9, <1>10, Frame

LEMMA KeepsLogout ==
  ASSUME Good, Undisturbed, NEW c \in Call,
         Logout(c) \/ (ListFails(c) /\ call[c].pc = "logout")
  PROVE  Undisturbed'
<1>1. PICK v \in Volume :
        /\ v = call[c].volume
        /\ OnlyAbout(v) /\ Running(c) /\ restarts' = restarts
  BY StepOnlyAbout DEF Step, Unstage
<1>2. Alone(c, v)
  BY <1>1, AloneRunning
<1>3. /\ call[c].pc = "logout" /\ call[c].op = "unstage"
      /\ call[c].portal <= Portals /\ call[c].portal \in 1 .. (Portals + 1)
      /\ UNCHANGED <<mapped, staged, target, phase>>
  BY GoodFacts DEF Logout, ListFails, NextPortal, Error, RecordOK, CallState
<1>4. PICK p \in Portal : p = call[c].portal
  BY <1>3, PortalsAssumption DEF Portal
<1>5. CallOK(call[c]) /\ VolumeOK(v) /\ call[c].heard /\ phase[v] = "uncertain"
      /\ v \notin staged
      /\ \A q \in Portal :
           q < p /\ <<v, q>> \in sessions => <<v, q>> \in unseen
  BY <1>1, <1>3, <1>4 DEF Undisturbed, OneCall, CallOK
<1>6. \/ /\ sessions' = sessions \ {<<v, p>>}
         /\ unseen' = unseen \ {<<v, p>>}
      \/ /\ sessions' = sessions
         /\ unseen' = unseen \cup ({<<v, p>>} \cap sessions)
  BY <1>1, <1>3, <1>4, ListFacts DEF Logout
<1>7. \A q \in Portal :
        q < p + 1 /\ <<v, q>> \in sessions' => <<v, q>> \in unseen'
  <2>1. \A q \in Portal : q < p + 1 => q < p \/ q = p
    BY <1>4, PortalsAssumption DEF Portal
  <2> QED
    BY <1>5, <1>6, <2>1
<1>8. VolumeOK(v)'
  BY <1>1, <1>3, <1>5, UncertainOK
<1>9. \/ Moves(c, "logout", p + 1)
      \/ Moves(c, "reply", p + 1) /\ p = Portals
      \/ Ends(c)
  BY <1>3, <1>4, MovesNextPortal, EndsError, ListFacts DEF Logout, Error, Pc
<1>10. p = Portals => LoggedOut(v)'
  <2>1. \A q \in Portal : q < Portals + 1
    BY PortalsAssumption DEF Portal
  <2> QED
    BY <1>7, <2>1 DEF LoggedOut
<1>11. CallOK(call[c])'
  <2>1. CASE Moves(c, "logout", p + 1)
    BY <1>1, <1>3, <1>5, <1>7, <2>1 DEF CallOK, Moves
  <2>2. CASE Moves(c, "reply", p + 1) /\ p = Portals
    BY <1>1, <1>3, <1>5, <1>10, <2>2 DEF CallOK, Moves, LoggedOut
  <2> QED
    BY <1>9, <2>1, <2>2, EndOK
<1>12. /\ Others(c)
       /\ call'[c].op # "none" => call'[c].volume = v /\ call'[c].heard
  BY <1>1, <1>5, <1>9, EndOK DEF Moves, Ends
<1> QED
  BY <1>1, <1>2, <1>8, <1>11, <1>12, Frame

\* The top of what is mounted, and the mount of a volume where nothing is.
LEMMA TopMount ==
  ASSUME NEW s \in Seq({"volume", "directory"})
  PROVE  /\ Append(s, "volume") # <<>>
         /\ Append(s, "volume")[Len(Append(s, "volume"))] = "volume"
         /\ s = <<>> => Append(s, "volume") = <<"volume">>
         /\ s = <<"volume">> => Len(s) = 1 /\ SubSeq(s, 1, Len(s) - 1) = <<>>
         /\ s = <<>> => Len(s) = 0
<1>1. /\ Len(Append(s, "volume")) = Len(s) + 1
      /\ Append(s, "volume")[Len(s) + 1] = "volume"
      /\ Len(s) \in Nat
  OBVIOUS
<1>2. Append(s, "volume") # <<>>
  BY <1>1
<1>3. s = <<>> => Append(s, "volume") = <<"volume">> /\ Len(s) = 0
  OBVIOUS
<1>4. s = <<"volume">> => Len(s) = 1
  OBVIOUS
<1>5. s = <<"volume">> => SubSeq(s, 1, 0) = <<>>
  OBVIOUS
<1>6. s = <<"volume">> => SubSeq(s, 1, Len(s) - 1) = <<>>
  BY <1>4, <1>5
<1> QED
  BY <1>1, <1>2, <1>3, <1>4, <1>6

LEMMA KeepsPublish ==
  ASSUME Good, Undisturbed, NEW c \in Call, BindMount(c)
  PROVE  Undisturbed'
<1>1. PICK v \in Volume :
        /\ v = call[c].volume
        /\ OnlyAbout(v) /\ Running(c) /\ restarts' = restarts
  BY StepOnlyAbout DEF Step, Publish
<1>2. Alone(c, v)
  BY <1>1, AloneRunning
<1>3. /\ call[c].pc = "bind" /\ call[c].op = "publish"
      /\ Moves(c, "reply", call[c].portal)
      /\ UNCHANGED <<sessions, unseen, mapped, staged, phase>>
  BY MovesGoto, GoodFacts DEF BindMount, RecordOK, CallState, Goto, Pc
<1>4. /\ CallOK(call[c]) /\ VolumeOK(v) /\ call[c].heard
      /\ phase[v] = "publishing" /\ v \in staged
      /\ restarts = 0 => target[v] = <<>>
  BY <1>1, <1>3 DEF Undisturbed, OneCall, CallOK, VolumeOK, Staged
<1>5. target[v] \in Seq({"volume", "directory"})
  BY DEF Good, NodeTypeOK
<1>6. target'[v] = Append(target[v], "volume")
  BY <1>1, <1>4 DEF BindMount, Good, NodeTypeOK
<1>7. Shows(v)' /\ (restarts = 0 => target'[v] = <<"volume">>)
  BY <1>4, <1>5, <1>6, TopMount DEF Shows
<1>8. CallOK(call[c])'
  BY <1>1, <1>3, <1>4, <1>7 DEF CallOK, Moves, Shows
<1>9. VolumeOK(v)'
  <2>1. call'[c].op = "publish" /\ call'[c].pc = "reply" /\ call'[c].volume = v
    BY <1>1, <1>3 DEF Moves
  <2> QED
    BY <1>1, <1>3, <1>4, <1>7, <2>1 DEF VolumeOK, LoggedIn, LoggedOut, Staged
<1>10. Others(c) /\ call'[c].volume = v /\ call'[c].heard
  BY <1>1, <1>3, <1>4 DEF Moves
<1> QED
  BY <1>1, <1>2, <1>8, <1>9, <1>10, Frame

LEMMA KeepsUnpublish ==
  ASSUME Good, Undisturbed, NEW c \in Call, UnmountTarget(c)
  PROVE  Undisturbed'
<1>1. PICK v \in Volume :
        /\ v = call[c].volume
        /\ OnlyAbout(v) /\ Running(c) /\ restarts' = restarts
  BY StepOnlyAbout DEF Step, Unpublish
<1>2. Alone(c, v)
  BY <1>1, AloneRunning
<1>3. /\ call[c].pc = "unbind" /\ call[c].op = "unpublish"
      /\ Moves(c, "reply", call[c].portal) \/ Ends(c)
      /\ UNCHANGED <<sessions, unseen, mapped, staged, phase>>
  BY MovesGoto, EndsError, GoodFacts
     DEF UnmountTarget, RecordOK, CallState, Goto, Error, Pc
<1>4. /\ CallOK(call[c]) /\ VolumeOK(v) /\ call[c].heard
      /\ phase[v] = "unpublishing" /\ v \in staged
      /\ restarts = 0 => target[v] \in {<<>>, <<"volume">>}
  BY <1>1, <1>3 DEF Undisturbed, OneCall, CallOK, VolumeOK, Staged
<1>5. target[v] \in Seq({"volume", "directory"})
  BY DEF Good, NodeTypeOK
<1>6. target'[v] = IF Len(target[v]) = 0 THEN target[v]
                   ELSE SubSeq(target[v], 1, Len(target[v]) - 1)
  BY <1>1, <1>4 DEF UnmountTarget, Good, NodeTypeOK
<1>7. restarts = 0 => target'[v] = <<>>
  <2>1. CASE target[v] = <<>>
    BY <1>5, <1>6, <2>1, TopMount
  <2>2. CASE target[v] = <<"volume">>
    <3>1. Len(target[v]) # 0
      BY <1>5, <2>2, TopMount
    <3> QED
      BY <1>5, <1>6, <2>2, <3>1, TopMount
  <2> QED
    BY <1>4, <2>1, <2>2
<1>8. CallOK(call[c])'
  <2>1. CASE Moves(c, "reply", call[c].portal)
    BY <1>1, <1>3, <1>4, <1>7, <2>1 DEF CallOK, Moves
  <2> QED
    BY <1>3, <2>1, EndOK
<1>9. VolumeOK(v)'
  BY <1>1, <1>3, <1>4, <1>7 DEF VolumeOK, LoggedIn, LoggedOut, Staged
<1>10. /\ Others(c)
       /\ call'[c].op # "none" => call'[c].volume = v /\ call'[c].heard
  BY <1>1, <1>3, <1>4, EndOK DEF Moves, Ends
<1> QED
  BY <1>1, <1>2, <1>8, <1>9, <1>10, Frame

\* What an OK answer tells the kubelet is so.
LEMMA KeepsReply ==
  ASSUME Good, Undisturbed, NEW c \in Call, Reply(c)
  PROVE  Undisturbed'
<1>1. PICK v \in Volume :
        /\ v = call[c].volume
        /\ OnlyAbout(v) /\ Running(c) /\ restarts' = restarts
  BY StepOnlyAbout DEF Step, Shared
<1>2. Alone(c, v)
  BY <1>1, AloneRunning
<1>3. /\ call[c].pc = "reply" /\ Ends(c)
      /\ call[c].op \in {"stage", "unstage", "publish", "unpublish"}
      /\ UNCHANGED <<sessions, unseen, mapped, staged, target>>
  BY <1>1, EndsError, GoodFacts DEF Reply, CallState, Running, node
<1>4. CallOK(call[c]) /\ VolumeOK(v) /\ call[c].heard
  BY <1>1 DEF Undisturbed, OneCall
<1>5. phase'[v] = After(call[c].op)
  BY <1>1, <1>4 DEF Reply, Good, NodeTypeOK
<1>6. VolumeOK(v)'
  <2>1. CASE call[c].op = "stage"
    BY <1>1, <1>3, <1>4, <1>5, <2>1
       DEF CallOK, VolumeOK, LoggedIn, Staged, After
  <2>2. CASE call[c].op = "unstage"
    BY <1>1, <1>3, <1>4, <1>5, <2>2
       DEF CallOK, VolumeOK, LoggedOut, Staged, After
  <2>3. CASE call[c].op = "publish"
    BY <1>1, <1>3, <1>4, <1>5, <2>3
       DEF CallOK, VolumeOK, LoggedIn, Staged, Shows, After
  <2>4. CASE call[c].op = "unpublish"
    BY <1>1, <1>3, <1>4, <1>5, <2>4
       DEF CallOK, VolumeOK, LoggedIn, Staged, After
  <2> QED
    BY <1>3, <2>1, <2>2, <2>3, <2>4
<1> QED
  BY <1>1, <1>2, <1>3, <1>6, EndOK, Frame DEF Ends

LEMMA KeepsFails ==
  ASSUME Good, Undisturbed, NEW c \in Call, Fails(c)
  PROVE  Undisturbed'
<1>1. PICK v \in Volume :
        /\ v = call[c].volume
        /\ OnlyAbout(v) /\ Running(c) /\ restarts' = restarts
  BY StepOnlyAbout
<1>2. Alone(c, v)
  BY <1>1, AloneRunning
<1>3. CallOK(call[c]) /\ VolumeOK(v) /\ Ends(c)
  BY <1>1, EndsError DEF Undisturbed, Fails, Error
<1>4. UNCHANGED <<mapped, staged, target, phase>> /\ call[c].pc # "reply"
  BY PartialFacts DEF Fails
<1>5. VolumeOK(v)'
  <2>1. CASE call[c].op \in {"stage", "unstage"}
    <3>1. phase[v] = "uncertain"
      BY <1>1, <1>3, <2>1 DEF CallOK
    <3>2. v \in staged => LoggedIn(v)'
      <4>1. call[c].pc = "logout" => v \notin staged
        BY <1>1, <1>3, <2>1, GoodFacts DEF CallOK, RecordOK
      <4> QED
        BY <1>3, <4>1, PartialFacts DEF VolumeOK, LoggedIn
    <3> QED
      BY <1>1, <1>3, <1>4, <3>1, <3>2, UncertainOK DEF VolumeOK
  <2>2. CASE call[c].op \in {"publish", "unpublish"}
    <3>1. call[c].pc \notin {"login", "logout", "format"}
      BY <2>2, GoodFacts DEF RecordOK
    <3>2. sessions' = sessions /\ unseen' = unseen
      BY <3>1, PartialFacts
    <3>3. \A d \in Call :
            call[d].op = "publish" /\ call[d].pc = "reply" /\ call[d].volume = v
              => call'[d] = call[d]
      BY <1>2, <1>3, <1>4 DEF Alone, Ends, Others, Running
    <3> QED
      BY <1>1, <1>3, <1>4, <3>2, <3>3
         DEF VolumeOK, LoggedIn, LoggedOut, Staged, Shows
  <2> QED
    BY <1>1, <2>1, <2>2, GoodFacts DEF Running, CallState
<1> QED
  BY <1>1, <1>2, <1>3, <1>5, EndOK, Frame DEF Ends

\* The kubelet calls about a volume that no call is about.
LEMMA KeepsKubelet ==
  ASSUME Good, Undisturbed, NEW c \in Call, NEW v \in Volume, Kubelet(c, v)
  PROVE  Undisturbed'
<1>1. PICK op \in {"stage", "unstage", "publish", "unpublish"},
           pc \in {"check", "unmount", "bind", "unbind"},
           known \in {"uncertain", "publishing", "unpublishing"} :
        /\ Begin(c, op, v, pc, known)
        /\ \/ /\ op = "stage" /\ pc = "check" /\ known = "uncertain"
              /\ phase[v] \in {"unstaged", "uncertain"}
           \/ /\ op = "unstage" /\ pc = "unmount" /\ known = "uncertain"
              /\ phase[v] \in {"uncertain", "staged"}
           \/ /\ op = "publish" /\ pc = "bind" /\ known = "publishing"
              /\ phase[v] \in {"staged", "publishing"}
           \/ /\ op = "unpublish" /\ pc = "unbind" /\ known = "unpublishing"
              /\ phase[v] \in {"publishing", "published", "unpublishing"}
  BY DEF Kubelet, CallStage, CallUnstage, CallPublish, CallUnpublish
<1>2. Begun(c, op, v, pc, known)
  <2>1. pc \in Pc
    BY <1>1 DEF Pc
  <2> QED
    BY <1>1, <2>1, BeginFacts
<1>3. \A d \in Call : Running(d) => call[d].volume # v
  BY <1>1 DEF Begin, MayStart, Undisturbed, OneCall
<1>4. Alone(c, v)
  BY <1>2, <1>3 DEF Alone, Begun
<1>5. /\ phase'[v] = known /\ \A w \in Volume : w # v => phase'[w] = phase[w]
      /\ UNCHANGED <<sessions, unseen, mapped, fs, staged, target, restarts>>
  BY <1>2 DEF Begun, Good, NodeTypeOK, node
<1>6. OnlyAbout(v)
  BY <1>5 DEF OnlyAbout, Same
<1>7. VolumeOK(v)
  BY DEF Undisturbed
<1>8. restarts = 0 /\ phase[v] = "publishing" => target[v] = <<>>
  BY <1>3, <1>7 DEF VolumeOK, Running
<1>9. CallOK(call[c])'
  BY <1>1, <1>2, <1>5, <1>7, <1>8 DEF CallOK, Begun, VolumeOK
<1>10. VolumeOK(v)'
  BY <1>1, <1>5, <1>7, <1>8 DEF VolumeOK, LoggedIn, LoggedOut, Staged
<1>11. Others(c) /\ call'[c].volume = v /\ call'[c].heard
  BY <1>2 DEF Begun
<1> QED
  BY <1>4, <1>5, <1>6, <1>9, <1>10, <1>11, Frame

LEMMA KeepsOutside ==
  ASSUME Good, Undisturbed,
         (\E v \in Volume : PodWrites(v)) \/ Restart \/ Reboot
  PROVE  Undisturbed'
<1>1. ASSUME NEW v \in Volume, PodWrites(v) PROVE Undisturbed'
  <2>1. /\ phase[v] = "published" /\ fs' = [fs EXCEPT ![v] = "data"]
        /\ UNCHANGED <<call, sessions, unseen, mapped, staged, target, phase,
                       restarts>>
    BY <1>1 DEF PodWrites, counters
  <2>2. ASSUME NEW c \in Call PROVE CallOK(call[c])'
    <3>1. CallOK(call[c])
      BY DEF Undisturbed
    <3>2. call[c].op = "stage" => fs'[call[c].volume] = fs[call[c].volume]
      BY <2>1, <3>1, GoodFacts DEF CallOK, Good, NodeTypeOK, Running
    <3> QED
      BY <2>1, <3>1, <3>2 DEF CallOK, LoggedIn, LoggedOut, Shows
  <2>3. ASSUME NEW w \in Volume PROVE VolumeOK(w)'
    BY <2>1 DEF Undisturbed, VolumeOK, LoggedIn, LoggedOut, Shows, Staged
  <2>4. OneCall'
    BY <2>1 DEF Undisturbed, OneCall, Running
  <2> QED
    BY <2>2, <2>3, <2>4 DEF Undisturbed
<1>2. CASE Restart \/ Reboot
  <2>1. restarts' # 0
    <3>1. restarts \in 0 .. MaxRestarts /\ restarts' = restarts + 1
      BY <1>2 DEF Restart, Reboot, Good, CountersOK
    <3> QED
      BY <3>1, BoundsAssumption
  <2>2. \A c \in Call : call'[c] = NewCall
    BY <1>2 DEF Restart, Reboot
  <2>3. (\A c \in Call : CallOK(call[c])') /\ OneCall'
    BY <2>2, NewCallType DEF CallOK, OneCall, Running
  <2>4. ASSUME NEW v \in Volume PROVE VolumeOK(v)'
    <3>1. VolumeOK(v)
      BY DEF Undisturbed
    <3>2. CASE Restart
      BY <2>1, <3>1, <3>2
         DEF Restart, VolumeOK, LoggedIn, LoggedOut, Shows, Staged, node
    <3>3. CASE Reboot
      <4>1. phase'[v] = IF phase[v] = "unstaged" THEN "unstaged" ELSE "uncertain"
        BY <3>3 DEF Reboot
      <4>2. staged' = {} /\ sessions' = {}
        BY <3>3 DEF Reboot
      <4> QED
        BY <2>1, <4>1, <4>2 DEF VolumeOK, LoggedOut, Staged
    <3> QED
      BY <1>2, <3>2, <3>3
  <2> QED
    BY <2>3, <2>4 DEF Undisturbed
<1> QED
  BY <1>1, <1>2

LEMMA KeepsInit == Init => Undisturbed
<1> SUFFICES ASSUME Init PROVE Undisturbed
  OBVIOUS
<1>1. \A c \in Call : call[c] = NewCall
  BY DEF Init
<1>2. (\A c \in Call : CallOK(call[c])) /\ OneCall
  BY <1>1, NewCallType DEF CallOK, OneCall, Running
<1>3. \A v \in Volume : /\ phase[v] = "unstaged" /\ target[v] = <<>>
                        /\ v \notin staged /\ LoggedOut(v)
  BY DEF Init, LoggedOut
<1>4. \A v \in Volume : VolumeOK(v)
  BY <1>3 DEF VolumeOK, Staged
<1> QED
  BY <1>2, <1>4 DEF Undisturbed

LEMMA KeepsNext ==
  ASSUME Good, Undisturbed, GivenUp = {}, Similar = {}, [Next]_vars
  PROVE  Undisturbed'
<1>1. CASE UNCHANGED vars
  BY <1>1 DEF vars, node, counters, Undisturbed, OneCall, CallOK, VolumeOK,
              Running, LoggedIn, LoggedOut, Staged, Shows
<1>2. ASSUME NEW c \in Call, Step(c) PROVE Undisturbed'
  BY <1>2, KeepsShared, KeepsReply, KeepsLogin, KeepsStage, KeepsUnstage,
     KeepsLogout, KeepsPublish, KeepsUnpublish
     DEF Step, Shared, Stage, Unstage, Publish, Unpublish
<1>3. ASSUME NEW c \in Call, TimeOut(c) PROVE FALSE
  BY <1>3 DEF TimeOut
<1>4. ASSUME NEW c \in Call, ListFails(c) PROVE Undisturbed'
  BY <1>4, KeepsLogin, KeepsLogout DEF ListFails
<1>5. CASE Next
  BY <1>2, <1>3, <1>4, <1>5, KeepsFails, KeepsKubelet, KeepsOutside DEF Next
<1> QED
  BY <1>1, <1>5

LEMMA KeptAlways ==
  ASSUME GivenUp = {}, Similar = {}
  PROVE  Spec => [](Good /\ Recorded /\ Undisturbed)
<1>1. Good /\ Undisturbed /\ [Next]_vars => Undisturbed'
  BY KeepsNext
<1> QED
  BY GoodAlways, KeepsInit, <1>1, PTL DEF Spec

-----------------------------------------------------------------------------
(***************************************************************************)
(* NodeVolume implements NodePromise.                                      *)
(***************************************************************************)

UseSame(v) == Use(v)' = Use(v)
ToldSame(v) == Told(v)' = Told(v)

\* A session of v has been passed over.
Left(v) == \E p \in Portal : <<v, p>> \in unseen
LeftSame(v) == Left(v)' <=> Left(v)

SameInPromise(v) == UseSame(v) /\ ToldSame(v) /\ LeftSame(v)

LEMMA PromiseStutters ==
  ASSUME \A v \in Volume : SameInPromise(v)
  PROVE  UNCHANGED Promise!vars
<1>1. [v \in Volume |-> Use(v)]' = [v \in Volume |-> Use(v)]
  BY DEF SameInPromise, UseSame
<1>2. [v \in Volume |-> Told(v)]' = [v \in Volume |-> Told(v)]
  BY DEF SameInPromise, ToldSame
<1>3. {v \in Volume : Left(v)}' = {v \in Volume : Left(v)}
  BY DEF SameInPromise, LeftSame
<1> QED
  BY <1>1, <1>2, <1>3 DEF Promise!vars, Left

\* What may become of one volume in a step of NodePromise: nothing, a call that
\* begins, a step of one, a session overlooked or seen again, and an answer.
Allowed(v) ==
  \/ SameInPromise(v)
  \/ UseSame(v) /\ LeftSame(v) /\ Told(v)' = "uncertain"
  \/ /\ ToldSame(v) /\ LeftSame(v) /\ Told(v) = "uncertain"
     /\ Use(v) \in {"free", "mounted"} /\ Use(v)' = "connected"
  \/ /\ ToldSame(v) /\ ~Left(v)' /\ Told(v) = "uncertain"
     /\ Use(v) = "connected" /\ Use(v)' \in {"free", "mounted"}
  \/ /\ UseSame(v) /\ ToldSame(v) /\ Told(v) = "uncertain"
     /\ Use(v) = "connected"
  \/ /\ UseSame(v) /\ LeftSame(v) /\ Told(v) = "uncertain"
     /\ \/ Use(v) = "mounted" /\ Told(v)' = "staged"
        \/ Use(v) = "free" /\ Told(v)' = "unstaged"
        \/ Use(v) = "connected" /\ Left(v) /\ Told(v)' = "unstaged"

LEMMA PromiseAllows ==
  ASSUME NEW v \in Volume, Allowed(v),
         \A w \in Volume : w # v => SameInPromise(w)
  PROVE  [Promise!Next]_(Promise!vars)
<1> DEFINE use == [w \in Volume |-> Use(w)]
           told == [w \in Volume |-> Told(w)]
           left == {w \in Volume : \E p \in Portal : <<w, p>> \in unseen}
<1>1. /\ use' = [use EXCEPT ![v] = Use(v)']
      /\ told' = [told EXCEPT ![v] = Told(v)']
  BY DEF SameInPromise, UseSame, ToldSame
<1>2. /\ UseSame(v) => use' = use
      /\ ToldSame(v) => told' = told
      /\ use[v] = Use(v) /\ told[v] = Told(v)
  BY DEF SameInPromise, UseSame, ToldSame
<1>3. /\ LeftSame(v) => left' = left
      /\ ~Left(v)' => left' = left \ {v}
      /\ Left(v)' => left' = left \cup {v}
      /\ v \in left <=> Left(v)
  BY DEF SameInPromise, LeftSame, Left
<1>4. CASE SameInPromise(v)
  BY <1>4, PromiseStutters
<1>5. CASE UseSame(v) /\ LeftSame(v) /\ Told(v)' = "uncertain"
  BY <1>1, <1>2, <1>3, <1>5 DEF Promise!Next, Promise!Begin
<1>6. CASE /\ ToldSame(v) /\ LeftSame(v) /\ Told(v) = "uncertain"
           /\ Use(v) \in {"free", "mounted"} /\ Use(v)' = "connected"
  BY <1>1, <1>2, <1>3, <1>6
     DEF Promise!Next, Promise!Connect, Promise!Unmount, Promise!Become
<1>7. CASE /\ ToldSame(v) /\ ~Left(v)' /\ Told(v) = "uncertain"
           /\ Use(v) = "connected" /\ Use(v)' \in {"free", "mounted"}
  BY <1>1, <1>2, <1>3, <1>7
     DEF Promise!Next, Promise!Mount, Promise!Disconnect, Promise!Become
<1>8. CASE /\ UseSame(v) /\ ToldSame(v) /\ Told(v) = "uncertain"
           /\ Use(v) = "connected"
  BY <1>1, <1>2, <1>3, <1>8
     DEF Promise!Next, Promise!Overlook, Promise!Notice, Promise!Notices
<1>9. CASE /\ UseSame(v) /\ LeftSame(v) /\ Told(v) = "uncertain"
           /\ \/ Use(v) = "mounted" /\ Told(v)' = "staged"
              \/ Use(v) = "free" /\ Told(v)' = "unstaged"
              \/ Use(v) = "connected" /\ Left(v) /\ Told(v)' = "unstaged"
  BY <1>1, <1>2, <1>3, <1>9
     DEF Promise!Next, Promise!AnswerStaged, Promise!AnswerUnstaged
<1> QED
  BY <1>4, <1>5, <1>6, <1>7, <1>8, <1>9 DEF Allowed

\* What NodePromise knows of a volume follows from the volume's own state.
NoSession(v) == \A p \in Portal : <<v, p>> \notin sessions

LEMMA UseIs ==
  ASSUME NEW v \in Volume
  PROVE  /\ v \in staged => Use(v) = "mounted"
         /\ v \notin staged /\ ~NoSession(v) => Use(v) = "connected"
         /\ v \notin staged /\ NoSession(v) => Use(v) = "free"
  BY DEF Use, NoSession

LEMMA UseIsNext ==
  ASSUME NEW v \in Volume
  PROVE  /\ v \in staged' => Use(v)' = "mounted"
         /\ v \notin staged' /\ ~NoSession(v)' => Use(v)' = "connected"
         /\ v \notin staged' /\ NoSession(v)' => Use(v)' = "free"
  BY DEF Use, NoSession

LEMMA SamePromise ==
  ASSUME NEW v \in Volume, Same(v)
  PROVE  SameInPromise(v)
  BY DEF Same, SameInPromise, UseSame, ToldSame, LeftSame, Left, Use, Told, Staged

LEMMA AboutOne ==
  ASSUME NEW v \in Volume, OnlyAbout(v), Allowed(v)
  PROVE  [Promise!Next]_(Promise!vars)
<1>1. \A w \in Volume : w # v => SameInPromise(w)
  BY SamePromise DEF OnlyAbout
<1> QED
  BY <1>1, PromiseAllows

LEMMA LoggedInHas ==
  ASSUME NEW v
  PROVE  /\ LoggedIn(v) => ~NoSession(v)
         /\ LoggedIn(v)' => ~NoSession(v)'
<1>1. 1 \in Portal
  BY PortalsAssumption DEF Portal
<1> QED
  BY <1>1 DEF LoggedIn, NoSession

\* A step that leaves v's mount as it is, on a volume whose Stage or Unstage has
\* begun: a first login connects it, a last logout, with no mount, frees it, and
\* in between a logout may pass over a session.
LEMMA AllowedSessions ==
  ASSUME NEW v \in Volume, phase'[v] = phase[v], phase[v] = "uncertain",
         v \in staged' <=> v \in staged, v \in staged => LeftSame(v),
         Recorded, unseen' \subseteq sessions, unseen' \subseteq sessions'
  PROVE  Allowed(v)
<1>1. ToldSame(v) /\ Told(v) = "uncertain"
  BY DEF ToldSame, Told, Staged
<1>2. /\ NoSession(v) => ~Left(v) /\ ~Left(v)'
      /\ NoSession(v)' => ~Left(v)'
  BY DEF NoSession, Left, Recorded
<1>3. CASE v \in staged
  BY <1>1, <1>3, UseIs, UseIsNext DEF Allowed, SameInPromise, UseSame
<1>4. CASE v \notin staged /\ NoSession(v)
  BY <1>1, <1>2, <1>4, UseIs, UseIsNext
     DEF Allowed, SameInPromise, UseSame, LeftSame
<1>5. CASE v \notin staged /\ ~NoSession(v)
  BY <1>1, <1>2, <1>5, UseIs, UseIsNext DEF Allowed, UseSame
<1> QED
  BY <1>3, <1>4, <1>5

\* A step on v that changes neither its sessions, nor its mount, nor what the
\* kubelet knows of it.
LEMMA AllowedSame ==
  ASSUME NEW v \in Volume, UNCHANGED <<sessions, unseen, staged, phase>>
  PROVE  Allowed(v) /\ SameInPromise(v)
  BY DEF Allowed, SameInPromise, UseSame, ToldSame, LeftSame, Left, Use, Told,
         Staged

LEMMA StepAllowed ==
  ASSUME Good, Recorded, Undisturbed, NEW c \in Call,
         Step(c) \/ ListFails(c) \/ Fails(c),
         NEW v \in Volume, v = call[c].volume
  PROVE  Allowed(v)
<1>1. Running(c) /\ CallOK(call[c]) /\ VolumeOK(v) /\ RecordOK(call[c])
      /\ call[c].heard /\ call[c].op \in {"stage", "unstage", "publish", "unpublish"}
  BY StepOnlyAbout, GoodFacts DEF Undisturbed, OneCall, Running, CallState
<1>2. CASE \/ Check(c) \/ ReadBindings(c) \/ CreateBindings(c)
           \/ WriteBindings(c) \/ Device(c) \/ Map(c) \/ Inspect(c)
           \/ Format(c) \/ Flush(c) \/ BindMount(c) \/ UnmountTarget(c)
  <2>1. UNCHANGED <<sessions, unseen, staged, phase>>
    BY <1>2 DEF Check, ReadBindings, CreateBindings, WriteBindings, Device, Map,
         Inspect, Format, Flush, BindMount, UnmountTarget, Goto, Error, node
  <2> QED
    BY <2>1, AllowedSame
<1>3. CASE Reply(c)
  <2>1. /\ UNCHANGED <<sessions, unseen, staged>> /\ call[c].pc = "reply"
        /\ phase'[v] = After(call[c].op)
    BY <1>1, <1>3 DEF Reply, node, Good, NodeTypeOK
  <2>2. UseSame(v) /\ LeftSame(v)
    BY <2>1 DEF UseSame, Use, LeftSame, Left
  <2>3. CASE call[c].op = "stage"
    <3>1. Told(v) = "uncertain" /\ Told(v)' = "staged" /\ v \in staged
      BY <1>1, <2>1, <2>3 DEF CallOK, After, Told, Staged
    <3> QED
      BY <2>2, <3>1, UseIs DEF Allowed
  <2>4. CASE call[c].op = "unstage"
    <3>1. /\ Told(v) = "uncertain" /\ Told(v)' = "unstaged"
          /\ v \notin staged /\ LoggedOut(v)
      BY <1>1, <2>1, <2>4 DEF CallOK, After, Told, Staged
    <3>2. NoSession(v) \/ Left(v)
      BY <3>1 DEF LoggedOut, NoSession, Left
    <3> QED
      BY <2>2, <3>1, <3>2, UseIs DEF Allowed
  <2>5. CASE call[c].op \in {"publish", "unpublish"}
    <3>1. ToldSame(v)
      BY <1>1, <2>1, <2>5 DEF CallOK, After, ToldSame, Told, Staged
    <3> QED
      BY <2>2, <3>1 DEF Allowed, SameInPromise
  <2> QED
    BY <1>1, <2>3, <2>4, <2>5
<1>4. CASE Login(c) \/ Logout(c) \/ ListFails(c)
  <2>1. /\ UNCHANGED <<staged, phase>>
        /\ \/ call[c].op = "stage" /\ UNCHANGED unseen
           \/ call[c].op = "unstage" /\ call[c].pc = "logout"
    BY <1>1, <1>4, ListFacts DEF Login, Logout, NextPortal, Error, RecordOK
  <2>2. phase[v] = "uncertain" /\ (v \in staged => UNCHANGED unseen)
    BY <1>1, <2>1 DEF CallOK
  <2>3. v \in staged => LeftSame(v)
    BY <2>2 DEF LeftSame, Left
  <2>4. unseen' \subseteq sessions /\ unseen' \subseteq sessions'
    BY <1>4, RecordedStep DEF Step, Stage, Unstage
  <2> QED
    BY <2>1, <2>2, <2>3, <2>4, AllowedSessions
<1>5. CASE Mount(c)
  <2>1. call[c].pc = "mount" /\ call[c].op = "stage"
    BY <1>1, <1>5 DEF Mount, RecordOK
  <2>2. phase[v] = "uncertain" /\ LoggedIn(v)
    BY <1>1, <2>1 DEF CallOK
  <2>3. /\ UNCHANGED <<sessions, phase>>
        /\ \/ UNCHANGED <<staged, unseen>>
           \/ /\ staged' = staged \cup {v} /\ v \notin staged
              /\ unseen' = unseen \ ({v} \X Portal)
    BY <1>5 DEF Mount, Error, Goto
  <2>4. CASE UNCHANGED <<staged, unseen>>
    BY <2>3, <2>4, AllowedSame
  <2>5. CASE /\ staged' = staged \cup {v} /\ v \notin staged
             /\ unseen' = unseen \ ({v} \X Portal)
    <3>1. Told(v) = "uncertain" /\ ToldSame(v) /\ ~Left(v)'
      BY <2>2, <2>3, <2>5 DEF Told, ToldSame, Staged, Left
    <3>2. Use(v) = "connected" /\ Use(v)' = "mounted"
      BY <2>2, <2>5, UseIs, UseIsNext, LoggedInHas
    <3> QED
      BY <3>1, <3>2 DEF Allowed
  <2> QED
    BY <2>3, <2>4, <2>5
<1>6. CASE Unmount(c)
  <2>1. call[c].pc = "unmount" /\ call[c].op = "unstage"
    BY <1>1, <1>6 DEF Unmount, RecordOK
  <2>2. phase[v] = "uncertain" /\ (v \in staged => LoggedIn(v))
    BY <1>1, <2>1 DEF CallOK, VolumeOK
  <2>3. UNCHANGED <<sessions, unseen, phase>> /\ staged' = staged \ {v}
    BY <1>6 DEF Unmount, Error, Goto
  <2>4. CASE v \notin staged
    <3>1. UNCHANGED <<sessions, unseen, staged, phase>>
      BY <2>3, <2>4
    <3> QED
      BY <3>1, AllowedSame
  <2>5. CASE v \in staged
    <3>1. Told(v) = "uncertain" /\ ToldSame(v) /\ LeftSame(v)
      BY <2>2, <2>3 DEF Told, ToldSame, Staged, LeftSame, Left
    <3>2. ~NoSession(v)'
      BY <2>2, <2>3, <2>5, LoggedInHas DEF NoSession
    <3>3. Use(v) = "mounted" /\ Use(v)' = "connected"
      BY <2>3, <2>5, <3>2, UseIs, UseIsNext
    <3> QED
      BY <3>1, <3>3 DEF Allowed
  <2> QED
    BY <2>4, <2>5
<1>7. CASE Fails(c)
  <2>1. CASE call[c].op \in {"stage", "unstage"}
    <3>1. phase[v] = "uncertain" /\ (call[c].pc = "logout" => v \notin staged)
      BY <1>1, <2>1 DEF CallOK, RecordOK
    <3>2. v \in staged => LeftSame(v)
      BY <1>7, <3>1, PartialFacts DEF LeftSame, Left
    <3>3. unseen' \subseteq sessions /\ unseen' \subseteq sessions'
      BY <1>7, RecordedStep
    <3> QED
      BY <1>7, <3>1, <3>2, <3>3, PartialFacts, AllowedSessions
  <2>2. CASE call[c].op \in {"publish", "unpublish"}
    <3>1. UNCHANGED <<sessions, unseen, staged, phase>>
      BY <1>1, <1>7, <2>2, PartialFacts DEF RecordOK
    <3> QED
      BY <3>1, AllowedSame
  <2> QED
    BY <1>1, <2>1, <2>2
<1> QED
  BY <1>2, <1>3, <1>4, <1>5, <1>6, <1>7
     DEF Step, Shared, Stage, Unstage, Publish, Unpublish

LEMMA KubeletAllowed ==
  ASSUME Good, Undisturbed, NEW c \in Call, NEW v \in Volume, Kubelet(c, v)
  PROVE  OnlyAbout(v) /\ Allowed(v)
<1>1. PICK known \in {"uncertain", "publishing", "unpublishing"} :
        /\ phase' = [phase EXCEPT ![v] = known]
        /\ UNCHANGED node
        /\ known \in {"publishing", "unpublishing"} => Staged(v)
  BY DEF Kubelet, CallStage, CallUnstage, CallPublish, CallUnpublish, Begin, Staged
<1>2. /\ phase'[v] = known /\ \A w \in Volume : w # v => phase'[w] = phase[w]
      /\ UNCHANGED <<sessions, unseen, mapped, fs, staged, target>>
  BY <1>1 DEF Good, NodeTypeOK, node
<1>3. OnlyAbout(v) /\ UseSame(v) /\ LeftSame(v)
  BY <1>2 DEF OnlyAbout, Same, UseSame, Use, LeftSame, Left
<1>4. ToldSame(v) \/ Told(v)' = "uncertain"
  BY <1>1, <1>2 DEF ToldSame, Told, Staged
<1> QED
  BY <1>3, <1>4 DEF Allowed, SameInPromise

\* A reboot is a restart of the machine in NodePromise.
LEMMA RebootRestarts ==
  ASSUME Good, Reboot
  PROVE  Promise!Restart(Volume)
<1>1. ASSUME NEW v \in Volume
      PROVE  /\ Use(v)' = "free"
             /\ Told(v)' = IF Told(v) # "unstaged" THEN "uncertain" ELSE Told(v)
  <2>1. staged' = {} /\ sessions' = {}
        /\ phase'[v] = IF phase[v] = "unstaged" THEN "unstaged" ELSE "uncertain"
    BY DEF Reboot
  <2>2. v \notin staged' /\ NoSession(v)'
    BY <2>1 DEF NoSession
  <2>3. Use(v)' = "free"
    BY <2>2, UseIsNext
  <2> QED
    BY <2>1, <2>3 DEF Told, Staged
<1>2. \A v \in Volume : ~Left(v)'
  BY DEF Reboot, Left
<1> QED
  BY <1>1, <1>2 DEF Promise!Restart, Left

LEMMA StepImplements ==
  ASSUME Good, Recorded, Undisturbed, GivenUp = {}, [Next]_vars
  PROVE  [Promise!Next]_(Promise!vars)
<1>1. ASSUME NEW c \in Call, Step(c) \/ ListFails(c) \/ Fails(c)
      PROVE  [Promise!Next]_(Promise!vars)
  <2>1. PICK v \in Volume : v = call[c].volume /\ OnlyAbout(v)
    BY <1>1, StepOnlyAbout
  <2> QED
    BY <1>1, <2>1, StepAllowed, AboutOne
<1>2. ASSUME NEW c \in Call, NEW v \in Volume, Kubelet(c, v)
      PROVE  [Promise!Next]_(Promise!vars)
  BY <1>2, KubeletAllowed, AboutOne
<1>3. ASSUME UNCHANGED <<sessions, unseen, staged, phase>>
      PROVE  [Promise!Next]_(Promise!vars)
  BY <1>3, AllowedSame, PromiseStutters
<1>4. CASE Reboot
  BY <1>4, RebootRestarts DEF Promise!Next
<1>5. CASE Restart \/ UNCHANGED vars \/ \E v \in Volume : PodWrites(v)
  BY <1>3, <1>5 DEF Restart, PodWrites, vars, node
<1>6. ASSUME NEW c \in Call, TimeOut(c) PROVE FALSE
  BY <1>6 DEF TimeOut
<1> QED
  BY <1>1, <1>2, <1>4, <1>5, <1>6 DEF Next

LEMMA InitImplements == Init => Promise!Init
<1> SUFFICES ASSUME Init PROVE Promise!Init
  OBVIOUS
<1>1. ASSUME NEW v \in Volume
      PROVE  Use(v) = "free" /\ Told(v) = "unstaged" /\ ~Left(v)
  <2>1. v \notin staged /\ NoSession(v) /\ phase[v] = "unstaged" /\ ~Left(v)
    BY DEF Init, NoSession, Left
  <2> QED
    BY <2>1, UseIs DEF Told, Staged
<1> QED
  BY <1>1 DEF Promise!Init, Left

-----------------------------------------------------------------------------
(***************************************************************************)
(* The theorems.                                                           *)
(***************************************************************************)

\* Calls, node and kubelet stay within their types, whatever the kubelet gives
\* up and however the portals' addresses look (node.go:37-280).
THEOREM TypeCorrect == Spec => []TypeOK
  BY GoodAlways, GoodTypeOK, PTL

\* A volume whose Stage was answered OK is mounted, mapped and logged in to
\* through every portal until its Unstage begins (node.go:85-155).
THEOREM StagedIsReadyHolds ==
  ASSUME GivenUp = {}, Similar = {}
  PROVE  Spec => []StagedIsReady
<1>1. Good /\ Undisturbed => StagedIsReady
  BY DEF Undisturbed, VolumeOK, LoggedIn, StagedIsReady
<1> QED
  BY <1>1, KeptAlways, PTL

\* A volume whose Unstage was answered OK is not mounted at its staging path, and
\* has no session but one that Unstage took for absent, since it could not read
\* the list of sessions (node.go:180-217, attacher.go:133-136).
THEOREM UnstagedIsReleasedHolds ==
  ASSUME GivenUp = {}, Similar = {}
  PROVE  Spec => []UnstagedIsReleased
<1>1. Good /\ Undisturbed => UnstagedIsReleased
  BY DEF Undisturbed, VolumeOK, LoggedOut, UnstagedIsReleased
<1> QED
  BY <1>1, KeptAlways, PTL

\* A pod finds the volume at its target path, and not the directory beneath it
\* (node.go:246).
THEOREM PublishedShowsVolumeHolds ==
  ASSUME GivenUp = {}, Similar = {}
  PROVE  Spec => []PublishedShowsVolume
<1>1. Good /\ Undisturbed => PublishedShowsVolume
  BY DEF Undisturbed, VolumeOK, PublishedShowsVolume
<1> QED
  BY <1>1, KeptAlways, PTL

\* Unless something restarted, an Unpublish that was answered OK leaves nothing
\* at the target path (node.go:272-278, mounter.go:56).
THEOREM UnpublishedIsUnmountedHolds ==
  ASSUME GivenUp = {}, Similar = {}
  PROVE  Spec => []UnpublishedIsUnmounted
<1>1. Good /\ Undisturbed => UnpublishedIsUnmounted
  BY DEF Undisturbed, VolumeOK, UnpublishedIsUnmounted
<1> QED
  BY <1>1, KeptAlways, PTL

LEMMA StepKeepsData ==
  ASSUME Good, Undisturbed, [Next]_vars, NEW v \in Volume, fs[v] = "data"
  PROVE  fs'[v] = "data"
<1>1. ASSUME NEW c \in Call, Step(c) \/ ListFails(c) \/ Fails(c)
      PROVE  fs'[v] = "data"
  <2>1. PICK w \in Volume :
          w = call[c].volume /\ OnlyAbout(w) /\ CallOK(call[c])
    BY <1>1, StepOnlyAbout DEF Undisturbed
  <2>2. CASE w # v
    BY <2>1, <2>2 DEF OnlyAbout, Same
  <2>3. CASE w = v
    <3>1. call[c].pc # "format"
      BY <2>1, <2>3, GoodFacts DEF CallOK, RecordOK, CallState
    <3>2. fs' = fs
      BY <1>1, <3>1, PartialFacts
         DEF Step, Shared, Stage, Unstage, Publish, Unpublish, Check,
             ReadBindings, CreateBindings, WriteBindings, Reply, Login, Device,
             Map, Inspect, Format, Mount, Unmount, Flush, Logout, BindMount,
             UnmountTarget, ListFails, node
    <3> QED
      BY <3>2
  <2> QED
    BY <2>2, <2>3
<1>2. ASSUME NEW w \in Volume, PodWrites(w) PROVE fs'[v] = "data"
  BY <1>2 DEF PodWrites, Good, NodeTypeOK
<1> QED
  BY <1>1, <1>2 DEF Next, Kubelet, CallStage, CallUnstage, CallPublish,
     CallUnpublish, Begin, TimeOut, Restart, Reboot, vars, node

\* Stage formats no volume that holds data, whatever failed before it: the
\* volume that it found empty is still empty when it formats (node.go:139-145).
THEOREM DataKeptHolds ==
  ASSUME GivenUp = {}, Similar = {}
  PROVE  Spec => DataKept
<1>1. Good /\ Undisturbed /\ [Next]_vars
        => [\A v \in Volume : fs[v] = "data" => fs'[v] = "data"]_vars
  BY StepKeepsData
<1> QED
  BY <1>1, KeptAlways, PTL DEF Spec, DataKept

LEMMA StepUnmountsBefore ==
  ASSUME Good, Undisturbed, [Next]_vars, NEW s \in sessions \ sessions'
  PROVE  s[1] \notin staged'
<1>1. ASSUME NEW c \in Call, Step(c) \/ ListFails(c) \/ Fails(c)
      PROVE  s[1] \notin staged'
  <2>1. /\ Logout(c) \/ (Fails(c) /\ call[c].pc = "logout")
        /\ s = <<call[c].volume, call[c].portal>>
        /\ staged' = staged
    BY <1>1, PartialFacts
       DEF Step, Shared, Stage, Unstage, Publish, Unpublish, Check,
           ReadBindings, CreateBindings, WriteBindings, Reply, Login, Device,
           Map, Inspect, Format, Mount, Unmount, Flush, Logout, BindMount,
           UnmountTarget, ListFails, node
  <2>2. call[c].op = "unstage" /\ call[c].pc = "logout"
    BY <2>1, GoodFacts DEF Logout, RecordOK, CallState
  <2>3. call[c].volume \notin staged
    BY <2>2 DEF Undisturbed, CallOK
  <2> QED
    BY <2>1, <2>3
<1>2. CASE Reboot
  BY <1>2 DEF Reboot
<1> QED
  BY <1>1, <1>2 DEF Next, Kubelet, CallStage, CallUnstage, CallPublish,
     CallUnpublish, Begin, PodWrites, TimeOut, Restart, vars, node

\* No session is given up under a mounted volume (node.go:180, 211-217).
THEOREM LogoutAfterUnmountHolds ==
  ASSUME GivenUp = {}, Similar = {}
  PROVE  Spec => LogoutAfterUnmount
<1>1. Good /\ Undisturbed /\ [Next]_vars
        => [\A s \in sessions \ sessions' : s[1] \notin staged']_vars
  BY StepUnmountsBefore
<1> QED
  BY <1>1, KeptAlways, PTL DEF Spec, LogoutAfterUnmount

\* The calls of the node service implement NodePromise: every step connects,
\* mounts, unmounts or disconnects one volume whose call has begun, overlooks a
\* session of it or sees it again, answers a call as NodePromise lets it, takes
\* the whole node down, or is none of its business (node.go:37-280,
\* attacher.go:114-172).
THEOREM ImplementsPromiseHolds ==
  ASSUME GivenUp = {}, Similar = {}
  PROVE  Spec => ImplementsPromise
<1>1. Good /\ Recorded /\ Undisturbed /\ [Next]_vars
        => [Promise!Next]_(Promise!vars)
  BY StepImplements
<1> QED
  BY <1>1, KeptAlways, InitImplements, PTL DEF Spec, ImplementsPromise, Promise!Spec
=============================================================================
