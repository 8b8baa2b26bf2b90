---------------------------- MODULE ClusterProofs ----------------------------
(***************************************************************************)
(* Proofs about Cluster.  What a handler's step does is taken from         *)
(* AttachmentProofs.                                                       *)
(***************************************************************************)
EXTENDS Cluster, TLAPS

A == INSTANCE AttachmentProofs

\* The handlers as Cluster composes them are those of AttachmentProofs.
LEMMA HandlerSteps ==
  ASSUME NEW c \in Call, \/ Controller!Progress(c)
                         \/ Controller!PublishFails(c)
                         \/ Controller!CreateAttachmentLost(c)
                         \/ Controller!SelectFails(c)
                         \/ Controller!DetachFails(c)
                         \/ Controller!DetachLost(c)
  PROVE  A!Step(c)
<1> USE DEF Controller!Answer, A!Answer, Controller!Live, A!Live,
            Controller!On, A!On
<1>1. ASSUME Controller!Get(c) PROVE A!Get(c)
  BY <1>1 DEF Controller!Get, A!Get
<1>2. ASSUME Controller!PublishFails(c) PROVE A!PublishFails(c)
  BY <1>2 DEF Controller!PublishFails, A!PublishFails
<1>3. ASSUME Controller!Precheck(c) PROVE A!Precheck(c)
  BY <1>3 DEF Controller!Precheck, A!Precheck, Controller!WrongDevice,
     A!WrongDevice, Controller!NextCount, A!NextCount
<1>4. ASSUME Controller!AttachGone(c) PROVE A!AttachGone(c)
  BY <1>4 DEF Controller!AttachGone, A!AttachGone
<1>5. ASSUME Controller!CreateAttachment(c) PROVE A!CreateAttachment(c)
  BY <1>5 DEF Controller!CreateAttachment, A!CreateAttachment,
     Controller!Attach, A!Attach
<1>6. ASSUME Controller!CreateAttachmentLost(c)
      PROVE  A!CreateAttachmentLost(c)
  BY <1>6 DEF Controller!CreateAttachmentLost, A!CreateAttachmentLost,
     Controller!Attach, A!Attach
<1>7. ASSUME Controller!FetchAttachment(c) PROVE A!FetchAttachment(c)
  BY <1>7 DEF Controller!FetchAttachment, A!FetchAttachment
<1>8. ASSUME Controller!Select(c) PROVE A!Select(c)
  BY <1>8 DEF Controller!Select, A!Select, Controller!Matching, A!Matching
<1>9. ASSUME Controller!SelectFails(c) PROVE A!SelectFails(c)
  BY <1>9 DEF Controller!SelectFails, A!SelectFails
<1> USE DEF Controller!Detached, A!Detached, Controller!LastRound,
            A!LastRound, Controller!Verdict, A!Verdict, Controller!NextCount,
            A!NextCount, Controller!Remove, A!Remove
<1>10. ASSUME Controller!DetachIdle(c) PROVE A!DetachIdle(c)
  BY <1>10 DEF Controller!DetachIdle, A!DetachIdle
<1>11. ASSUME Controller!DetachBusy(c) PROVE A!DetachBusy(c)
  BY <1>11 DEF Controller!DetachBusy, A!DetachBusy
<1>12. ASSUME Controller!DetachGone(c) PROVE A!DetachGone(c)
  BY <1>12 DEF Controller!DetachGone, A!DetachGone
<1>13. ASSUME Controller!DetachFails(c) PROVE A!DetachFails(c)
  BY <1>13 DEF Controller!DetachFails, A!DetachFails
<1>14. ASSUME Controller!DetachLost(c) PROVE A!DetachLost(c)
  BY <1>14 DEF Controller!DetachLost, A!DetachLost
<1> QED
  BY <1>1, <1>2, <1>3, <1>4, <1>5, <1>6, <1>7, <1>8, <1>9, <1>10, <1>11,
     <1>12, <1>13, <1>14 DEF Controller!Progress, A!Step

\* So are their states.
LEMMA SameState ==
  /\ Controller!TypeOK <=> A!TypeOK
  /\ Controller!Consistent <=> A!Consistent
  /\ Controller!NewCall = A!NewCall
<1>1. Controller!TypeOK <=> A!TypeOK
  BY DEF Controller!TypeOK, A!TypeOK, Controller!CallState, A!CallState,
     Controller!Code, A!Code, Controller!Attachment, A!Attachment
<1>2. \A k, atts : Controller!RecordOK(k, atts) <=> A!RecordOK(k, atts)
  BY DEF Controller!RecordOK, A!RecordOK, Controller!Asked, A!Asked
<1>3. Controller!Consistent <=> A!Consistent
  BY <1>2 DEF Controller!Consistent, A!Consistent, Controller!Live, A!Live
<1>4. Controller!NewCall = A!NewCall
  BY DEF Controller!NewCall, A!NewCall
<1> QED
  BY <1>1, <1>3, <1>4

LEMMA SameNextState ==
  /\ Controller!TypeOK' <=> A!TypeOK'
  /\ Controller!Consistent' <=> A!Consistent'
<1>1. Controller!TypeOK' <=> A!TypeOK'
  BY DEF Controller!TypeOK, A!TypeOK, Controller!CallState, A!CallState,
     Controller!Code, A!Code, Controller!Attachment, A!Attachment
<1>2. \A k, atts : Controller!RecordOK(k, atts) <=> A!RecordOK(k, atts)
  BY DEF Controller!RecordOK, A!RecordOK, Controller!Asked, A!Asked
<1>3. Controller!Consistent' <=> A!Consistent'
  BY <1>2 DEF Controller!Consistent, A!Consistent, Controller!Live, A!Live
<1> QED
  BY <1>1, <1>3

\* Is attachment a live and one of place p?
LEMMA AtPlace ==
  ASSUME NEW p \in Place, NEW a \in AttachmentId
  PROVE  /\ a \in At(p) <=> /\ A!Live(a) /\ attachments[a].node = p[1]
                            /\ attachments[a].volume = p[2]
         /\ a \in At(p)' <=> /\ A!Live(a)' /\ attachments'[a].node = p[1]
                             /\ attachments'[a].volume = p[2]
  BY DEF At, Controller!On, Controller!Live, A!Live

LEMMA OnVolume ==
  ASSUME NEW v, NEW a \in AttachmentId
  PROVE  /\ a \in Controller!On(v) <=> A!Live(a) /\ attachments[a].volume = v
         /\ a \in Controller!On(v)' <=>
              A!Live(a)' /\ attachments'[a].volume = v
  BY DEF Controller!On, Controller!Live, A!Live

-----------------------------------------------------------------------------
(***************************************************************************)
(* The invariant.                                                          *)
(***************************************************************************)

\* The part of the types that is not Attachment's.
ClusterTypes ==
  /\ Kubelet!TypeOK
  /\ staging \subseteq Place /\ hung \subseteq Node
  /\ known \in [Place -> {"detached", "attaching", "attached", "detaching"}]
  /\ want \in [Volume -> Node \cup {NoNode}]
  /\ moves \in 0 .. MaxMoves /\ faults \in 0 .. MaxFaults

\* The part of the invariant that is about more than the controller.
Arranged ==
  /\ exists = Volume
  /\ CallsKnown /\ CallsApart /\ CallsSee
  /\ Controller!Exclusive /\ DetachedIsDetached

Inv == TypeOK /\ ClusterInv

LEMMA InvParts ==
  /\ Inv <=> A!Good /\ ClusterTypes /\ Arranged /\ InUseIsBusy
  /\ Inv' <=> A!Good' /\ ClusterTypes' /\ Arranged' /\ InUseIsBusy'
<1>1. Inv <=> A!Good /\ ClusterTypes /\ Arranged /\ InUseIsBusy
  BY SameState DEF Inv, TypeOK, ClusterInv, A!Good, ClusterTypes, Arranged
<1>2. Inv' <=> A!Good' /\ ClusterTypes' /\ Arranged' /\ InUseIsBusy'
  BY SameNextState DEF Inv, TypeOK, ClusterInv, A!Good, ClusterTypes, Arranged
<1> QED
  BY <1>1, <1>2

LEMMA GoodTypes ==
  ASSUME A!Good
  PROVE  /\ A!TypeOK
         /\ call \in [Call -> A!CallState]
         /\ attachments \in [AttachmentId -> A!Attachment]
  BY DEF A!Good, A!TypeOK

LEMMA GoodFacts ==
  ASSUME A!Good, NEW c \in Call
  PROVE  /\ A!TypeOK /\ call[c] \in A!CallState
         /\ A!RecordOK(call[c], attachments)
         /\ call \in [Call -> A!CallState]
         /\ attachments \in [AttachmentId -> A!Attachment]
  BY GoodTypes DEF A!Good, A!TypeOK, A!Consistent

LEMMA InvFacts ==
  ASSUME Inv, NEW c \in Call
  PROVE  /\ A!Good /\ A!TypeOK /\ call[c] \in A!CallState
         /\ A!RecordOK(call[c], attachments)
         /\ call \in [Call -> A!CallState]
         /\ attachments \in [AttachmentId -> A!Attachment]
  BY InvParts, GoodFacts

-----------------------------------------------------------------------------
(***************************************************************************)
(* The lemmas of AttachmentProofs, under what Cluster assumes.             *)
(***************************************************************************)

LEMMA StepEffect ==
  ASSUME A!Good, NEW c \in Call, A!Step(c)
  PROVE  \E k : A!Effect(c, k)
  BY A!EffectStep, ControllerAssumption

LEMMA EffectGood ==
  ASSUME A!Good, NEW c \in Call, NEW k, A!Effect(c, k)
  PROVE  A!Good'
  BY A!GoodEffect, ControllerAssumption

LEMMA CallGood ==
  ASSUME A!Good, NEW c \in Call, NEW op \in {"publish", "unpublish"},
         NEW p \in Place, NEW pc \in {"get", "select"},
         op = "publish" => pc = "get", op = "unpublish" => pc = "select",
         A!Begin(c, op, p[2], p[1], "OK", pc)
  PROVE  A!Good' /\ \E k : A!Begun(c, k, op, p[2], p[1], "OK", pc)
<1>1. p[1] \in Node /\ p[2] \in Volume /\ p[1] # NoNode
  BY ControllerAssumption DEF Place
<1>2. A!Good'
  BY <1>1, A!GoodBegin, ControllerAssumption
<1>3. A!TypeOK
  BY DEF A!Good
<1>4. \E k : A!Begun(c, k, op, p[2], p[1], "OK", pc)
  BY <1>1, <1>3, A!BeginRecord, ControllerAssumption
<1> QED
  BY <1>2, <1>4

LEMMA CallBegins ==
  ASSUME NEW c \in Call, NEW p \in Place
  PROVE  /\ Controller!CallPublish(c, TRUE, p[2], p[1], TRUE)
              => A!Begin(c, "publish", p[2], p[1], "OK", "get")
         /\ Controller!CallUnpublish(c, TRUE, p[2], p[1])
              => A!Begin(c, "unpublish", p[2], p[1], "OK", "select")
<1>1. p[1] \in Node /\ p[2] \in Volume /\ p[1] # NoNode /\ p[2] # NoVolume
  BY ControllerAssumption DEF Place
<1>2. /\ Controller!CheckPublish(TRUE, p[2], p[1], TRUE) = "OK"
      /\ Controller!CheckUnpublish(TRUE, p[2]) = "OK"
  BY <1>1 DEF Controller!CheckPublish, Controller!CheckUnpublish
<1>3. ASSUME NEW op, NEW pc, Controller!Begin(c, op, p[2], p[1], "OK", pc)
      PROVE  A!Begin(c, op, p[2], p[1], "OK", pc)
  BY <1>3, SameState DEF Controller!Begin, A!Begin, Controller!MayStart,
     A!MayStart, Controller!Running, A!Running, Controller!Related, A!Related
<1> QED
  BY <1>2, <1>3 DEF Controller!CallPublish, Controller!CallUnpublish

LEMMA TimeOutSame ==
  ASSUME NEW c \in Call, Controller!TimeOut(c)
  PROVE  A!TimeOut(c)
  BY DEF Controller!TimeOut, A!TimeOut, Controller!Running, A!Running

LEMMA CrashSame ==
  ASSUME Controller!Crash
  PROVE  A!Crash
  BY DEF Controller!Crash, A!Crash, Controller!Running, A!Running

-----------------------------------------------------------------------------
(***************************************************************************)
(* The controller's part of the state in Cluster's steps.                  *)
(***************************************************************************)

\* What a call is about is not given a new meaning when IDs are recycled.
LEMMA RecycledKeeps ==
  ASSUME NEW calls, attachments' = Recycled(calls),
         NEW a \in AttachmentId
  PROVE  /\ \/ attachments'[a] = attachments[a]
            \/ /\ attachments[a].state = "gone"
               /\ attachments'[a] = Controller!FreeAttachment
         /\ A!Live(a)' <=> A!Live(a)
         /\ A!Live(a) => attachments'[a] = attachments[a]
         /\ \A d \in Call : calls[d].id = a \/ a \in calls[d].chosen =>
              attachments'[a] = attachments[a]
<1>1. attachments'[a] =
        IF /\ attachments[a].state = "gone"
           /\ \A d \in Call : calls[d].id # a /\ a \notin calls[d].chosen
        THEN Controller!FreeAttachment ELSE attachments[a]
  BY DEF Recycled
<1>2. Controller!FreeAttachment.state = "free"
  BY DEF Controller!FreeAttachment
<1> QED
  BY <1>1, <1>2 DEF A!Live

LEMMA HearGood ==
  ASSUME A!Good, NEW c \in Call, Hear(c)
  PROVE  A!Good'
<1>1. /\ call' = [call EXCEPT ![c] = Controller!NewCall]
      /\ exists' = exists /\ attachments' = Recycled(call')
  BY DEF Hear
<1> DEFINE new == Controller!NewCall
<1>2. /\ new \in A!CallState /\ new.op = "none" /\ new.pc = "idle"
      /\ new.code = "none" /\ new.chosen = {} /\ new.todo = {}
      /\ new.retry = {} /\ new.count = 0
      /\ call' = [call EXCEPT ![c] = new]
  <2>1. A!NewCall \in A!CallState
    BY A!NewCallType, ControllerAssumption
  <2> QED
    BY <1>1, <2>1, SameState DEF Controller!NewCall
<1> HIDE DEF new
<1>3. /\ call'[c] = new /\ \A d \in Call : d # c => call'[d] = call[d]
      /\ call' \in [Call -> A!CallState]
  BY <1>1, <1>2, GoodFacts
<1>4. attachments' \in [AttachmentId -> A!Attachment]
  <2>1. Controller!FreeAttachment \in A!Attachment
    BY DEF Controller!FreeAttachment, A!Attachment
  <2> QED
    BY <1>1, <2>1, GoodTypes DEF Recycled
<1>5. A!TypeOK'
  <2>1. ASSUME NEW d \in Call
        PROVE  call'[d].count <= IF call'[d].op = "publish"
                                 THEN AttachMaxRetries + 1 ELSE DetachMaxRetries
    <3>1. CASE d = c
      BY <1>2, <1>3, <3>1, ControllerAssumption
    <3>2. CASE d # c
      BY <1>3, <3>2, GoodFacts DEF A!TypeOK
    <3> QED
      BY <3>1, <3>2
  <2>2. exists' \subseteq Volume
    BY <1>1, GoodFacts DEF A!TypeOK
  <2> QED
    BY <1>3, <1>4, <2>1, <2>2 DEF A!TypeOK
<1>6. ASSUME NEW d \in Call PROVE A!RecordOK(call'[d], attachments')
  <2>1. CASE d = c
    <3>1. A!RecordOK(new, attachments')
      BY <1>2 DEF A!RecordOK
    <3> QED
      BY <1>3, <2>1, <3>1
  <2>2. CASE d # c
    <3>1. /\ call'[d] = call[d]
          /\ A!RecordOK(call[d], attachments)
          /\ call[d].chosen \subseteq AttachmentId
      BY <1>3, <2>2, GoodFacts DEF A!CallState
    <3>2. \A a \in AttachmentId : call[d].id = a \/ a \in call[d].chosen =>
            attachments'[a] = attachments[a]
      BY <1>1, <3>1, RecycledKeeps
    <3>3. A!RecordOK(call[d], attachments')
      BY <3>1, <3>2 DEF A!RecordOK
    <3> QED
      BY <3>1, <3>3
  <2> QED
    BY <2>1, <2>2
<1>7. \A a \in AttachmentId : A!Live(a)' => attachments'[a].volume \in exists'
  BY <1>1, RecycledKeeps DEF A!Good, A!Consistent
<1> QED
  BY <1>5, <1>6, <1>7 DEF A!Good, A!Consistent

\* Sessions begin or end, and nothing else changes for the controller.
Sessions ==
  /\ UNCHANGED <<call, exists>>
  /\ attachments' \in [AttachmentId -> A!Attachment]
  /\ \A a \in AttachmentId :
       \/ attachments'[a] = attachments[a]
       \/ /\ A!Live(a) /\ A!Live(a)'
          /\ attachments'[a].volume = attachments[a].volume
          /\ attachments'[a].node = attachments[a].node

LEMMA SessionsGood ==
  ASSUME A!Good, Sessions
  PROVE  A!Good'
<1>1. A!AttachmentsGrow
  BY DEF Sessions, A!AttachmentsGrow, A!Live
<1>2. ASSUME NEW d \in Call PROVE A!RecordOK(call'[d], attachments')
  BY <1>1, A!RecordStable, GoodFacts, ControllerAssumption DEF Sessions
<1>3. \A a \in AttachmentId : A!Live(a)' => attachments'[a].volume \in exists'
  BY DEF Sessions, A!Good, A!Consistent, A!Live
<1> QED
  BY <1>2, <1>3 DEF Sessions, A!Good, A!Consistent, A!TypeOK

LEMMA ConnectSessions ==
  ASSUME A!Good, NEW p \in Place, Connect(p) \/ Disconnect(p)
  PROVE  /\ Sessions /\ UNCHANGED known
         /\ \E a \in AttachmentId :
              /\ A!Live(a)' /\ a \in At(p)
              /\ attachments'[a].volume = attachments[a].volume
              /\ attachments'[a].node = attachments[a].node
              /\ Connect(p) => attachments'[a].state = "busy"
              /\ \A b \in AttachmentId :
                   b # a => attachments'[b] = attachments[b]
<1>1. PICK a \in At(p), state \in {"idle", "busy"} :
        /\ attachments' = [attachments EXCEPT ![a].state = state]
        /\ attachments[a].state \in {"idle", "busy"}
        /\ Connect(p) => state = "busy"
        /\ UNCHANGED <<call, exists, known>>
  <2>1. CASE Connect(p)
    BY <2>1 DEF Connect, Controller!Login
  <2>2. CASE Disconnect(p)
    <3>1. ~Connect(p)
      BY <2>2 DEF Connect, Disconnect
    <3> QED
      BY <2>2, <3>1 DEF Disconnect, Controller!Logout
  <2> QED
    BY <2>1, <2>2
<1>2. a \in AttachmentId /\ A!Live(a)
  BY <1>1 DEF At, Controller!On, A!Live
<1> DEFINE new == [attachments[a] EXCEPT !.state = state]
<1>3. /\ new \in A!Attachment /\ new.state = state
      /\ new.volume = attachments[a].volume /\ new.node = attachments[a].node
  BY <1>2, GoodTypes DEF A!Attachment
<1>4. attachments' = [attachments EXCEPT ![a] = new]
  BY <1>1
<1> HIDE DEF new
<1>5. /\ attachments' \in [AttachmentId -> A!Attachment]
      /\ attachments'[a] = new
      /\ \A b \in AttachmentId : b # a => attachments'[b] = attachments[b]
  BY <1>2, <1>3, <1>4, GoodTypes
<1>6. A!Live(a)'
  BY <1>3, <1>5 DEF A!Live
<1>7. Sessions
  BY <1>1, <1>2, <1>3, <1>5, <1>6 DEF Sessions
<1> QED
  BY <1>1, <1>2, <1>3, <1>5, <1>6, <1>7

LEMMA RestartSessions ==
  ASSUME A!Good, NEW n \in Node, NodeRestart(n)
  PROVE  /\ Sessions /\ UNCHANGED known
         /\ \A a \in AttachmentId :
              attachments[a].node # n => attachments'[a] = attachments[a]
<1>1. /\ UNCHANGED <<call, exists, known>>
      /\ attachments' = [a \in AttachmentId |->
           IF attachments[a].state = "busy" /\ attachments[a].node = n
           THEN [attachments[a] EXCEPT !.state = "idle"] ELSE attachments[a]]
  BY DEF NodeRestart
<1>2. ASSUME NEW a \in AttachmentId
      PROVE  /\ attachments'[a] \in A!Attachment
             /\ \/ attachments'[a] = attachments[a]
                \/ /\ A!Live(a) /\ A!Live(a)'
                   /\ attachments'[a].volume = attachments[a].volume
                   /\ attachments'[a].node = attachments[a].node
             /\ attachments[a].node # n => attachments'[a] = attachments[a]
  <2>1. attachments[a] \in A!Attachment
    BY GoodTypes
  <2>2. [attachments[a] EXCEPT !.state = "idle"] \in A!Attachment
    BY <2>1 DEF A!Attachment
  <2>3. CASE attachments[a].state = "busy" /\ attachments[a].node = n
    <3>1. attachments'[a] = [attachments[a] EXCEPT !.state = "idle"]
      BY <1>1, <2>3
    <3> QED
      BY <2>1, <2>2, <2>3, <3>1 DEF A!Attachment, A!Live
  <2>4. CASE ~(attachments[a].state = "busy" /\ attachments[a].node = n)
    BY <1>1, <2>1, <2>4
  <2> QED
    BY <2>3, <2>4
<1>3. attachments' \in [AttachmentId -> A!Attachment]
  BY <1>1, <1>2
<1> QED
  BY <1>1, <1>2, <1>3 DEF Sessions

LEMMA GoodNext ==
  ASSUME A!Good, [Next]_vars
  PROVE  A!Good'
<1>1. ASSUME NEW c \in Call, NEW p \in Place,
             CallPublish(c, p) \/ CallUnpublish(c, p)
      PROVE  A!Good'
  <2>1. CASE CallPublish(c, p)
    BY <2>1, CallBegins, CallGood DEF CallPublish
  <2>2. CASE CallUnpublish(c, p)
    BY <2>2, CallBegins, CallGood DEF CallUnpublish
  <2> QED
    BY <1>1, <2>1, <2>2
<1>2. ASSUME NEW c \in Call, Handler(c) \/ RequestFails(c)
      PROVE  A!Good'
  <2>1. A!Step(c)
    BY <1>2, HandlerSteps DEF Handler, RequestFails
  <2> QED
    BY <2>1, StepEffect, EffectGood
<1>3. ASSUME NEW c \in Call, GiveUp(c)
      PROVE  A!Good'
  BY <1>3, TimeOutSame, A!GoodTimeOut, ControllerAssumption DEF GiveUp
<1>4. CASE Crash
  BY <1>4, CrashSame, A!GoodCrash, ControllerAssumption DEF Crash
<1>5. CASE UNCHANGED controller
  BY <1>5 DEF controller, A!Good, A!TypeOK, A!Consistent, A!Live
<1> QED
  BY <1>1, <1>2, <1>3, <1>4, <1>5, HearGood, SessionsGood, ConnectSessions,
     RestartSessions
     DEF Next, vars, Move, CallStage, CallUnstage, OnNode, NodeHangs, Overlook

-----------------------------------------------------------------------------
(***************************************************************************)
(* The types of what is not Attachment's.                                  *)
(***************************************************************************)

LEMMA TypesNext ==
  ASSUME ClusterTypes, [Next]_vars
  PROVE  ClusterTypes'
<1>1. Kubelet!TypeOK'
  <2>1. CASE UNCHANGED <<use, told, left>>
    BY <2>1 DEF ClusterTypes, Kubelet!TypeOK
  <2>2. ASSUME NEW p \in Place,
               \/ CallStage(p) \/ CallUnstage(p)
               \/ Connect(p) \/ Disconnect(p) \/ OnNode(p) \/ Overlook(p)
        PROVE  Kubelet!TypeOK'
    BY <2>2 DEF CallStage, CallUnstage, Connect, Disconnect, OnNode, Overlook,
       Kubelet!Begin, Kubelet!Connect, Kubelet!Mount, Kubelet!Unmount,
       Kubelet!Disconnect, Kubelet!Become, Kubelet!Overlook, Kubelet!Notice,
       Kubelet!Notices, Kubelet!AnswerStaged, Kubelet!AnswerUnstaged,
       ClusterTypes, Kubelet!TypeOK
  <2>3. ASSUME NEW n \in Node, NodeRestart(n)
        PROVE  Kubelet!TypeOK'
    BY <2>3 DEF NodeRestart, Kubelet!Restart, ClusterTypes, Kubelet!TypeOK
  <2> QED
    BY <2>1, <2>2, <2>3 DEF Next, vars, nodes, Move, CallPublish,
       CallUnpublish, Hear, Handler, RequestFails, GiveUp, Crash, NodeHangs
<1>2. staging' \subseteq Place /\ hung' \subseteq Node
  BY DEF ClusterTypes, Next, vars, nodes, Move, CallPublish, CallUnpublish,
     Hear, Handler, RequestFails, GiveUp, Crash, CallStage, CallUnstage,
     Connect, Disconnect, OnNode, NodeRestart, NodeHangs, Overlook
<1>3. known' \in [Place -> {"detached", "attaching", "attached", "detaching"}]
  <2>1. known \in [Place -> {"detached", "attaching", "attached", "detaching"}]
    BY DEF ClusterTypes
  <2> QED
    BY <2>1 DEF Next, vars, Move, CallPublish, CallUnpublish,
       Hear, Handler, RequestFails, GiveUp, Crash, CallStage, CallUnstage,
       Connect, Disconnect, OnNode, NodeRestart, NodeHangs, Overlook
<1>4. want' \in [Volume -> Node \cup {NoNode}]
  <2>1. want \in [Volume -> Node \cup {NoNode}]
    BY DEF ClusterTypes
  <2> QED
    BY <2>1 DEF Next, vars, Move, CallPublish, CallUnpublish,
       Hear, Handler, RequestFails, GiveUp, Crash, CallStage, CallUnstage,
       Connect, Disconnect, OnNode, NodeRestart, NodeHangs, Overlook
<1>5. moves' \in 0 .. MaxMoves /\ faults' \in 0 .. MaxFaults
  <2>1. /\ moves' = moves \/ (moves < MaxMoves /\ moves' = moves + 1)
        /\ faults' = faults \/ (faults < MaxFaults /\ faults' = faults + 1)
    BY DEF Next, vars, counters, Fault, Move, CallPublish, CallUnpublish,
       Hear, Handler, RequestFails, GiveUp, Crash, CallStage, CallUnstage,
       Connect, Disconnect, OnNode, NodeRestart, NodeHangs, Overlook
  <2> QED
    BY <2>1, ClusterAssumption DEF ClusterTypes
<1> QED
  BY <1>1, <1>2, <1>3, <1>4, <1>5 DEF ClusterTypes

LEMMA GoodInit == Init => A!Good /\ ClusterTypes
<1> SUFFICES ASSUME Init PROVE A!Good /\ ClusterTypes
  OBVIOUS
<1>1. A!Good
  <2>1. A!Init
    BY DEF Init, Controller!Init, A!Init, Controller!NewCall, A!NewCall,
       Controller!NoneAttached, A!NoneAttached, Controller!FreeAttachment,
       A!FreeAttachment
  <2> QED
    BY <2>1, A!GoodInit, ControllerAssumption
<1>2. ClusterTypes
  <2>1. Kubelet!TypeOK
    BY DEF Init, Kubelet!Init, Kubelet!TypeOK
  <2>2. known \in [Place -> {"detached", "attaching", "attached", "detaching"}]
    BY DEF Init
  <2>3. want \in [Volume -> Node \cup {NoNode}]
    BY ClusterAssumption DEF Init
  <2>4. moves \in 0 .. MaxMoves /\ faults \in 0 .. MaxFaults
    BY ClusterAssumption DEF Init
  <2> QED
    BY <2>1, <2>2, <2>3, <2>4 DEF Init, ClusterTypes
<1> QED
  BY <1>1, <1>2

LEMMA GoodAlways == Spec => [](A!Good /\ ClusterTypes)
<1>1. A!Good /\ ClusterTypes /\ [Next]_vars => (A!Good /\ ClusterTypes)'
  BY GoodNext, TypesNext
<1> QED
  BY GoodInit, <1>1, PTL DEF Spec

\* The types of the controller's, the nodes' and the CO's state, and the bound
\* on a handler's attempts (controller.go:258-274, 348-385), whatever fails and
\* whichever calls are given up.
THEOREM TypeCorrect == Spec => []TypeOK
<1>1. A!Good /\ ClusterTypes => TypeOK
  BY SameState DEF A!Good, ClusterTypes, TypeOK
<1> QED
  BY GoodAlways, <1>1, PTL

-----------------------------------------------------------------------------
(***************************************************************************)
(* Steps that make no attachment and begin no call.                        *)
(***************************************************************************)

\* No attachment is made or moved, no call is begun or gets ahead, and the CO
\* learns nothing.
Quiet ==
  /\ UNCHANGED <<exists, known>>
  /\ \A a \in AttachmentId : A!Live(a)' =>
       /\ A!Live(a)
       /\ attachments'[a].volume = attachments[a].volume
       /\ attachments'[a].node = attachments[a].node
  /\ \A d \in Call :
       /\ call'[d].op = call[d].op /\ call'[d].volume = call[d].volume
       /\ call'[d].node = call[d].node /\ call'[d].chosen = call[d].chosen
       /\ call'[d].op = "publish" => call'[d].abandoned = call[d].abandoned
       /\ ~call'[d].abandoned => ~call[d].abandoned
       /\ call'[d].pc \in {"create", "detach"} => call'[d].pc = call[d].pc
       /\ call'[d].code = "OK" => call[d].code = "OK"

LEMMA ArrangedQuiet ==
  ASSUME Inv, Quiet
  PROVE  Arranged'
<1>1. Arranged
  BY InvParts
<1>2. exists' = Volume /\ known' = known
  BY <1>1 DEF Quiet, Arranged
<1>3. \A d \in Call : PlaceOf(d)' = PlaceOf(d)
  BY DEF Quiet, PlaceOf
<1>4. ASSUME NEW p \in Place PROVE At(p)' \subseteq At(p)
  BY AtPlace DEF Quiet, At, Controller!On
<1>5. CallsKnown'
  BY <1>1, <1>2, <1>3 DEF Arranged, CallsKnown, Quiet
<1>6. CallsApart'
  BY <1>1 DEF Arranged, CallsApart, Quiet
<1>7. CallsSee'
  <2>1. ASSUME NEW d \in Call, call'[d].pc = "create",
               NEW a \in AttachmentId, A!Live(a)',
               attachments'[a].volume = call'[d].volume
        PROVE  FALSE
    <3>1. a \in Controller!On(call[d].volume) /\ call[d].pc = "create"
      BY <2>1, OnVolume DEF Quiet
    <3> QED
      BY <1>1, <3>1 DEF Arranged, CallsSee
  <2>2. ASSUME NEW d \in Call, NEW p \in Place, call'[d].op = "unpublish",
               ~call'[d].abandoned, PlaceOf(d)' = p
        PROVE  /\ call'[d].pc = "detach" => At(p)' \subseteq call'[d].chosen
               /\ call'[d].code = "OK" => At(p)' = {}
    BY <1>1, <1>3, <1>4, <2>2 DEF Arranged, CallsSee, Quiet
  <2>3. \A d \in Call : call'[d].pc = "create" =>
          Controller!On(call[d].volume)' = {}
    BY <2>1 DEF Controller!On, Controller!Live, A!Live
  <2> QED
    BY <2>2, <2>3 DEF CallsSee
<1>8. Controller!Exclusive'
  BY <1>1 DEF Arranged, Controller!Exclusive, Controller!Live, A!Live, Quiet
<1>9. DetachedIsDetached'
  BY <1>1, <1>2, <1>4 DEF Arranged, DetachedIsDetached
<1> QED
  BY <1>2, <1>5, <1>6, <1>7, <1>8, <1>9 DEF Arranged

-----------------------------------------------------------------------------
(***************************************************************************)
(* A step of a handler.                                                    *)
(***************************************************************************)

\* A request leaves an attachment that is in use as it is.
LEMMA BusyStays ==
  ASSUME Inv, NEW c \in Call, A!Step(c),
         NEW a \in AttachmentId, attachments[a].state = "busy"
  PROVE  attachments'[a] = attachments[a]
<1>1. CASE UNCHANGED attachments
  BY <1>1
<1>2. ASSUME NEW b \in AttachmentId, A!Attach(c, b)
      PROVE  attachments'[a] = attachments[a]
  BY <1>2, InvFacts DEF A!Attach
<1>3. ASSUME NEW b \in call[c].todo, attachments[b].state = "idle",
             A!Remove(b)
      PROVE  attachments'[a] = attachments[a]
  BY <1>3, InvFacts DEF A!Remove
<1> QED
  BY <1>1, <1>2, <1>3
     DEF A!Step, A!Get, A!PublishFails, A!Precheck, A!AttachGone,
         A!CreateAttachment, A!CreateAttachmentLost, A!FetchAttachment,
         A!Select, A!SelectFails, A!DetachIdle, A!DetachBusy, A!DetachGone,
         A!DetachFails, A!DetachLost

\* An attachment that a handler makes is one of a place that is known as
\* attaching, and the only one of its volume.
LEMMA MadeAt ==
  ASSUME Inv, NEW c \in Call, NEW k, A!Effect(c, k),
         NEW a \in AttachmentId, A!Made(c, k, a)
  PROVE  /\ call[c].op = "publish"
         /\ attachments'[a].volume = call[c].volume
         /\ attachments'[a].node = call[c].node
         /\ PlaceOf(c) \in Place /\ known[PlaceOf(c)] = "attaching"
         /\ \A b \in AttachmentId : A!Live(b)' =>
              b = a \/ attachments'[b].volume # call[c].volume
         /\ \A d \in Call : call[d].pc = "create" =>
              d = c \/ call[d].volume # call[c].volume
<1>1. /\ call[c].pc = "create" /\ k.op = "publish"
      /\ attachments'[a].volume = k.volume /\ attachments'[a].node = k.node
      /\ k.op = call[c].op /\ k.volume = call[c].volume
      /\ k.node = call[c].node
  BY DEF A!Effect, A!Becomes, A!Made
<1>2. Arranged
  BY InvParts
<1>3. PlaceOf(c) \in Place /\ known[PlaceOf(c)] = "attaching"
  BY <1>1, <1>2 DEF Arranged, CallsKnown
<1>4. ASSUME NEW b \in AttachmentId, A!Live(b)', b # a
      PROVE  attachments'[b].volume # call[c].volume
  <2>1. ~A!Made(c, k, b)
    BY <1>4 DEF A!Effect
  <2>2. A!Live(b) /\ attachments'[b].volume = attachments[b].volume
    BY <1>4, <2>1 DEF A!Effect, A!AttachmentsGrow, A!Live
  <2> QED
    BY <1>1, <1>2, <2>2, OnVolume DEF Arranged, CallsSee
<1>5. ASSUME NEW d \in Call, call[d].pc = "create",
             call[d].volume = call[c].volume
      PROVE  d = c
  <2>1. call[d].op = "publish"
    BY <1>5, InvFacts DEF A!RecordOK
  <2> QED
    BY <1>1, <1>2, <1>5, <2>1 DEF Arranged, CallsApart
<1> QED
  BY <1>1, <1>3, <1>4, <1>5

LEMMA ArrangedEffect ==
  ASSUME Inv, NEW c \in Call, NEW k, A!Effect(c, k), UNCHANGED known
  PROVE  Arranged'
<1>1. Arranged /\ exists' = Volume
  BY InvParts DEF Arranged, A!Effect
<1>2. /\ k.op = call[c].op /\ k.volume = call[c].volume
      /\ k.node = call[c].node /\ k.abandoned = call[c].abandoned
      /\ call'[c] = k /\ \A d \in Call : d # c => call'[d] = call[d]
  BY InvFacts DEF A!Effect, A!Becomes
<1>3. \A d \in Call : /\ PlaceOf(d)' = PlaceOf(d)
                      /\ call'[d].op = call[d].op
                      /\ call'[d].volume = call[d].volume
                      /\ call'[d].node = call[d].node
                      /\ call'[d].abandoned = call[d].abandoned
  BY <1>2 DEF PlaceOf
<1>4. CallsKnown'
  BY <1>1, <1>3 DEF Arranged, CallsKnown
<1>5. CallsApart'
  BY <1>1, <1>3 DEF Arranged, CallsApart
\* What is live was live, or has been made.
<1>6. ASSUME NEW a \in AttachmentId, A!Live(a)'
      PROVE  \/ A!Made(c, k, a)
             \/ /\ A!Live(a)
                /\ attachments'[a].volume = attachments[a].volume
                /\ attachments'[a].node = attachments[a].node
  BY <1>6 DEF A!Effect, A!AttachmentsGrow, A!Live
<1>7. Controller!Exclusive'
  <2> SUFFICES ASSUME NEW a \in AttachmentId, NEW b \in AttachmentId,
                      A!Live(a)', A!Live(b)',
                      attachments'[a].volume = attachments'[b].volume
               PROVE  a = b
    BY DEF Controller!Exclusive, Controller!Live, A!Live
  <2>1. CASE A!Made(c, k, a)
    BY <2>1, MadeAt
  <2>2. CASE A!Made(c, k, b)
    BY <2>2, MadeAt
  <2>3. CASE ~A!Made(c, k, a) /\ ~A!Made(c, k, b)
    BY <1>1, <1>6, <2>3
       DEF Arranged, Controller!Exclusive, Controller!Live, A!Live
  <2> QED
    BY <2>1, <2>2, <2>3
\* No attachment is made at a place but one that is attaching.
<1>8. ASSUME NEW p \in Place, known[p] # "attaching"
      PROVE  At(p)' \subseteq At(p)
  <2> SUFFICES ASSUME NEW a \in AttachmentId, a \in At(p)'
               PROVE  a \in At(p)
    BY DEF At, Controller!On
  <2>1. /\ A!Live(a)' /\ attachments'[a].node = p[1]
        /\ attachments'[a].volume = p[2]
    BY AtPlace
  <2>2. CASE A!Made(c, k, a)
    <3>1. /\ p[1] = call[c].node /\ p[2] = call[c].volume
          /\ known[PlaceOf(c)] = "attaching"
      BY <2>1, <2>2, MadeAt
    <3>2. p = <<p[1], p[2]>>
      BY DEF Place
    <3>3. p = PlaceOf(c)
      BY <3>1, <3>2 DEF PlaceOf
    <3> QED
      BY <1>8, <3>1, <3>3
  <2> QED
    BY <1>6, <2>1, <2>2, AtPlace
<1>9. DetachedIsDetached'
  BY <1>1, <1>8 DEF Arranged, DetachedIsDetached
<1>10. ASSUME NEW d \in Call, call'[d].pc = "create",
              NEW a \in AttachmentId, A!Live(a)',
              attachments'[a].volume = call'[d].volume
       PROVE  FALSE
  <2>1. CASE d = c
    <3>1. Controller!On(call[c].volume) = {} /\ UNCHANGED attachments
      <4>1. A!On(k.volume) = {} /\ UNCHANGED attachments
        BY <1>2, <1>10, <2>1 DEF A!Effect, A!Looked
      <4> QED
        BY <1>2, <4>1 DEF A!On, A!Live, Controller!On, Controller!Live
    <3> QED
      BY <1>2, <1>10, <2>1, <3>1, OnVolume DEF A!Live
  <2>2. CASE d # c
    <3>1. ~A!Made(c, k, a)
      BY <1>2, <1>10, <2>2, MadeAt
    <3> QED
      BY <1>1, <1>2, <1>6, <1>10, <2>2, <3>1, OnVolume DEF Arranged, CallsSee
  <2> QED
    BY <2>1, <2>2
<1>11. ASSUME NEW d \in Call, NEW p \in Place, call'[d].op = "unpublish",
              ~call'[d].abandoned, PlaceOf(d)' = p
       PROVE  /\ call'[d].pc = "detach" => At(p)' \subseteq call'[d].chosen
              /\ call'[d].code = "OK" => At(p)' = {}
  <2>1. /\ call[d].op = "unpublish" /\ ~call[d].abandoned /\ PlaceOf(d) = p
        /\ known[p] = "detaching" /\ At(p)' \subseteq At(p)
    BY <1>1, <1>3, <1>8, <1>11 DEF Arranged, CallsKnown
  <2>2. CASE d # c
    BY <1>1, <1>2, <2>1, <2>2 DEF Arranged, CallsSee
  <2>3. CASE d = c
    <3>1. ASSUME call[c].pc = "detach", k.chosen = call[c].chosen
          PROVE  At(p)' \subseteq k.chosen
      BY <1>1, <2>1, <2>3, <3>1 DEF Arranged, CallsSee
    <3>2. ASSUME k.chosen = A!Matching(c), UNCHANGED attachments
          PROVE  At(p)' \subseteq k.chosen
      <4>1. p[1] = call[c].node /\ p[2] = call[c].volume
        BY <2>1, <2>3 DEF PlaceOf
      <4> QED
        BY <2>1, <3>2, <4>1
           DEF At, Controller!On, Controller!Live, A!Matching, A!On, A!Live
    <3>3. k.volume \in exists
      <4>1. call[c].volume \in Volume
        BY <2>1, <2>3 DEF PlaceOf, Place
      <4> QED
        BY <1>1, <1>2, <4>1 DEF Arranged
    <3>4. k.pc = "detach" => At(p)' \subseteq k.chosen
      BY <3>1, <3>2 DEF A!Effect, A!Looked
    <3>5. ASSUME k.code = "OK", NEW a \in At(p)'
          PROVE  FALSE
      <4>1. At(p)' \subseteq k.chosen
        BY <1>2, <2>1, <2>3, <3>1, <3>3, <3>5 DEF A!Effect, A!Looked
      <4>2. attachments'[a].state = "gone"
        BY <1>2, <2>1, <2>3, <3>5, <4>1 DEF A!Effect, A!RecordOK
      <4>3. A!Live(a)'
        BY <3>5 DEF At, Controller!On, Controller!Live, A!Live
      <4> QED
        BY <4>2, <4>3 DEF A!Live
    <3> QED
      BY <1>2, <2>3, <3>4, <3>5
  <2> QED
    BY <2>2, <2>3
<1>12. CallsSee'
  <2>1. \A d \in Call : call'[d].pc = "create" =>
          Controller!On(call[d].volume)' = {}
    BY <1>10 DEF Controller!On, Controller!Live, A!Live
  <2> QED
    BY <1>11, <2>1 DEF CallsSee
<1> QED
  BY <1>1, <1>4, <1>5, <1>7, <1>9, <1>12 DEF Arranged

-----------------------------------------------------------------------------
(***************************************************************************)
(* The calls of the CO.                                                    *)
(***************************************************************************)

\* A call for place p, where the CO waits for no other.
LEMMA ArrangedCall ==
  ASSUME Inv, NEW c \in Call, NEW p \in Place, NEW k,
         NEW op \in {"publish", "unpublish"}, NEW pc \in {"get", "select"},
         A!Begun(c, k, op, p[2], p[1], "OK", pc),
         UNCHANGED <<attachments, exists>>,
         known' = [known EXCEPT ![p] = IF op = "publish" THEN "attaching"
                                       ELSE "detaching"],
         \A d \in Call : call[d].op # "none" /\ ~call[d].abandoned =>
           PlaceOf(d) # p,
         op = "publish" =>
           \A d \in Call : call[d].op = "publish" => call[d].volume # p[2]
  PROVE  Arranged'
<1> DEFINE new == IF op = "publish" THEN "attaching" ELSE "detaching"
<1>1. /\ Arranged /\ exists' = Volume
      /\ \A q \in Place : known'[q] = IF q = p THEN new ELSE known[q]
      /\ new # "detached"
      /\ op = "publish" => new = "attaching"
      /\ op = "unpublish" => new = "detaching"
  BY InvParts DEF Arranged, ClusterTypes
<1> HIDE DEF new
<1>2. /\ call'[c] = k /\ \A d \in Call : d # c => call'[d] = call[d]
      /\ k.op = op /\ k.volume = p[2] /\ k.node = p[1] /\ ~k.abandoned
      /\ k.pc = pc /\ k.code = "none"
  BY InvFacts DEF A!Begun
<1>3. /\ PlaceOf(c)' = p
      /\ \A d \in Call : d # c => PlaceOf(d)' = PlaceOf(d)
  <2>1. p = <<p[1], p[2]>>
    BY DEF Place
  <2> QED
    BY <1>2, <2>1 DEF PlaceOf
<1>4. \A q \in Place : At(q)' = At(q)
  BY DEF At, Controller!On, Controller!Live
<1>5. CallsKnown'
  <2> SUFFICES ASSUME NEW d \in Call, call'[d].op # "none"
               PROVE  /\ PlaceOf(d)' \in Place
                      /\ call'[d].op = "publish" =>
                           /\ ~call'[d].abandoned
                           /\ known'[PlaceOf(d)'] = "attaching"
                      /\ call'[d].op = "unpublish" /\ ~call'[d].abandoned =>
                           known'[PlaceOf(d)'] = "detaching"
    BY DEF CallsKnown
  <2>1. CASE d = c
    BY <1>1, <1>2, <1>3, <2>1
  <2>2. CASE d # c
    <3>1. /\ call'[d] = call[d] /\ PlaceOf(d)' = PlaceOf(d)
          /\ PlaceOf(d) \in Place
          /\ call[d].abandoned \/ PlaceOf(d) # p
      BY <1>1, <1>2, <1>3, <2>2 DEF Arranged, CallsKnown
    <3>2. call[d].abandoned => call[d].op # "publish"
      BY <1>1 DEF Arranged, CallsKnown
    <3> QED
      BY <1>1, <3>1, <3>2 DEF Arranged, CallsKnown
  <2> QED
    BY <2>1, <2>2
<1>6. CallsApart'
  <2>1. ASSUME NEW d \in Call, d # c, call[d].op = op,
               call[d].volume = p[2],
               op = "publish" \/ (call[d].node = p[1] /\ ~call[d].abandoned)
        PROVE  FALSE
    <3>1. CASE op = "publish"
      BY <2>1, <3>1
    <3>2. CASE op = "unpublish"
      <4>1. p = <<p[1], p[2]>>
        BY DEF Place
      <4> QED
        BY <2>1, <3>2, <4>1 DEF PlaceOf
    <3> QED
      BY <3>1, <3>2
  <2> SUFFICES ASSUME NEW d \in Call, NEW e \in Call,
                      call'[d].op = call'[e].op,
                      call'[d].volume = call'[e].volume,
                      \/ call'[d].op = "publish"
                      \/ /\ call'[d].op = "unpublish"
                         /\ call'[d].node = call'[e].node
                         /\ ~call'[d].abandoned /\ ~call'[e].abandoned
               PROVE  d = e
    BY DEF CallsApart
  <2>2. CASE d # c /\ e # c
    BY <1>1, <1>2, <2>2 DEF Arranged, CallsApart
  <2>3. CASE d = c /\ e # c
    BY <1>2, <2>1, <2>3
  <2>4. CASE d # c /\ e = c
    BY <1>2, <2>1, <2>4
  <2> QED
    BY <2>2, <2>3, <2>4
<1>7. CallsSee'
  <2>1. \A d \in Call : call'[d].pc = "create" =>
          d # c /\ Controller!On(call[d].volume)' = {}
    <3>1. \A d \in Call : call'[d].pc = "create" => d # c
      BY <1>2
    <3>2. \A d \in Call : call'[d] = call[d] =>
            Controller!On(call[d].volume)' = Controller!On(call[d].volume)
      BY DEF Controller!On, Controller!Live
    <3> QED
      BY <1>1, <1>2, <3>1, <3>2 DEF Arranged, CallsSee
  <2>2. ASSUME NEW d \in Call, NEW q \in Place, call'[d].op = "unpublish",
               ~call'[d].abandoned, PlaceOf(d)' = q
        PROVE  /\ call'[d].pc = "detach" => At(q)' \subseteq call'[d].chosen
               /\ call'[d].code = "OK" => At(q)' = {}
    <3>1. CASE d = c
      BY <1>2, <3>1
    <3>2. CASE d # c
      BY <1>1, <1>2, <1>3, <1>4, <2>2, <3>2 DEF Arranged, CallsSee
    <3> QED
      BY <3>1, <3>2
  <2> QED
    BY <2>1, <2>2 DEF CallsSee
<1>8. Controller!Exclusive'
  BY <1>1 DEF Arranged, Controller!Exclusive, Controller!Live
<1>9. DetachedIsDetached'
  BY <1>1, <1>4 DEF Arranged, DetachedIsDetached
<1> QED
  BY <1>1, <1>5, <1>6, <1>7, <1>8, <1>9 DEF Arranged

-----------------------------------------------------------------------------
(***************************************************************************)
(* The CO takes an answer.                                                 *)
(***************************************************************************)

LEMMA HearArranged ==
  ASSUME Inv, NEW c \in Call, Hear(c)
  PROVE  Arranged'
<1>1. /\ call[c].pc = "done" /\ call' = [call EXCEPT ![c] = Controller!NewCall]
      /\ exists' = exists /\ attachments' = Recycled(call')
  BY DEF Hear
<1>2. Arranged /\ exists' = Volume
  BY <1>1, InvParts DEF Arranged
<1>3. /\ \A d \in Call : d # c => call'[d] = call[d]
      /\ call'[c].op = "none" /\ call'[c].pc = "idle"
  <2>1. Controller!NewCall.op = "none" /\ Controller!NewCall.pc = "idle"
    BY DEF Controller!NewCall
  <2> QED
    BY <1>1, <2>1, InvFacts
<1>4. \A d \in Call : d # c => PlaceOf(d)' = PlaceOf(d)
  BY <1>3 DEF PlaceOf
<1>5. \A q \in Place : At(q)' = At(q)
  BY <1>1, RecycledKeeps DEF At, Controller!On, Controller!Live, A!Live
<1>6. call[c].op # "none" /\ call[c].op \in {"publish", "unpublish"}
  BY <1>1, InvFacts DEF A!RecordOK, A!CallState
<1>7. PICK p \in Place : p = PlaceOf(c)
  BY <1>2, <1>6 DEF Arranged, CallsKnown
<1> DEFINE learns == ~call[c].abandoned /\ call[c].code = "OK"
           what == IF call[c].op = "publish" THEN "attached" ELSE "detached"
<1>8. \A q \in Place : known'[q] = IF learns /\ q = p THEN what ELSE known[q]
  BY <1>7, InvParts DEF Hear, PlaceOf, ClusterTypes
\* No other call that the CO waits for is about that place.
<1>9. ASSUME learns, NEW d \in Call, d # c, call[d].op # "none",
             ~call[d].abandoned
      PROVE  PlaceOf(d) # p
  <2> SUFFICES ASSUME PlaceOf(d) = PlaceOf(c) PROVE FALSE
    BY <1>7
  <2>1. /\ call[d].op \in {"publish", "unpublish"}
        /\ call[d].node = call[c].node /\ call[d].volume = call[c].volume
    BY <1>9, InvFacts DEF PlaceOf, A!CallState
  <2>2. call[d].op = call[c].op
    BY <1>2, <1>6, <1>9, <2>1 DEF Arranged, CallsKnown
  <2> QED
    BY <1>2, <1>6, <1>9, <2>1, <2>2 DEF Arranged, CallsApart
<1>10. CallsKnown'
  <2> SUFFICES ASSUME NEW d \in Call, call'[d].op # "none"
               PROVE  /\ PlaceOf(d)' \in Place
                      /\ call'[d].op = "publish" =>
                           /\ ~call'[d].abandoned
                           /\ known'[PlaceOf(d)'] = "attaching"
                      /\ call'[d].op = "unpublish" /\ ~call'[d].abandoned =>
                           known'[PlaceOf(d)'] = "detaching"
    BY DEF CallsKnown
  <2>1. /\ d # c /\ call'[d] = call[d] /\ PlaceOf(d)' = PlaceOf(d)
        /\ PlaceOf(d) \in Place
    BY <1>2, <1>3, <1>4 DEF Arranged, CallsKnown
  <2>2. ~call[d].abandoned => known'[PlaceOf(d)] = known[PlaceOf(d)]
    BY <1>8, <1>9, <2>1
  <2> QED
    BY <1>2, <2>1, <2>2 DEF Arranged, CallsKnown
<1>11. CallsApart'
  <2> SUFFICES ASSUME NEW d \in Call, NEW e \in Call,
                      call'[d].op = call'[e].op,
                      call'[d].volume = call'[e].volume,
                      \/ call'[d].op = "publish"
                      \/ /\ call'[d].op = "unpublish"
                         /\ call'[d].node = call'[e].node
                         /\ ~call'[d].abandoned /\ ~call'[e].abandoned
               PROVE  d = e
    BY DEF CallsApart
  <2>1. d # c /\ e # c
    BY <1>3
  <2> QED
    BY <1>2, <1>3, <2>1 DEF Arranged, CallsApart
<1>12. CallsSee'
  <2>1. \A d \in Call : call'[d].pc = "create" =>
          Controller!On(call[d].volume)' = {}
    <3>1. \A d \in Call : call'[d].pc = "create" =>
            call'[d] = call[d] /\ Controller!On(call[d].volume) = {}
      BY <1>2, <1>3 DEF Arranged, CallsSee
    <3>2. \A d \in Call : call'[d] = call[d] =>
            Controller!On(call[d].volume)' = Controller!On(call[d].volume)
      BY <1>1, RecycledKeeps DEF Controller!On, Controller!Live, A!Live
    <3> QED
      BY <3>1, <3>2
  <2>2. ASSUME NEW d \in Call, NEW q \in Place, call'[d].op = "unpublish",
               ~call'[d].abandoned, PlaceOf(d)' = q
        PROVE  /\ call'[d].pc = "detach" => At(q)' \subseteq call'[d].chosen
               /\ call'[d].code = "OK" => At(q)' = {}
    BY <1>2, <1>3, <1>4, <1>5, <2>2 DEF Arranged, CallsSee
  <2> QED
    BY <2>1, <2>2 DEF CallsSee
<1>13. Controller!Exclusive'
  BY <1>1, <1>2, RecycledKeeps
     DEF Arranged, Controller!Exclusive, Controller!Live, A!Live
<1>14. DetachedIsDetached'
  <2>1. learns /\ what = "detached" => At(p) = {}
    BY <1>2, <1>6, <1>7 DEF Arranged, CallsSee
  <2> QED
    BY <1>2, <1>5, <1>8, <2>1 DEF Arranged, DetachedIsDetached
<1> QED
  BY <1>2, <1>10, <1>11, <1>12, <1>13, <1>14 DEF Arranged

-----------------------------------------------------------------------------
(***************************************************************************)
(* Nodes and faults.                                                       *)
(***************************************************************************)

\* What is in use stays so as long as busy attachments are left alone.
LEMMA UseKept ==
  ASSUME Inv, \A p \in Place : use'[p] # "free" => use[p] # "free",
         \A a \in AttachmentId : attachments[a].state = "busy" =>
           attachments'[a] = attachments[a]
  PROVE  InUseIsBusy'
<1> SUFFICES ASSUME NEW p \in Place, use'[p] # "free"
             PROVE  \E a \in At(p)' : attachments'[a].state = "busy"
  BY DEF InUseIsBusy
<1>1. use[p] # "free"
  OBVIOUS
<1>2. PICK a \in At(p) : attachments[a].state = "busy"
  BY <1>1, InvParts DEF InUseIsBusy
<1>3. a \in AttachmentId /\ attachments'[a] = attachments[a]
  BY <1>2 DEF At, Controller!On
<1>4. a \in At(p)'
  BY <1>2, <1>3, AtPlace DEF A!Live
<1> QED
  BY <1>2, <1>3, <1>4

LEMMA ArrangedSame ==
  ASSUME Inv, UNCHANGED <<controller, known>>
  PROVE  Arranged'
<1>1. Quiet
  BY DEF Quiet, controller, A!Live
<1> QED
  BY <1>1, ArrangedQuiet

LEMMA ArrangedSessions ==
  ASSUME Inv, Sessions, UNCHANGED known
  PROVE  Arranged'
<1>1. Quiet
  BY DEF Quiet, Sessions, A!Live
<1> QED
  BY <1>1, ArrangedQuiet

LEMMA ConnectInv ==
  ASSUME Inv, NEW p \in Place, Connect(p) \/ Disconnect(p)
  PROVE  Arranged' /\ InUseIsBusy'
<1>1. Sessions /\ UNCHANGED known
  BY ConnectSessions, InvParts
<1>2. PICK a \in AttachmentId :
        /\ A!Live(a)' /\ a \in At(p)
        /\ attachments'[a].volume = attachments[a].volume
        /\ attachments'[a].node = attachments[a].node
        /\ Connect(p) => attachments'[a].state = "busy"
        /\ \A b \in AttachmentId : b # a => attachments'[b] = attachments[b]
  BY ConnectSessions, InvParts
<1>3. ASSUME NEW q \in Place, q # p, use'[q] # "free"
      PROVE  \E b \in At(q)' : attachments'[b].state = "busy"
  <2>1. use'[q] = use[q]
    BY <1>3, InvParts DEF Connect, Disconnect, Kubelet!Connect,
       Kubelet!Disconnect, Kubelet!Become, ClusterTypes, Kubelet!TypeOK
  <2>2. PICK b \in At(q) : attachments[b].state = "busy"
    BY <1>3, <2>1, InvParts DEF InUseIsBusy
  <2>3. b \in AttachmentId /\ attachments'[b] = attachments[b]
    <3>1. p = <<p[1], p[2]>> /\ q = <<q[1], q[2]>>
      BY DEF Place
    <3>2. b \in AttachmentId /\ b # a
      BY <1>2, <1>3, <2>2, <3>1, AtPlace DEF At, Controller!On
    <3> QED
      BY <1>2, <3>2
  <2>4. b \in At(q)'
    BY <2>2, <2>3, AtPlace DEF A!Live
  <2> QED
    BY <2>2, <2>3, <2>4
<1>4. ASSUME use'[p] # "free"
      PROVE  \E b \in At(p)' : attachments'[b].state = "busy"
  <2>1. Connect(p)
    BY <1>4, InvParts DEF Disconnect, Kubelet!Disconnect, Kubelet!Become,
       ClusterTypes, Kubelet!TypeOK
  <2>2. a \in At(p)'
    BY <1>2, AtPlace
  <2> QED
    BY <1>2, <2>1, <2>2
<1>5. InUseIsBusy'
  BY <1>3, <1>4 DEF InUseIsBusy
<1> QED
  BY <1>1, <1>5, ArrangedSessions

LEMMA NodeRestartInv ==
  ASSUME Inv, NEW n \in Node, NodeRestart(n)
  PROVE  Arranged' /\ InUseIsBusy'
<1>1. /\ Sessions /\ UNCHANGED known
      /\ \A a \in AttachmentId :
           attachments[a].node # n => attachments'[a] = attachments[a]
  BY RestartSessions, InvParts
<1>2. ASSUME NEW q \in Place, use'[q] # "free"
      PROVE  \E b \in At(q)' : attachments'[b].state = "busy"
  <2>1. q[1] # n /\ use[q] # "free"
    <3>1. use' = [p \in Place |-> IF p \in {n} \X Volume THEN "free"
                                  ELSE use[p]]
      BY DEF NodeRestart, Kubelet!Restart
    <3> QED
      BY <1>2, <3>1 DEF Place
  <2>2. PICK b \in At(q) : attachments[b].state = "busy"
    BY <2>1, InvParts DEF InUseIsBusy
  <2>3. b \in AttachmentId /\ attachments[b].node = q[1]
    BY <2>2 DEF At, Controller!On
  <2>4. attachments'[b] = attachments[b]
    BY <1>1, <2>1, <2>3
  <2>5. b \in At(q)'
    BY <2>2, <2>3, <2>4, AtPlace DEF A!Live
  <2> QED
    BY <2>2, <2>4, <2>5
<1>3. InUseIsBusy'
  BY <1>2 DEF InUseIsBusy
<1> QED
  BY <1>1, <1>3, ArrangedSessions

LEMMA GiveUpInv ==
  ASSUME "publish" \notin GivenUp, Inv, NEW c \in Call, GiveUp(c)
  PROVE  Arranged'
<1>1. A!TimeOut(c) /\ UNCHANGED <<attachments, exists, known>>
  BY TimeOutSame DEF GiveUp, A!TimeOut
<1>3. PICK k \in A!CallState :
        /\ call' = [call EXCEPT ![c] = k]
        /\ k.op = call[c].op /\ k.pc = call[c].pc /\ k.code = call[c].code
        /\ k.volume = call[c].volume /\ k.node = call[c].node
        /\ k.chosen = call[c].chosen /\ k.abandoned /\ k.op \in GivenUp
  <2>1. \E k \in A!CallState :
          /\ call' = [call EXCEPT ![c] = k] /\ A!Bounded(k)
          /\ k.op = call[c].op /\ k.pc = call[c].pc /\ k.code = call[c].code
          /\ k.volume = call[c].volume /\ k.node = call[c].node
          /\ A!SameWork(k, call[c])
          /\ k.abandoned /\ k.op \in GivenUp
    BY <1>1, A!TimeOutRecord, ControllerAssumption, InvFacts
  <2> QED
    BY <2>1 DEF A!SameWork
<1>4. call'[c] = k /\ \A d \in Call : d # c => call'[d] = call[d]
  BY <1>3, InvFacts
<1>5. Quiet
  <2>1. k.op # "publish"
    BY <1>3
  <2> QED
    BY <1>1, <1>3, <1>4, <2>1 DEF Quiet, A!Live
<1> QED
  BY <1>5, ArrangedQuiet

LEMMA CrashInv ==
  ASSUME Inv, Crash
  PROVE  Arranged'
<1>1. A!Crash /\ UNCHANGED <<attachments, exists, known>>
  BY CrashSame DEF Crash, A!Crash
<1>3. ASSUME NEW d \in Call
      PROVE  /\ call'[d].op = call[d].op /\ call'[d].volume = call[d].volume
             /\ call'[d].node = call[d].node
             /\ call'[d].chosen = call[d].chosen
             /\ call'[d].abandoned = call[d].abandoned
             /\ call'[d].pc \in {"idle", "done"}
             /\ call'[d].code = "OK" => call[d].code = "OK"
  BY <1>1, A!CrashRecord, ControllerAssumption, InvFacts DEF A!SameWork
<1>4. Quiet
  BY <1>1, <1>3 DEF Quiet, A!Live
<1> QED
  BY <1>4, ArrangedQuiet

\* A step of a handler, whether a request fails or not.
LEMMA HandlerInv ==
  ASSUME Inv, NEW c \in Call, Handler(c) \/ RequestFails(c)
  PROVE  Arranged' /\ InUseIsBusy'
<1>1. A!Step(c) /\ known' = known /\ use' = use
  BY HandlerSteps DEF Handler, RequestFails, nodes
<1>2. PICK k : A!Effect(c, k)
  BY <1>1, StepEffect, InvParts
<1>3. Arranged'
  BY <1>1, <1>2, ArrangedEffect
<1>4. InUseIsBusy'
  BY <1>1, BusyStays, UseKept
<1> QED
  BY <1>3, <1>4

LEMMA CallInv ==
  ASSUME Inv, NEW c \in Call, NEW p \in Place,
         CallPublish(c, p) \/ CallUnpublish(c, p)
  PROVE  Arranged' /\ InUseIsBusy'
<1>1. Arranged
  BY InvParts
<1>2. p[1] \in Node /\ p[2] \in Volume /\ p = <<p[1], p[2]>>
  BY DEF Place
<1>3. CASE CallPublish(c, p)
  <2>1. /\ A!Begin(c, "publish", p[2], p[1], "OK", "get")
        /\ known[p] \in {"detached", "attaching"}
        /\ \A n \in Node : ~Awaits("publish", p[2], n)
        /\ known' = [known EXCEPT ![p] = "attaching"] /\ use' = use
    BY <1>3, CallBegins DEF CallPublish, nodes
  <2>2. \E k : A!Begun(c, k, "publish", p[2], p[1], "OK", "get")
    BY <2>1, CallGood, InvParts
  <2>3. ASSUME NEW d \in Call, call[d].op = "publish"
        PROVE  call[d].volume # p[2]
    <3>1. ~call[d].abandoned /\ PlaceOf(d) \in Place
      BY <1>1, <2>3 DEF Arranged, CallsKnown
    <3>2. call[d].node \in Node
      BY <3>1 DEF PlaceOf, Place
    <3> QED
      BY <2>1, <2>3, <3>1, <3>2 DEF Awaits
  <2>4. ASSUME NEW d \in Call, call[d].op # "none", ~call[d].abandoned
        PROVE  PlaceOf(d) # p
    <3>1. CASE call[d].op = "publish"
      BY <1>2, <2>3, <3>1 DEF PlaceOf
    <3>2. CASE call[d].op = "unpublish"
      BY <1>1, <2>1, <2>4, <3>2 DEF Arranged, CallsKnown
    <3> QED
      BY <2>4, <3>1, <3>2, InvFacts DEF A!CallState
  <2>5. UNCHANGED <<attachments, exists>>
    BY <2>1 DEF A!Begin
  <2>6. Arranged'
    BY <2>1, <2>2, <2>3, <2>4, <2>5, ArrangedCall
  <2>7. InUseIsBusy'
    BY <2>1, <2>5, UseKept
  <2> QED
    BY <2>6, <2>7
<1>4. CASE CallUnpublish(c, p)
  <2>1. /\ A!Begin(c, "unpublish", p[2], p[1], "OK", "select")
        /\ \A op \in {"publish", "unpublish"} : ~Awaits(op, p[2], p[1])
        /\ known' = [known EXCEPT ![p] = "detaching"] /\ use' = use
    BY <1>4, CallBegins DEF CallUnpublish, nodes
  <2>2. \E k : A!Begun(c, k, "unpublish", p[2], p[1], "OK", "select")
    BY <2>1, CallGood, InvParts
  <2>3. ASSUME NEW d \in Call, call[d].op # "none", ~call[d].abandoned
        PROVE  PlaceOf(d) # p
    <3>1. call[d].op \in {"publish", "unpublish"}
      BY <2>3, InvFacts DEF A!CallState
    <3> QED
      BY <1>2, <2>1, <2>3, <3>1 DEF PlaceOf, Awaits
  <2>4. UNCHANGED <<attachments, exists>>
    BY <2>1 DEF A!Begin
  <2>5. Arranged'
    BY <2>1, <2>2, <2>3, <2>4, ArrangedCall
  <2>6. InUseIsBusy'
    BY <2>1, <2>4, UseKept
  <2> QED
    BY <2>5, <2>6
<1> QED
  BY <1>3, <1>4

LEMMA HearInv ==
  ASSUME Inv, NEW c \in Call, Hear(c)
  PROVE  Arranged' /\ InUseIsBusy'
<1>1. attachments' = Recycled(call') /\ use' = use
  BY DEF Hear, nodes
<1>2. InUseIsBusy'
  BY <1>1, UseKept, RecycledKeeps DEF A!Live
<1> QED
  BY <1>2, HearGood, HearArranged

\* The kubelets' own steps, and those that only the CO or a node sees.
LEMMA ElsewhereInv ==
  ASSUME Inv,
         \/ \E v \in Volume, n \in Node : Move(v, n)
         \/ \E p \in Place : \/ CallStage(p) \/ CallUnstage(p) \/ OnNode(p)
                              \/ Overlook(p)
         \/ \E n \in Node : NodeHangs(n)
  PROVE  Arranged' /\ InUseIsBusy'
<1>1. UNCHANGED <<controller, known>>
  BY DEF Move, CallStage, CallUnstage, OnNode, NodeHangs, Overlook
<1>2. ASSUME NEW p \in Place, use'[p] # "free"
      PROVE  use[p] # "free"
  <2>1. use \in [Place -> {"free", "connected", "mounted"}]
    BY InvParts DEF ClusterTypes, Kubelet!TypeOK
  <2>2. CASE UNCHANGED use
    BY <1>2, <2>2
  <2>3. ASSUME NEW q \in Place, OnNode(q)
        PROVE  use[p] # "free"
    BY <1>2, <2>1, <2>3 DEF OnNode, Kubelet!Mount, Kubelet!Unmount,
       Kubelet!Become, Kubelet!AnswerStaged, Kubelet!Notice, Kubelet!Notices,
       Kubelet!AnswerUnstaged
  <2> QED
    BY <2>2, <2>3 DEF Move, CallStage, CallUnstage, NodeHangs, Overlook, nodes,
       Kubelet!Begin, Kubelet!Overlook, Kubelet!Notices
<1>3. InUseIsBusy'
  BY <1>1, <1>2, UseKept DEF controller
<1> QED
  BY <1>1, <1>3, ArrangedSame

-----------------------------------------------------------------------------
(***************************************************************************)
(* The theorems.                                                           *)
(***************************************************************************)

LEMMA InvNext ==
  ASSUME "publish" \notin GivenUp, Inv, [Next]_vars
  PROVE  Inv'
<1>1. A!Good' /\ ClusterTypes'
  BY InvParts, GoodNext, TypesNext
<1>2. ASSUME NEW c \in Call, GiveUp(c)
      PROVE  Arranged' /\ InUseIsBusy'
  <2>1. use' = use /\ attachments' = attachments
    BY <1>2 DEF GiveUp, nodes, Controller!TimeOut
  <2> QED
    BY <1>2, <2>1, GiveUpInv, UseKept
<1>3. CASE Crash
  <2>1. use' = use /\ attachments' = attachments
    BY <1>3 DEF Crash, nodes, Controller!Crash
  <2> QED
    BY <1>1, <1>3, <2>1, CrashInv, UseKept, InvParts
<1>4. CASE UNCHANGED vars
  <2>1. UNCHANGED <<controller, known>> /\ use' = use
        /\ attachments' = attachments
    BY <1>4 DEF vars, nodes, controller
  <2> QED
    BY <1>1, <2>1, ArrangedSame, UseKept, InvParts
<1>5. Arranged' /\ InUseIsBusy'
  BY <1>2, <1>3, <1>4, ElsewhereInv, CallInv, HearInv, HandlerInv, ConnectInv,
     NodeRestartInv, InvParts DEF Next
<1> QED
  BY <1>1, <1>5, InvParts

LEMMA InvInit == Init => Inv
<1> SUFFICES ASSUME Init PROVE Inv
  OBVIOUS
<1>1. PICK v \in Volume : attachments = [Controller!NoneAttached EXCEPT
        ![FirstId] = [state |-> "idle", volume |-> v, node |-> Home]]
  BY DEF Init
<1>2. \A c \in Call : call[c].op = "none" /\ call[c].pc = "idle"
  BY DEF Init, Controller!Init, Controller!NewCall
<1>3. \A a \in AttachmentId : A!Live(a) => a = FirstId
  <2>1. \A a \in AttachmentId : Controller!NoneAttached[a].state = "free"
    BY DEF Controller!NoneAttached, Controller!FreeAttachment
  <2>2. \A a \in AttachmentId : a # FirstId => attachments[a].state = "free"
    BY <1>1, <2>1 DEF Controller!NoneAttached
  <2> QED
    BY <2>2 DEF A!Live
<1>4. Arranged
  <2>1. exists = Volume
    BY DEF Init, Controller!Init
  <2>2. CallsKnown /\ CallsApart
    BY <1>2 DEF CallsKnown, CallsApart
  <2>3. CallsSee
    BY <1>2 DEF CallsSee
  <2>4. Controller!Exclusive
    BY <1>3 DEF Controller!Exclusive, Controller!Live, A!Live
  <2>5. DetachedIsDetached
    BY DEF Init, DetachedIsDetached
  <2> QED
    BY <2>1, <2>2, <2>3, <2>4, <2>5 DEF Arranged
<1>5. InUseIsBusy
  BY DEF Init, Kubelet!Init, InUseIsBusy
<1> QED
  BY <1>4, <1>5, GoodInit, InvParts

LEMMA InvAlways ==
  ASSUME "publish" \notin GivenUp
  PROVE  Spec => []Inv
<1>1. Inv /\ [Next]_vars => Inv'
  BY InvNext
<1> QED
  BY InvInit, <1>1, PTL DEF Spec

\* A volume is never in use at two nodes (provider.go:162-168,
\* controller.go:364-383): what is in use is attached to its node, and no volume
\* is attached twice.
THEOREM OneNodeHolds ==
  ASSUME "publish" \notin GivenUp
  PROVE  Spec => []OneNode
<1>1. ASSUME Inv, NEW p \in Place, NEW q \in Place, p[2] = q[2],
             use[p] # "free", use[q] # "free"
      PROVE  p = q
  <2>1. PICK a \in At(p) : attachments[a].state = "busy"
    BY <1>1, InvParts DEF InUseIsBusy
  <2>2. PICK b \in At(q) : attachments[b].state = "busy"
    BY <1>1, InvParts DEF InUseIsBusy
  <2>3. /\ a \in AttachmentId /\ A!Live(a) /\ attachments[a].volume = p[2]
        /\ attachments[a].node = p[1]
        /\ b \in AttachmentId /\ A!Live(b) /\ attachments[b].volume = q[2]
        /\ attachments[b].node = q[1]
    BY <2>1, <2>2 DEF At, Controller!On, Controller!Live, A!Live
  <2>4. a = b
    BY <1>1, <2>3, InvParts
       DEF Arranged, Controller!Exclusive, Controller!Live, A!Live
  <2>5. p = <<p[1], p[2]>> /\ q = <<q[1], q[2]>>
    BY DEF Place
  <2> QED
    BY <1>1, <2>3, <2>4, <2>5
<1>2. Inv => OneNode
  BY <1>1 DEF OneNode
<1> QED
  BY InvAlways, <1>2, PTL

\* What the CO believes detached is detached (controller.go:314-398).
THEOREM DetachedIsDetachedHolds ==
  ASSUME "publish" \notin GivenUp
  PROVE  Spec => []DetachedIsDetached
<1>1. Inv => DetachedIsDetached
  BY InvParts DEF Arranged
<1> QED
  BY InvAlways, <1>1, PTL

=============================================================================
