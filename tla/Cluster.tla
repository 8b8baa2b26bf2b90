------------------------------- MODULE Cluster -------------------------------
(***************************************************************************)
(* Controller and nodes together.  The handlers of Attachment run beside   *)
(* nodes that keep NodePromise; they meet in the provider's attachments,   *)
(* and the container orchestrator (CO) moves a pod, and with it the volume *)
(* it uses, from node to node.  Its calls recur: a record is free for the  *)
(* next call once its answer has been taken.                               *)
(*                                                                         *)
(* The CO does not wait for a node to let go of a volume before it calls   *)
(* Unpublish, nor for Unpublish before it calls Publish for another node:  *)
(* it leaves it to the driver to refuse.                                   *)
(***************************************************************************)
EXTENDS Naturals

CONSTANTS
  Call, Volume, NoVolume, Node, NoNode, AttachmentId, NoAttachment,
  AttachMaxRetries, DetachMaxRetries, WrongDeviceByPointer, Serial, GivenUp,
  Faults,       \* see Attachment
  Home,         \* the node of the first pod
  MaxMoves,     \* bound on the moves of pods
  MaxFaults     \* bound on failing requests, crashes, restarts and timeouts

\* What Attachment assumes of its constants.
ASSUME ControllerAssumption ==
  /\ NoVolume \notin Volume /\ NoNode \notin Node
  /\ NoAttachment \notin AttachmentId
  /\ AttachMaxRetries \in Nat /\ DetachMaxRetries \in Nat
  /\ WrongDeviceByPointer \in BOOLEAN /\ Serial \in BOOLEAN
  /\ GivenUp \subseteq {"publish", "unpublish"}
  /\ Faults \subseteq {"error", "lost"}
ASSUME ClusterAssumption ==
  Home \in Node /\ MaxMoves \in Nat /\ MaxFaults \in Nat

VARIABLES
  call, attachments, exists,  \* see Attachment
  use, told, left,            \* see NodePromise
  staging,  \* the places whose last call was Stage and not Unstage
  known,    \* what the CO has been told of each place
  want,     \* the node at which each volume is wanted
  hung,     \* the nodes that do nothing until they restart
  moves, faults

Place == Node \X Volume

Controller == INSTANCE Attachment
Kubelet == INSTANCE NodePromise
             WITH Machine <- {{n} \X Volume : n \in Node}

controller == <<call, attachments, exists>>
nodes == <<use, told, left, staging, hung>>
counters == <<moves, faults>>
vars == <<controller, nodes, known, want, counters>>

-----------------------------------------------------------------------------
TypeOK ==
  /\ Controller!TypeOK
  /\ Kubelet!TypeOK
  /\ staging \subseteq Place
  /\ hung \subseteq Node
  /\ known \in [Place -> {"detached", "attaching", "attached", "detaching"}]
  /\ want \in [Volume -> Node \cup {NoNode}]
  /\ moves \in 0 .. MaxMoves
  /\ faults \in 0 .. MaxFaults

\* The live attachments that make up a place.
At(p) == {a \in Controller!On(p[2]) : attachments[a].node = p[1]}

\* Any one of the IDs, which are all alike.
FirstId == CHOOSE a \in AttachmentId : TRUE

\* The CO has had one volume attached for a pod, and has not staged it yet.
Init == /\ Controller!Init
        /\ \E v \in Volume :
             attachments = [Controller!NoneAttached EXCEPT ![FirstId] =
               [state |-> "idle", volume |-> v, node |-> Home]]
        /\ Kubelet!Init
        /\ staging = {} /\ hung = {}
        /\ known = [p \in Place |-> IF At(p) # {} THEN "attached" ELSE "detached"]
        /\ want = [v \in Volume |-> IF At(<<Home, v>>) # {} THEN Home ELSE NoNode]
        /\ moves = 0 /\ faults = 0

\* The CO waits for the answer to such a call, or has yet to take it.
Awaits(op, v, n) ==
  \E c \in Call : /\ call[c].op = op /\ ~call[c].abandoned
                  /\ call[c].volume = v /\ call[c].node = n

-----------------------------------------------------------------------------
(***************************************************************************)
(* The CO.                                                                 *)
(***************************************************************************)

Move(v, n) ==
  /\ moves < MaxMoves /\ moves' = moves + 1
  /\ n # want[v]
  /\ want' = [want EXCEPT ![v] = n]
  /\ UNCHANGED <<controller, nodes, known, faults>>

\* One Publish at a time for a volume, to whatever node.
CallPublish(c, p) ==
  /\ want[p[2]] = p[1]
  /\ known[p] \in {"detached", "attaching"}
  /\ \A n \in Node : ~Awaits("publish", p[2], n)
  /\ Controller!CallPublish(c, TRUE, p[2], p[1], TRUE)
  /\ known' = [known EXCEPT ![p] = "attaching"]
  /\ UNCHANGED <<nodes, want, counters>>

\* Unpublish, which is repeated until it is answered OK; not while the CO awaits
\* the answer to a Publish for that node.
CallUnpublish(c, p) ==
  /\ \/ want[p[2]] # p[1] /\ known[p] \in {"attaching", "attached"}
     \/ known[p] = "detaching"
  /\ \A op \in {"publish", "unpublish"} : ~Awaits(op, p[2], p[1])
  /\ Controller!CallUnpublish(c, TRUE, p[2], p[1])
  /\ known' = [known EXCEPT ![p] = "detaching"]
  /\ UNCHANGED <<nodes, want, counters>>

\* The IDs of attachments that are gone stand for new ones once no call refers
\* to them.
Recycled(calls) ==
  [a \in AttachmentId |->
     IF /\ attachments[a].state = "gone"
        /\ \A c \in Call : calls[c].id # a /\ a \notin calls[c].chosen
     THEN Controller!FreeAttachment ELSE attachments[a]]

\* The CO takes an answer: one that is not OK tells it nothing.
Hear(c) ==
  LET p == <<call[c].node, call[c].volume>> IN
  /\ call[c].pc = "done"
  /\ call' = [call EXCEPT ![c] = Controller!NewCall]
  /\ known' = IF call[c].abandoned \/ call[c].code # "OK" THEN known
              ELSE [known EXCEPT ![p] = IF call[c].op = "publish"
                                        THEN "attached" ELSE "detached"]
  /\ attachments' = Recycled(call')
  /\ UNCHANGED <<exists, nodes, want, counters>>

-----------------------------------------------------------------------------
(***************************************************************************)
(* The kubelets, and the sessions that the provider sees.                  *)
(***************************************************************************)

Up(p) == p[1] \notin hung

CallStage(p) ==
  /\ Up(p) /\ want[p[2]] = p[1] /\ known[p] = "attached" /\ p \notin staging
  /\ staging' = staging \cup {p}
  /\ Kubelet!Begin(p)
  /\ UNCHANGED <<controller, hung, known, want, counters>>

CallUnstage(p) ==
  /\ Up(p) /\ want[p[2]] # p[1] /\ p \in staging
  /\ staging' = staging \ {p}
  /\ Kubelet!Begin(p)
  /\ UNCHANGED <<controller, hung, known, want, counters>>

\* The first login, for which the volume has to be attached.
Connect(p) ==
  /\ Up(p) /\ p \in staging
  /\ Kubelet!Connect(p)
  /\ \E a \in At(p) : Controller!Login(a)
  /\ UNCHANGED <<staging, hung, known, want, counters>>

\* The last logout.
Disconnect(p) ==
  /\ Up(p) /\ p \notin staging
  /\ Kubelet!Disconnect(p)
  /\ \E a \in At(p) : Controller!Logout(a)
  /\ UNCHANGED <<staging, hung, known, want, counters>>

\* Mount and unmount, and the answers to Stage and Unstage.
OnNode(p) ==
  /\ Up(p)
  /\ \/ p \in staging /\ (Kubelet!Mount(p) \/ Kubelet!AnswerStaged(p))
     \/ /\ p \notin staging
        /\ \/ Kubelet!Unmount(p) \/ Kubelet!Notice(p)
           \/ Kubelet!AnswerUnstaged(p)
  /\ UNCHANGED <<controller, staging, hung, known, want, counters>>

-----------------------------------------------------------------------------
(***************************************************************************)
(* Faults.                                                                 *)
(***************************************************************************)

Fault == faults < MaxFaults /\ faults' = faults + 1

\* A request to the provider fails, or its answer is lost.
RequestFails(c) ==
  /\ Fault
  /\ \/ Controller!PublishFails(c) \/ Controller!CreateAttachmentLost(c)
     \/ Controller!SelectFails(c) \/ Controller!DetachFails(c)
     \/ Controller!DetachLost(c)
  /\ UNCHANGED <<nodes, known, want, moves>>

GiveUp(c) ==
  /\ Fault
  /\ Controller!TimeOut(c)
  /\ UNCHANGED <<nodes, known, want, moves>>

Crash ==
  /\ Fault
  /\ Controller!Crash
  /\ UNCHANGED <<nodes, known, want, moves>>

\* A node restarts: its sessions are gone, and the provider sees that.
NodeRestart(n) ==
  /\ Fault
  /\ Kubelet!Restart({n} \X Volume)
  /\ attachments' = [a \in AttachmentId |->
       IF attachments[a].state = "busy" /\ attachments[a].node = n
       THEN [attachments[a] EXCEPT !.state = "idle"] ELSE attachments[a]]
  /\ hung' = hung \ {n}
  /\ UNCHANGED <<call, exists, staging, known, want, moves>>

NodeHangs(n) ==
  /\ Fault
  /\ hung' = hung \cup {n}
  /\ UNCHANGED <<controller, use, told, left, staging, known, want, moves>>

\* An Unstage cannot read the list of sessions, and passes over one.
Overlook(p) ==
  /\ Fault
  /\ Up(p) /\ p \notin staging
  /\ Kubelet!Overlook(p)
  /\ UNCHANGED <<controller, staging, hung, known, want, moves>>

-----------------------------------------------------------------------------
Handler(c) ==
  /\ Controller!Progress(c)
  /\ UNCHANGED <<nodes, known, want, counters>>

Next ==
  \/ \E v \in Volume, n \in Node : Move(v, n)
  \/ \E c \in Call, p \in Place : CallPublish(c, p) \/ CallUnpublish(c, p)
  \/ \E c \in Call : Hear(c) \/ Handler(c) \/ RequestFails(c) \/ GiveUp(c)
  \/ \E p \in Place : \/ CallStage(p) \/ CallUnstage(p)
                      \/ Connect(p) \/ Disconnect(p) \/ OnNode(p)
                      \/ Overlook(p)
  \/ \E n \in Node : NodeRestart(n) \/ NodeHangs(n)
  \/ Crash

Spec == Init /\ [][Next]_vars

\* Handlers go on, the CO repeats its calls and takes their answers, and the
\* kubelets do too; nobody has to move a pod, and nothing has to fail.
FairSpec ==
  /\ Spec
  /\ \A c \in Call : WF_vars(Handler(c)) /\ WF_vars(Hear(c))
  /\ \A p \in Place :
       /\ WF_vars(\E c \in Call : CallPublish(c, p))
       /\ WF_vars(\E c \in Call : CallUnpublish(c, p))
       /\ WF_vars(CallStage(p) \/ CallUnstage(p))
       /\ WF_vars(Connect(p) \/ Disconnect(p) \/ OnNode(p))

-----------------------------------------------------------------------------
(***************************************************************************)
(* The properties.                                                         *)
(***************************************************************************)

\* A volume is never in use at two nodes, though the CO asks for it at the next
\* node before the last has let go (provider.go:162-168, controller.go:364-383).
OneNode ==
  \A p, q \in Place : p[2] = q[2] /\ use[p] # "free" /\ use[q] # "free" => p = q

\* What the CO believes detached is detached: no answer to Unpublish, whatever
\* failed, was given up or was lost before it, leaves an attachment behind that
\* nobody will ask to be detached (controller.go:314-398).
DetachedIsDetached == \A p \in Place : known[p] = "detached" => At(p) = {}

\* Every call is answered, one whose volume stays in use included
\* (controller.go:359-385).
EveryCallAnswered == \A c \in Call : []<>~Controller!Running(c)

\* An attachment is gone and the CO does not know: its Unpublish fails each time
\* it is repeated (controller.go:322, 347), or its Stage does.
Astray(p) ==
  /\ known[p] \in {"attached", "detaching"} /\ At(p) = {}
  /\ \A c \in Call : call[c].op = "unpublish" => call[c].chosen = {}

\* The volume is in use where it is wanted and nowhere else.
Arrived(v) ==
  \A n \in Node : use[<<n, v>>] = IF n = want[v] THEN "mounted" ELSE "free"

\* A volume gets to where it is wanted after the last move: the rounds of
\* Unpublish and the refusals of Publish always leave the CO something to repeat
\* that helps (controller.go:264-286, 359-398), save when an attachment has gone
\* astray, a node hangs, or an Unstage has left a session behind that keeps the
\* volume busy (attacher.go:134-136).
ReachesNode ==
  \A v \in Volume :
    []<>(\/ Arrived(v) \/ hung # {}
         \/ \E p \in Place : p[2] = v /\ (Astray(p) \/ p \in left))
-----------------------------------------------------------------------------
(***************************************************************************)
(* The invariants that the properties rest on.                             *)
(***************************************************************************)

PlaceOf(c) == <<call[c].node, call[c].volume>>

\* Each call is about a place, and what the CO knows of it says which call it is
\* that it waits for.
CallsKnown ==
  \A c \in Call : call[c].op # "none" =>
    /\ PlaceOf(c) \in Place
    /\ call[c].op = "publish" =>
         ~call[c].abandoned /\ known[PlaceOf(c)] = "attaching"
    /\ call[c].op = "unpublish" /\ ~call[c].abandoned =>
         known[PlaceOf(c)] = "detaching"

\* One Publish for a volume, and one Unpublish for a place that the CO waits for.
CallsApart ==
  \A c, d \in Call :
    /\ call[c].op = call[d].op /\ call[c].volume = call[d].volume
    /\ \/ call[c].op = "publish"
       \/ /\ call[c].op = "unpublish" /\ call[c].node = call[d].node
          /\ ~call[c].abandoned /\ ~call[d].abandoned
    => c = d

\* What the calls saw of the attachments is still so.
CallsSee ==
  /\ \A c \in Call : call[c].pc = "create" =>
       Controller!On(call[c].volume) = {}
  /\ \A c \in Call, p \in Place :
       /\ call[c].op = "unpublish" /\ ~call[c].abandoned
       /\ PlaceOf(c) = p
       => /\ call[c].pc = "detach" => At(p) \subseteq call[c].chosen
          /\ call[c].code = "OK" => At(p) = {}

\* A volume that is in use is attached, and the provider knows of the use.
InUseIsBusy ==
  \A p \in Place : use[p] # "free" =>
    \E a \in At(p) : attachments[a].state = "busy"

ClusterInv ==
  /\ Controller!Consistent /\ exists = Volume
  /\ CallsKnown /\ CallsApart /\ CallsSee
  /\ Controller!Exclusive /\ InUseIsBusy /\ DetachedIsDetached
=============================================================================
