----------------------------- MODULE Attachment -----------------------------
(***************************************************************************)
(* The controller service's ControllerPublishVolume and                    *)
(* ControllerUnpublishVolume handlers, the Attach and Detach of the        *)
(* provider wrapper beneath them, the provider's attachments, and the      *)
(* container orchestrator (CO) that calls.                                 *)
(*                                                                         *)
(* A handler's atomic steps are its requests to the provider's API, each   *)
(* with the code up to the next one.  The order in which a round of detach *)
(* requests goes through its attachments is left open; DetachLoop models   *)
(* the slices that hold them.                                              *)
(***************************************************************************)
EXTENDS Naturals

CONSTANTS
  Call,                       \* the calls the CO ever makes
  Volume, NoVolume,           \* provider volumes; the empty volume ID
  Node, NoNode,               \* nodes (provider devices); the empty node ID
  AttachmentId, NoAttachment, \* IDs the provider hands out, each at most once
  AttachMaxRetries,
  DetachMaxRetries,
  WrongDeviceByPointer,       \* does Attach return its error as the pointer
                              \* that IsWrongDeviceAttachment looks for?
  Serial,                     \* one call per volume, or per volume and node
  GivenUp,                    \* the calls that the CO may give up on, to make
                              \* them again while the handler runs on
  Faults                      \* the faults of the provider's API that occur

ASSUME NoneAssumption == /\ NoVolume \notin Volume
                         /\ NoNode \notin Node
                         /\ NoAttachment \notin AttachmentId
ASSUME RetriesAssumption == /\ AttachMaxRetries \in Nat
                            /\ DetachMaxRetries \in Nat
ASSUME SwitchAssumption == /\ WrongDeviceByPointer \in BOOLEAN
                           /\ Serial \in BOOLEAN
ASSUME GivenUpAssumption == GivenUp \subseteq {"publish", "unpublish"}
ASSUME FaultsAssumption == Faults \subseteq {"error", "lost"}

VARIABLES
  call,         \* the state of each call, its answer included
  attachments,  \* the provider's attachments, by ID
  exists        \* the volumes that the provider still has

vars == <<call, attachments, exists>>

-----------------------------------------------------------------------------
\* An attachment is idle until the node logs in to the volume, busy until it
\* logs out, and gone once it is deleted.
Attachment == [state : {"free", "idle", "busy", "gone"},
               volume : Volume \cup {NoVolume}, node : Node \cup {NoNode}]

Code == {"none", "OK", "Internal", "InvalidArgument", "NotFound", "Unknown",
         "Lost"}

CallState ==
  [op : {"none", "publish", "unpublish"},
   pc : {"idle", "get", "precheck", "create", "fetch", "select", "detach",
         "done"},
   volume : Volume \cup {NoVolume}, node : Node \cup {NoNode},
   id : AttachmentId \cup {NoAttachment}, \* the attachment found or made
   wrongDevice : BOOLEAN,                 \* was that Attach's last error?
   count : Nat,                           \* retries so far
   chosen : SUBSET AttachmentId,          \* what Unpublish set out to detach
   todo : SUBSET AttachmentId,            \* left in this round
   retry : SUBSET AttachmentId,           \* left for the next round
   failed : BOOLEAN,                      \* is there anything in failed[]?
   abandoned : BOOLEAN,                   \* the CO no longer waits for it
   code : Code]                           \* the answer

Live(a) == attachments[a].state \in {"idle", "busy"}

On(v) == {a \in AttachmentId : Live(a) /\ attachments[a].volume = v}

Running(c) == call[c].pc \notin {"idle", "done"}

\* The attempts are bounded: Attach is tried again while count has not gone
\* past its limit, a round of detaching while it has not reached its own.
TypeOK ==
  /\ call \in [Call -> CallState]
  /\ attachments \in [AttachmentId -> Attachment]
  /\ exists \subseteq Volume
  /\ \A c \in Call :
       call[c].count <= IF call[c].op = "publish" THEN AttachMaxRetries + 1
                        ELSE DetachMaxRetries

NewCall == [op |-> "none", pc |-> "idle", volume |-> NoVolume,
            node |-> NoNode, id |-> NoAttachment, wrongDevice |-> FALSE,
            count |-> 0, chosen |-> {}, todo |-> {}, retry |-> {},
            failed |-> FALSE, abandoned |-> FALSE, code |-> "none"]

FreeAttachment == [state |-> "free", volume |-> NoVolume, node |-> NoNode]

NoneAttached == [a \in AttachmentId |-> FreeAttachment]

\* One volume may have been attached before the process started.
Init == /\ call = [c \in Call |-> NewCall]
        /\ \/ attachments = NoneAttached
           \/ \E a \in AttachmentId, v \in Volume, n \in Node :
                attachments = [NoneAttached EXCEPT ![a] =
                  [state |-> "idle", volume |-> v, node |-> n]]
        /\ exists = Volume

\* Calls about the same volume that the CO keeps apart.
Related(n, m) == Serial \/ n = m \/ n = NoNode \/ m = NoNode

MayStart(v, n) ==
  \A c \in Call :
    Running(c) /\ call[c].volume = v /\ Related(call[c].node, n)
      => call[c].abandoned

Answer(c, code) ==
  call' = [call EXCEPT ![c].pc = "done", ![c].code = code]

\* Call c begins with handler step pc, unless a check of the arguments has
\* answered it already.
Begin(c, op, v, n, check, pc) ==
  /\ call[c].pc = "idle"
  /\ MayStart(v, n)
  /\ call' = [call EXCEPT ![c] =
       [NewCall EXCEPT !.op = op, !.volume = v, !.node = n,
                       !.pc = IF check = "OK" THEN pc ELSE "done",
                       !.code = IF check = "OK" THEN "none" ELSE check]]
  /\ UNCHANGED <<attachments, exists>>

-----------------------------------------------------------------------------
(***************************************************************************)
(* ControllerPublishVolume.                                                *)
(***************************************************************************)

CheckPublish(hasController, v, n, hasCapability) ==
  CASE ~hasController -> "Internal"
    [] hasController /\ (n = NoNode \/ v = NoVolume \/ ~hasCapability)
         -> "InvalidArgument"
    [] OTHER -> "OK"

CallPublish(c, hasController, v, n, hasCapability) ==
  Begin(c, "publish", v, n,
        CheckPublish(hasController, v, n, hasCapability), "get")

\* Get, and what processGetError makes of it.
Get(c) ==
  /\ call[c].pc = "get"
  /\ IF call[c].volume \in exists
     THEN call' = [call EXCEPT ![c].pc = "precheck"]
     ELSE Answer(c, "NotFound")
  /\ UNCHANGED <<attachments, exists>>

\* Any request of Publish may fail, without effect, and end the call.  A
\* request that names a node may fail because there is no such node.
PublishFails(c) ==
  /\ call[c].pc \in {"get", "precheck", "create", "fetch"}
  /\ "error" \in Faults
  /\ \/ Answer(c, "Unknown")
     \/ call[c].pc = "create" /\ Answer(c, "NotFound")
  /\ UNCHANGED <<attachments, exists>>

\* The retry counter of both handlers.
SameCount(c) == call[c].count

NextCount(c) == call[c].count + 1

\* Attach reports that the volume is attached elsewhere.  The handler tries
\* again if it recognises the error.
WrongDevice(c) ==
  IF WrongDeviceByPointer /\ call[c].count <= AttachMaxRetries
  THEN call' = [call EXCEPT ![c].wrongDevice = TRUE, ![c].count = NextCount(c)]
  ELSE call' = [call EXCEPT ![c].wrongDevice = TRUE, ![c].pc = "done",
                            ![c].code = "Unknown"]

\* Attach first looks where the volume is attached.
PrecheckAnyDevice(c) ==
  /\ call[c].pc = "precheck"
  /\ call[c].volume \in exists
  /\ \/ /\ On(call[c].volume) = {}
        /\ call' = [call EXCEPT ![c].pc = "create"]
     \/ \E a \in On(call[c].volume) :
          call' = [call EXCEPT ![c].pc = "fetch", ![c].id = a]
  /\ UNCHANGED <<attachments, exists>>

PrecheckIgnored(c) ==
  /\ call[c].pc = "precheck"
  /\ call' = [call EXCEPT ![c].pc = "create"]
  /\ UNCHANGED <<attachments, exists>>

Precheck(c) ==
  /\ call[c].pc = "precheck"
  /\ call[c].volume \in exists
  /\ \/ /\ On(call[c].volume) = {}
        /\ call' = [call EXCEPT ![c].pc = "create"]
     \/ \E a \in AttachmentId :
          /\ On(call[c].volume) = {a}
          /\ IF attachments[a].node = call[c].node
             THEN call' = [call EXCEPT ![c].pc = "fetch", ![c].id = a]
             ELSE WrongDevice(c)
     \/ /\ \E a, b \in On(call[c].volume) : a # b
        /\ Answer(c, "Unknown")
  /\ UNCHANGED <<attachments, exists>>

\* The volume has been deleted since the last look at it.
AttachGone(c) ==
  /\ call[c].pc \in {"precheck", "create"}
  /\ call[c].volume \notin exists
  /\ Answer(c, "NotFound")
  /\ UNCHANGED <<attachments, exists>>

\* The provider attaches the volume under the free ID a.
Attach(c, a) ==
  /\ call[c].pc = "create"
  /\ call[c].volume \in exists
  /\ attachments[a].state = "free"
  /\ attachments' = [attachments EXCEPT ![a] =
       [state |-> "idle", volume |-> call[c].volume, node |-> call[c].node]]
  /\ UNCHANGED exists

CreateAttachment(c) ==
  \E a \in AttachmentId :
    /\ Attach(c, a)
    /\ call' = [call EXCEPT ![c].pc = "done", ![c].code = "OK", ![c].id = a]

\* The attachment is made and the answer is an error.
CreateAttachmentLost(c) ==
  /\ "lost" \in Faults
  /\ \E a \in AttachmentId : Attach(c, a)
  /\ Answer(c, "Unknown")

\* The volume is attached to the right node already: fetch the attachment.
FetchAttachment(c) ==
  /\ call[c].pc = "fetch"
  /\ Answer(c, IF Live(call[c].id) THEN "OK" ELSE "NotFound")
  /\ UNCHANGED <<attachments, exists>>

-----------------------------------------------------------------------------
(***************************************************************************)
(* ControllerUnpublishVolume.                                              *)
(***************************************************************************)

CheckUnpublish(hasController, v) ==
  CASE ~hasController -> "Internal"
    [] hasController /\ v = NoVolume -> "InvalidArgument"
    [] OTHER -> "OK"

CallUnpublish(c, hasController, v, n) ==
  Begin(c, "unpublish", v, n, CheckUnpublish(hasController, v), "select")

\* The attachments that a call is about: those to its node, or all of them
\* when it names none.
MatchingAnyNode(c) == On(call[c].volume)

Matching(c) ==
  {a \in On(call[c].volume) :
     call[c].node = NoNode \/ attachments[a].node = call[c].node}

\* Get, and the choice of what to detach.  A volume that is gone is detached;
\* one without a matching attachment is an error.
Select(c) ==
  /\ call[c].pc = "select"
  /\ IF call[c].volume \notin exists THEN Answer(c, "OK")
     ELSE IF Matching(c) = {} THEN Answer(c, "Unknown")
     ELSE call' = [call EXCEPT ![c].pc = "detach",
                               ![c].chosen = Matching(c),
                               ![c].todo = Matching(c)]
  /\ UNCHANGED <<attachments, exists>>

SelectFails(c) ==
  /\ call[c].pc = "select"
  /\ "error" \in Faults
  /\ Answer(c, "Unknown")
  /\ UNCHANGED <<attachments, exists>>

\* What the handler answers when it stops, with retry still attached.
VerdictIgnoresRetry(failed, retry) == IF failed THEN "Unknown" ELSE "OK"

Verdict(failed, retry) == IF failed \/ retry # {} THEN "Unknown" ELSE "OK"

\* Has the handler run out of rounds?
NeverLastRound(c) == FALSE

LastRound(c) == call[c].count >= DetachMaxRetries

\* The request for attachment a is done with.  After the last of a round the
\* handler either stops or begins a round with those still in use.
Detached(c, a, inUse, fails) ==
  LET todo   == call[c].todo \ {a}
      retry  == IF inUse THEN call[c].retry \cup {a} ELSE call[c].retry
      failed == call[c].failed \/ fails
  IN  call' =
        IF todo # {} THEN
          [call EXCEPT ![c].todo = todo, ![c].retry = retry,
                       ![c].failed = failed]
        ELSE IF retry = {} \/ LastRound(c) THEN
          [call EXCEPT ![c].todo = {}, ![c].retry = retry,
                       ![c].failed = failed, ![c].pc = "done",
                       ![c].code = Verdict(failed, retry)]
        ELSE
          [call EXCEPT ![c].todo = retry, ![c].retry = {},
                       ![c].failed = failed, ![c].count = NextCount(c)]

Remove(a) == attachments' = [attachments EXCEPT ![a].state = "gone"]

DetachIdle(c) ==
  /\ call[c].pc = "detach"
  /\ \E a \in call[c].todo :
       /\ attachments[a].state = "idle"
       /\ Remove(a)
       /\ Detached(c, a, FALSE, FALSE)
  /\ UNCHANGED exists

\* 422: the node still uses the volume.
DetachBusy(c) ==
  /\ call[c].pc = "detach"
  /\ \E a \in call[c].todo :
       /\ attachments[a].state = "busy"
       /\ Detached(c, a, TRUE, FALSE)
  /\ UNCHANGED <<attachments, exists>>

\* 404: another call has removed the attachment.
DetachGone(c) ==
  /\ call[c].pc = "detach"
  /\ \E a \in call[c].todo :
       /\ ~Live(a)
       /\ Detached(c, a, FALSE, TRUE)
  /\ UNCHANGED <<attachments, exists>>

DetachFails(c) ==
  /\ call[c].pc = "detach"
  /\ "error" \in Faults
  /\ \E a \in call[c].todo : Detached(c, a, FALSE, TRUE)
  /\ UNCHANGED <<attachments, exists>>

\* The attachment is removed and the answer is an error.
DetachLost(c) ==
  /\ call[c].pc = "detach"
  /\ "lost" \in Faults
  /\ \E a \in call[c].todo :
       /\ attachments[a].state = "idle"
       /\ Remove(a)
       /\ Detached(c, a, FALSE, TRUE)
  /\ UNCHANGED exists

-----------------------------------------------------------------------------
(***************************************************************************)
(* The nodes, the provider, the CO and the process.                        *)
(***************************************************************************)

\* A node logs in to a volume attached to it, and out of it again.
Login(a) ==
  /\ attachments[a].state = "idle"
  /\ attachments' = [attachments EXCEPT ![a].state = "busy"]
  /\ UNCHANGED <<call, exists>>

Logout(a) ==
  /\ attachments[a].state = "busy"
  /\ attachments' = [attachments EXCEPT ![a].state = "idle"]
  /\ UNCHANGED <<call, exists>>

\* The provider does not delete a volume that is attached.
VolumeDeleted(v) ==
  /\ v \in exists
  /\ On(v) = {}
  /\ exists' = exists \ {v}
  /\ UNCHANGED <<call, attachments>>

\* The CO's deadline passes.  No handler looks at its context: it runs on.
TimeOut(c) ==
  /\ Running(c)
  /\ call[c].op \in GivenUp
  /\ ~call[c].abandoned
  /\ call' = [call EXCEPT ![c].abandoned = TRUE]
  /\ UNCHANGED <<attachments, exists>>

\* The process dies, with the calls in flight, and is restarted.
Crash ==
  /\ \E c \in Call : Running(c)
  /\ call' = [c \in Call |->
       IF Running(c) THEN [call[c] EXCEPT !.pc = "done", !.code = "Lost"]
       ELSE call[c]]
  /\ UNCHANGED <<attachments, exists>>

Step(c) ==
  \/ Get(c) \/ PublishFails(c) \/ Precheck(c) \/ AttachGone(c)
  \/ CreateAttachment(c) \/ CreateAttachmentLost(c) \/ FetchAttachment(c)
  \/ Select(c) \/ SelectFails(c)
  \/ DetachIdle(c) \/ DetachBusy(c) \/ DetachGone(c)
  \/ DetachFails(c) \/ DetachLost(c)

Next ==
  \/ \E c \in Call, hasController \in BOOLEAN,
        v \in Volume \cup {NoVolume}, n \in Node \cup {NoNode} :
       \/ \E hasCapability \in BOOLEAN :
            CallPublish(c, hasController, v, n, hasCapability)
       \/ CallUnpublish(c, hasController, v, n)
  \/ \E c \in Call : Step(c) \/ TimeOut(c)
  \/ \E a \in AttachmentId : Login(a) \/ Logout(a)
  \/ \E v \in Volume : VolumeDeleted(v)
  \/ Crash

Spec == Init /\ [][Next]_vars

\* What a handler does when no request fails on its way.
Progress(c) == \/ Get(c) \/ Precheck(c) \/ AttachGone(c)
               \/ CreateAttachment(c) \/ FetchAttachment(c)
               \/ Select(c) \/ DetachIdle(c) \/ DetachBusy(c) \/ DetachGone(c)

-----------------------------------------------------------------------------
(***************************************************************************)
(* The properties.                                                         *)
(***************************************************************************)

\* "we only allow attaching to one node at a time" (provider.go:166): a volume
\* has at most one attachment, whatever fails, as long as the Publish calls for
\* one volume do not overlap: the look at the attachments (provider.go:162) and
\* the request that makes one (provider.go:170) are two requests.
Exclusive ==
  \A a, b \in AttachmentId :
    Live(a) /\ Live(b) /\ attachments[a].volume = attachments[b].volume
      => a = b

\* The attachment that an OK answer to Publish names is one of the requested
\* volume to the requested node (controller.go:265-292, provider.go:167-176).
PublishAnswersRequest ==
  \A c \in Call :
    call[c].op = "publish" /\ call[c].code = "OK" =>
      /\ attachments[call[c].id].volume = call[c].volume
      /\ attachments[call[c].id].node = call[c].node

\* After an OK answer to Unpublish nothing that it chose to detach is attached,
\* over any number of rounds (controller.go:333-398).
UnpublishedIsGone ==
  \A c \in Call :
    call[c].op = "unpublish" /\ call[c].code = "OK" =>
      \A a \in call[c].chosen : ~Live(a)

\* If this step answers OK to the Unpublish c, for which the CO still waits, no
\* attachment of its volume to its node is left.
LeavesNone(c) ==
  (/\ call[c].op = "unpublish" /\ ~call[c].abandoned
   /\ call[c].code # "OK" /\ call'[c].code = "OK")
  => \A a \in On(call[c].volume)' :
       call[c].node # NoNode /\ attachments'[a].node # call[c].node

\* When Unpublish answers OK, and the CO still waits, no attachment of the volume
\* to that node is left, one made after the choice included
\* (controller.go:314-345).
UnpublishLeavesNone == [][\A c \in Call : LeavesNone(c)]_vars

\* An attachment goes only when a call asked for it to go: for its volume, and
\* for its node or for every node (controller.go:333-345).
OnlyRequestedDetached ==
  \A a \in AttachmentId :
    attachments[a].state = "gone" =>
      \E c \in Call :
        /\ call[c].op = "unpublish"
        /\ call[c].volume = attachments[a].volume
        /\ call[c].node \in {NoNode, attachments[a].node}

\* "we are willing to retry up to AttachRetryMax times" (controller.go:258-259):
\* Publish does not fail because the volume is attached elsewhere before it
\* has tried that often.
RetriesWhenAttachedElsewhere ==
  \A c \in Call :
    call[c].wrongDevice /\ call[c].code = "Unknown"
      => call[c].count >= AttachMaxRetries
-----------------------------------------------------------------------------
(***************************************************************************)
(* The invariants that the properties rest on.                             *)
(***************************************************************************)

\* Attachment b is one that the record k of a call is about.
Asked(k, b) ==
  b.state # "free" /\ b.volume = k.volume /\ k.node \in {NoNode, b.node}

\* What the record k of a call says of the attachments atts.  Publish goes by an
\* attachment that is what it was asked for; Unpublish has detached what it chose
\* and no longer holds, or has failed.
RecordOK(k, atts) ==
  /\ k.pc = "idle" <=> k.op = "none"
  /\ k.pc \in {"get", "precheck", "create", "fetch"} =>
       k.op = "publish" /\ k.node # NoNode
  /\ k.pc \in {"select", "detach"} => k.op = "unpublish"
  /\ k.pc = "select" => k.chosen = {} /\ ~k.failed
  /\ k.pc = "done" \/ k.code = "none"
  /\ k.op = "publish" /\ (k.pc = "fetch" \/ k.code = "OK") =>
       k.id \in AttachmentId /\ k.node # NoNode /\ Asked(k, atts[k.id])
  /\ k.todo \cup k.retry \subseteq k.chosen
  /\ \A a \in k.chosen : Asked(k, atts[a])
  /\ k.op = "unpublish" /\ (k.pc = "detach" \/ k.code = "OK") /\ ~k.failed =>
       \A a \in k.chosen : a \in k.todo \cup k.retry \/ atts[a].state = "gone"
  /\ k.op = "unpublish" /\ k.code = "OK" =>
       ~k.failed /\ k.todo = {} /\ k.retry = {}

\* The records are right about the attachments, and a volume that is attached
\* exists.
Consistent ==
  /\ \A c \in Call : RecordOK(call[c], attachments)
  /\ \A a \in AttachmentId : Live(a) => attachments[a].volume \in exists

\* The calls that the CO waits for are apart.
Apart ==
  \A c, d \in Call :
    /\ Running(c) /\ ~call[c].abandoned
    /\ Running(d) /\ ~call[d].abandoned
    /\ call[c].volume = call[d].volume /\ Related(call[c].node, call[d].node)
    => c = d

\* As long as the CO does not give up on Publish, what a call saw when it looked
\* at the attachments stays so: Unpublish chose all that there are, and with
\* Serial calls Publish makes the only one.
Undisturbed ==
  /\ Apart
  /\ \A c \in Call : call[c].op = "publish" => ~call[c].abandoned
  /\ \A c \in Call :
       call[c].pc = "detach" /\ ~call[c].abandoned =>
         Matching(c) \subseteq call[c].chosen
  /\ Serial =>
       /\ Exclusive
       /\ \A c \in Call : call[c].pc = "create" => On(call[c].volume) = {}
=============================================================================
