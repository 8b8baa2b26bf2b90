---------------------------- MODULE Provisioning ----------------------------
(***************************************************************************)
(* The controller service's CreateVolume and DeleteVolume handlers, the    *)
(* provider's volumes they act on, and the container orchestrator (CO)     *)
(* that calls them.                                                        *)
(*                                                                         *)
(* Each gRPC call runs in a goroutine of its own and keeps its state in    *)
(* local variables: a call is a record.  A handler's atomic steps are its  *)
(* requests to the provider's API, each with the code up to the next one.  *)
(* The process keeps nothing else, so a restart loses the calls in flight  *)
(* and nothing more.                                                       *)
(***************************************************************************)
EXTENDS VolumeRequest

CONSTANTS
  Call,              \* the calls the CO ever makes
  Name, NoName,      \* CSI volume names; the empty name
  VolumeId, NoVolume,\* the IDs the provider hands out, each at most once
  Range, Plan,       \* the capacity ranges and plan parameters requested
  VolumeMaxRetries,  \* polls of a new volume before giving up on it
  Timeouts,          \* may the CO give up on a call and try again?
  Faults             \* the faults of the provider's API that may occur

ASSUME NameAssumption == NoName \notin Name /\ NoVolume \notin VolumeId
ASSUME RangeAssumption == Range \subseteq CapacityRange
ASSUME RetriesAssumption == VolumeMaxRetries \in Nat
ASSUME TimeoutsAssumption == Timeouts \in BOOLEAN
ASSUME FaultsAssumption ==
  Faults \subseteq {"error", "lost", "nil", "garbled", "busy"}

VARIABLES
  call,     \* the state of each call, its answer included
  volumes   \* the provider's volumes, by ID

vars == <<call, volumes>>

-----------------------------------------------------------------------------
\* A provider volume.  The name is the one in its description, NoName when
\* the description is not one that the driver wrote.
Volume == [state : {"free", "queued", "active", "deleted"},
           name : Name \cup {NoName}, size : Size, plan : PlanID]

Code == {"none", "OK", "Internal", "InvalidArgument", "AlreadyExists",
         "FailedPrecondition", "Unknown", "Lost"}

CallState ==
  [op : {"none", "create", "delete"},
   pc : {"idle", "list", "create", "poll", "delete", "done"},
   name : Name \cup {NoName}, size : Size, plan : PlanID,  \* as requested
   id : VolumeId \cup {NoVolume},      \* the volume worked on, or answered
   polls : 0 .. VolumeMaxRetries,      \* counter
   abandoned : BOOLEAN,                \* the CO no longer waits for it
   code : Code]                        \* the answer

TypeOK == /\ call \in [Call -> CallState]
          /\ volumes \in [VolumeId -> Volume]

Live(v) == volumes[v].state \in {"queued", "active"}

\* Calls that a handler still works on.
Running(c) == call[c].pc \in {"list", "create", "poll", "delete"}

\* The CO has one CreateVolume call per name outstanding; it makes the next
\* when that one is answered, or when it has given up waiting for it.
MayCreate(n) ==
  \A c \in Call :
    Running(c) /\ call[c].op = "create" /\ call[c].name = n
      => call[c].abandoned

NewCall == [op |-> "none", pc |-> "idle", name |-> NoName,
            size |-> DefaultVolumeSizeGi, plan |-> "standard",
            id |-> NoVolume, polls |-> 0, abandoned |-> FALSE, code |-> "none"]

FreeVolume == [state |-> "free", name |-> NoName,
               size |-> DefaultVolumeSizeGi, plan |-> "standard"]

\* The project may hold volumes that the driver did not make.
Init == /\ call = [c \in Call |-> NewCall]
        /\ volumes \in [VolumeId -> {FreeVolume,
                                     [FreeVolume EXCEPT !.state = "active"]}]

\* Call c is answered, about volume v.
Answer(c, code, v) ==
  call' = [call EXCEPT ![c].pc = "done", ![c].code = code, ![c].id = v]

\* The process dies, and with it every call in flight: the CO sees them fail.
LoseCalls ==
  call' = [c \in Call |->
             IF Running(c) THEN [call[c] EXCEPT !.pc = "done", !.code = "Lost"]
             ELSE call[c]]

\* A handler dereferences the nil response of a failed request.  Nothing
\* recovers the panic (server.go registers only the logging interceptor).
Panic == LoseCalls

-----------------------------------------------------------------------------
(***************************************************************************)
(* CreateVolume.                                                           *)
(***************************************************************************)

\* The checks of the arguments.  hasController is FALSE on an instance that
\* was started without an API token (driver.go:61-68).
CheckCreate(hasController, n, hasCapabilities) ==
  CASE ~hasController -> "Internal"
    [] hasController /\ (n = NoName \/ ~hasCapabilities) -> "InvalidArgument"
    [] OTHER -> "OK"

CallCreateVolume(c, hasController, n, hasCapabilities, range, plan) ==
  LET code == CheckCreate(hasController, n, hasCapabilities)
  IN  /\ call[c].pc = "idle"
      /\ MayCreate(n)
      /\ call' = [call EXCEPT ![c] =
           [NewCall EXCEPT !.op = "create", !.name = n,
                           !.size = getSizeRequest(range),
                           !.plan = getPlanID(plan),
                           !.pc = IF code = "OK" THEN "list" ELSE "done",
                           !.code = IF code = "OK" THEN "none" ELSE code]]
      /\ UNCHANGED volumes

\* The volume found under the requested name decides the answer.
MatchForgetsPlan(c, v) ==
  IF volumes[v].size # call[c].size THEN "AlreadyExists" ELSE "OK"

MatchExisting(c, v) ==
  IF volumes[v].size # call[c].size \/ volumes[v].plan # call[c].plan
  THEN "AlreadyExists" ELSE "OK"

\* The volumes that the scan takes for the requested one.
HitsOnlyReady(c) ==
  {v \in VolumeId : volumes[v].state = "active" /\ volumes[v].name = call[c].name}

Hits(c) == {v \in VolumeId : Live(v) /\ volumes[v].name = call[c].name}

\* ListVolumes answers.  The scan stops at the first hit, and the order of the
\* provider's list is not known.
ListVolumes(c) ==
  /\ call[c].pc = "list"
  /\ \/ /\ Hits(c) = {}
        /\ call' = [call EXCEPT ![c].pc = "create"]
     \/ \E v \in Hits(c) : Answer(c, MatchExisting(c, v), v)
  /\ UNCHANGED volumes

ListVolumesFails(c) ==
  /\ call[c].pc = "list"
  /\ "error" \in Faults
  /\ Answer(c, "Unknown", NoVolume)
  /\ UNCHANGED volumes

\* controller.go:126 reads httpResponse.Status whenever there is an error.
ListVolumesPanics(c) ==
  /\ call[c].pc = "list"
  /\ "nil" \in Faults
  /\ Panic
  /\ UNCHANGED volumes

\* Volume v has been looked at polls times since it was made: answer when it
\* is ready or patience is at its end, else look again.
SettleUnready(c, v, polls, ready) == Answer(c, "OK", v)

SettleForever(c, v, polls, ready) ==
  IF ready THEN Answer(c, "OK", v)
  ELSE call' = [call EXCEPT ![c].pc = "poll", ![c].id = v]

SettleUnbounded(c, v, polls, ready) ==
  IF ready THEN Answer(c, "OK", v)
  ELSE call' = [call EXCEPT ![c].pc = "poll", ![c].id = v, ![c].polls = polls]

Settle(c, v, polls, ready) ==
  IF ready THEN Answer(c, "OK", v)
  ELSE IF polls >= VolumeMaxRetries THEN Answer(c, "Unknown", v)
  ELSE call' = [call EXCEPT ![c].pc = "poll", ![c].id = v, ![c].polls = polls]

\* The provider stores the volume that call c asks for under the free ID v.
StoreStandardPlan(c, v, state, name) ==
  /\ volumes[v].state = "free"
  /\ volumes' = [volumes EXCEPT ![v] =
       [state |-> state, name |-> name,
        size |-> call[c].size, plan |-> "standard"]]

Store(c, v, state, name) ==
  /\ volumes[v].state = "free"
  /\ volumes' = [volumes EXCEPT ![v] =
       [state |-> state, name |-> name,
        size |-> call[c].size, plan |-> call[c].plan]]

Create(c) ==
  /\ call[c].pc = "create"
  /\ \E v \in VolumeId, state \in {"queued", "active"} :
       /\ Store(c, v, state, call[c].name)
       /\ Settle(c, v, 0, state = "active")

\* The volume is made and the answer is lost, or is an error.
CreateLost(c) ==
  /\ call[c].pc = "create"
  /\ "lost" \in Faults
  /\ \E v \in VolumeId : Store(c, v, "queued", call[c].name)
  /\ Answer(c, "Unknown", NoVolume)

\* The volume is made, and its description comes back unreadable.
CreateGarbled(c) ==
  /\ call[c].pc = "create"
  /\ "garbled" \in Faults
  /\ \E v \in VolumeId : Store(c, v, "queued", NoName)
  /\ Answer(c, "Unknown", NoVolume)

CreateFails(c) ==
  /\ call[c].pc = "create"
  /\ "error" \in Faults
  /\ Answer(c, "Unknown", NoVolume)
  /\ UNCHANGED volumes

\* Get, a second after the last look.  The request fails when the volume has
\* been deleted meanwhile.
Poll(c) ==
  /\ call[c].pc = "poll"
  /\ Live(call[c].id)
  /\ Settle(c, call[c].id, call[c].polls + 1,
            volumes[call[c].id].state = "active")
  /\ UNCHANGED volumes

PollFails(c) ==
  /\ call[c].pc = "poll"
  /\ "error" \in Faults \/ ~Live(call[c].id)
  /\ Answer(c, "Unknown", call[c].id)
  /\ UNCHANGED volumes

-----------------------------------------------------------------------------
(***************************************************************************)
(* DeleteVolume.                                                           *)
(***************************************************************************)

CheckDelete(hasController, v) ==
  CASE ~hasController -> "Internal"
    [] hasController /\ v = NoVolume -> "InvalidArgument"
    [] OTHER -> "OK"

CallDeleteVolume(c, hasController, v) ==
  LET code == CheckDelete(hasController, v)
  IN  /\ call[c].pc = "idle"
      /\ v # NoVolume => volumes[v].state # "free"  \* an ID the CO can know
      /\ call' = [call EXCEPT ![c] =
           [NewCall EXCEPT !.op = "delete", !.id = v,
                           !.pc = IF code = "OK" THEN "delete" ELSE "done",
                           !.code = IF code = "OK" THEN "none" ELSE code]]
      /\ UNCHANGED volumes

Remove(v) ==
  volumes' = IF Live(v) THEN [volumes EXCEPT ![v].state = "deleted"]
             ELSE volumes

\* Removed now (200, 204), or not there to remove (404): both are OK.
Delete(c) ==
  /\ call[c].pc = "delete"
  /\ Remove(call[c].id)
  /\ Answer(c, "OK", call[c].id)

\* 422: the provider will not delete the volume now.
BusyCodeOK == "OK"

BusyCode == "FailedPrecondition"

DeleteBusy(c) ==
  /\ call[c].pc = "delete"
  /\ "busy" \in Faults
  /\ Live(call[c].id)
  /\ Answer(c, BusyCode, call[c].id)
  /\ UNCHANGED volumes

\* Any other status, with an error or without; the volume may be gone.
DeleteFails(c) ==
  /\ call[c].pc = "delete"
  /\ \/ "error" \in Faults /\ UNCHANGED volumes
     \/ "lost" \in Faults /\ Remove(call[c].id)
  /\ Answer(c, "Unknown", call[c].id)

\* provider.go:145 reads resp.StatusCode before it looks at the error.
DeletePanics(c) ==
  /\ call[c].pc = "delete"
  /\ "nil" \in Faults
  /\ \/ UNCHANGED volumes
     \/ Remove(call[c].id)
  /\ Panic

-----------------------------------------------------------------------------
(***************************************************************************)
(* The provider, the CO and the process.                                   *)
(***************************************************************************)

Activate(v) ==
  /\ volumes[v].state = "queued"
  /\ volumes' = [volumes EXCEPT ![v].state = "active"]
  /\ UNCHANGED call

\* The CO's deadline passes.  No handler looks at its context: it runs on.
TimeOut(c) ==
  /\ Timeouts
  /\ Running(c)
  /\ ~call[c].abandoned
  /\ call' = [call EXCEPT ![c].abandoned = TRUE]
  /\ UNCHANGED volumes

\* The process dies and is restarted.
Crash ==
  /\ \E c \in Call : Running(c)
  /\ LoseCalls
  /\ UNCHANGED volumes

Step(c) ==
  \/ ListVolumes(c) \/ ListVolumesFails(c) \/ ListVolumesPanics(c)
  \/ Create(c) \/ CreateLost(c) \/ CreateGarbled(c) \/ CreateFails(c)
  \/ Poll(c) \/ PollFails(c)
  \/ Delete(c) \/ DeleteBusy(c) \/ DeleteFails(c) \/ DeletePanics(c)

Next ==
  \/ \E c \in Call, hasController, hasCapabilities \in BOOLEAN,
        n \in Name \cup {NoName}, range \in Range, plan \in Plan :
       CallCreateVolume(c, hasController, n, hasCapabilities, range, plan)
  \/ \E c \in Call, hasController \in BOOLEAN, v \in VolumeId \cup {NoVolume} :
       CallDeleteVolume(c, hasController, v)
  \/ \E c \in Call : Step(c) \/ TimeOut(c)
  \/ \E v \in VolumeId : Activate(v)
  \/ Crash

Spec == Init /\ [][Next]_vars

\* What a handler does when no request fails on its way.  The provider may
\* always refuse to make a volume, and cannot show one that is gone.
Progress(c) == \/ ListVolumes(c) \/ Create(c) \/ CreateFails(c) \/ Poll(c)
               \/ PollFails(c) /\ ~Live(call[c].id)
               \/ Delete(c)

\* Every request to the provider comes to an end, and none has to fail.
Fairness == \A c \in Call : WF_vars(Progress(c))

FairSpec == Spec /\ Fairness

-----------------------------------------------------------------------------
(***************************************************************************)
(* The properties.                                                         *)
(***************************************************************************)

\* The provider never holds two volumes for one CSI name, however calls fail
\* and are repeated, as long as the calls for a name do not overlap: the check
\* for a pre-existing volume (controller.go:123-152) and the Create
\* (controller.go:163) are two requests.
UniqueName ==
  \A v, w \in VolumeId :
    Live(v) /\ Live(w) /\ volumes[v].name = volumes[w].name
      /\ volumes[v].name # NoName
      => v = w

\* The volume of an OK answer has the name, the size and the plan that the
\* call asked for, whether it was found or made (controller.go:131-152, 156-200).
AnswerMatchesRequest ==
  \A c \in Call :
    call[c].op = "create" /\ call[c].code = "OK" =>
      LET volume == volumes[call[c].id]
      IN  /\ volume.name = call[c].name
          /\ volume.size = call[c].size
          /\ volume.plan = call[c].plan

\* The capacity that an OK answer reports, asked for again, is the size of the
\* volume: a caller that repeats with what it was told is not turned away with
\* a mismatch of the sizes (controller.go:50-79, 137-139, 144-150, 193-198).
CapacityRoundTrip ==
  \A c \in Call :
    call[c].op = "create" /\ call[c].code = "OK" =>
      AskedAgain(volumes[call[c].id].size)

\* A request is turned away with AlreadyExists only if another call asked for
\* the same name with a different size or plan: a plain retry never is, not
\* even after a lost answer or a restart (controller.go:137-142).
NoFalseConflict ==
  \A c \in Call :
    call[c].code = "AlreadyExists" =>
      \E d \in Call :
        /\ call[d].op = "create"
        /\ call[d].name = call[c].name
        /\ call[d].size # call[c].size \/ call[d].plan # call[c].plan

\* A handler that made a volume does not answer OK while it is still queued
\* (controller.go:176-192).
NewVolumeIsReady ==
  [][\A c \in Call :
       call[c].pc \in {"create", "poll"} /\ call'[c].code = "OK"
         => volumes'[call'[c].id].state = "active"]_vars

\* After an OK answer to DeleteVolume the volume is gone, and no later step
\* brings it back (controller.go:216-227, provider.go:143-149).
DeletedIsGone ==
  \A c \in Call :
    call[c].op = "delete" /\ call[c].code = "OK" => ~Live(call[c].id)

\* Every call is answered: the poll loop ends whether or not the volume ever
\* becomes ready (controller.go:179-192).
EveryCallAnswered == \A c \in Call : Running(c) ~> call[c].pc = "done"

\* controller.go:98-102: "this should return when the volume is successfully
\* provisioned or fails", so an OK answer is never about a queued volume.
OkMeansProvisioned ==
  [][\A c \in Call :
       call[c].op = "create" /\ call[c].code # "OK" /\ call'[c].code = "OK"
         => volumes'[call'[c].id].state = "active"]_vars

-----------------------------------------------------------------------------
(***************************************************************************)
(* What makes the invariants inductive.                                    *)
(***************************************************************************)

AsRequested(volume, k) ==
  /\ volume.state # "free"
  /\ volume.name = k.name
  /\ volume.size = k.size
  /\ volume.plan = k.plan

\* What the record k of a call says about the volumes.
RecordOK(k, vols) ==
  /\ k.pc = "idle" <=> k.op = "none"
  /\ k.pc \in {"list", "create", "poll"} => k.op = "create" /\ k.name \in Name
  /\ k.pc = "delete" => k.op = "delete"
  /\ k.pc # "done" => k.code = "none"
  /\ (k.pc = "poll" \/ (k.op = "create" /\ k.code = "OK")) =>
       k.name \in Name /\ k.id \in VolumeId /\ AsRequested(vols[k.id], k)
  /\ (k.pc = "delete" \/ (k.op = "delete" /\ k.code = "OK")) =>
       k.id \in VolumeId /\ vols[k.id].state # "free"
  /\ (k.op = "delete" /\ k.code = "OK") => vols[k.id].state = "deleted"

\* A named volume was made for a call that asked for just that volume.
RequestedBy(volume, k) == k.op = "create" /\ AsRequested(volume, k)

\* Every call is consistent with the volumes, and every named volume has a
\* call that asked for it: whatever overlaps, crashes and fails.
Consistent ==
  /\ \A c \in Call : RecordOK(call[c], volumes)
  /\ \A v \in VolumeId :
       volumes[v].name # NoName => \E c \in Call : RequestedBy(volumes[v], call[c])
  /\ NoFalseConflict

Creating(c) == call[c].pc \in {"list", "create", "poll"}

\* Without timeouts the calls for one name come one after the other, and one
\* that is about to make a volume has seen that there is none.
Serialised ==
  /\ \A c \in Call : ~call[c].abandoned
  /\ \A c, d \in Call :
       Creating(c) /\ Creating(d) /\ call[c].name = call[d].name => c = d
  /\ \A c \in Call :
       call[c].pc = "create" =>
         \A v \in VolumeId : Live(v) => volumes[v].name # call[c].name
  /\ UniqueName
=============================================================================
