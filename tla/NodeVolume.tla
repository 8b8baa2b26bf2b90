----------------------------- MODULE NodeVolume -----------------------------
(***************************************************************************)
(* The node service: NodeStageVolume, NodeUnstageVolume, NodePublishVolume *)
(* and NodeUnpublishVolume (pkg/driver/node.go), the iscsiadm, multipath   *)
(* and mount commands beneath them (attacher.go, mounter.go), what those   *)
(* leave behind on one node, and the kubelet that calls.                   *)
(*                                                                         *)
(* A step is a command or a file operation with the code up to the next    *)
(* one.  The commands are external: a step says what the handler makes of  *)
(* one that works, and Fails what it makes of one that does not.           *)
(***************************************************************************)
EXTENDS Integers, FiniteSets, Sequences

CONSTANTS
  Call,         \* the calls that can be in progress at once
  Volume, NoVolume,
  Portals,      \* a volume's iSCSI portals are 1 .. Portals, in metadata order
  Similar,      \* pairs of portals: the second's address begins with the first's
  GivenUp,      \* the operations whose calls the kubelet may give up on
  FullDisk,     \* may the write to the bindings file come to nothing?
  MaxStarts,    \* bound on the Stage and Publish calls
  MaxFaults,    \* bound on failing commands, timeouts and lost writes
  MaxRestarts   \* bound on restarts of the driver and of the node

ASSUME NoVolumeAssumption == NoVolume \notin Volume
ASSUME PortalsAssumption == /\ Portals \in Nat \ {0}
                            /\ Similar \subseteq (1 .. Portals) \X (1 .. Portals)
ASSUME SwitchAssumption == /\ GivenUp \subseteq
                                {"stage", "unstage", "publish", "unpublish"}
                           /\ FullDisk \in BOOLEAN
ASSUME BoundsAssumption == /\ MaxStarts \in Nat
                           /\ MaxFaults \in Nat
                           /\ MaxRestarts \in Nat

VARIABLES
  call,      \* the calls in progress
  sessions,  \* the iSCSI sessions: pairs of a volume and a portal
  unseen,    \* history: the sessions a Logout passed over since the last mount
  bindings,  \* the volumes that /etc/multipath/bindings lists
  mapped,    \* the volumes with a device under /dev/mapper
  fs,        \* what is on a volume: nothing, an empty filesystem, or data
  staged,    \* the volumes mounted at their staging path
  target,    \* what is mounted at a volume's target path, the top one last
  paths,     \* the volumes whose target path exists
  phase,     \* how far the kubelet knows a volume to be
  starts, faults, restarts  \* counters for the bounds

node == <<sessions, unseen, bindings, mapped, fs, staged, target>>
counters == <<starts, faults, restarts>>
vars == <<call, node, paths, phase, counters>>

-----------------------------------------------------------------------------
Portal == 1 .. Portals

CallState ==
  [op : {"none", "stage", "unstage", "publish", "unpublish"},
   pc : {"idle", "check", "login", "device", "read", "truncate", "write",
         "map", "inspect", "format", "mount", "unmount", "flush", "logout",
         "bind", "unbind", "reply"},
   volume : Volume \cup {NoVolume},
   portal : 1 .. (Portals + 1),  \* the next portal to log in to or out of
   seen : SUBSET Volume,         \* the bindings as they were read
   heard : BOOLEAN]              \* does the kubelet wait for the answer?

TypeOK ==
  /\ call \in [Call -> CallState]
  /\ sessions \subseteq Volume \X Portal
  /\ unseen \subseteq Volume \X Portal
  /\ bindings \subseteq Volume
  /\ mapped \subseteq Volume
  /\ fs \in [Volume -> {"none", "empty", "data"}]
  /\ staged \subseteq Volume
  /\ target \in [Volume -> Seq({"volume", "directory"})]
  /\ paths \subseteq Volume
  /\ phase \in [Volume -> {"unstaged", "uncertain", "staged", "publishing",
                           "published", "unpublishing"}]
  /\ starts \in 0 .. MaxStarts
  /\ faults \in 0 .. MaxFaults
  /\ restarts \in 0 .. MaxRestarts

NewCall == [op |-> "none", pc |-> "idle", volume |-> NoVolume, portal |-> 1,
            seen |-> {}, heard |-> FALSE]

Init == /\ call = [c \in Call |-> NewCall]
        /\ sessions = {} /\ unseen = {} /\ bindings = {}
        /\ mapped = {} /\ staged = {} /\ paths = {}
        /\ fs = [v \in Volume |-> "none"]
        /\ target = [v \in Volume |-> <<>>]
        /\ phase = [v \in Volume |-> "unstaged"]
        /\ starts = 0 /\ faults = 0 /\ restarts = 0

Running(c) == call[c].op # "none"

\* The target path shows the volume itself, not the directory beneath a mount.
Shows(v) == target[v] # <<>> /\ target[v][Len(target[v])] = "volume"

InUse(v) == v \in staged \/ \E k \in DOMAIN target[v] : target[v][k] = "volume"

-----------------------------------------------------------------------------
(***************************************************************************)
(* The kubelet: one call for a volume at a time, as far as it knows.       *)
(***************************************************************************)

MayStart(v) ==
  \A c \in Call : Running(c) /\ call[c].volume = v => ~call[c].heard

Begin(c, op, v, pc, known) ==
  /\ ~Running(c)
  /\ MayStart(v)
  /\ call' = [call EXCEPT ![c] =
       [NewCall EXCEPT !.op = op, !.volume = v, !.pc = pc, !.heard = TRUE]]
  /\ phase' = [phase EXCEPT ![v] = known]
  /\ UNCHANGED <<node, faults, restarts>>

CallStage(c, v) ==
  /\ phase[v] \in {"unstaged", "uncertain"}
  /\ starts < MaxStarts
  /\ starts' = starts + 1
  /\ Begin(c, "stage", v, "check", "uncertain")
  /\ UNCHANGED paths

\* The kubelet may have made the target path, or leaves that to Publish.
CallPublish(c, v) ==
  /\ phase[v] \in {"staged", "publishing"}
  /\ starts < MaxStarts
  /\ starts' = starts + 1
  /\ paths' \in {paths, paths \cup {v}}
  /\ Begin(c, "publish", v, "bind", "publishing")

CallUnpublish(c, v) ==
  /\ phase[v] \in {"publishing", "published", "unpublishing"}
  /\ Begin(c, "unpublish", v, "unbind", "unpublishing")
  /\ UNCHANGED <<paths, starts>>

CallUnstageChecksFirst(c, v) ==
  /\ phase[v] \in {"uncertain", "staged"}
  /\ Begin(c, "unstage", v, "check", "uncertain")
  /\ UNCHANGED <<paths, starts>>

CallUnstage(c, v) ==
  /\ phase[v] \in {"uncertain", "staged"}
  /\ Begin(c, "unstage", v, "unmount", "uncertain")
  /\ UNCHANGED <<paths, starts>>

\* What the kubelet makes of an OK answer.
After(op) == CASE op = "stage"     -> "staged"
               [] op = "unstage"   -> "unstaged"
               [] op = "publish"   -> "published"
               [] op = "unpublish" -> "staged"

Goto(c, pc) ==
  /\ call' = [call EXCEPT ![c].pc = pc]
  /\ UNCHANGED phase

\* The handler returns an error, which tells the kubelet nothing.
Error(c) ==
  /\ call' = [call EXCEPT ![c] = NewCall]
  /\ UNCHANGED phase

\* It returns OK, which the kubelet hears if it still waits.  After Unpublish
\* it takes away the target path, unless something is still mounted there.
Reply(c) ==
  LET v == call[c].volume IN
  /\ call[c].pc = "reply"
  /\ call' = [call EXCEPT ![c] = NewCall]
  /\ phase' = IF call[c].heard
              THEN [phase EXCEPT ![v] = After(call[c].op)]
              ELSE phase
  /\ paths' = IF call[c].heard /\ call[c].op = "unpublish" /\ target[v] = <<>>
              THEN paths \ {v}
              ELSE paths
  /\ UNCHANGED <<node, counters>>

\* A pod writes to the volume that it finds at its target path.
PodWrites(v) ==
  /\ phase[v] = "published" /\ Shows(v) /\ fs[v] = "empty"
  /\ fs' = [fs EXCEPT ![v] = "data"]
  /\ UNCHANGED <<call, sessions, unseen, bindings, mapped, staged, target,
                 paths, phase, counters>>

\* The handler goes on: none of them looks at its context.
TimeOut(c) ==
  /\ faults < MaxFaults
  /\ call[c].heard /\ call[c].op \in GivenUp
  /\ call' = [call EXCEPT ![c].heard = FALSE]
  /\ faults' = faults + 1
  /\ UNCHANGED <<node, paths, phase, starts, restarts>>

-----------------------------------------------------------------------------
(***************************************************************************)
(* The sessions.                                                           *)
(***************************************************************************)

\* HasSession looks for a line that holds the portal's address and, somewhere
\* behind it, the volume's target: a longer address matches too.
HasSession(v, p) ==
  \E q \in Portal : <<v, q>> \in sessions /\ (q = p \/ <<p, q>> \in Similar)

\* The metadata lists the volume.
Check(c) ==
  /\ call[c].pc = "check"
  /\ Goto(c, IF call[c].op = "stage" THEN "login" ELSE "read")
  /\ UNCHANGED <<node, paths, counters>>

SkippedLast == Portals - 1

PastLast == Portals + 1

LastPortal == Portals

\* The loops over the portals; behind the last one comes step pc.
NextPortal(c, pc) ==
  /\ call' = [call EXCEPT ![c].portal = @ + 1,
                          ![c].pc = IF call[c].portal < LastPortal THEN @ ELSE pc]
  /\ UNCHANGED phase

\* Discover, and Login unless there is a session.
Login(c) ==
  LET v == call[c].volume  p == call[c].portal IN
  /\ call[c].pc = "login"
  /\ sessions' = IF HasSession(v, p) THEN sessions ELSE sessions \cup {<<v, p>>}
  /\ NextPortal(c, "device")
  /\ UNCHANGED <<unseen, bindings, mapped, fs, staged, target, paths, counters>>

\* The device of the first portal's session, and its SCSI ID.
Device(c) ==
  /\ call[c].pc = "device"
  /\ IF HasSession(call[c].volume, 1) THEN Goto(c, "read") ELSE Error(c)
  /\ UNCHANGED <<node, paths, counters>>

\* Logout where there seems to be a session: the command fails when there is none.
Logout(c) ==
  LET v == call[c].volume  p == call[c].portal IN
  /\ call[c].pc = "logout"
  /\ IF HasSession(v, p) /\ <<v, p>> \notin sessions
     THEN Error(c)
     ELSE NextPortal(c, "reply")
  /\ sessions' = sessions \ {<<v, p>>}
  /\ unseen' = unseen \ {<<v, p>>}
  /\ UNCHANGED <<bindings, mapped, fs, staged, target, paths, counters>>

\* iscsiadm --mode session fails, which HasSession takes for "no session": Login
\* logs in all the same, and Logout passes over a session that is there.
ListFails(c) ==
  LET v == call[c].volume  p == call[c].portal IN
  /\ faults < MaxFaults /\ faults' = faults + 1
  /\ \/ /\ call[c].pc = "login"
        /\ sessions' = sessions \cup {<<v, p>>}
        /\ NextPortal(c, "device")
        /\ UNCHANGED unseen
     \/ /\ call[c].pc = "logout"
        /\ unseen' = unseen \cup ({<<v, p>>} \cap sessions)
        /\ NextPortal(c, "reply")
        /\ UNCHANGED sessions
  /\ UNCHANGED <<bindings, mapped, fs, staged, target, paths, starts, restarts>>

-----------------------------------------------------------------------------
(***************************************************************************)
(* The bindings file is read, truncated and written in three steps.  Its   *)
(* lines are of one length, and Go ranges over the map in any order: lines *)
(* written over longer contents leave some of the old lines behind them.   *)
(***************************************************************************)

Written(c) == IF call[c].op = "stage" THEN call[c].seen \cup {call[c].volume}
                                      ELSE call[c].seen \ {call[c].volume}

Over(new, old) ==
  {new \cup rest : rest \in {r \in SUBSET old :
     Cardinality(r) = IF Cardinality(old) > Cardinality(new)
                      THEN Cardinality(old) - Cardinality(new) ELSE 0}}

ReadBindings(c) ==
  /\ call[c].pc = "read"
  /\ call' = [call EXCEPT ![c].seen = bindings, ![c].pc = "truncate"]
  /\ UNCHANGED <<node, paths, phase, counters>>

CreateBindings(c) ==
  /\ call[c].pc = "truncate"
  /\ bindings' = {}
  /\ Goto(c, "write")
  /\ UNCHANGED <<sessions, unseen, mapped, fs, staged, target, paths, counters>>

\* The error of the write is not looked at.
WriteBindings(c) ==
  /\ call[c].pc = "write"
  /\ \/ bindings' \in Over(Written(c), bindings) /\ UNCHANGED faults
     \/ FullDisk /\ faults < MaxFaults /\ faults' = faults + 1 /\ UNCHANGED bindings
  /\ Goto(c, IF call[c].op = "stage" THEN "map" ELSE "flush")
  /\ UNCHANGED <<sessions, unseen, mapped, fs, staged, target, paths,
                 starts, restarts>>

-----------------------------------------------------------------------------
(***************************************************************************)
(* The map, the filesystem and the mounts.  multipath's result is ignored. *)
(***************************************************************************)

\* multipath <volume>, which looks the name up in the bindings file.
Map(c) ==
  LET v == call[c].volume IN
  /\ call[c].pc = "map"
  /\ mapped' \in {mapped, IF v \in bindings THEN mapped \cup {v} ELSE mapped}
  /\ Goto(c, "inspect")
  /\ UNCHANGED <<sessions, unseen, bindings, fs, staged, target, paths,
                 counters>>

\* multipath -f <volume>, which leaves a map in use alone.
Flush(c) ==
  LET v == call[c].volume IN
  /\ call[c].pc = "flush"
  /\ mapped' \in {mapped, IF InUse(v) THEN mapped ELSE mapped \ {v}}
  /\ Goto(c, "logout")
  /\ UNCHANGED <<sessions, unseen, bindings, fs, staged, target, paths,
                 counters>>

NeedsFormatAlways(v) == TRUE

NeedsFormat(v) == fs[v] = "none"

\* GetMappedDevice: what is on the device, if there is one.
Inspect(c) ==
  LET v == call[c].volume IN
  /\ call[c].pc = "inspect"
  /\ IF v \in mapped THEN Goto(c, IF NeedsFormat(v) THEN "format" ELSE "mount")
                     ELSE Error(c)
  /\ UNCHANGED <<node, paths, counters>>

\* mkfs.ext4 -F, which refuses a mounted device.
Format(c) ==
  LET v == call[c].volume IN
  /\ call[c].pc = "format"
  /\ IF InUse(v) \/ v \notin mapped
     THEN Error(c) /\ UNCHANGED fs
     ELSE Goto(c, "mount") /\ fs' = [fs EXCEPT ![v] = "empty"]
  /\ UNCHANGED <<sessions, unseen, bindings, mapped, staged, target, paths,
                 counters>>

\* mount refuses to mount the same device at the same path again.
Mount(c) ==
  LET v == call[c].volume IN
  /\ call[c].pc = "mount"
  /\ IF v \in staged \/ v \notin mapped
     THEN Error(c) /\ UNCHANGED <<staged, unseen>>
     ELSE /\ Goto(c, "reply")
          /\ staged' = staged \cup {v}
          /\ unseen' = unseen \ ({v} \X Portal)
  /\ UNCHANGED <<sessions, bindings, mapped, fs, target, paths, counters>>

OnlyMounted(exists, mounted) == exists /\ mounted

\* Unmount passes on a path where nothing is mounted (EINVAL), not on one that
\* is not there (ENOENT).
Unmountable(exists, mounted) == exists

\* Unmount of the staging path, which the kubelet keeps until Unstage is OK.
Unmount(c) ==
  LET v == call[c].volume IN
  /\ call[c].pc = "unmount"
  /\ IF Unmountable(TRUE, v \in staged) THEN Goto(c, "check") ELSE Error(c)
  /\ staged' = staged \ {v}
  /\ UNCHANGED <<sessions, unseen, bindings, mapped, fs, target, paths,
                 counters>>

BindMountSwapped(c) ==
  /\ call[c].pc = "bind"
  /\ staged' = staged \ {call[c].volume}
  /\ Goto(c, "reply")
  /\ UNCHANGED <<sessions, unseen, bindings, mapped, fs, target, paths,
                 counters>>

\* Bindmount: what is at the staging path now appears at the target path, which
\* is made if need be.
BindMount(c) ==
  LET v == call[c].volume IN
  /\ call[c].pc = "bind"
  /\ target' = [target EXCEPT ![v] =
       Append(@, IF v \in staged THEN "volume" ELSE "directory")]
  /\ paths' = paths \cup {v}
  /\ Goto(c, "reply")
  /\ UNCHANGED <<sessions, unseen, bindings, mapped, fs, staged, counters>>

UnmountWrongPath(c) ==
  /\ call[c].pc = "unbind"
  /\ staged' = staged \ {call[c].volume}
  /\ Goto(c, "reply")
  /\ UNCHANGED <<sessions, unseen, bindings, mapped, fs, target, paths,
                 counters>>

\* Unmount of the target path takes off the top mount.
UnmountTarget(c) ==
  LET v == call[c].volume  n == Len(target[v]) IN
  /\ call[c].pc = "unbind"
  /\ target' = [target EXCEPT ![v] = IF n = 0 THEN @ ELSE SubSeq(@, 1, n - 1)]
  /\ IF Unmountable(v \in paths, n > 0) THEN Goto(c, "reply") ELSE Error(c)
  /\ UNCHANGED <<sessions, unseen, bindings, mapped, fs, staged, paths,
                 counters>>

-----------------------------------------------------------------------------
(***************************************************************************)
(* A command fails, or a request is refused: the handler answers at once.  *)
(* iscsiadm may have logged in or out all the same, mkfs have made the     *)
(* filesystem, and Publish the target path.                                *)
(***************************************************************************)

PartialEffect(c) ==
  LET v == call[c].volume  s == <<v, call[c].portal>> IN
  \/ /\ call[c].pc = "login"
     /\ sessions' = sessions \cup {s}
     /\ UNCHANGED <<unseen, fs, paths>>
  \/ /\ call[c].pc = "logout"
     /\ sessions' = sessions \ {s} /\ unseen' = unseen \ {s}
     /\ UNCHANGED <<fs, paths>>
  \/ /\ call[c].pc = "format" /\ ~InUse(v) /\ v \in mapped
     /\ fs' = [fs EXCEPT ![v] = "empty"]
     /\ UNCHANGED <<sessions, unseen, paths>>
  \/ /\ call[c].pc = "bind"
     /\ paths' = paths \cup {v}
     /\ UNCHANGED <<sessions, unseen, fs>>

Fails(c) ==
  /\ Running(c) /\ call[c].pc \notin {"write", "map", "flush", "reply"}
  /\ faults < MaxFaults /\ faults' = faults + 1
  /\ UNCHANGED <<sessions, unseen, fs, paths>> \/ PartialEffect(c)
  /\ Error(c)
  /\ UNCHANGED <<bindings, mapped, staged, target, starts, restarts>>

\* The driver restarts: its calls are gone, what is on the node stays.
Restart ==
  /\ restarts < MaxRestarts /\ restarts' = restarts + 1
  /\ call' = [c \in Call |-> NewCall]
  /\ UNCHANGED <<node, paths, phase, starts, faults>>

\* The node restarts: only files and volumes stay.
Reboot ==
  /\ restarts < MaxRestarts /\ restarts' = restarts + 1
  /\ call' = [c \in Call |-> NewCall]
  /\ sessions' = {} /\ unseen' = {} /\ mapped' = {} /\ staged' = {}
  /\ target' = [v \in Volume |-> <<>>]
  /\ phase' = [v \in Volume |-> IF phase[v] = "unstaged" THEN "unstaged"
                                                         ELSE "uncertain"]
  /\ UNCHANGED <<bindings, fs, paths, starts, faults>>

-----------------------------------------------------------------------------
Shared(c) == \/ Check(c) \/ ReadBindings(c) \/ CreateBindings(c)
             \/ WriteBindings(c) \/ Reply(c)

Stage(c) == \/ Login(c) \/ Device(c) \/ Map(c) \/ Inspect(c) \/ Format(c)
            \/ Mount(c)

Unstage(c) == Unmount(c) \/ Flush(c) \/ Logout(c)

Publish(c) == BindMount(c)

Unpublish(c) == UnmountTarget(c)

Step(c) == Shared(c) \/ Stage(c) \/ Unstage(c) \/ Publish(c) \/ Unpublish(c)

Kubelet(c, v) == \/ CallStage(c, v) \/ CallUnstage(c, v)
                 \/ CallPublish(c, v) \/ CallUnpublish(c, v)

Next == \/ \E c \in Call : Step(c) \/ ListFails(c) \/ Fails(c) \/ TimeOut(c)
        \/ \E c \in Call, v \in Volume : Kubelet(c, v)
        \/ \E v \in Volume : PodWrites(v)
        \/ Restart \/ Reboot

Spec == Init /\ [][Next]_vars

\* A handler goes on, and the kubelet in the end takes down what it has put up.
FairSpec ==
  /\ Spec
  /\ \A c \in Call : WF_vars(Step(c))
  /\ \A v \in Volume : /\ WF_vars(\E c \in Call : CallUnpublish(c, v))
                       /\ WF_vars(\E c \in Call : CallUnstage(c, v))

-----------------------------------------------------------------------------
(***************************************************************************)
(* The properties.                                                         *)
(***************************************************************************)

\* Staged, and Unstage not begun.
Staged(v) ==
  phase[v] \in {"staged", "publishing", "published", "unpublishing"}

\* A volume whose Stage was answered OK is mounted, mapped and logged in to
\* through every one of its portals, until its Unstage begins (node.go:85-155).
StagedIsReady ==
  \A v \in Volume : Staged(v) =>
    /\ v \in staged /\ v \in mapped
    /\ \A p \in Portal : <<v, p>> \in sessions

\* The sessions that a volume still has are ones that Logout passed over.
LoggedOut(v) == \A p \in Portal : <<v, p>> \in sessions => <<v, p>> \in unseen

\* A volume whose Unstage was answered OK is not mounted at its staging path,
\* and no session of it is left but one that Unstage took for absent because
\* the list of sessions could not be read (node.go:180-217, attacher.go:133-136).
\* Nothing is said of its map, its line in the bindings or its target path.
UnstagedIsReleased ==
  \A v \in Volume : phase[v] = "unstaged" => v \notin staged /\ LoggedOut(v)

\* What a pod finds at the target path after Publish is the volume and not
\* the directory beneath it (node.go:246).
PublishedShowsVolume == \A v \in Volume : phase[v] = "published" => Shows(v)

\* Data is never formatted away (node.go:139-145).
DataKept == [][\A v \in Volume : fs[v] = "data" => fs'[v] = "data"]_vars

\* No session is given up under a volume mounted at its staging path
\* (node.go:180, node.go:211-217).
LogoutAfterUnmount ==
  [][\A s \in sessions \ sessions' : s[1] \notin staged']_vars

\* What NodePromise knows of a volume.
Use(v) == CASE v \in staged -> "mounted"
            [] v \notin staged /\ (\E p \in Portal : <<v, p>> \in sessions)
                 -> "connected"
            [] OTHER -> "free"

Told(v) == IF Staged(v) THEN "staged" ELSE phase[v]

Promise == INSTANCE NodePromise WITH
  Place <- Volume, Machine <- {Volume},
  use <- [v \in Volume |-> Use(v)], told <- [v \in Volume |-> Told(v)],
  left <- {v \in Volume : \E p \in Portal : <<v, p>> \in unseen}

\* The calls of node.go implement NodePromise: a volume is connected, mounted,
\* unmounted and disconnected in this order, only between a Stage or Unstage
\* call and the OK answer to one, whatever fails or restarts.
ImplementsPromise == Promise!Spec

\* The file has been truncated and is yet to be written.
Writing == \E c \in Call : call[c].pc = "write"

\* The bindings file keeps the line of each volume that is staged and of no
\* volume that is not (node.go:115, node.go:200).
BindingsMatch ==
  \A v \in Volume :
    /\ Staged(v) /\ ~Writing => v \in bindings
    /\ phase[v] = "unstaged" => v \notin bindings

\* Nothing is left at the target path when Unpublish has been answered OK,
\* whatever failed, unless a restart lost the answer to a Publish: the repeated
\* Publish then mounts once more (mounter.go:56), and Unpublish unmounts once
\* (node.go:272-278).
UnpublishedIsUnmounted ==
  restarts = 0 =>
    \A v \in Volume : phase[v] \in {"unstaged", "staged"} => target[v] = <<>>

\* A volume is let go again and again, whatever failed before: told so, the
\* kubelet finds it unmounted and logged out (but for sessions passed over),
\* since Unpublish and Unstage can be repeated (mounter.go:63, attacher.go:169).
\* The exception is a target path that no Publish came to make: Unpublish fails
\* on it each time (mounter.go:64).
EventuallyReleased ==
  \A v \in Volume :
    []<>(\/ phase[v] = "unstaged" /\ v \notin staged /\ LoggedOut(v)
         \/ phase[v] = "unpublishing" /\ v \notin paths)
-----------------------------------------------------------------------------
(***************************************************************************)
(* The invariants that the properties rest on.                             *)
(***************************************************************************)

\* The steps that the record k of a call can have come to, and the portals that
\* it has left to go through.
RecordOK(k) ==
  /\ k.op = "none" <=> k.pc = "idle"
  /\ k.op # "none" => k.volume \in Volume
  /\ k.op = "stage" =>
       /\ k.pc \in {"check", "login", "device", "read", "truncate", "write",
                    "map", "inspect", "format", "mount", "reply"}
       /\ k.pc = "check" => k.portal = 1
       /\ k.pc = "login" => k.portal <= Portals
  /\ k.op = "unstage" =>
       /\ k.pc \in {"unmount", "check", "read", "truncate", "write", "flush",
                    "logout", "reply"}
       /\ k.pc \notin {"logout", "reply"} => k.portal = 1
       /\ k.pc = "logout" => k.portal <= Portals
  /\ k.op = "publish" => k.pc \in {"bind", "reply"}
  /\ k.op = "unpublish" => k.pc \in {"unbind", "reply"}

\* The kubelet waits for every call, and has one in progress for a volume.
OneCall ==
  /\ \A c \in Call : Running(c) => call[c].heard
  /\ \A c, d \in Call :
       Running(c) /\ Running(d) /\ call[c].volume = call[d].volume => c = d

LoggedIn(v) == \A p \in Portal : <<v, p>> \in sessions

\* What the record k of a call knows to be done on the node: nobody undoes it
\* behind the call.
CallOK(k) ==
  LET v == k.volume IN
  /\ k.op = "stage" =>
       /\ phase[v] = "uncertain"
       /\ k.pc = "login" =>
            \A p \in Portal : p < k.portal => <<v, p>> \in sessions
       /\ k.pc \notin {"check", "login"} => LoggedIn(v)
       /\ k.pc \in {"format", "mount", "reply"} => v \in mapped
       /\ k.pc = "format" => fs[v] = "none"
       /\ k.pc = "reply" => v \in staged
  /\ k.op = "unstage" =>
       /\ phase[v] = "uncertain"
       /\ k.pc # "unmount" => v \notin staged
       /\ k.pc = "logout" =>
            \A p \in Portal :
              p < k.portal /\ <<v, p>> \in sessions => <<v, p>> \in unseen
       /\ k.pc = "reply" => LoggedOut(v)
  /\ k.op = "publish" =>
       /\ phase[v] = "publishing"
       /\ k.pc = "reply" => Shows(v)
       /\ k.pc = "bind" /\ restarts = 0 => target[v] = <<>>
  /\ k.op = "unpublish" =>
       /\ phase[v] = "unpublishing"
       /\ k.pc = "reply" /\ restarts = 0 => target[v] = <<>>

\* What is on the node of volume v, as far as the kubelet knows it to be.
VolumeOK(v) ==
  /\ v \in staged => v \in mapped /\ LoggedIn(v)
  /\ Staged(v) => v \in staged
  /\ phase[v] = "unstaged" => v \notin staged /\ LoggedOut(v)
  /\ phase[v] = "published" => Shows(v)
  /\ restarts = 0 =>
       /\ target[v] \in {<<>>, <<"volume">>}
       /\ phase[v] \in {"unstaged", "uncertain", "staged"} => target[v] = <<>>
       /\ phase[v] = "publishing" /\ target[v] # <<>> =>
            \E c \in Call : /\ call[c].op = "publish" /\ call[c].pc = "reply"
                            /\ call[c].volume = v

\* As long as the kubelet gives up on no call and no portal's address begins with
\* another's, no call meets another one's work half done.
Undisturbed ==
  /\ OneCall
  /\ \A c \in Call : CallOK(call[c])
  /\ \A v \in Volume : VolumeOK(v)
=============================================================================
