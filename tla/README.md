# A verification of csi-packet

TLA+ models of the Packet CSI driver in this repository, model-checked with TLC;
their safety properties are also proved with TLAPS. Paths below are relative to `src/`.
`PROJECT.json` lists, for each definition, the lines of Go that it models.

## 1. The system

The driver is one Go program that runs in two places. Next to the external
provisioner and attacher it serves the CSI *controller* service, which asks the
Packet API for volumes and attachments. On every node it serves the CSI *node*
service, which logs in to an attached volume, maps, formats and mounts it. Both
serve the *identity* service. Each gRPC call is handled by a goroutine of its own,
without locks and without looking at its context; the program keeps nothing on
disk but the node's configuration files. So the hard questions are about what
overlapping, failing, repeated and abandoned calls do to the provider's volumes and
attachments, and to the sessions, maps, mounts and files of a node.

| Component | Code | State | Operations | What makes it correct |
|---|---|---|---|---|
| CreateVolume, DeleteVolume | `pkg/driver/controller.go:103-229` | local variables; the provider's volumes | list, create, poll, delete | one volume per name; OK means the requested volume, ready; a repeated call finds it; OK delete is final |
| Size and plan | `controller.go:50-96`, `pkg/packet/volume.go` | none | bytes to GiB with limits, plan names | the size fits the range; a granted capacity asks for itself again |
| ControllerPublish/UnpublishVolume, Attach, Detach | `controller.go:233-399`, `pkg/packet/provider.go:159-200`, `errors.go` | local variables; the provider's attachments | get, look, attach; choose, detach in rounds | one node at a time; only what was asked for is detached; OK means detached; the loops end |
| Detach loop | `controller.go:352-398` | two slices over one array | detach each, keep those in use, next round | no attachment skipped or asked twice in a round |
| Controller queries | `controller.go:401-537` | none | validate, list, capabilities | the right code |
| Provider wrapper | `provider.go` | none | one HTTP client per request | errors told apart |
| Node service | `pkg/driver/node.go` | `Initialized`, `initiator`; the node | stage, unstage, publish, unpublish, info | OK means mounted / released; data never formatted away; repeatable; set up once both files are written |
| Attacher | `pkg/driver/attacher.go`, `exec.go` | iSCSI iface and sessions, `/etc/multipath/bindings` | discover, log in, log out, read and write bindings, multipath | a session per portal, under the node's initiator name; other volumes' bindings kept |
| Mounter | `pkg/driver/mounter.go` | mounts, filesystems | inspect, format, mount, bind, unmount | see the node service |
| Initializer | `initializer.go` | two configuration files | write both | both written when NodeGetInfo is answered |
| gRPC server, driver, main | `server.go`, `driver.go`, `cmd/` | wait group, server pointer, configuration, socket file | merge configuration, make the controller, start, serve, wait, stop | the environment comes first; exits only when done; serves again after every kill and every failed start or listener |
| Identity service | `identity.go`, `pkg/version` | none | constants | |
| Metadata client | `pkg/packet/utilities.go` | none | look up a volume, initiator, node ID | |

The container orchestrator (CO: external provisioner, attacher and kubelet) calls
the services; controller and node service never talk to each other. They meet in the
provider's attachments (the node reads them from the metadata service) and in the
order in which the CO calls.

The hard behaviours are listed with their lines under `hazards` in `PROJECT.json`.
In short: two requests where one atomic step is needed (list and create; look and
attach; read and write of the bindings file), answers lost after the effect,
restarts half-way, some of several steps failing, loops that have to end, and
numeric edges (bytes and GiB, retry limits, addresses that are prefixes).

## 2. Plan

Order of the modules, most important behaviour first. Those marked *done* exist.

1. `VolumeRequest` (pure operators) and its proofs: *done*.
2. `Provisioning`, which extends it, and its proofs: *done*.
3. `Attachment` and its proofs, `AttachmentProofs`: *done*.
4. `DetachRounds` (abstract) and `DetachLoop` (the slices), with the refinement and
   its proof: *done*.
5. `NodeVolume` and its proofs, `NodeVolumeProofs`, the refinement of `NodePromise`
   included: *done*.
6. `NodePromise`, abstract: what the node service promises of a volume, implemented by
   `NodeVolume`; its proofs: *done*.
7. `Cluster`: `Attachment` and `NodePromise` with the CO that moves a pod between nodes,
   and its proofs, `ClusterProofs`, which rest on the step lemmas of `AttachmentProofs`:
   *done*.
8. `NodeSetup` (NodeGetInfo, the initializer, Discover's interface) and
   `DriverProcess` (configuration, start, serve, stop), which runs it; the proofs of
   both are in `DriverProcessProofs`: *done*.

What is left to prove: that `Cluster`'s handlers detach only what was asked for, with
records that are used again (it needs a history of the calls), and `NodeVolume` with
calls given up, of which `StagedIsReady`, `UnstagedIsReleased` and `DataKept` do not hold
as they stand.

Runs stay at two or three calls, one or two volumes and nodes, retry limits of one
or two: enough for every pair of handlers to overlap and for each loop to end on
its limit and before it, and small enough to check in about a minute each.

## 3. Modules

### VolumeRequest

`getSizeRequest` and `getPlanID` as operators over capacity ranges, with the size
of a GiB and the sizes on offer as constants. `Provisioning` calls them for its requests;
`MCVolumeRequest` draws every range up to a bound, to compare them with the comment that
stands over them in the code.

### Provisioning

`call` holds one record per CSI call: the handler's local variables, its position
(`pc`) and its answer. `volumes` is the provider's state. A handler's step is one
API request with the code up to the next, so a crash, another call or a change at
the provider can come between any two. The answers of the API that the code tells
apart are actions of their own: `ListVolumesFails` (error), `CreateLost` (done, the
answer lost), `CreateGarbled` (done, but the answer cannot be read),
`CreateFails`, `ListVolumesPanics` and `DeletePanics` (no response to
dereference), `DeleteBusy` (422). `TimeOut` is the CO giving up on a call whose
handler runs on, `Crash` a restart of the process. `MayCreate` is the external
provisioner's promise: one CreateVolume per name until it is answered or given up.

### Attachment

The same shape for Publish and Unpublish; `attachments` is the provider's state and
`Login`/`Logout` is the node beginning and ending to use an attachment, which makes
a detach fail as in use. `CreateAttachment` and `FetchAttachment` are the two
requests of `Attach`; `Select` makes the list of attachments, `DetachIdle`,
`DetachBusy`, `DetachGone`, `DetachFails` and `DetachLost` are the outcomes of one Detach.
The first state may hold one attachment that an earlier process made.
`Serial` says which calls the CO keeps apart: all calls for a volume, or those for
one volume and node. `WrongDeviceByPointer` is FALSE in the code: `Attach` returns
its error as a value and the handler recognises a pointer, so that its attach loop never
goes round. With TRUE in `AttachmentNoRetry.cfg` the run's property holds; with TRUE and
one fault in `Cluster.cfg` all its properties do, so the loop that was meant also ends.
`GivenUp` says which calls the CO may abandon; see *Timeouts* below.

### DetachRounds and DetachLoop

`DetachRounds` is what the detach loop promises, over sets. `DetachLoop` has the two
slices. In Go, `attachmentIDs = retryIDs[:]` and `retryIDs = retryIDs[:0]` make both
share one array, so from the second round on the loop appends to the array that it
ranges over. `retries` is that array, `length` and `kept` are the two lengths. The
refinement maps what is not yet read to `todo` and what has been appended to `retry`.

### NodeVolume

One node and its kubelet. `sessions`, `bindings`, `mapped`, `fs`, `staged` and
`target` are what the commands leave behind; `call` holds the handlers in progress
and `phase` what the kubelet knows of a volume: it changes to an uncertain phase when
a call begins and to a certain one when its OK answer is heard. Stage and Unstage go
through a dozen commands; each is an action, and `Fails` lets any of them fail, with
or without its effect. One failure is no error for the code: `ListFails` is `iscsiadm --mode
session` failing, which `HasSession` takes for "no session" (`attacher.go:134`). Login then logs in all the
same, and Logout passes over a session that is there, so that Unstage can answer OK with the
node still logged in; `unseen` remembers such sessions until a logout or a mount sees
to them, or the node restarts. `paths` is the volumes whose target path exists: Unmount passes on a path
where nothing is mounted, not on one that is not there (`mounter.go:64`), and an Unpublish may follow
a Publish that never came to make it. The bindings file is read, truncated and written in three
steps, since `os.Create` and the flush of the writer are apart. `Reply` is apart
from the last effect, so that a restart can lose an answer. External facts taken from
the tools: mounting the same device at the same path again fails, `mkfs.ext4 -F`
refuses a mounted device, `multipath -f` leaves a map in use alone, and `lsblk`
reports the filesystem that is there. The kubelet publishes a volume at one target path
and, once it has begun to unpublish, does not publish there again; it takes the path away
after an OK Unpublish, and keeps the staging path until Unstage is OK, as CSI has it. Volume names are taken
as distinct (`VolumeIDToName` keeps eight digits of the ID), and the `mpath...` maps
that both handlers discard are left out, as they are never mounted.

### NodePromise

What the rest of the system may rely on, without a command in it: a volume at a node is
free, connected or mounted (`use`), and an OK answer to Stage or Unstage tells which
(`told`) until the next call begins or the node goes down. An Unstage may be answered OK at a
volume still connected only where a session has been overlooked (`Overlook`, `left`).
`NodeVolume` maps a staging mount to "mounted", any session to "connected" and `unseen` to `left`
(`Use`, `Told`, `Promise`), and its run checks that it implements `NodePromise`: nothing is
mounted before it is connected, nothing is let go that is still mounted, nothing but an overlooked session is left behind by
an OK Unstage, and nothing changes behind an answer.

### Cluster

`Attachment`'s handlers (INSTANCE `Controller`) and one `NodePromise` for all nodes
(`Kubelet`) meet in the provider's attachments: `Connect` is the node's first login and
makes an attachment busy, `Disconnect` the last logout. The CO wants a volume at a
node (`want`), moves it (`Move`), and knows of each place what it was told (`known`). It
calls Publish where the volume is wanted, Unpublish elsewhere, repeats what failed, and
does not wait for the old node; calls for one node and volume follow each other, as the external
attacher's work queue keeps them. At first one volume is attached for a pod that is about
to start, so that two moves can bring it back to a node that it is still leaving. Its records are finitely many, so they are used
again (`Hear`), and so are the IDs of attachments that nothing refers to (`Recycled`).
Requests fail, answers are lost, Unpublish calls are given up, the controller crashes,
a node restarts or hangs, an Unstage overlooks a session: at most `MaxFaults` of these.

### NodeSetup and DriverProcess

`NodeSetup` has the calls that set up a node. NodeGetInfo looks at `Initialized`, asks the
metadata service and writes two files, each truncated first; Discover looks for the
interface, makes it, reads the defaults and sets one parameter after the other. `disturbed`
records what a call has left half done or met half done; the two properties
except it, since the code has no answer to it (see below).

`DriverProcess` is the process around it, launch after launch. `Launch` merges environment
and file, `NewProvider` finds the facility and makes the controller, `Start` counts
and sends off `serve`, which removes the socket, listens, makes the server and serves;
`Wait` lets main exit when the counter is 0. `StartFails` is any step of the start that
ends the process with an error: settings, metadata or facilities that cannot be read, a socket that cannot be
removed, an address that cannot be listened on. `ServeBreaks` is `Serve` returning because the
listener failed: the code looks at no error of it (`server.go:146-147`) and counts serve as done,
though the server goes on with the connections it has. `Stop` may come at any time after `Start`, also
before there is a server; main never calls it, only a program that holds a `PacketDriver`
does, such as `driver_test.go:91`. `Kill` may come at any time at all. What one launch leaves to the
next is the socket and `NodeSetup`'s files and interface.

## 4. Runs

| Run | What it shows |
|---|---|
| `provisioning` | three calls for one name, all faults, crashes, no timeouts: one volume per name, right answers, a granted capacity asks for itself again, no false conflicts, deletes final |
| `provisioning_liveness` | two calls that are also given up and run on beside their repetition: every call is answered even if the volume never becomes ready |
| `attachment` | three calls, one at a time per volume, Unpublish calls given up, lost and failing requests, restarts: one attachment per volume, right answers, nothing detached that was not asked for, nothing left when Unpublish is OK |
| `cluster` | a pod moves to another node and back, two faults anywhere: in use at one node at a time, what the CO believes detached is, every call is answered, and the volume arrives |
| `detach_loop` | three attachments over three rounds: the slices implement the sets |
| `node_volume` | two volumes and portals, overlapping, one fault and one restart anywhere: staged is ready, unstaged is released, a pod sees its volume, Unpublish leaves nothing unless a restart lost an answer, data is kept, sessions outlive mounts; it implements `NodePromise`, an unreadable list of sessions included |
| `node_liveness` | three faults and a restart, with Unstage, Publish and Unpublish calls given up: repeated Unpublish and Unstage release the volume whatever failed, unless its target path was never made |
| `driver_process` | four configurations, four endpoints, two node calls, one fault and two kills or stops: the controller is configured as documented, main exits OK only when serve has returned, and with no call in progress unless its listener failed, the node is set up when it says so, and the driver serves again |

Runs that end in a counterexample show where the code differs from what the
repository says of it (`findings` in `PROJECT.json` quotes the lines):

| Run | What happens |
|---|---|
| `volume_request` | a capacity range that is present and names no bound gets the minimum size (`controller.go:66`), where the comment on it ends "default otherwise" |
| `provisioning_queued` | a repeated CreateVolume answers OK while the volume is queued |
| `attachment_no_retry` | Publish does not retry a volume attached elsewhere |
| `node_bindings` | overlapping Stage calls lose each other's line of the bindings file |

**Bounds.** `Call` bounds the CSI calls (in `NodeVolume`: those in progress at once;
`MaxStarts` bounds the Stage and Publish calls). `VolumeId` and `AttachmentId` are as
large as the creations that the calls of a run can make. The retry limits are one or
two instead of 5 to 30: a loop's behaviour depends only on whether the limit is
reached. `MaxFaults` and `MaxRestarts` bound failing commands and restarts on the
node; in `Cluster` `MaxFaults` bounds all faults together and `MaxMoves` is two: there
and back (about 300,000 states, two to three minutes: the largest run with liveness); in `DriverProcess` `MaxEnds` bounds
kills and stops. Three calls are the least with which a first call fails, a second runs beside
it and a third sees what they left. Data before a second Stage needs three starts.

**Assumptions about the provider and the CO.** A list request answers with a complete
snapshot (the driver asks for one page and packngo follows the pages). A request in flight when the
process dies has been applied by then or never is. iscsiadm may start an interface
that is made twice afresh or keep it. `grpc.Server` stops gracefully: `Serve` returns when
the calls in progress have ended, or at once when its listener fails for good, and closing the listener removes its socket file. The CO answers for the order of
calls as `MayCreate`, `MayStart` and `phase` state it.

**Fairness.** `WF` on the step that each call takes when nothing fails (`Progress` in
`Provisioning` and `Attachment`, `Step` in `NodeVolume`, `SetupStep` in `NodeSetup`): a handler's goroutine goes on,
and each API request and command ends. Were the failing steps in it, a loop would end
because an error has to come some day. The code itself does not promise that (the HTTP
client has no timeout and only multipath commands have one), so liveness is relative
to it. No fairness is assumed for faults, for the provider making a volume ready or
for a node giving up a volume. In `node_liveness` the kubelet is fair in calling
Unpublish and Unstage: it tears down what it has set up. Faults are bounded there; with a
command that fails for ever nothing is released. In `Cluster` the CO and the kubelets
repeat their calls and take the answers, under weak fairness of each place's calls; two
records are enough for none of two places to wait for ever. Nobody has to move a pod. In `DriverProcess` both goroutines
go on, the calls in progress do, and the container is started again when the process has
ended; nobody has to call, stop or kill it.

**Timeouts.** `UniqueName` and `Exclusive` hold only while no Create and no
Publish is given up. With `Timeouts = TRUE` in `Provisioning.cfg`, a CreateVolume that is
given up and its repetition both find no volume and both make one; with `GivenUp =
{"publish"}` or `Serial = FALSE` in `Attachment.cfg`, two Publish calls both see no
attachment and both make one. Unpublish calls are given up in `attachment` and
`cluster`: its rounds wait two seconds each, up to a minute in all, which is longer than a
sidecar's deadline. On the node each kind of call that is given up breaks a
property of `NodeVolume.cfg`, as TLC finds: a Stage that runs on `UnstagedIsReleased` and `DataKept` (given up between
`lsblk` and `mkfs`, it formats after a second Stage has mounted the volume, a pod has written
and Unstage has unmounted it), an Unstage `StagedIsReady`, a Publish `UnpublishedIsUnmounted`, an
Unpublish `PublishedShowsVolume`. That is why `provisioning` has `Timeouts = FALSE` and `node_volume`
has `GivenUp = {}`: the CO's deadlines are assumed longer than a handler takes, which the code does
not ensure. In `node_liveness` Unstage, Publish and Unpublish calls are given up and run on beside
their repetitions; a Stage is not, since one that was given up can run on behind the OK answer to Unstage, and
then logs in and mounts a volume that the kubelet takes for released: with `"stage"` in
`GivenUp` TLC finds `EventuallyReleased` violated.

**What the properties except.** `UnstagedIsReleased`, `ImplementsPromise` and `ReachesNode`
except the session that an Unstage overlooked because the list of sessions could not be read
(`attacher.go:134-136`): it answers OK, nobody unstages again, every detach of the volume stays busy, and so the
volume never arrives. The exception is no wider than that: only a session passed over counts, until it is logged out or
mounted over again. `ReachesNode` excepts as well a node that hangs and an attachment
gone *astray* (`Astray`). The latter is a gap of the code: when a detach has
succeeded and its answer is lost, the repeated Unpublish finds nothing and answers
Unknown (`controller.go:348`), for ever; and an Unpublish that was given up can still take
the attachment that a Publish of the same node has been answered with. Without its exceptions
TLC finds each of these. `EventuallyReleased` excepts a target path that does
not exist: a Publish that failed before it made the path is followed by an Unpublish that fails on it each time
(`mounter.go:64`). `ExitsWhenDone` excepts a listener that failed: main then exits with 0, and the calls
in progress end with it. `InitializedMeansWritten` excepts a file that a NodeGetInfo has
left empty while another set `Initialized` (`node.go:294-305`, no lock): nobody writes it
again before a restart. `DiscoversAsItself` excepts an interface that a failure, a
restart or an overlapping Discover leaves half configured: Discover takes an interface
that exists as it is (`attacher.go:95-123`), so the node goes on to log in
under another initiator's name. `EventuallyServes` excepts what the driver has been
given: a token without a project, a facility without storage, and an endpoint like
`UNIX://...`, which `ParseEndpoint` accepts in any case and `net.Listen` does not
(`server.go:35`, `:118`).

**Similar addresses.** `HasSession` looks for the pattern `ip.*target` (`attacher.go:137`). If the
second portal's address begins the first's, the first's session passes for the second's,
which is never logged in to: with `Similar = {<<2, 1>>}` TLC finds `StagedIsReady` violated.
Likewise an Unstage that failed at the longer address is repeated in vain. The runs take
addresses as distinct.

**Seen while modelling, without a run of its own.** A request that fails without a response makes
`controller.go:126` and `provider.go:145` dereference nil, which ends the process: the
actions `ListVolumesPanics` and `DeletePanics`. A Publish repeated because a restart lost its
answer mounts a second time (`mounter.go:56`), and Unpublish takes off one of the two
mounts: without its premise `restarts = 0`, `UnpublishedIsUnmounted` fails.
A `Stop` before serve has made the server dereferences nil (`server.go:97`) and ends the process:
the first case of `Stop`. The configuration file's `base-url` and `metadata-url` are read and
dropped (`main.go:105-125` copies three settings), and its key for the facility is
`facility-id`, which the repository's `README.md` calls `facilityID`.

A repeated Unpublish after a lost answer finds no attachment and fails with Unknown
(`controller.go:348`), and a repeated Stage after a lost answer fails at the mount. Both
are modelled as they are; nothing in the repository says otherwise.

## 5. Proofs

TLAPS proves the following for every value of the constants that the named
assumptions allow.

- `VolumeRequestProofs`: the requested size is on offer (`SizeOnOffer`), for a range that names
  a bound it is the largest that fits in it (`SizeIsLargest`), and a granted capacity asks
  for the same size (`GrantedAgain`). The argument is a lemma on truncating division.
- `ProvisioningProofs`: the invariant `Good == TypeOK /\ Consistent`. `Consistent`
  says what a call's record means for the volumes (a call that polls a volume made it
  as requested; a deleted volume stays deleted) and that each named volume was asked
  for by some call; without the latter a conflict could not be traced to a request.
  From it follow `TypeCorrect`, `AnswerMatchesRequestHolds`, `CapacityRoundTripHolds` (with
  `GrantedAgain`), `NoFalseConflictHolds`,
  `DeletedIsGoneHolds` and the action property `NewVolumeIsReadyHolds`, with any
  overlap and faults. `UniqueNameHolds` assumes
  `Timeouts = FALSE` and needs `Serialised` as well: calls for a name come one after the other,
  and one about to create has seen that there is none.
- `DetachLoopProofs`: `Inv` says that the loop writes behind its reading position
  (`kept < next`), so that unread and kept IDs are distinct, and that each attachment
  not yet failed is unread or kept. From it follow `TypeCorrect`,
  `OkMeansDetachedHolds` and `Refinement`: the slices implement `DetachRounds` for any
  number of attachments and rounds.
- `NodePromiseProofs`: `TypeCorrect`, and for any places and machines a mounted volume is never let go
  in one step save by a restart (`UnmountedFirstAlways`).
- `AttachmentProofs`: `Good == TypeOK /\ Consistent`. `Consistent` says of each record
  what it means for the attachments (`RecordOK`): what Unpublish chose was asked for, and
  is gone unless it is still held or something failed; Publish goes by an attachment that
  is the one it was asked for. Without the clause on `todo` and `retry`, "OK means
  gone" is not inductive over the rounds. Each handler's step is first shown to be an
  `Effect`, and the invariants are then proved from that alone. Under no assumption:
  `TypeCorrect`, `PublishAnswersRequestHolds`, `UnpublishedIsGoneHolds`,
  `OnlyRequestedDetachedHolds`. With `"publish" \notin GivenUp`:
  `UnpublishLeavesNoneHolds`, and with `Serial = TRUE` as well `ExclusiveHolds`; these need
  `Undisturbed`: calls that the CO waits for are apart, a call about to attach has seen that
  nothing is attached, and an Unpublish that is detaching chose all there is.
- `ClusterProofs`: the controller's part is taken from `AttachmentProofs` by
  INSTANCE, save that records and IDs are used again (`HearGood`). The nodes take
  steps of `NodePromise` by the way `Cluster` is composed; that the code keeps it is
  `ImplementsPromiseHolds` below. Under no assumption: `TypeCorrect`. With
  `"publish" \notin GivenUp`: `OneNodeHolds` and `DetachedIsDetachedHolds`, from
  `ClusterInv`: what the CO knows of a place tells which call is under way there
  (`CallsKnown`, `CallsApart`), what calls saw is still so (`CallsSee`), and what
  is in use is attached and busy (`InUseIsBusy`). `Serial` is not needed here:
  the CO of `Cluster` keeps one Publish at a time for a volume, and the proof uses
  that and not `MayStart`.
- `DriverProcessProofs`, for the process and the node's set-up under it, with no assumption:
  `TypeCorrect`, `InitializedMeansWrittenHolds`, `DiscoversAsItselfHolds`,
  `ControllerConfiguredHolds` and the action property `ExitsWhenDoneHolds`. `ProcessInv`
  ties `wg`, the goroutine of serve, the server and main together (`wg` is 1 exactly while
  serve runs, and no more once its listener has failed; calls are in progress only while the server serves or stops); `ConfigInv` says where
  each setting comes from at each stage of main; `FilesInv` and `InterfaceInv` say who is
  about to write what, as long as nothing was disturbed.
- `NodeVolumeProofs`: `TypeCorrect` under no assumption. With `GivenUp = {}` and
  `Similar = {}`: `StagedIsReadyHolds`, `UnstagedIsReleasedHolds`,
  `PublishedShowsVolumeHolds`, `UnpublishedIsUnmountedHolds`, the action properties
  `DataKeptHolds` and `LogoutAfterUnmountHolds`, and `ImplementsPromiseHolds`, the refinement
  of `NodePromise`: each of the steps is one of its steps or a stutter. A failing list of
  sessions is in all of them; `Recorded`, that a session passed over is one that is there, is proved first. The invariant is
  `Undisturbed`: one call at a time for a volume (`OneCall`), what a handler has
  done so far is still so (`CallOK`: the portals before the current one are logged in,
  the filesystem was seen missing before it is made), and what the kubelet knows is true
  (`VolumeOK`). Each action is shown to touch the volume of its own call only, so that the
  rest is carried over by one lemma (`Frame`). The bindings file is shared by all
  volumes and is in no clause: no property proved rests on it.

**Assumptions of the theorems.** `Timeouts = FALSE`, `GivenUp = {}`, `"publish" \notin GivenUp` and
`Serial = TRUE` are about the CO, `Similar = {}` about the addresses. The code ensures none
of them, and section 4 (*Timeouts*, *Similar addresses*) says what TLC finds where they
fail: none can be dropped altogether. In `Cluster`, too, TLC finds `OneNode` and
`DetachedIsDetached` violated when Publish calls may be given up. The other hypotheses are the `ASSUME`s of the modules, which fix
the kinds of the constants.

**Only model-checked.** All liveness (`EveryCallAnswered`, `ReachesNode`,
`EventuallyReleased`, `EventuallyServes` and the like): fairness and ENABLED are out of TLAPS's
reach, as are induction over data and RECURSIVE operators; no module uses the latter. The
properties of the three runs that end in a counterexample do not hold and have no
theorem. The inductive invariants were checked with TLC on the instances of section 4 before
they were proved.

## 6. Not modelled

The queries of the controller service and the identity service change no state, and each is
one request or none between its checks and its answer. Nothing is said of
packngo's paging: CreateVolume's scan is one step, though a volume deleted while the pages are
read could shift another one out of sight. Logging, message texts, HTTP and
JSON are left out, and so are a context's deadlines, which no handler looks at. The mock
under `pkg/test` is generated. `PROJECT.json` gives each component's status.
