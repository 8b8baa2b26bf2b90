------------------------------ MODULE NodeSetup ------------------------------
(***************************************************************************)
(* What the driver sets up on a node before its first volume: NodeGetInfo  *)
(* writes the initiator's name and multipath's configuration (node.go,     *)
(* initializer.go), and the Discover of the first Stage clones iscsiadm's  *)
(* default interface (attacher.go).  A step is a request to the metadata   *)
(* service, a command or a file operation.  DriverProcess runs it.         *)
(***************************************************************************)
EXTENDS Naturals

CONSTANTS
  Call,       \* the calls that can be in progress at once
  Param,      \* the parameters of the default interface
  MaxFaults   \* bound on failing steps

ASSUME ParamAssumption == "initiatorname" \in Param
ASSUME FaultsAssumption == MaxFaults \in Nat

VARIABLES
  handler,      \* the calls in progress
  initialized,  \* NodeGetInfo has set up the node (lost with the process)
  files,        \* the two files that it writes
  made,         \* does the interface exist?
  tuned,        \* the parameters that have been set on it
  disturbed,    \* what a call has left half done, or met another call at
  faults

configuration == <<files, made, tuned>>
setup == <<handler, initialized, configuration, disturbed, faults>>

-----------------------------------------------------------------------------
File == {"initiatorname", "multipath"}

Handler == [pc : {"idle", "metadata", "open", "write", "list", "new",
                  "defaults", "update", "discovery", "reply"},
            file : File, todo : SUBSET Param]

NewHandler == [pc |-> "idle", file |-> "initiatorname", todo |-> {}]

SetupTypeOK ==
  /\ handler \in [Call -> Handler]
  /\ initialized \in BOOLEAN
  /\ files \in [File -> {"other", "empty", "own"}]
  /\ made \in BOOLEAN
  /\ tuned \subseteq Param
  /\ disturbed \subseteq {"files", "interface"}
  /\ faults \in 0 .. MaxFaults

SetupInit ==
  /\ handler = [c \in Call |-> NewHandler]
  /\ initialized = FALSE
  /\ files = [f \in File |-> "other"]
  /\ made = FALSE /\ tuned = {} /\ disturbed = {} /\ faults = 0

At(c, pc) == handler[c].pc = pc

Goto(c, pc) == handler' = [handler EXCEPT ![c].pc = pc]

AllIdle == \A c \in Call : At(c, "idle")

\* The call has made the interface, or is about to, and has not finished it.
Configuring(c) == handler[c].pc \in {"new", "defaults", "update"}

-----------------------------------------------------------------------------
(***************************************************************************)
(* NodeGetInfo.                                                            *)
(***************************************************************************)

GetInfo(c) ==
  /\ At(c, "idle")
  /\ Goto(c, IF initialized THEN "reply" ELSE "metadata")
  /\ UNCHANGED <<initialized, configuration, disturbed, faults>>

GetInitiator(c) ==
  /\ At(c, "metadata")
  /\ Goto(c, "open")
  /\ UNCHANGED <<initialized, configuration, disturbed, faults>>

\* ioutil.WriteFile truncates the file, and then writes it.
Open(c) ==
  /\ At(c, "open")
  /\ files' = [files EXCEPT ![handler[c].file] = "empty"]
  /\ Goto(c, "write")
  /\ UNCHANGED <<initialized, made, tuned, disturbed, faults>>

SkippedLast == "initiatorname"

LastFile == "multipath"

Write(c) ==
  LET f == handler[c].file IN
  /\ At(c, "write")
  /\ files' = [files EXCEPT ![f] = "own"]
  /\ IF f = LastFile
     THEN Goto(c, "reply") /\ initialized' = TRUE
     ELSE /\ handler' = [handler EXCEPT ![c].pc = "open", ![c].file = "multipath"]
          /\ UNCHANGED initialized
  /\ UNCHANGED <<made, tuned, disturbed, faults>>

-----------------------------------------------------------------------------
(***************************************************************************)
(* Discover.                                                               *)
(***************************************************************************)

Discover(c) ==
  /\ At(c, "idle")
  /\ Goto(c, "list")
  /\ UNCHANGED <<initialized, configuration, disturbed, faults>>

List(c) ==
  /\ At(c, "list")
  /\ Goto(c, IF made THEN "discovery" ELSE "new")
  /\ disturbed' = IF \E d \in Call : Configuring(d)
                  THEN disturbed \cup {"interface"} ELSE disturbed
  /\ UNCHANGED <<initialized, configuration, faults>>

\* iscsiadm may start a second interface of the same name afresh, or keep it.
New(c) ==
  /\ At(c, "new")
  /\ made' = TRUE /\ tuned' \in {{}, tuned}
  /\ Goto(c, "defaults")
  /\ UNCHANGED <<initialized, files, disturbed, faults>>

\* Without the line that overrides the initiator's name.
OnlyListed == Param \ {"initiatorname"}

Overridden == Param

Defaults(c) ==
  /\ At(c, "defaults")
  /\ handler' = [handler EXCEPT ![c].pc = "update", ![c].todo = Overridden]
  /\ UNCHANGED <<initialized, configuration, disturbed, faults>>

\* The parameters are set in the order in which Go ranges over the map.
Update(c) ==
  /\ At(c, "update")
  /\ \E k \in handler[c].todo :
       /\ tuned' = tuned \cup {k}
       /\ handler' = [handler EXCEPT ![c].todo = @ \ {k},
            ![c].pc = IF handler[c].todo = {k} THEN "discovery" ELSE @]
  /\ UNCHANGED <<initialized, files, made, disturbed, faults>>

Discovery(c) ==
  /\ At(c, "discovery")
  /\ Goto(c, "reply")
  /\ UNCHANGED <<initialized, configuration, disturbed, faults>>

Reply(c) ==
  /\ At(c, "reply")
  /\ handler' = [handler EXCEPT ![c] = NewHandler]
  /\ UNCHANGED <<initialized, configuration, disturbed, faults>>

-----------------------------------------------------------------------------
\* What is left half done when call c ends here: an interface on which not all
\* is set, or an empty file that nobody will write again.
HalfDone(c) ==
  (IF At(c, "defaults") \/ At(c, "update") THEN {"interface"} ELSE {}) \cup
  (IF At(c, "write") /\ (initialized \/ \E d \in Call \ {c} :
                           handler[d].pc \in {"open", "write"})
   THEN {"files"} ELSE {})

\* A request, a command or a file operation fails, and the handler returns.
SetupFails(c) ==
  /\ faults < MaxFaults /\ faults' = faults + 1
  /\ handler[c].pc \notin {"idle", "reply"}
  /\ handler' = [handler EXCEPT ![c] = NewHandler]
  /\ disturbed' = disturbed \cup HalfDone(c)
  /\ UNCHANGED <<initialized, configuration>>

\* The process ends: its memory is gone and the configuration stays.
SetupEnds ==
  /\ handler' = [c \in Call |-> NewHandler]
  /\ initialized' = FALSE
  /\ disturbed' = disturbed \cup
       (IF \E c \in Call : "interface" \in HalfDone(c) THEN {"interface"} ELSE {})
  /\ UNCHANGED configuration

\* What a handler does when nothing fails.
SetupStep(c) ==
  \/ GetInitiator(c) \/ Open(c) \/ Write(c)
  \/ List(c) \/ New(c) \/ Defaults(c) \/ Update(c) \/ Discovery(c) \/ Reply(c)

SetupCall(c) == GetInfo(c) \/ Discover(c)

-----------------------------------------------------------------------------
(***************************************************************************)
(* The properties.                                                         *)
(***************************************************************************)

\* Once NodeGetInfo has been answered OK both files are written, unless another
\* NodeGetInfo has one of them open, or failed while it had: Initialized is
\* looked at long before it is set (node.go:294-306).
InitializedMeansWritten ==
  initialized /\ "files" \notin disturbed =>
    \A f \in File :
      \/ files[f] = "own"
      \/ \E c \in Call : At(c, "write") /\ handler[c].file = f

\* Discovery goes through an interface on which every parameter has been set, the
\* initiator's name included.  That a later Discover takes the interface as it
\* is needs the exception: none may have failed, been killed or been met half-way
\* by another one (attacher.go:97-126).
DiscoversAsItself ==
  \A c \in Call : At(c, "discovery") =>
    tuned = Param \/ "interface" \in disturbed
-----------------------------------------------------------------------------
(***************************************************************************)
(* The invariants that the properties rest on.                             *)
(***************************************************************************)

\* Is file f written, or held open by a call that is about to write it?
Covered(f) ==
  \/ files[f] = "own"
  \/ \E c \in Call : At(c, "write") /\ handler[c].file = f

\* A call that has come to the last file has written the one before it.
AtLastFile(c) ==
  handler[c].pc \in {"open", "write"} /\ handler[c].file = LastFile

FilesInv ==
  /\ \A c \in Call :
       handler[c].pc \in {"idle", "metadata"} => handler[c].file # LastFile
  /\ "files" \notin disturbed =>
       /\ initialized => \A f \in File : Covered(f)
       /\ (\E c \in Call : AtLastFile(c)) => Covered("initiatorname")

\* As long as no call has met another one half-way or failed there, one call at
\* most configures the interface, and what it has not set yet it will set.
InterfaceInv ==
  "interface" \notin disturbed =>
    /\ \A c, d \in Call : Configuring(c) /\ Configuring(d) => c = d
    /\ made => tuned = Param \/ \E c \in Call : At(c, "defaults") \/ At(c, "update")
    /\ \A c \in Call :
         /\ At(c, "new") => ~made
         /\ At(c, "defaults") => made
         /\ At(c, "update") => made /\ Param \ handler[c].todo \subseteq tuned
         /\ At(c, "discovery") => made /\ tuned = Param
=============================================================================
