---------------------------- MODULE DriverProcess ----------------------------
(***************************************************************************)
(* The driver's process: how it is configured (main.go, provider.go), how  *)
(* it starts, serves and stops (driver.go, server.go), and the node's      *)
(* set-up calls of NodeSetup that it serves.  Main and the goroutine of    *)
(* serve run side by side; the container is started again when the process *)
(* ends.  What one run leaves to the next is the socket and the node's     *)
(* configuration.                                                          *)
(***************************************************************************)
EXTENDS NodeSetup, Sequences

CONSTANTS
  Facilities,  \* the provider's list: sequences of a code and its features
  Code,        \* the facility code in the node's metadata
  Given,       \* the settings that environment and file may give: pairs
  MaxEnds      \* bound on kills and Stop calls

Setting == {"apiKey", "projectId", "facility-id"}

ASSUME GivenAssumption == Given \subseteq (SUBSET Setting) \X (SUBSET Setting)
ASSUME EndsAssumption == MaxEnds \in Nat

VARIABLES
  env, file,   \* the settings given by environment and by configuration file
  endpoint,    \* the kind of the endpoint flag
  main, serve, \* the positions of the two goroutines
  wg,          \* the wait group's counter
  server,      \* the gRPC server
  config,      \* the source of each setting
  controller,  \* is there a controller behind its service?
  socket,      \* does the socket file exist?
  exit,        \* the last exit, until the next launch
  ends

given == <<env, file, endpoint>>
process == <<main, serve, wg, server, config, controller>>
vars == <<setup, given, process, socket, exit, ends>>

-----------------------------------------------------------------------------
\* The endpoints that ParseEndpoint, serve and net.Listen tell apart.
Endpoint == {"unix", "UNIX", "tcp", "invalid"}

\* Where serve's goroutine is: "none" before it starts and when it has returned
\* from a stopped server, "failed" when it has returned from a failed listener.
ServePlace ==
  {"none", "remove", "listen", "make", "serve", "serving", "failed"}

TypeOK ==
  /\ SetupTypeOK
  /\ env \subseteq Setting /\ file \subseteq Setting
  /\ endpoint \in Endpoint
  /\ main \in {"down", "provider", "start", "wait"}
  /\ serve \in ServePlace
  /\ wg \in 0 .. 1
  /\ server \in {"nil", "made", "serving", "stopping", "stopped"}
  /\ config \in [Setting -> {"none", "env", "file", "found"}]
  /\ controller \in BOOLEAN
  /\ socket \in BOOLEAN
  /\ exit \in {"none", "ok", "error"}
  /\ ends \in 0 .. MaxEnds

NoConfig == [k \in Setting |-> "none"]

Init ==
  /\ SetupInit
  /\ \E g \in Given : env = g[1] /\ file = g[2]
  /\ endpoint \in Endpoint
  /\ main = "down" /\ serve = "none" /\ wg = 0 /\ server = "nil"
  /\ config = NoConfig /\ controller = FALSE
  /\ socket \in (IF endpoint = "unix" THEN BOOLEAN ELSE {FALSE})
  /\ exit = "none" /\ ends = 0

\* The process ends with this code, and whatever it did ends with it.
Ends(code) ==
  /\ main' = "down" /\ serve' = "none" /\ wg' = 0 /\ server' = "nil"
  /\ config' = NoConfig /\ controller' = FALSE
  /\ exit' = code
  /\ SetupEnds
  /\ UNCHANGED given

Exit(code) == Ends(code) /\ UNCHANGED faults

-----------------------------------------------------------------------------
(***************************************************************************)
(* main, NewPacketDriver, NewPacketProvider and Run.                       *)
(***************************************************************************)

FileFirst(k) ==
  CASE k \in file -> "file"
    [] k \in env \ file -> "env"
    [] OTHER -> "none"

\* Environment before file.
Merged(k) ==
  CASE k \in env -> "env"
    [] k \in file \ env -> "file"
    [] OTHER -> "none"

Launch ==
  /\ main = "down"
  /\ config' = [k \in Setting |-> Merged(k)]
  /\ main' = IF Merged("apiKey") = "none" THEN "start" ELSE "provider"
  /\ exit' = "none"
  /\ UNCHANGED <<setup, given, serve, wg, server, controller, socket, ends>>

\* The first facility of the node's code decides.
Named == {i \in DOMAIN Facilities : Facilities[i].code = Code}

FacilityFound ==
  \E i \in Named : /\ \A j \in Named : i <= j
                   /\ "storage" \in Facilities[i].features

ProviderMade ==
  /\ config["projectId"] # "none"
  /\ config["facility-id"] # "none" \/ FacilityFound

NewProvider ==
  /\ main = "provider"
  /\ IF ProviderMade
     THEN /\ controller' = TRUE
          /\ config' = [config EXCEPT !["facility-id"] =
                          IF @ = "none" THEN "found" ELSE @]
          /\ main' = "start"
          /\ UNCHANGED <<setup, given, serve, wg, server, exit>>
     ELSE Exit("error")
  /\ UNCHANGED <<socket, ends>>

\* The file, the metadata or the list of facilities cannot be read, the old socket
\* cannot be removed, or the address cannot be listened on.
StartFails ==
  /\ faults < MaxFaults /\ faults' = faults + 1
  /\ \/ main \in {"down", "provider"}
     \/ serve = "remove" /\ endpoint = "unix"
     \/ serve = "listen"
  /\ Ends("error")
  /\ UNCHANGED <<socket, ends>>

StartWithoutAdd ==
  /\ main = "start"
  /\ main' = "wait" /\ serve' = "remove" /\ wg' = wg
  /\ UNCHANGED <<setup, given, server, config, controller, socket, exit, ends>>

\* Start counts serve before it goes off.
Start ==
  /\ main = "start"
  /\ main' = "wait" /\ serve' = "remove" /\ wg' = wg + 1
  /\ UNCHANGED <<setup, given, server, config, controller, socket, exit, ends>>

Wait ==
  /\ main = "wait" /\ wg = 0
  /\ Exit("ok")
  /\ UNCHANGED <<socket, ends>>

-----------------------------------------------------------------------------
(***************************************************************************)
(* serve, and Stop.                                                        *)
(***************************************************************************)

Serving(to) ==
  /\ serve' = to
  /\ UNCHANGED <<setup, given, main, wg, config, controller, exit, ends>>

LeaveSocket ==
  /\ serve = "remove"
  /\ Serving("listen")
  /\ UNCHANGED <<socket, server>>

\* ParseEndpoint, and the removal of a socket left over.
RemoveSocket ==
  /\ serve = "remove"
  /\ IF endpoint = "invalid"
     THEN Exit("error") /\ UNCHANGED <<socket, ends>>
     ELSE /\ Serving("listen")
          /\ socket' = (IF endpoint = "unix" THEN FALSE ELSE socket)
          /\ UNCHANGED server

\* ParseEndpoint takes the protocol in any case, net.Listen does not.
Listen ==
  /\ serve = "listen"
  /\ IF endpoint = "UNIX" \/ (endpoint = "unix" /\ socket)
     THEN Exit("error") /\ UNCHANGED <<socket, ends>>
     ELSE /\ Serving("make")
          /\ socket' = (endpoint = "unix" \/ socket)
          /\ UNCHANGED server

NewServer ==
  /\ serve = "make"
  /\ server' = "made"
  /\ Serving("serve")
  /\ UNCHANGED socket

Serve ==
  /\ serve = "serve" /\ server = "made"
  /\ server' = "serving"
  /\ Serving("serving")
  /\ UNCHANGED socket

NotDone == wg

Done == wg - 1

\* Serve returns once the server is stopped, at once if it was before; either of
\* them closes the listener, and that removes the socket.
ServeReturns ==
  /\ serve \in {"serve", "serving"} /\ server = "stopped"
  /\ serve' = "none" /\ wg' = Done
  /\ socket' = (endpoint # "unix" /\ socket)
  /\ UNCHANGED <<setup, given, main, server, config, controller, exit, ends>>

\* Accept fails for good.  Serve's error is looked at by nobody: serve is done as
\* after a stop, though the connections there are go on.
ServeBreaks ==
  /\ serve = "serving" /\ server = "serving"
  /\ faults < MaxFaults /\ faults' = faults + 1
  /\ serve' = "failed" /\ wg' = Done
  /\ socket' = (endpoint # "unix" /\ socket)
  /\ UNCHANGED <<handler, initialized, configuration, disturbed, given, main,
                 server, config, controller, exit, ends>>

\* The server stops listening, or a nil dereference ends the process while serve
\* has not made the server.  Main never calls Stop: only a program that holds a
\* PacketDriver does, as the tests do.
Stop ==
  /\ main = "wait" /\ server \in {"nil", "made", "serving"}
  /\ ends < MaxEnds /\ ends' = ends + 1
  /\ IF server = "nil"
     THEN Exit("error") /\ UNCHANGED socket
     ELSE /\ server' = IF server = "made" THEN "stopped" ELSE "stopping"
          /\ socket' = (socket /\ (server = "made" \/ endpoint # "unix"))
          /\ UNCHANGED <<setup, given, main, serve, wg, config, controller, exit>>

\* The calls in progress come to their end first.
GracefulStop ==
  /\ server = "stopping" /\ AllIdle
  /\ server' = "stopped"
  /\ UNCHANGED <<setup, given, main, serve, wg, config, controller, socket, exit,
                 ends>>

Kill ==
  /\ main # "down"
  /\ ends < MaxEnds /\ ends' = ends + 1
  /\ Exit("error")
  /\ UNCHANGED socket

\* A call arrives, goes on, or fails.
Accept == /\ server = "serving"
          /\ \E c \in Call : SetupCall(c)
          /\ UNCHANGED <<given, process, socket, exit, ends>>

Handle(c) == SetupStep(c) /\ UNCHANGED <<given, process, socket, exit, ends>>

HandleFails == /\ \E c \in Call : SetupFails(c)
               /\ UNCHANGED <<given, process, socket, exit, ends>>

-----------------------------------------------------------------------------
Main == Launch \/ NewProvider \/ Start \/ Wait

ServeStep == RemoveSocket \/ Listen \/ NewServer \/ Serve \/ ServeReturns

Next == \/ Main \/ ServeStep \/ GracefulStop \/ \E c \in Call : Handle(c)
        \/ Accept \/ HandleFails \/ StartFails
        \/ ServeBreaks \/ Stop \/ Kill

Spec == Init /\ [][Next]_vars

\* Both goroutines go on, handlers and the server's stop too, and the container
\* is started again; nobody has to call, to stop or to kill the driver.
FairSpec == /\ Spec
            /\ WF_vars(Main) /\ WF_vars(ServeStep) /\ WF_vars(GracefulStop)
            /\ \A c \in Call : WF_vars(Handle(c))

-----------------------------------------------------------------------------
(***************************************************************************)
(* The properties.                                                         *)
(***************************************************************************)

\* Main exits with 0 only when serve has returned, and then either from a server
\* that was stopped, with no handler in progress, or after a failure of the
\* listener: Serve's error is discarded, and the calls that are in progress then
\* end with the process (server.go:84-99, 146-147, main.go:83).
ExitsWhenDone ==
  [][main # "down" /\ main' = "down" /\ exit' = "ok"
       => \/ serve = "failed"
          \/ serve = "none" /\ server = "stopped" /\ AllIdle]_vars

\* A driver that serves with a controller has been given a token and a project,
\* and a facility was given or is one with storage, and the environment's
\* settings are the ones it uses (main.go:105-122, provider.go:48-94).
ControllerConfigured ==
  server # "nil" =>
    /\ controller <=> "apiKey" \in env \cup file
    /\ controller => /\ "projectId" \in env \cup file
                     /\ "facility-id" \in env \cup file \/ FacilityFound
                     /\ \A k \in env : config[k] = "env"

\* Can the driver start with what it has been given?
Startable ==
  /\ endpoint \in {"unix", "tcp"}
  /\ "apiKey" \in env \cup file =>
       /\ "projectId" \in env \cup file
       /\ "facility-id" \in env \cup file \/ FacilityFound

\* A driver that can start listens again after every stop, kill, failed start and
\* failed listener, though a killed one leaves its socket (server.go:109-117, 148).
EventuallyServes ==
  Startable => []<>(server = "serving" /\ serve = "serving")
-----------------------------------------------------------------------------
(***************************************************************************)
(* The invariants that the properties rest on.                             *)
(***************************************************************************)

\* The wait group counts a serve that is still to end, main waits as long as it
\* runs, the server is one of this run's, and calls are in progress only while it
\* serves or stops.
ProcessInv ==
  /\ wg = IF serve \in {"none", "failed"} THEN 0 ELSE 1
  /\ main # "wait" => serve = "none" /\ server = "nil"
  /\ main = "wait" /\ serve = "none" => server = "stopped"
  /\ serve \in {"remove", "listen", "make"} => server = "nil"
  /\ serve = "failed" => server \in {"serving", "stopping", "stopped"}
  /\ server \notin {"serving", "stopping"} => AllIdle

\* Where each setting in use comes from.
ConfigInv ==
  /\ main \in {"down", "provider"} => ~controller
  /\ main = "provider" => Merged("apiKey") # "none"
  /\ main # "down" =>
       \A k \in Setting :
         \/ config[k] = Merged(k)
         \/ /\ k = "facility-id" /\ Merged(k) = "none"
            /\ config[k] = "found" /\ controller
  /\ main \in {"start", "wait"} =>
       /\ controller <=> Merged("apiKey") # "none"
       /\ controller =>
            /\ Merged("projectId") # "none"
            /\ Merged("facility-id") # "none" \/ FacilityFound
=============================================================================
