------------------------ MODULE DriverProcessProofs ------------------------
(***************************************************************************)
(* Proofs of the safety properties of DriverProcess and of NodeSetup,      *)
(* which it runs.                                                          *)
(***************************************************************************)
EXTENDS DriverProcess, TLAPS

-----------------------------------------------------------------------------
(***************************************************************************)
(* The node's set-up: the types, the files and the interface.              *)
(***************************************************************************)

SetupGood == SetupTypeOK /\ FilesInv /\ InterfaceInv

\* Call c is now at pc, with this file and these parameters to set, and the
\* other calls are where they were.
Moves(c, pc, name, todo) ==
  /\ handler' \in [Call -> Handler]
  /\ handler'[c].pc = pc /\ handler'[c].file = name /\ handler'[c].todo = todo
  /\ \A d \in Call : d # c => handler'[d] = handler[d]

LEMMA MovesGoto ==
  ASSUME SetupTypeOK, NEW c \in Call,
         NEW pc \in {"metadata", "open", "write", "list", "new", "defaults",
                     "discovery", "reply"},
         Goto(c, pc)
  PROVE  Moves(c, pc, handler[c].file, handler[c].todo)
<1> DEFINE h == [handler[c] EXCEPT !.pc = pc]
<1>1. handler \in [Call -> Handler] /\ handler[c] \in Handler
  BY DEF SetupTypeOK
<1>2. h \in Handler /\ h.pc = pc /\ h.file = handler[c].file
      /\ h.todo = handler[c].todo
  BY <1>1 DEF Handler
<1>3. handler' = [handler EXCEPT ![c] = h]
  BY <1>1 DEF Goto
<1> HIDE DEF h
<1> QED
  BY <1>1, <1>2, <1>3 DEF Moves

LEMMA MovesReset ==
  ASSUME SetupTypeOK, NEW c \in Call,
         handler' = [handler EXCEPT ![c] = NewHandler]
  PROVE  Moves(c, "idle", "initiatorname", {})
<1>1. /\ NewHandler \in Handler /\ NewHandler.pc = "idle"
      /\ NewHandler.file = "initiatorname" /\ NewHandler.todo = {}
  BY DEF NewHandler, Handler, File
<1>2. handler \in [Call -> Handler]
  BY DEF SetupTypeOK
<1> QED
  BY <1>1, <1>2 DEF Moves

LEMMA SetupFacts ==
  ASSUME SetupGood
  PROVE  /\ SetupTypeOK /\ FilesInv /\ InterfaceInv
         /\ handler \in [Call -> Handler]
         /\ \A c \in Call : handler[c] \in Handler
  BY DEF SetupGood, SetupTypeOK

\* A step that leaves the files as they are, and ends no writing of one.
LEMMA FilesFrame ==
  ASSUME SetupGood, NEW c \in Call, NEW pc, NEW name, NEW todo,
         Moves(c, pc, name, todo),
         handler[c].pc # "write", pc # "write",
         pc \in {"open", "metadata", "idle"} => name # LastFile,
         UNCHANGED <<files, initialized>>, disturbed \subseteq disturbed'
  PROVE  FilesInv'
<1>1. \A f \in File : Covered(f) => Covered(f)'
  BY DEF Covered, Moves, At
<1>2. \A d \in Call : AtLastFile(d)' => AtLastFile(d)
  BY DEF AtLastFile, Moves
<1>3. \A d \in Call :
        handler'[d].pc \in {"idle", "metadata"} => handler'[d].file # LastFile
  BY DEF SetupGood, FilesInv, Moves
<1> QED
  BY <1>1, <1>2, <1>3 DEF SetupGood, FilesInv, File

\* A step that leaves the interface as it is, by a call that does not configure
\* it.
LEMMA InterfaceFrame ==
  ASSUME SetupGood, NEW c \in Call, NEW pc, NEW name, NEW todo,
         Moves(c, pc, name, todo), ~Configuring(c),
         pc \notin {"new", "defaults", "update", "discovery"},
         UNCHANGED <<made, tuned>>, disturbed \subseteq disturbed'
  PROVE  InterfaceInv'
  BY DEF SetupGood, InterfaceInv, Moves, At, Configuring

LEMMA GoodGetInfo ==
  ASSUME SetupGood, NEW c \in Call, GetInfo(c)
  PROVE  SetupGood'
<1>1. PICK pc \in {"reply", "metadata"} : Goto(c, pc)
  BY DEF GetInfo
<1>2. Moves(c, pc, handler[c].file, handler[c].todo)
  BY <1>1, MovesGoto, SetupFacts
<1>3. /\ At(c, "idle") /\ ~Configuring(c)
      /\ UNCHANGED <<files, made, tuned, initialized, disturbed, faults>>
  BY DEF GetInfo, configuration, Configuring, At
<1>4. handler[c].file # LastFile
  BY <1>3, SetupFacts DEF FilesInv, At
<1>5. FilesInv' /\ InterfaceInv'
  BY <1>2, <1>3, <1>4, FilesFrame, InterfaceFrame DEF At
<1> QED
  BY <1>2, <1>3, <1>5 DEF SetupGood, SetupTypeOK, Moves

LEMMA GoodGetInitiator ==
  ASSUME SetupGood, NEW c \in Call, GetInitiator(c)
  PROVE  SetupGood'
<1>1. Moves(c, "open", handler[c].file, handler[c].todo)
  BY MovesGoto, SetupFacts DEF GetInitiator
<1>2. /\ At(c, "metadata") /\ ~Configuring(c)
      /\ UNCHANGED <<files, made, tuned, initialized, disturbed, faults>>
  BY DEF GetInitiator, configuration, Configuring, At
<1>3. handler[c].file # LastFile
  BY <1>2, SetupFacts DEF FilesInv, At
<1>4. FilesInv' /\ InterfaceInv'
  BY <1>1, <1>2, <1>3, FilesFrame, InterfaceFrame DEF At
<1> QED
  BY <1>1, <1>2, <1>4 DEF SetupGood, SetupTypeOK, Moves

LEMMA GoodOpen ==
  ASSUME SetupGood, NEW c \in Call, Open(c)
  PROVE  SetupGood'
<1>1. Moves(c, "write", handler[c].file, handler[c].todo)
  BY MovesGoto, SetupFacts DEF Open
<1>2. /\ At(c, "open") /\ ~Configuring(c)
      /\ files' = [files EXCEPT ![handler[c].file] = "empty"]
      /\ UNCHANGED <<made, tuned, initialized, disturbed, faults>>
  BY DEF Open, Configuring, At
<1>3. handler[c].file \in File /\ files \in [File -> {"other", "empty", "own"}]
  BY SetupFacts DEF Handler, SetupTypeOK
<1>4. ASSUME NEW f \in File, Covered(f) PROVE Covered(f)'
  <2>1. CASE f = handler[c].file
    BY <1>1, <2>1 DEF Covered, Moves, At
  <2>2. CASE f # handler[c].file
    BY <1>1, <1>2, <1>3, <1>4, <2>2 DEF Covered, Moves, At
  <2> QED
    BY <2>1, <2>2
<1>5. \A d \in Call : AtLastFile(d)' => AtLastFile(d)
  BY <1>1, <1>2 DEF AtLastFile, Moves, At
<1>6. \A d \in Call :
        handler'[d].pc \in {"idle", "metadata"} => handler'[d].file # LastFile
  BY <1>1, SetupFacts DEF FilesInv, Moves
<1>7. FilesInv'
  BY <1>2, <1>4, <1>5, <1>6, SetupFacts DEF FilesInv, File
<1>8. InterfaceInv'
  BY <1>1, <1>2, InterfaceFrame
<1> QED
  BY <1>1, <1>2, <1>3, <1>7, <1>8 DEF SetupGood, SetupTypeOK, Moves

LEMMA GoodWrite ==
  ASSUME SetupGood, NEW c \in Call, Write(c)
  PROVE  SetupGood'
<1> DEFINE f == handler[c].file
<1>1. /\ At(c, "write") /\ ~Configuring(c)
      /\ files' = [files EXCEPT ![f] = "own"]
      /\ UNCHANGED <<made, tuned, disturbed, faults>>
  BY DEF Write, Configuring, At
<1>2. f \in File /\ files \in [File -> {"other", "empty", "own"}]
  BY SetupFacts DEF Handler, SetupTypeOK
<1>3. \/ /\ f = LastFile /\ Moves(c, "reply", f, handler[c].todo)
         /\ initialized' = TRUE
      \/ /\ f # LastFile /\ Moves(c, "open", "multipath", handler[c].todo)
         /\ initialized' = initialized
  <2>1. CASE f = LastFile
    BY <2>1, MovesGoto, SetupFacts DEF Write
  <2>2. CASE f # LastFile
    <3> DEFINE h == [handler[c] EXCEPT !.pc = "open", !.file = "multipath"]
    <3>1. /\ h \in Handler /\ h.pc = "open" /\ h.file = "multipath"
          /\ h.todo = handler[c].todo
      BY SetupFacts DEF Handler, File
    <3>2. handler' = [handler EXCEPT ![c] = h] /\ initialized' = initialized
      BY <2>2, SetupFacts DEF Write
    <3> HIDE DEF h
    <3> QED
      BY <2>2, <3>1, <3>2, SetupFacts DEF Moves
  <2> QED
    BY <2>1, <2>2
<1>4. PICK pc \in {"open", "reply"}, name \in {"multipath"} :
        Moves(c, pc, name, handler[c].todo)
  BY <1>3 DEF LastFile
<1>5. ASSUME NEW g \in File, Covered(g) \/ g = f PROVE Covered(g)'
  <2>1. CASE g = f
    BY <1>1, <1>2, <2>1 DEF Covered
  <2>2. CASE g # f
    BY <1>1, <1>2, <1>4, <1>5, <2>2 DEF Covered, Moves, At
  <2> QED
    BY <2>1, <2>2
<1>6. \A d \in Call : AtLastFile(d)' => AtLastFile(d) \/ f = "initiatorname"
  BY <1>2, <1>3, <1>4 DEF AtLastFile, Moves, File, LastFile
<1>7. \A d \in Call :
        handler'[d].pc \in {"idle", "metadata"} => handler'[d].file # LastFile
  BY <1>4, SetupFacts DEF FilesInv, Moves
<1>8. FilesInv'
  <2>1. SUFFICES ASSUME "files" \notin disturbed
                 PROVE  /\ initialized' => \A g \in File : Covered(g)'
                        /\ (\E d \in Call : AtLastFile(d)')
                             => Covered("initiatorname")'
    BY <1>1, <1>7 DEF FilesInv
  <2>2. ASSUME \E d \in Call : AtLastFile(d)' PROVE Covered("initiatorname")'
    BY <1>5, <1>6, <2>1, <2>2, SetupFacts DEF FilesInv, File
  <2>3. CASE f = LastFile
    <3>1. AtLastFile(c)
      BY <1>1, <2>3 DEF AtLastFile, At
    <3>2. Covered("initiatorname")
      BY <2>1, <3>1, SetupFacts DEF FilesInv
    <3> QED
      BY <1>5, <2>2, <2>3, <3>2 DEF File, LastFile
  <2>4. CASE f # LastFile
    BY <1>3, <1>5, <2>1, <2>2, <2>4, SetupFacts DEF FilesInv
  <2> QED
    BY <2>3, <2>4
<1>9. InterfaceInv'
  BY <1>1, <1>4, InterfaceFrame
<1> QED
  BY <1>1, <1>2, <1>3, <1>4, <1>8, <1>9 DEF SetupGood, SetupTypeOK, Moves

LEMMA GoodDiscover ==
  ASSUME SetupGood, NEW c \in Call, Discover(c)
  PROVE  SetupGood'
<1>1. Moves(c, "list", handler[c].file, handler[c].todo)
  BY MovesGoto, SetupFacts DEF Discover
<1>2. /\ At(c, "idle") /\ ~Configuring(c)
      /\ UNCHANGED <<files, made, tuned, initialized, disturbed, faults>>
  BY DEF Discover, configuration, Configuring, At
<1>3. FilesInv' /\ InterfaceInv'
  BY <1>1, <1>2, FilesFrame, InterfaceFrame DEF At
<1> QED
  BY <1>1, <1>2, <1>3 DEF SetupGood, SetupTypeOK, Moves

LEMMA GoodList ==
  ASSUME SetupGood, NEW c \in Call, List(c)
  PROVE  SetupGood'
<1>1. PICK pc \in {"discovery", "new"} :
        Goto(c, pc) /\ (pc = "discovery" <=> made)
  BY DEF List
<1>2. Moves(c, pc, handler[c].file, handler[c].todo)
  BY <1>1, MovesGoto, SetupFacts
<1>3. /\ At(c, "list")
      /\ disturbed \subseteq disturbed'
      /\ disturbed' \subseteq disturbed \cup {"interface"}
      /\ (\E d \in Call : Configuring(d)) => "interface" \in disturbed'
      /\ UNCHANGED <<files, made, tuned, initialized, faults>>
  BY DEF List, configuration
<1>4. FilesInv'
  BY <1>2, <1>3, FilesFrame DEF At
<1>5. InterfaceInv'
  <2>1. SUFFICES ASSUME "interface" \notin disturbed'
                 PROVE  InterfaceInv'
    BY DEF InterfaceInv
  <2>2. /\ \A d \in Call : ~Configuring(d)
        /\ made => tuned = Param
    BY <1>3, <2>1, SetupFacts DEF InterfaceInv, At, Configuring
  <2>3. \A d \in Call : d # c => ~Configuring(d)' /\ handler'[d] = handler[d]
    BY <1>2, <2>2 DEF Configuring, Moves
  <2> QED
    BY <1>1, <1>2, <1>3, <2>1, <2>2, <2>3, SetupFacts
       DEF InterfaceInv, Moves, At, Configuring
<1> QED
  BY <1>2, <1>3, <1>4, <1>5 DEF SetupGood, SetupTypeOK, Moves

LEMMA GoodNew ==
  ASSUME SetupGood, NEW c \in Call, New(c)
  PROVE  SetupGood'
<1>1. Moves(c, "defaults", handler[c].file, handler[c].todo)
  BY MovesGoto, SetupFacts DEF New
<1>2. /\ At(c, "new") /\ made' = TRUE /\ tuned' \in {{}, tuned}
      /\ UNCHANGED <<files, initialized, disturbed, faults>>
  BY DEF New
<1>3. FilesInv'
  BY <1>1, <1>2, FilesFrame DEF At
<1>4. InterfaceInv'
  <2>1. SUFFICES ASSUME "interface" \notin disturbed
                 PROVE  InterfaceInv'
    BY <1>2 DEF InterfaceInv
  <2>2. /\ Configuring(c) /\ ~made
        /\ \A d \in Call : Configuring(d) => d = c
        /\ \A d \in Call : ~At(d, "discovery")
    BY <1>2, <2>1, SetupFacts DEF InterfaceInv, Configuring, At
  <2>3. \A d \in Call : d # c =>
          ~Configuring(d)' /\ ~At(d, "discovery")' /\ handler'[d] = handler[d]
    BY <1>1, <2>2 DEF Moves, Configuring, At
  <2>4. At(c, "defaults")'
    BY <1>1 DEF Moves, At
  <2> QED
    BY <1>2, <2>3, <2>4 DEF InterfaceInv, At, Configuring
<1> QED
  BY <1>1, <1>2, <1>3, <1>4, SetupFacts DEF SetupGood, SetupTypeOK, Moves

LEMMA GoodDefaults ==
  ASSUME SetupGood, NEW c \in Call, Defaults(c)
  PROVE  SetupGood'
<1> DEFINE h == [handler[c] EXCEPT !.pc = "update", !.todo = Overridden]
<1>1. /\ At(c, "defaults") /\ handler' = [handler EXCEPT ![c] = h]
      /\ UNCHANGED <<files, made, tuned, initialized, disturbed, faults>>
  BY SetupFacts DEF Defaults, configuration
<1>2. h \in Handler /\ h.pc = "update" /\ h.todo = Param
      /\ h.file = handler[c].file
  BY SetupFacts DEF Handler, Overridden
<1> HIDE DEF h
<1>3. Moves(c, "update", handler[c].file, Param)
  BY <1>1, <1>2, SetupFacts DEF Moves
<1>4. FilesInv'
  BY <1>1, <1>3, FilesFrame DEF At
<1>5. InterfaceInv'
  <2>1. \A d \in Call : d # c => handler'[d] = handler[d]
    BY <1>3 DEF Moves
  <2>2. At(c, "update")' /\ handler'[c].todo = Param
    BY <1>3 DEF Moves, At
  <2> QED
    BY <1>1, <2>1, <2>2, SetupFacts DEF InterfaceInv, At, Configuring
<1> QED
  BY <1>1, <1>3, <1>4, <1>5 DEF SetupGood, SetupTypeOK, Moves

LEMMA GoodUpdate ==
  ASSUME SetupGood, NEW c \in Call, Update(c)
  PROVE  SetupGood'
<1>1. PICK k \in handler[c].todo :
        /\ tuned' = tuned \cup {k}
        /\ handler' = [handler EXCEPT ![c].todo = @ \ {k},
             ![c].pc = IF handler[c].todo = {k} THEN "discovery" ELSE @]
  BY DEF Update
<1>2. /\ At(c, "update")
      /\ UNCHANGED <<files, made, initialized, disturbed, faults>>
  BY DEF Update
<1> DEFINE todo == handler[c].todo \ {k}
           pc == IF handler[c].todo = {k} THEN "discovery" ELSE "update"
           h == [handler[c] EXCEPT !.pc = pc, !.todo = todo]
<1>3. todo \in SUBSET Param /\ k \in Param /\ tuned \subseteq Param
  BY SetupFacts DEF Handler, SetupTypeOK
<1>4. handler' = [handler EXCEPT ![c] = h]
  BY <1>1, <1>2, SetupFacts DEF At, Handler
<1>5. pc \in {"discovery", "update"} /\ (pc = "discovery" => todo = {})
  OBVIOUS
<1>6. Param \ todo = (Param \ handler[c].todo) \cup {k}
  BY <1>3
<1> HIDE DEF todo, pc
<1>7. /\ h \in Handler /\ h.pc = pc /\ h.todo = todo
      /\ h.file = handler[c].file
  BY <1>3, <1>5, SetupFacts DEF Handler
<1> HIDE DEF h
<1>8. Moves(c, pc, handler[c].file, todo)
  BY <1>4, <1>7, SetupFacts DEF Moves
<1>9. FilesInv'
  BY <1>2, <1>5, <1>8, FilesFrame DEF At
<1>10. InterfaceInv'
  <2>1. SUFFICES ASSUME "interface" \notin disturbed
                 PROVE  InterfaceInv'
    BY <1>2 DEF InterfaceInv
  <2>2. /\ Configuring(c) /\ \A d \in Call : Configuring(d) => d = c
        /\ Param \ handler[c].todo \subseteq tuned
        /\ \A d \in Call : At(d, "discovery") => made /\ tuned = Param
    BY <1>2, <2>1, SetupFacts DEF InterfaceInv, Configuring, At
  <2>3. \A d \in Call : d # c => ~Configuring(d)' /\ handler'[d] = handler[d]
    BY <1>8, <2>2 DEF Moves, Configuring
  <2>4. /\ handler'[c].pc = pc /\ handler'[c].todo = todo
        /\ Param \ todo \subseteq tuned' /\ tuned' \subseteq Param
    BY <1>1, <1>3, <1>6, <1>8, <2>2 DEF Moves
  <2>5. pc = "discovery" => tuned' = Param
    BY <1>5, <2>4
  <2>6. tuned = Param => tuned' = Param
    BY <1>1, <2>4
  <2>7. made'
    BY <1>2, <2>1, SetupFacts DEF InterfaceInv, At
  <2> QED
    BY <1>2, <1>5, <2>2, <2>3, <2>4, <2>5, <2>6, <2>7
       DEF InterfaceInv, At, Configuring
<1> QED
  BY <1>1, <1>2, <1>3, <1>8, <1>9, <1>10, SetupFacts
     DEF SetupGood, SetupTypeOK, Moves

LEMMA GoodReply ==
  ASSUME SetupGood, NEW c \in Call, Discovery(c) \/ Reply(c)
  PROVE  SetupGood'
<1>1. /\ At(c, "discovery") \/ At(c, "reply")
      /\ UNCHANGED <<files, made, tuned, initialized, disturbed, faults>>
  BY DEF Discovery, Reply, configuration
<1>2. \/ Moves(c, "reply", handler[c].file, handler[c].todo)
      \/ Moves(c, "idle", "initiatorname", {})
  BY MovesGoto, MovesReset, SetupFacts DEF Discovery, Reply
<1>3. FilesInv' /\ InterfaceInv'
  BY <1>1, <1>2, FilesFrame, InterfaceFrame DEF At, Configuring, LastFile
<1> QED
  BY <1>1, <1>2, <1>3 DEF SetupGood, SetupTypeOK, Moves

\* A request, a command or a file operation fails.
LEMMA GoodFails ==
  ASSUME SetupGood, NEW c \in Call, SetupFails(c)
  PROVE  SetupGood'
<1>1. /\ disturbed' = disturbed \cup HalfDone(c) /\ faults' \in 0 .. MaxFaults
      /\ UNCHANGED <<files, made, tuned, initialized>>
  <2>1. faults \in 0 .. MaxFaults /\ faults < MaxFaults /\ faults' = faults + 1
    BY SetupFacts DEF SetupFails, SetupTypeOK
  <2>2. faults' \in 0 .. MaxFaults
    BY <2>1, FaultsAssumption
  <2> QED
    BY <2>2 DEF SetupFails, configuration
<1>2. Moves(c, "idle", "initiatorname", {})
  BY MovesReset, SetupFacts DEF SetupFails
<1>3. disturbed' \subseteq {"files", "interface"}
  BY <1>1, SetupFacts DEF HalfDone, SetupTypeOK
<1>4. FilesInv'
  <2>1. \A d \in Call :
          handler'[d].pc \in {"idle", "metadata"} => handler'[d].file # LastFile
    BY <1>2, SetupFacts DEF Moves, FilesInv, LastFile
  <2>2. SUFFICES ASSUME "files" \notin disturbed'
                 PROVE  /\ initialized => \A f \in File : Covered(f)'
                        /\ (\E d \in Call : AtLastFile(d)')
                             => Covered("initiatorname")'
    BY <1>1, <2>1 DEF FilesInv
  <2>3. "files" \notin disturbed /\ "files" \notin HalfDone(c)
    BY <1>1, <2>2
  <2>4. \A d \in Call : AtLastFile(d)' => AtLastFile(d) /\ d # c
    BY <1>2 DEF AtLastFile, Moves
  <2>5. CASE At(c, "write")
    <3>1. ~initialized /\ \A d \in Call \ {c} : handler[d].pc \notin {"open", "write"}
      BY <2>3, <2>5 DEF HalfDone
    <3> QED
      BY <2>4, <3>1 DEF AtLastFile
  <2>6. CASE ~At(c, "write")
    <3>1. \A f \in File : Covered(f) => Covered(f)'
      BY <1>1, <1>2, <2>6 DEF Covered, Moves, At
    <3> QED
      BY <2>3, <2>4, <3>1, SetupFacts DEF FilesInv, File
  <2> QED
    BY <2>5, <2>6
<1>5. InterfaceInv'
  <2>1. SUFFICES ASSUME "interface" \notin disturbed'
                 PROVE  InterfaceInv'
    BY DEF InterfaceInv
  <2>2. /\ "interface" \notin disturbed
        /\ ~At(c, "defaults") /\ ~At(c, "update")
    BY <1>1, <2>1 DEF HalfDone
  <2>3. \A d \in Call : d # c => handler'[d] = handler[d]
    BY <1>2 DEF Moves
  <2>4. At(c, "idle")'
    BY <1>2 DEF Moves, At
  <2> QED
    BY <1>1, <2>2, <2>3, <2>4, SetupFacts DEF InterfaceInv, At, Configuring
<1> QED
  BY <1>1, <1>2, <1>3, <1>4, <1>5, SetupFacts DEF SetupGood, SetupTypeOK, Moves

\* The process ends.
LEMMA GoodEnds ==
  ASSUME SetupGood, SetupEnds, faults' \in 0 .. MaxFaults
  PROVE  SetupGood' /\ AllIdle'
<1>1. \A c \in Call : /\ handler'[c] = NewHandler /\ handler'[c].pc = "idle"
                      /\ handler'[c].file # LastFile
  BY DEF SetupEnds, NewHandler, LastFile
<1>2. /\ handler' \in [Call -> Handler] /\ initialized' = FALSE
      /\ UNCHANGED <<files, made, tuned>>
      /\ disturbed \subseteq disturbed'
      /\ disturbed' \subseteq {"files", "interface"}
      /\ (\E c \in Call : "interface" \in HalfDone(c)) => "interface" \in disturbed'
  BY SetupFacts DEF SetupEnds, configuration, NewHandler, Handler, File, SetupTypeOK
<1>3. FilesInv'
  BY <1>1, <1>2 DEF FilesInv, AtLastFile
<1>4. InterfaceInv'
  <2>1. SUFFICES ASSUME "interface" \notin disturbed'
                 PROVE  InterfaceInv'
    BY DEF InterfaceInv
  <2>2. made => tuned = Param
    BY <1>2, <2>1, SetupFacts DEF InterfaceInv, HalfDone
  <2> QED
    BY <1>1, <1>2, <2>2 DEF InterfaceInv, At, Configuring
<1> QED
  BY <1>1, <1>2, <1>3, <1>4, SetupFacts DEF SetupGood, SetupTypeOK, AllIdle, At

\* Nothing of the set-up changes but the number of faults.
LEMMA GoodSame ==
  ASSUME SetupGood, UNCHANGED <<handler, initialized, configuration, disturbed>>,
         faults' \in 0 .. MaxFaults
  PROVE  SetupGood'
<1>1. /\ handler' = handler /\ initialized' = initialized
      /\ disturbed' = disturbed
      /\ UNCHANGED <<files, made, tuned>>
  BY DEF configuration
<1>2. FilesInv'
  BY <1>1, SetupFacts DEF FilesInv, Covered, AtLastFile, At
<1>3. InterfaceInv'
  BY <1>1, SetupFacts DEF InterfaceInv, At, Configuring
<1> QED
  BY <1>1, <1>2, <1>3 DEF SetupGood, SetupTypeOK

LEMMA GoodSetup ==
  ASSUME SetupGood, NEW c \in Call,
         SetupCall(c) \/ SetupStep(c) \/ SetupFails(c)
  PROVE  SetupGood'
  BY GoodGetInfo, GoodDiscover, GoodGetInitiator, GoodOpen, GoodWrite, GoodList,
     GoodNew, GoodDefaults, GoodUpdate, GoodReply, GoodFails
     DEF SetupCall, SetupStep

LEMMA GoodSetupInit == SetupInit => SetupGood
<1> SUFFICES ASSUME SetupInit PROVE SetupGood
  OBVIOUS
<1>1. \A c \in Call : /\ handler[c].pc = "idle" /\ handler[c].file # LastFile
  BY DEF SetupInit, NewHandler, LastFile
<1>2. /\ handler \in [Call -> Handler] /\ initialized = FALSE /\ made = FALSE
      /\ files \in [File -> {"other", "empty", "own"}]
      /\ tuned = {} /\ disturbed = {} /\ faults = 0
  BY DEF SetupInit, NewHandler, Handler, File
<1>3. FilesInv /\ InterfaceInv
  BY <1>1, <1>2 DEF FilesInv, InterfaceInv, AtLastFile, At, Configuring
<1>4. 0 \in 0 .. MaxFaults
  BY FaultsAssumption
<1>5. SetupTypeOK
  BY <1>2, <1>4 DEF SetupTypeOK
<1> QED
  BY <1>3, <1>5 DEF SetupGood

-----------------------------------------------------------------------------
(***************************************************************************)
(* The process: its goroutines, its server and its settings.               *)
(***************************************************************************)

\* The bodies of TypeOK about the process and about its surroundings; that of wg
\* follows from ProcessInv.
ProcessTypeOK ==
  /\ main \in {"down", "provider", "start", "wait"}
  /\ serve \in ServePlace
  /\ server \in {"nil", "made", "serving", "stopping", "stopped"}
  /\ config \in [Setting -> {"none", "env", "file", "found"}]
  /\ controller \in BOOLEAN

SurroundingsTypeOK ==
  /\ env \subseteq Setting /\ file \subseteq Setting
  /\ endpoint \in Endpoint /\ socket \in BOOLEAN
  /\ exit \in {"none", "ok", "error"} /\ ends \in 0 .. MaxEnds

\* The inductive invariant.
Good == /\ SetupGood /\ ProcessTypeOK /\ SurroundingsTypeOK
        /\ ProcessInv /\ ConfigInv

LEMMA GoodParts ==
  ASSUME Good
  PROVE  TypeOK
<1>1. wg \in 0 .. 1
  BY DEF Good, ProcessInv
<1> QED
  BY <1>1 DEF Good, TypeOK, SetupGood, ProcessTypeOK, SurroundingsTypeOK

LEMMA NoConfigType == NoConfig \in [Setting -> {"none", "env", "file", "found"}]
  BY DEF NoConfig

\* A step that leaves the set-up alone.
LEMMA SetupSame ==
  ASSUME SetupGood, UNCHANGED setup
  PROVE  SetupGood' /\ (AllIdle => AllIdle')
<1>1. faults' \in 0 .. MaxFaults
  BY DEF SetupGood, SetupTypeOK, setup
<1> QED
  BY <1>1, GoodSame DEF setup, AllIdle, At

\* A step that leaves the settings alone, and main too, or on the way from start
\* to wait.
LEMMA ConfigSame ==
  ASSUME ConfigInv, UNCHANGED <<config, controller, given>>,
         main' = main \/ (main = "start" /\ main' = "wait")
  PROVE  ConfigInv'
  BY DEF ConfigInv, given, Merged, FacilityFound, Named

LEMMA GoodInit == Init => Good
<1> SUFFICES ASSUME Init PROVE Good
  OBVIOUS
<1>1. SetupGood /\ AllIdle
  BY GoodSetupInit DEF Init, SetupInit, AllIdle, At, NewHandler
<1>2. /\ main = "down" /\ serve = "none" /\ wg = 0 /\ server = "nil"
      /\ config = NoConfig /\ controller = FALSE
      /\ exit = "none" /\ ends = 0 /\ endpoint \in Endpoint
  BY DEF Init
<1>3. ProcessTypeOK
  BY <1>2, NoConfigType DEF ServePlace, ProcessTypeOK
<1>4. SurroundingsTypeOK
  <2>1. PICK g \in Given : env = g[1] /\ file = g[2]
    BY DEF Init
  <2>2. env \subseteq Setting /\ file \subseteq Setting
    BY <2>1, GivenAssumption
  <2>3. socket \in BOOLEAN
    BY DEF Init
  <2>4. ends \in 0 .. MaxEnds
    BY <1>2, EndsAssumption
  <2> QED
    BY <1>2, <2>2, <2>3, <2>4 DEF SurroundingsTypeOK
<1>5. ProcessInv /\ ConfigInv
  BY <1>1, <1>2 DEF ProcessInv, ConfigInv
<1> QED
  BY <1>1, <1>3, <1>4, <1>5 DEF Good

\* The process ends, whatever it did.
LEMMA GoodProcessEnds ==
  ASSUME Good, NEW code \in {"ok", "error"}, Ends(code), faults' \in 0 .. MaxFaults,
         socket' \in BOOLEAN, ends' \in 0 .. MaxEnds
  PROVE  Good'
<1>1. SetupGood' /\ AllIdle'
  BY GoodEnds DEF Good, Ends
<1>2. /\ main' = "down" /\ serve' = "none" /\ wg' = 0 /\ server' = "nil"
      /\ config' = NoConfig /\ controller' = FALSE /\ exit' = code
      /\ UNCHANGED <<env, file, endpoint>>
  BY DEF Ends, given
<1>3. ProcessTypeOK'
  BY <1>2, NoConfigType DEF ServePlace, ProcessTypeOK
<1>4. SurroundingsTypeOK'
  BY <1>2 DEF Good, SurroundingsTypeOK
<1>5. ProcessInv' /\ ConfigInv'
  BY <1>1, <1>2 DEF ProcessInv, ConfigInv
<1> QED
  BY <1>1, <1>3, <1>4, <1>5 DEF Good

LEMMA GoodExit ==
  ASSUME Good, NEW code \in {"ok", "error"}, Exit(code), socket' \in BOOLEAN,
         ends' \in 0 .. MaxEnds
  PROVE  Good'
<1>1. Ends(code) /\ faults' = faults
  BY DEF Exit
<1>2. faults \in 0 .. MaxFaults
  BY DEF Good, SetupGood, SetupTypeOK
<1> QED
  BY <1>1, <1>2, GoodProcessEnds

LEMMA OneMoreFault ==
  ASSUME Good, faults < MaxFaults, faults' = faults + 1
  PROVE  faults' \in 0 .. MaxFaults
<1>1. faults \in 0 .. MaxFaults
  BY DEF Good, SetupGood, SetupTypeOK
<1> QED
  BY <1>1, FaultsAssumption

\* The types and the settings that a goroutine's step inside the process leaves
\* alone: what remains to show is ProcessInv.
LEMMA GoodInside ==
  ASSUME Good, UNCHANGED <<setup, given, config, controller, exit>>,
         main' = main \/ (main = "start" /\ main' = "wait"),
         serve' \in ServePlace,
         server' \in {"nil", "made", "serving", "stopping", "stopped"},
         socket' \in BOOLEAN, ends' \in 0 .. MaxEnds, ProcessInv'
  PROVE  Good'
<1>1. SetupGood' /\ ConfigInv'
  BY SetupSame, ConfigSame DEF Good
<1>2. ProcessTypeOK'
  BY DEF Good, ProcessTypeOK
<1>3. SurroundingsTypeOK'
  BY DEF Good, SurroundingsTypeOK, given
<1> QED
  BY <1>1, <1>2, <1>3 DEF Good

LEMMA ProcessFacts ==
  ASSUME Good
  PROVE  /\ SetupGood /\ ProcessTypeOK /\ SurroundingsTypeOK
         /\ ProcessInv /\ ConfigInv
         /\ socket \in BOOLEAN /\ ends \in 0 .. MaxEnds
         /\ main \in {"down", "provider", "start", "wait"}
         /\ serve \in ServePlace
         /\ server \in {"nil", "made", "serving", "stopping", "stopped"}
  BY DEF Good, ProcessTypeOK, SurroundingsTypeOK

LEMMA MergedType ==
  \A k \in Setting : Merged(k) \in {"none", "env", "file"}
  BY DEF Merged

LEMMA GoodLaunch ==
  ASSUME Good, Launch
  PROVE  Good'
<1>1. /\ main = "down" /\ serve = "none" /\ server = "nil" /\ ~controller
  BY ProcessFacts DEF Launch, ProcessInv, ConfigInv
<1>2. /\ config' = [k \in Setting |-> Merged(k)] /\ exit' = "none"
      /\ main' = IF Merged("apiKey") = "none" THEN "start" ELSE "provider"
      /\ UNCHANGED <<setup, given, serve, wg, server, controller, socket, ends>>
  BY DEF Launch
<1>3. config' \in [Setting -> {"none", "env", "file", "found"}]
  BY <1>2, MergedType
<1>4. ProcessTypeOK' /\ SurroundingsTypeOK'
  BY <1>2, <1>3, ProcessFacts DEF ProcessTypeOK, SurroundingsTypeOK, given
<1>5. AllIdle'
  BY <1>1, <1>2, ProcessFacts, SetupSame DEF ProcessInv
<1>6. ProcessInv'
  BY <1>1, <1>2, <1>5, ProcessFacts DEF ProcessInv
<1>7. ConfigInv'
  <2>1. \A k \in Setting : Merged(k)' = Merged(k)
    BY <1>2 DEF Merged, given
  <2>2. "apiKey" \in Setting
    BY DEF Setting
  <2> QED
    BY <1>1, <1>2, <2>1, <2>2 DEF ConfigInv
<1> QED
  BY <1>2, <1>4, <1>6, <1>7, ProcessFacts, SetupSame DEF Good

LEMMA GoodNewProvider ==
  ASSUME Good, NewProvider
  PROVE  Good'
<1>1. CASE ~ProviderMade
  BY <1>1, ProcessFacts, GoodExit DEF NewProvider
<1>2. CASE ProviderMade
  <2>1. /\ main = "provider" /\ serve = "none" /\ server = "nil"
    BY ProcessFacts DEF NewProvider, ProcessInv
  <2>2. /\ controller' = TRUE /\ main' = "start"
        /\ config' = [config EXCEPT !["facility-id"] =
                        IF @ = "none" THEN "found" ELSE @]
        /\ UNCHANGED <<setup, given, serve, wg, server, exit, socket, ends>>
    BY <1>2 DEF NewProvider
  <2>3. config \in [Setting -> {"none", "env", "file", "found"}]
    BY ProcessFacts DEF ProcessTypeOK
  <2>4. /\ config' \in [Setting -> {"none", "env", "file", "found"}]
        /\ \A k \in Setting : config'[k] =
             IF k = "facility-id" /\ config[k] = "none" THEN "found" ELSE config[k]
    BY <2>2, <2>3 DEF Setting
  <2>5. ProcessTypeOK' /\ SurroundingsTypeOK'
    BY <2>2, <2>4, ProcessFacts DEF ProcessTypeOK, SurroundingsTypeOK, given
  <2>6. AllIdle'
    BY <2>1, <2>2, ProcessFacts, SetupSame DEF ProcessInv
  <2>7. ProcessInv'
    BY <2>1, <2>2, <2>6, ProcessFacts DEF ProcessInv
  <2>8. ConfigInv'
    <3>1. /\ \A k \in Setting : Merged(k)' = Merged(k)
          /\ FacilityFound' = FacilityFound
      BY <2>2 DEF Merged, given, FacilityFound, Named
    <3>2. {"apiKey", "projectId", "facility-id"} \subseteq Setting
      BY DEF Setting
    <3>3. /\ Merged("apiKey") # "none"
          /\ \A k \in Setting : config[k] = Merged(k)
      BY <2>1, ProcessFacts DEF ConfigInv
    <3>4. /\ Merged("projectId") # "none"
          /\ Merged("facility-id") # "none" \/ FacilityFound
      BY <1>2, <3>2, <3>3 DEF ProviderMade
    <3>5. \A k \in Setting :
            \/ config'[k] = Merged(k)
            \/ k = "facility-id" /\ Merged(k) = "none" /\ config'[k] = "found"
      BY <2>4, <3>3
    <3> QED
      BY <2>2, <3>1, <3>2, <3>3, <3>4, <3>5 DEF ConfigInv
  <2> QED
    BY <2>2, <2>5, <2>7, <2>8, ProcessFacts, SetupSame DEF Good
<1> QED
  BY <1>1, <1>2

LEMMA GoodStartFails ==
  ASSUME Good, StartFails
  PROVE  Good'
<1>1. faults' \in 0 .. MaxFaults
  BY OneMoreFault DEF StartFails
<1>2. Ends("error") /\ UNCHANGED <<socket, ends>>
  BY DEF StartFails
<1> QED
  BY <1>1, <1>2, ProcessFacts, GoodProcessEnds

\* Start counts serve before main waits for it, and so main goes on only when
\* serve has returned.
LEMMA GoodStart ==
  ASSUME Good, Start
  PROVE  Good'
<1>1. /\ main = "start" /\ serve = "none" /\ server = "nil" /\ wg = 0
  BY ProcessFacts DEF Start, ProcessInv
<1>2. /\ main' = "wait" /\ serve' = "remove" /\ server' = "nil"
      /\ UNCHANGED <<setup, given, config, controller, socket, exit, ends>>
  BY <1>1 DEF Start
<1>3. wg' = 1
  BY <1>1 DEF Start
<1>4. AllIdle'
  BY <1>1, <1>2, ProcessFacts, SetupSame DEF ProcessInv
<1>5. ProcessInv'
  BY <1>2, <1>3, <1>4 DEF ProcessInv
<1> QED
  BY <1>1, <1>2, <1>5, ProcessFacts, GoodInside DEF ServePlace

LEMMA GoodWait ==
  ASSUME Good, Wait
  PROVE  Good'
  BY ProcessFacts, GoodExit DEF Wait

\* The steps of serve up to the server's own.
LEMMA GoodServeStep ==
  ASSUME Good, RemoveSocket \/ Listen \/ NewServer \/ Serve
  PROVE  Good'
<1>1. CASE /\ Exit("error") /\ UNCHANGED <<socket, ends>>
  BY <1>1, ProcessFacts, GoodExit
<1>2. CASE ~(Exit("error") /\ UNCHANGED <<socket, ends>>)
  <2>1. PICK to \in {"listen", "make", "serve", "serving"} : Serving(to)
    BY <1>2 DEF RemoveSocket, Listen, NewServer, Serve
  <2>2. /\ UNCHANGED <<setup, given, main, wg, config, controller, exit, ends>>
        /\ serve' = to
    BY <2>1 DEF Serving
  <2>3. /\ serve \in {"remove", "listen", "make", "serve"} /\ socket' \in BOOLEAN
        /\ \/ server' = server /\ server = "nil" /\ to \in {"listen", "make"}
           \/ server' = "made" /\ server = "nil" /\ to = "serve"
           \/ server' = "serving" /\ to = "serving"
    BY <1>2, <2>2, ProcessFacts
       DEF RemoveSocket, Listen, NewServer, Serve, Serving, ProcessInv
  <2>4. wg' = 1 /\ main' = "wait"
    BY <2>2, <2>3, ProcessFacts DEF ProcessInv
  <2>5. server' \notin {"serving", "stopping"} => AllIdle'
    BY <2>2, <2>3, ProcessFacts, SetupSame DEF ProcessInv
  <2>6. ProcessInv'
    BY <2>2, <2>3, <2>4, <2>5 DEF ProcessInv
  <2> QED
    BY <2>2, <2>3, <2>6, ProcessFacts, GoodInside DEF ServePlace
<1> QED
  BY <1>1, <1>2

\* serve returns, and is no longer counted.
LEMMA GoodServeReturns ==
  ASSUME Good, ServeReturns
  PROVE  Good'
<1>1. /\ serve \in {"serve", "serving"} /\ server = "stopped" /\ main = "wait"
      /\ wg = 1 /\ AllIdle
  BY ProcessFacts DEF ServeReturns, ProcessInv
<1>2. /\ serve' = "none" /\ server' = "stopped" /\ main' = "wait"
      /\ UNCHANGED <<setup, given, config, controller, exit, ends>>
  BY <1>1 DEF ServeReturns
<1>3. wg' = 0
  BY <1>1 DEF ServeReturns, Done
<1>4. socket' \in BOOLEAN
  BY ProcessFacts DEF ServeReturns
<1>5. AllIdle'
  BY <1>1, <1>2, ProcessFacts, SetupSame
<1>6. ProcessInv'
  BY <1>2, <1>3, <1>5 DEF ProcessInv
<1> QED
  BY <1>1, <1>2, <1>4, <1>6, ProcessFacts, GoodInside DEF ServePlace

\* The listener fails: serve is done and no longer counted, and the server goes on
\* with the calls in progress.
LEMMA GoodServeBreaks ==
  ASSUME Good, ServeBreaks
  PROVE  Good'
<1>1. /\ serve = "serving" /\ server = "serving" /\ main = "wait" /\ wg = 1
  BY ProcessFacts DEF ServeBreaks, ProcessInv
<1>2. /\ serve' = "failed" /\ server' = "serving" /\ main' = "wait"
      /\ UNCHANGED <<handler, initialized, configuration, disturbed, given,
                     config, controller, exit, ends>>
  BY <1>1 DEF ServeBreaks
<1>3. wg' = 0
  BY <1>1 DEF ServeBreaks, Done
<1>4. SetupGood'
  <2>1. faults' \in 0 .. MaxFaults
    BY OneMoreFault DEF ServeBreaks
  <2> QED
    BY <1>2, <2>1, ProcessFacts, GoodSame
<1>5. socket' \in BOOLEAN
  BY ProcessFacts DEF ServeBreaks
<1>6. ProcessTypeOK' /\ SurroundingsTypeOK'
  BY <1>2, <1>5, ProcessFacts DEF ServePlace, ProcessTypeOK, SurroundingsTypeOK, given
<1>7. ProcessInv'
  BY <1>2, <1>3 DEF ProcessInv
<1>8. ConfigInv'
  BY <1>1, <1>2, ProcessFacts, ConfigSame
<1> QED
  BY <1>4, <1>6, <1>7, <1>8 DEF Good

LEMMA MoreEnds ==
  ASSUME Good, ends < MaxEnds, ends' = ends + 1
  PROVE  ends' \in 0 .. MaxEnds
  BY EndsAssumption DEF Good, SurroundingsTypeOK

LEMMA GoodStop ==
  ASSUME Good, Stop
  PROVE  Good'
<1>1. ends' \in 0 .. MaxEnds
  BY MoreEnds DEF Stop
<1>2. CASE server = "nil"
  <2>1. Exit("error") /\ socket' = socket
    BY <1>2 DEF Stop
  <2> QED
    BY <1>1, <2>1, ProcessFacts, GoodExit
<1>3. CASE server # "nil"
  <2>1. /\ main = "wait" /\ server \in {"made", "serving"}
        /\ server' = IF server = "made" THEN "stopped" ELSE "stopping"
        /\ socket' = (socket /\ (server = "made" \/ endpoint # "unix"))
        /\ UNCHANGED <<setup, given, main, serve, wg, config, controller, exit>>
    BY <1>3 DEF Stop
  <2>2. socket' \in BOOLEAN
    BY <2>1, ProcessFacts
  <2>3. server' \notin {"serving", "stopping"} => AllIdle'
    BY <2>1, ProcessFacts, SetupSame DEF ProcessInv
  <2>4. /\ wg' = IF serve' \in {"none", "failed"} THEN 0 ELSE 1
        /\ serve' # "none" /\ serve' \notin {"remove", "listen", "make"}
        /\ serve' = "failed" => server = "serving"
    BY <2>1, ProcessFacts DEF ProcessInv
  <2>5. ProcessInv'
    BY <2>1, <2>3, <2>4 DEF ProcessInv
  <2> QED
    BY <1>1, <2>1, <2>2, <2>5, ProcessFacts, GoodInside
<1> QED
  BY <1>2, <1>3

LEMMA GoodGracefulStop ==
  ASSUME Good, GracefulStop
  PROVE  Good'
<1>1. /\ server = "stopping" /\ server' = "stopped" /\ AllIdle
      /\ UNCHANGED <<setup, given, main, serve, wg, config, controller, socket,
                     exit, ends>>
  BY DEF GracefulStop
<1>2. AllIdle'
  BY <1>1, ProcessFacts, SetupSame
<1>3. ProcessInv'
  BY <1>1, <1>2, ProcessFacts DEF ProcessInv
<1> QED
  BY <1>1, <1>3, ProcessFacts, GoodInside

LEMMA GoodKill ==
  ASSUME Good, Kill
  PROVE  Good'
<1>1. ends' \in 0 .. MaxEnds
  BY MoreEnds DEF Kill
<1>2. Exit("error") /\ socket' = socket
  BY DEF Kill
<1> QED
  BY <1>1, <1>2, ProcessFacts, GoodExit

\* A call arrives only while the server serves, and goes on or fails only after
\* it has arrived.
LEMMA GoodCalls ==
  ASSUME Good, Accept \/ HandleFails \/ \E c \in Call : Handle(c)
  PROVE  Good'
<1>1. PICK c \in Call : \/ server = "serving" /\ SetupCall(c)
                        \/ SetupStep(c)
                        \/ SetupFails(c)
  BY DEF Accept, HandleFails, Handle
<1>2. UNCHANGED <<given, process, socket, exit, ends>>
  BY DEF Accept, HandleFails, Handle
<1>3. SetupGood'
  BY <1>1, ProcessFacts, GoodSetup
<1>4. server \in {"serving", "stopping"}
  <2>1. CASE server = "serving"
    BY <2>1
  <2>2. CASE SetupStep(c) \/ SetupFails(c)
    <3>1. ~At(c, "idle")
      BY <2>2 DEF SetupStep, SetupFails, GetInitiator, Open, Write, List, New,
                  Defaults, Update, Discovery, Reply, At
    <3> QED
      BY <3>1, ProcessFacts DEF ProcessInv, AllIdle
  <2> QED
    BY <1>1, <2>1, <2>2
<1>5. ProcessTypeOK' /\ SurroundingsTypeOK'
  BY <1>2, ProcessFacts DEF ProcessTypeOK, SurroundingsTypeOK, given, process
<1>6. ProcessInv'
  BY <1>2, <1>4, ProcessFacts DEF ProcessInv, process
<1>7. ConfigInv'
  BY <1>2, ProcessFacts, ConfigSame DEF process
<1> QED
  BY <1>3, <1>5, <1>6, <1>7 DEF Good

LEMMA GoodNext ==
  ASSUME Good, [Next]_vars
  PROVE  Good'
<1>1. CASE UNCHANGED vars
  <2>1. UNCHANGED <<setup, given, main, serve, wg, server, config, controller,
                    socket, exit, ends>>
    BY <1>1 DEF vars, process
  <2>2. AllIdle => AllIdle'
    BY <2>1, ProcessFacts, SetupSame
  <2>3. ProcessInv'
    BY <2>1, <2>2, ProcessFacts DEF ProcessInv
  <2> QED
    BY <2>1, <2>3, ProcessFacts, GoodInside
<1>2. CASE Next
  BY <1>2, GoodLaunch, GoodNewProvider, GoodStartFails, GoodStart, GoodWait,
     GoodServeStep, GoodServeReturns, GoodServeBreaks, GoodStop, GoodGracefulStop, GoodKill,
     GoodCalls
     DEF Next, Main, ServeStep
<1> QED
  BY <1>1, <1>2

LEMMA GoodAlways == Spec => []Good
<1>1. Good /\ [Next]_vars => Good'
  BY GoodNext
<1> QED
  BY GoodInit, <1>1, PTL DEF Spec

-----------------------------------------------------------------------------
(***************************************************************************)
(* The theorems.                                                           *)
(***************************************************************************)

\* The states of the process, of its settings and of its node's configuration
\* stay within their types (server.go:57-160, main.go:92-144).
THEOREM TypeCorrect == Spec => []TypeOK
<1>1. Good => TypeOK
  BY GoodParts
<1> QED
  BY <1>1, GoodAlways, PTL

\* A node that has answered NodeGetInfo has both of its files, unless a call has
\* one open or failed with one open (node.go:294-306, initializer.go:28-54).
THEOREM InitializedMeansWrittenHolds == Spec => []InitializedMeansWritten
<1>1. Good => InitializedMeansWritten
  BY DEF Good, SetupGood, FilesInv, Covered, InitializedMeansWritten
<1> QED
  BY <1>1, GoodAlways, PTL

\* Discovery goes through an interface with the node's own name and all its
\* parameters, unless a call stopped half-way or met another one there
\* (attacher.go:97-126).
THEOREM DiscoversAsItselfHolds == Spec => []DiscoversAsItself
<1>1. Good => DiscoversAsItself
  BY DEF Good, SetupGood, InterfaceInv, DiscoversAsItself
<1> QED
  BY <1>1, GoodAlways, PTL

\* A driver with a controller was given a token and a project, has a facility,
\* and uses the environment's settings before the file's (main.go:105-122,
\* provider.go:48-94).
THEOREM ControllerConfiguredHolds == Spec => []ControllerConfigured
<1>1. ASSUME Good, server # "nil" PROVE ControllerConfigured
  <2>1. main = "wait"
    BY <1>1, ProcessFacts DEF ProcessInv
  <2>2. \A k \in Setting : Merged(k) # "none" <=> k \in env \cup file
    BY DEF Merged
  <2>3. \A k \in env : k \in Setting /\ Merged(k) = "env"
    BY <1>1 DEF Merged, Good, SurroundingsTypeOK
  <2>4. {"apiKey", "projectId", "facility-id"} \subseteq Setting
    BY DEF Setting
  <2>5. /\ controller <=> Merged("apiKey") # "none"
        /\ controller => /\ Merged("projectId") # "none"
                         /\ Merged("facility-id") # "none" \/ FacilityFound
        /\ \A k \in Setting : config[k] = Merged(k) \/ Merged(k) = "none"
    BY <1>1, <2>1, ProcessFacts DEF ConfigInv
  <2> QED
    BY <2>2, <2>3, <2>4, <2>5 DEF ControllerConfigured
<1>2. Good => ControllerConfigured
  BY <1>1 DEF ControllerConfigured
<1> QED
  BY <1>2, GoodAlways, PTL

\* Main exits with 0 only when serve has returned, from a server that was stopped
\* with no call in progress or from a listener that failed (server.go:84-99,
\* 146-147, main.go:83).
THEOREM ExitsWhenDoneHolds == Spec => ExitsWhenDone
<1> DEFINE Returned == \/ serve = "failed"
                       \/ serve = "none" /\ server = "stopped" /\ AllIdle
<1>1. ASSUME Good, [Next]_vars, main # "down", main' = "down", exit' = "ok"
      PROVE  Returned
  <2>1. Wait
    BY <1>1 DEF Next, Main, ServeStep, Launch, NewProvider, Start, RemoveSocket,
         Listen, NewServer, Serve, ServeReturns, ServeBreaks, Serving,
         GracefulStop, Handle, Accept, HandleFails, StartFails, Stop, Kill, Exit,
         Ends, process, vars
  <2>2. main = "wait" /\ wg = 0
    BY <2>1 DEF Wait
  <2>3. CASE serve = "failed"
    BY <2>3
  <2>4. CASE serve # "failed"
    BY <1>1, <2>2, <2>4, ProcessFacts DEF ProcessInv
  <2> QED
    BY <2>3, <2>4
<1>2. Good /\ [Next]_vars
        => [main # "down" /\ main' = "down" /\ exit' = "ok" => Returned]_vars
  BY <1>1
<1> QED
  BY <1>2, GoodAlways, PTL DEF Spec, ExitsWhenDone
=============================================================================
