----------------------------- MODULE NodePromise -----------------------------
(***************************************************************************)
(* What the node service promises of a volume at a node, as the calls of   *)
(* pkg/driver/node.go tell it: a volume whose Stage was answered OK is in  *)
(* use there, one whose Unstage was answered OK is not, unless the node    *)
(* service overlooked what it had of it, and neither changes before the    *)
(* next call begins or the node goes down.  NodeVolume implements it, and  *)
(* Cluster is built on it.                                                 *)
(***************************************************************************)
CONSTANTS
  Place,   \* a volume at a node
  Machine  \* the sets of places that go down together

VARIABLES
  use,     \* what the node has of the volume: nothing, a session, a mount
  told,    \* what the answers to the calls have told
  left     \* the places with a session that was overlooked since the last mount

vars == <<use, told, left>>

TypeOK == /\ use \in [Place -> {"free", "connected", "mounted"}]
          /\ told \in [Place -> {"unstaged", "uncertain", "staged"}]
          /\ left \subseteq Place

Init == /\ use = [p \in Place |-> "free"]
        /\ told = [p \in Place |-> "unstaged"]
        /\ left = {}

-----------------------------------------------------------------------------
\* Stage or Unstage is called.
Begin(p) ==
  /\ told' = [told EXCEPT ![p] = "uncertain"]
  /\ UNCHANGED <<use, left>>

Become(p, from, to) ==
  /\ told[p] = "uncertain"
  /\ use[p] = from
  /\ use' = [use EXCEPT ![p] = to]
  /\ UNCHANGED told

Connect(p)    == Become(p, "free", "connected") /\ UNCHANGED left
Mount(p)      == Become(p, "connected", "mounted") /\ left' = left \ {p}
Unmount(p)    == Become(p, "mounted", "connected") /\ UNCHANGED left
Disconnect(p) == Become(p, "connected", "free") /\ left' = left \ {p}

\* The node service takes a session for absent, or sees it after all.
Notices(p, then) ==
  /\ told[p] = "uncertain" /\ use[p] = "connected"
  /\ left' = then
  /\ UNCHANGED <<use, told>>

Overlook(p) == Notices(p, left \cup {p})
Notice(p)   == Notices(p, left \ {p})

AnswerStaged(p) ==
  /\ told[p] = "uncertain" /\ use[p] = "mounted"
  /\ told' = [told EXCEPT ![p] = "staged"]
  /\ UNCHANGED <<use, left>>

AnswerUnstaged(p) ==
  /\ told[p] = "uncertain"
  /\ \/ use[p] = "free"
     \/ use[p] = "connected" /\ p \in left
  /\ told' = [told EXCEPT ![p] = "unstaged"]
  /\ UNCHANGED <<use, left>>

\* A node restarts, and nothing is in use on it any more.
Restart(m) ==
  /\ use' = [p \in Place |-> IF p \in m THEN "free" ELSE use[p]]
  /\ told' = [p \in Place |-> IF p \in m /\ told[p] # "unstaged"
                              THEN "uncertain" ELSE told[p]]
  /\ left' = left \ m

Next == \/ \E p \in Place : \/ Begin(p) \/ Connect(p) \/ Mount(p)
                            \/ Unmount(p) \/ Disconnect(p)
                            \/ Overlook(p) \/ Notice(p)
                            \/ AnswerStaged(p) \/ AnswerUnstaged(p)
        \/ \E m \in Machine : Restart(m)

Spec == Init /\ [][Next]_vars

-----------------------------------------------------------------------------
\* A volume that was let go is one that was unmounted first, or that a restart
\* took away: it is not seen mounted in one state and free in the next one, save
\* when the answers to its calls are void (node.go:180, 213).
UnmountedFirst ==
  [][\A p \in Place : use[p] = "mounted" /\ use'[p] = "free"
                        => \E m \in Machine : p \in m /\ Restart(m)]_vars
=============================================================================
