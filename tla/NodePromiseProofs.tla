-------------------------- MODULE NodePromiseProofs --------------------------
(***************************************************************************)
(* What follows from NodePromise, for every set of places and machines:    *)
(* NodeVolume, which implements it, has it too.                            *)
(***************************************************************************)
EXTENDS NodePromise, TLAPS

LEMMA TypeInitially == Init => TypeOK
BY DEF Init, TypeOK

LEMMA TypeByStep == TypeOK /\ [Next]_vars => TypeOK'
<1> SUFFICES ASSUME TypeOK, [Next]_vars PROVE TypeOK'
  OBVIOUS
<1> USE DEF TypeOK
<1>1. ASSUME NEW p \in Place, Begin(p) PROVE TypeOK'
  BY <1>1 DEF Begin
<1>2. ASSUME NEW p \in Place,
             NEW from \in {"free", "connected", "mounted"},
             NEW to \in {"free", "connected", "mounted"},
             Become(p, from, to), left' \in {left, left \ {p}}
      PROVE TypeOK'
  BY <1>2 DEF Become
<1>3. ASSUME NEW p \in Place, Connect(p) PROVE TypeOK'
  BY <1>2, <1>3 DEF Connect
<1>4. ASSUME NEW p \in Place, Mount(p) PROVE TypeOK'
  BY <1>2, <1>4 DEF Mount
<1>5. ASSUME NEW p \in Place, Unmount(p) PROVE TypeOK'
  BY <1>2, <1>5 DEF Unmount
<1>6. ASSUME NEW p \in Place, Disconnect(p) PROVE TypeOK'
  BY <1>2, <1>6 DEF Disconnect
<1>7. ASSUME NEW p \in Place, AnswerStaged(p) PROVE TypeOK'
  BY <1>7 DEF AnswerStaged
<1>8. ASSUME NEW p \in Place, AnswerUnstaged(p) PROVE TypeOK'
  BY <1>8 DEF AnswerUnstaged
<1>9. ASSUME NEW m \in Machine, Restart(m) PROVE TypeOK'
  BY <1>9 DEF Restart
<1>10. ASSUME NEW p \in Place, Overlook(p) \/ Notice(p) PROVE TypeOK'
  BY <1>10 DEF Overlook, Notice, Notices
<1>11. CASE UNCHANGED vars
  BY <1>11 DEF vars
<1> QED
  BY <1>1, <1>3, <1>4, <1>5, <1>6, <1>7, <1>8, <1>9, <1>10, <1>11 DEF Next

\* Type correctness of the promise (node.go:37-251).
THEOREM TypeCorrect == Spec => []TypeOK
  BY TypeInitially, TypeByStep, PTL DEF Spec

LEMMA StepUnmountsFirst ==
  TypeOK /\ [Next]_vars =>
    (\A p \in Place : use[p] = "mounted" /\ use'[p] = "free"
                      => \E m \in Machine : p \in m /\ Restart(m))
<1> SUFFICES ASSUME TypeOK, [Next]_vars, NEW p \in Place,
                    use[p] = "mounted", use'[p] = "free"
             PROVE  \E m \in Machine : p \in m /\ Restart(m)
  OBVIOUS
<1>1. PICK m \in Machine : Restart(m)
  <2>1. ASSUME NEW q \in Place,
               \/ Begin(q) \/ AnswerStaged(q) \/ AnswerUnstaged(q)
               \/ Overlook(q) \/ Notice(q)
        PROVE FALSE
    BY <2>1 DEF Begin, AnswerStaged, AnswerUnstaged, Overlook, Notice, Notices
  <2>2. ASSUME NEW q \in Place,
               Connect(q) \/ Mount(q) \/ Unmount(q) \/ Disconnect(q)
        PROVE FALSE
    BY <2>2 DEF Connect, Mount, Unmount, Disconnect, Become, TypeOK
  <2> QED
    BY <2>1, <2>2 DEF Next, vars
<1> QED
  BY <1>1 DEF Restart, TypeOK

\* No volume is let go before it is unmounted, unless its node restarts
\* (node.go:180-217).
THEOREM UnmountedFirstAlways == Spec => UnmountedFirst
<1>1. TypeOK /\ [Next]_vars
        => [\A p \in Place : use[p] = "mounted" /\ use'[p] = "free"
                             => \E m \in Machine : p \in m /\ Restart(m)]_vars
  BY StepUnmountsFirst
<1> QED
  BY TypeInitially, TypeByStep, <1>1, PTL DEF Spec, UnmountedFirst
=============================================================================
