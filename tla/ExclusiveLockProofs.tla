------------------------ MODULE ExclusiveLockProofs ------------------------
(***************************************************************************)
(* Proofs about ExclusiveLock for any processes, callers, names, sessions  *)
(* and faults.                                                             *)
(***************************************************************************)
EXTENDS ExclusiveLock, FiniteSetTheorems, TLAPS

Busy(c) == call[c].pc # "idle"

\* A caller's name is claimed in its process, by no other caller of it.
ClaimedOnce ==
  \A c \in Callers : Busy(c) =>
    /\ call[c].name \in heldHere[Of[c]]
    /\ \A d \in Callers : Busy(d) /\ Of[d] = Of[c] /\ call[d].name = call[c].name => d = c

\* A session is one process's: its lock connection, and that of its callers.
SessionsApart ==
  /\ \A p, q \in Procs : link[p] # None /\ link[p] = link[q] => p = q
  /\ \A c \in Callers, p \in Procs : call[c].l # None /\ call[c].l = link[p] => Of[c] = p
  /\ \A c, d \in Callers : call[c].l # None /\ call[c].l = call[d].l => Of[c] = Of[d]

\* An ended session holds no lock, and a process's connection was not given up.
SessionsOpen ==
  /\ \A n \in Names : owner[n] # None => session[owner[n]] # "closed"
  /\ \A p \in Procs : link[p] # None => session[link[p]] # "abandoned"

\* Before a connection is lost under its callers, they ask and work on their
\* process's connection, which is up, and hold the lock they work under.
CalmHeld ==
  ~LockLost =>
    /\ \A p \in Procs : link[p] # None => session[link[p]] = "up"
    /\ \A c \in Callers : call[c].pc \in {"ask", "work"} => link[Of[c]] = call[c].l
    /\ \A c \in Callers : call[c].pc = "work" => owner[call[c].name] = call[c].l

IInv ==
  /\ TypeOK
  /\ ClaimedOnce
  /\ SessionsApart
  /\ SessionsOpen
  /\ NoLockLeftBehind
  /\ CalmHeld

LEMMA HoldSharedKeeps ==
  ASSUME IInv, NEW c \in Callers, NEW n \in Names, holdShared(c, n)
  PROVE  IInv'
<1> USE LockAssumption DEF IInv, LockLost, holdShared
<1>1. TypeOK'
  BY DEF TypeOK, Call
<1>2. ClaimedOnce'
  <2>1. \A d \in Callers : Busy(d) /\ Of[d] = Of[c] => call[d].name # n
    BY DEF ClaimedOnce
  <2>2. \A d \in Callers \ {c} : call'[d] = call[d] /\ heldHere[Of[d]] \subseteq heldHere'[Of[d]]
    OBVIOUS
  <2>3. call'[c] = [pc |-> "link", name |-> n, l |-> None] /\ n \in heldHere'[Of[c]]
    BY DEF TypeOK
  <2> QED  BY <2>1, <2>2, <2>3 DEF ClaimedOnce, Busy
<1>3. SessionsApart'
  BY DEF SessionsApart
<1>4. SessionsOpen'
  BY DEF SessionsOpen
<1>5. NoLockLeftBehind'
  BY DEF NoLockLeftBehind, AtWork
<1>6. CalmHeld'
  BY DEF CalmHeld
<1> QED  BY <1>1, <1>2, <1>3, <1>4, <1>5, <1>6

LEMMA UseLinkKeeps ==
  ASSUME IInv, NEW c \in Callers, useLink(c)
  PROVE  IInv'
<1> USE LockAssumption DEF IInv, LockLost, useLink, Asks
<1>1. TypeOK'
  <2>1. call[c].name \in Names /\ link[Of[c]] \in Sessions
    <3>1. link[Of[c]] \in Sessions
      BY DEF TypeOK
    <3>2. call[c].name \in Names
      BY DEF TypeOK, Call, Idle
    <3> QED  BY <3>1, <3>2
  <2>2. [pc |-> "ask", name |-> call[c].name, l |-> link[Of[c]]] \in Call
    BY <2>1 DEF Call
  <2>3. call' \in [Callers -> Call]
    BY <2>2 DEF TypeOK
  <2> QED  BY <2>3 DEF TypeOK
<1>2. ClaimedOnce'
  BY DEF TypeOK, ClaimedOnce, Busy
<1>3. SessionsApart'
  <2>1. \A d \in Callers : call'[d].l = IF d = c THEN link[Of[c]] ELSE call[d].l
    BY DEF TypeOK
  <2>2. link' = link /\ Of[c] \in Procs
    BY DEF TypeOK
  <2> HIDE DEF useLink
  <2> QED  BY <2>1, <2>2 DEF SessionsApart
<1>4. SessionsOpen'
  BY DEF SessionsOpen
<1>5. NoLockLeftBehind'
  BY DEF TypeOK, NoLockLeftBehind, AtWork
<1>6. CalmHeld'
  BY DEF TypeOK, CalmHeld
<1> QED  BY <1>1, <1>2, <1>3, <1>4, <1>5, <1>6

LEMMA ConnectKeeps ==
  ASSUME IInv, NEW c \in Callers, NEW s \in Sessions, connect(c, s)
  PROVE  IInv'
<1> USE LockAssumption DEF IInv, LockLost, connect, Asks, Unused, Refers
<1>1. TypeOK'
  <2>1. call[c].name \in Names /\ s \in Sessions
    BY DEF TypeOK, Call, Idle
  <2>2. [pc |-> "ask", name |-> call[c].name, l |-> s] \in Call
    BY <2>1 DEF Call
  <2>3. call' \in [Callers -> Call]
    BY <2>2 DEF TypeOK
  <2> QED  BY <2>3 DEF TypeOK
<1>2. ClaimedOnce'
  BY DEF TypeOK, ClaimedOnce, Busy
<1>3. SessionsApart'
  BY DEF TypeOK, SessionsApart
<1>4. SessionsOpen'
  BY DEF SessionsOpen
<1>5. NoLockLeftBehind'
  BY DEF TypeOK, SessionsOpen, NoLockLeftBehind, AtWork
<1>6. CalmHeld'
  <2> SUFFICES ASSUME ~LockLost
               PROVE  CalmHeld'
    BY DEF CalmHeld
  <2>1. \A q \in Procs : link'[q] # None => session'[link'[q]] = "up"
    BY DEF TypeOK, CalmHeld
  <2>2. \A d \in Callers \ {c} : call[d].pc \in {"ask", "work"} => Of[d] # Of[c]
    BY DEF TypeOK, Call, Idle, CalmHeld
  <2>3. \A d \in Callers : call'[d].pc \in {"ask", "work"} => link'[Of[d]] = call'[d].l
    BY <2>2 DEF TypeOK, CalmHeld
  <2>4. \A d \in Callers : call'[d].pc = "work" => owner'[call'[d].name] = call'[d].l
    BY DEF TypeOK, CalmHeld
  <2> QED  BY <2>1, <2>3, <2>4 DEF CalmHeld
<1> QED  BY <1>1, <1>2, <1>3, <1>4, <1>5, <1>6

LEMMA ConnectRefusedKeeps ==
  ASSUME IInv, NEW c \in Callers, connectRefused(c)
  PROVE  IInv'
<1> USE LockAssumption DEF IInv, LockLost, connectRefused, forget, GoesWrong
<1>1. TypeOK'
  BY DEF TypeOK, Call, FaultKinds
<1>2. ClaimedOnce'
  BY DEF TypeOK, Idle, ClaimedOnce, Busy
<1>3. SessionsApart'
  BY DEF Idle, SessionsApart
<1>4. SessionsOpen'
  BY DEF SessionsOpen
<1>5. NoLockLeftBehind'
  BY DEF NoLockLeftBehind, AtWork
<1>6. CalmHeld'
  BY DEF Idle, CalmHeld
<1> QED  BY <1>1, <1>2, <1>3, <1>4, <1>5, <1>6

LEMMA ConnectionRestingKeeps ==
  ASSUME IInv, NEW c \in Callers, connectionResting(c)
  PROVE  IInv'
<1> USE LockAssumption DEF IInv, LockLost, connectionResting, forget
<1>1. TypeOK'
  BY DEF TypeOK, Call
<1>2. ClaimedOnce'
  BY DEF TypeOK, Idle, ClaimedOnce, Busy
<1>3. SessionsApart'
  BY DEF Idle, SessionsApart
<1>4. SessionsOpen'
  BY DEF SessionsOpen
<1>5. NoLockLeftBehind'
  BY DEF NoLockLeftBehind, AtWork
<1>6. CalmHeld'
  BY DEF Idle, CalmHeld
<1> QED  BY <1>1, <1>2, <1>3, <1>4, <1>5, <1>6

LEMMA GrantedKeeps ==
  ASSUME IInv, NEW c \in Callers, granted(c)
  PROVE  IInv'
<1> USE LockAssumption DEF IInv, LockLost, granted
<1>1. TypeOK'
  BY DEF TypeOK, Call, Idle
<1>2. ClaimedOnce'
  BY DEF ClaimedOnce, Busy
<1>3. SessionsApart'
  BY DEF SessionsApart
<1>4. SessionsOpen'
  BY DEF SessionsOpen
<1>5. NoLockLeftBehind'
  BY DEF TypeOK, SessionsApart, NoLockLeftBehind, AtWork
<1>6. CalmHeld'
  BY DEF TypeOK, Call, Idle, CalmHeld
<1> QED  BY <1>1, <1>2, <1>3, <1>4, <1>5, <1>6

LEMMA HeldElsewhereKeeps ==
  ASSUME IInv, NEW c \in Callers, heldElsewhere(c)
  PROVE  IInv'
<1> USE LockAssumption DEF IInv, LockLost, heldElsewhere, forget
<1>1. TypeOK'
  BY DEF TypeOK, Call
<1>2. ClaimedOnce'
  BY DEF TypeOK, Idle, ClaimedOnce, Busy
<1>3. SessionsApart'
  BY DEF Idle, SessionsApart
<1>4. SessionsOpen'
  BY DEF SessionsOpen
<1>5. NoLockLeftBehind'
  BY DEF NoLockLeftBehind, AtWork
<1>6. CalmHeld'
  BY DEF Idle, CalmHeld
<1> QED  BY <1>1, <1>2, <1>3, <1>4, <1>5, <1>6

LEMMA AskThrowsKeeps ==
  ASSUME IInv, NEW c \in Callers, askThrows(c)
  PROVE  IInv'
<1> USE LockAssumption DEF IInv, LockLost, askThrows, forget
<1>1. TypeOK'
  <2>1. call' \in [Callers -> Call]
    BY DEF TypeOK, Call
  <2>2. owner' \in [Names -> Sessions \cup {None}]
    BY DEF TypeOK, Call, Idle
  <2>3. heldHere' \in [Procs -> SUBSET Names] /\ idleTimer' \in [Procs -> BOOLEAN]
    BY DEF TypeOK
  <2> QED  BY <2>1, <2>2, <2>3 DEF TypeOK
<1>2. ClaimedOnce'
  BY DEF TypeOK, Idle, ClaimedOnce, Busy
<1>3. SessionsApart'
  BY DEF Idle, SessionsApart
<1>4. SessionsOpen'
  BY DEF TypeOK, SessionsOpen
<1>5. NoLockLeftBehind'
  BY DEF TypeOK, Call, SessionsOpen, NoLockLeftBehind, AtWork
<1>6. CalmHeld'
  BY DEF TypeOK, Call, Idle, CalmHeld
<1> QED  BY <1>1, <1>2, <1>3, <1>4, <1>5, <1>6

LEMMA AskTimesOutKeeps ==
  ASSUME IInv, NEW c \in Callers, askTimesOut(c)
  PROVE  IInv'
<1> USE LockAssumption DEF IInv, LockLost, askTimesOut, forget, lose, GoesWrong
<1>1. TypeOK'
  <2>1. call' \in [Callers -> Call]
    BY DEF TypeOK, Call
  <2>2. owner' \in [Names -> Sessions \cup {None}]
    BY DEF TypeOK, Call, Idle
  <2>3. heldHere' \in [Procs -> SUBSET Names] /\ idleTimer' \in [Procs -> BOOLEAN]
    BY DEF TypeOK
  <2>4. session' \in [Sessions -> {"closed", "up", "abandoned"}] /\ link' \in [Procs -> Sessions \cup {None}]
    BY DEF TypeOK
  <2>5. faults' \subseteq FaultKinds
    BY DEF TypeOK, FaultKinds
  <2> QED  BY <2>1, <2>2, <2>3, <2>4, <2>5 DEF TypeOK
<1>2. ClaimedOnce'
  BY DEF TypeOK, Idle, ClaimedOnce, Busy
<1>3. SessionsApart'
  BY DEF Idle, SessionsApart
<1>4. SessionsOpen'
  BY DEF TypeOK, SessionsApart, SessionsOpen
<1>5. NoLockLeftBehind'
  BY DEF TypeOK, SessionsApart, NoLockLeftBehind, AtWork
<1>6. CalmHeld'
  BY DEF CalmHeld
<1> QED  BY <1>1, <1>2, <1>3, <1>4, <1>5, <1>6

LEMMA AskErrsKeeps ==
  ASSUME IInv, NEW c \in Callers, askErrs(c)
  PROVE  IInv'
<1> USE LockAssumption DEF IInv, LockLost, askErrs, forget, GoesWrong
<1>1. TypeOK'
  BY DEF TypeOK, Call, FaultKinds
<1>2. ClaimedOnce'
  BY DEF TypeOK, Idle, ClaimedOnce, Busy
<1>3. SessionsApart'
  BY DEF Idle, SessionsApart
<1>4. SessionsOpen'
  BY DEF SessionsOpen
<1>5. NoLockLeftBehind'
  BY DEF NoLockLeftBehind, AtWork
<1>6. CalmHeld'
  BY DEF Idle, CalmHeld
<1> QED  BY <1>1, <1>2, <1>3, <1>4, <1>5, <1>6

LEMMA ReleaseKeeps ==
  ASSUME IInv, NEW c \in Callers, release(c)
  PROVE  IInv'
<1> USE LockAssumption DEF IInv, LockLost, release, forget, Alive
<1>1. TypeOK'
  BY DEF TypeOK, Call
<1>2. ClaimedOnce'
  BY DEF TypeOK, Idle, ClaimedOnce, Busy
<1>3. SessionsApart'
  BY DEF Idle, SessionsApart
<1>4. SessionsOpen'
  BY DEF SessionsOpen
<1>5. NoLockLeftBehind'
  BY DEF TypeOK, NoLockLeftBehind, AtWork
<1>6. CalmHeld'
  BY DEF TypeOK, Idle, SessionsApart, ClaimedOnce, Busy, CalmHeld
<1> QED  BY <1>1, <1>2, <1>3, <1>4, <1>5, <1>6

LEMMA ReleaseTimesOutKeeps ==
  ASSUME IInv, NEW c \in Callers, releaseTimesOut(c)
  PROVE  IInv'
<1> USE LockAssumption DEF IInv, LockLost, releaseTimesOut, forget, lose, Alive, GoesWrong
<1>1. TypeOK'
  BY DEF TypeOK, Call, FaultKinds
<1>2. ClaimedOnce'
  BY DEF TypeOK, Idle, ClaimedOnce, Busy
<1>3. SessionsApart'
  BY DEF Idle, SessionsApart
<1>4. SessionsOpen'
  BY DEF TypeOK, SessionsApart, SessionsOpen
<1>5. NoLockLeftBehind'
  BY DEF TypeOK, ClaimedOnce, NoLockLeftBehind, AtWork
<1>6. CalmHeld'
  BY DEF CalmHeld
<1> QED  BY <1>1, <1>2, <1>3, <1>4, <1>5, <1>6

LEMMA ReleaseErrsKeeps ==
  ASSUME IInv, NEW c \in Callers, releaseErrs(c)
  PROVE  IInv'
<1> USE LockAssumption DEF IInv, LockLost, releaseErrs, forget, GoesWrong
<1>1. TypeOK'
  <2>1. call[c].name \in Names
    BY DEF TypeOK, Call, Idle
  <2>2. left' \subseteq Names
    BY <2>1 DEF TypeOK
  <2> QED  BY <2>2 DEF TypeOK, Call, FaultKinds
<1>2. ClaimedOnce'
  BY DEF TypeOK, Idle, ClaimedOnce, Busy
<1>3. SessionsApart'
  BY DEF Idle, SessionsApart
<1>4. SessionsOpen'
  BY DEF SessionsOpen
<1>5. NoLockLeftBehind'
  <2> SUFFICES ASSUME NEW p \in Procs, NEW n \in Names \ left', link[p] # None, owner[n] = link[p]
               PROVE  \E d \in AtWork(n)' : Of[d] = p /\ call'[d].l = link[p]
    BY DEF NoLockLeftBehind
  <2>1. n \notin left
    OBVIOUS
  <2>2. PICK d \in AtWork(n) : Of[d] = p /\ call[d].l = link[p]
    BY <2>1 DEF NoLockLeftBehind
  <2>3. d # c
    BY <2>2 DEF AtWork
  <2> QED  BY <2>2, <2>3 DEF TypeOK, AtWork
<1>6. CalmHeld'
  BY DEF TypeOK, Idle, CalmHeld
<1> QED  BY <1>1, <1>2, <1>3, <1>4, <1>5, <1>6

LEMMA IdleClosesKeeps ==
  ASSUME IInv, NEW p \in Procs, idleCloses(p)
  PROVE  IInv'
<1> USE LockAssumption DEF IInv, LockLost, idleCloses, Ends, Freed
<1>1. TypeOK'
  BY DEF TypeOK
<1>2. ClaimedOnce'
  BY DEF ClaimedOnce, Busy
<1>3. SessionsApart'
  BY DEF TypeOK, SessionsApart
<1>4. SessionsOpen'
  BY DEF TypeOK, SessionsOpen
<1>5. NoLockLeftBehind'
  BY DEF TypeOK, NoLockLeftBehind, AtWork
<1>6. CalmHeld'
  BY DEF TypeOK, SessionsApart, ClaimedOnce, Busy, CalmHeld
<1> QED  BY <1>1, <1>2, <1>3, <1>4, <1>5, <1>6

LEMMA RestIsOverKeeps ==
  ASSUME IInv, NEW p \in Procs, restIsOver(p)
  PROVE  IInv'
<1> USE LockAssumption DEF IInv, LockLost, restIsOver
<1>1. TypeOK'
  BY DEF TypeOK
<1>2. ClaimedOnce'
  BY DEF ClaimedOnce, Busy
<1>3. SessionsApart'
  BY DEF SessionsApart
<1>4. SessionsOpen'
  BY DEF SessionsOpen
<1>5. NoLockLeftBehind'
  BY DEF NoLockLeftBehind, AtWork
<1>6. CalmHeld'
  BY DEF CalmHeld
<1> QED  BY <1>1, <1>2, <1>3, <1>4, <1>5, <1>6

LEMMA SessionEndsKeeps ==
  ASSUME IInv, NEW s \in Sessions, sessionEnds(s)
  PROVE  IInv'
<1> USE LockAssumption DEF IInv, LockLost, sessionEnds, Ends, Freed
<1>1. TypeOK'
  BY DEF TypeOK
<1>2. ClaimedOnce'
  BY DEF ClaimedOnce, Busy
<1>3. SessionsApart'
  BY DEF SessionsApart
<1>4. SessionsOpen'
  BY DEF SessionsOpen
<1>5. NoLockLeftBehind'
  BY DEF NoLockLeftBehind, AtWork
<1>6. CalmHeld'
  BY DEF TypeOK, ClaimedOnce, Busy, CalmHeld
<1> QED  BY <1>1, <1>2, <1>3, <1>4, <1>5, <1>6

LEMMA ConnectionDropsKeeps ==
  ASSUME IInv, NEW s \in Sessions, connectionDrops(s)
  PROVE  IInv'
<1> USE LockAssumption DEF IInv, LockLost, connectionDrops, Ends, Freed, GoesWrong
<1>1. TypeOK'
  BY DEF TypeOK, FaultKinds
<1>2. ClaimedOnce'
  BY DEF ClaimedOnce, Busy
<1>3. SessionsApart'
  BY DEF SessionsApart
<1>4. SessionsOpen'
  BY DEF SessionsOpen
<1>5. NoLockLeftBehind'
  BY DEF NoLockLeftBehind, AtWork
<1>6. CalmHeld'
  BY DEF CalmHeld
<1> QED  BY <1>1, <1>2, <1>3, <1>4, <1>5, <1>6

LEMMA HearsOfLossKeeps ==
  ASSUME IInv, NEW p \in Procs, hearsOfLoss(p)
  PROVE  IInv'
<1> USE LockAssumption DEF IInv, LockLost, hearsOfLoss
<1>1. TypeOK'
  BY DEF TypeOK
<1>2. ClaimedOnce'
  BY DEF ClaimedOnce, Busy
<1>3. SessionsApart'
  BY DEF SessionsApart
<1>4. SessionsOpen'
  BY DEF SessionsOpen
<1>5. NoLockLeftBehind'
  BY DEF NoLockLeftBehind, AtWork
<1>6. CalmHeld'
  BY DEF CalmHeld
<1> QED  BY <1>1, <1>2, <1>3, <1>4, <1>5, <1>6

LEMMA CrashKeeps ==
  ASSUME IInv, NEW p \in Procs, crash(p)
  PROVE  IInv'
<1> USE LockAssumption DEF IInv, LockLost, crash, GoesWrong
<1>1. TypeOK'
  BY DEF TypeOK, Call, FaultKinds
<1>2. ClaimedOnce'
  BY DEF Idle, ClaimedOnce, Busy
<1>3. SessionsApart'
  BY DEF Idle, SessionsApart
<1>4. SessionsOpen'
  BY DEF TypeOK, SessionsApart, SessionsOpen
<1>5. NoLockLeftBehind'
  <2> SUFFICES ASSUME NEW q \in Procs, NEW n \in Names \ left, link'[q] # None, owner'[n] = link'[q]
               PROVE  \E c \in AtWork(n)' : Of[c] = q /\ call'[c].l = link'[q]
    BY DEF NoLockLeftBehind
  <2>1. q # p /\ link'[q] = link[q]
    BY DEF TypeOK
  <2>2. PICK c \in AtWork(n) : Of[c] = q /\ call[c].l = link[q]
    BY <2>1 DEF NoLockLeftBehind
  <2>3. call'[c] = call[c]
    BY <2>1, <2>2 DEF AtWork
  <2> QED  BY <2>1, <2>2, <2>3 DEF AtWork
<1>6. CalmHeld'
  <2>1. \A c \in Callers : Of[c] # p => call'[c] = call[c] /\ link'[Of[c]] = link[Of[c]]
    BY DEF TypeOK
  <2>2. \A c \in Callers : Of[c] = p => call'[c].pc = "idle"
    BY DEF Idle
  <2>3. \A q \in Procs : link'[q] # None => session'[link'[q]] = session[link[q]] /\ link'[q] = link[q]
    BY DEF TypeOK, SessionsApart
  <2>4. LockLost' = LockLost
    OBVIOUS
  <2> QED  BY <2>1, <2>2, <2>3, <2>4 DEF CalmHeld
<1> QED  BY <1>1, <1>2, <1>3, <1>4, <1>5, <1>6

LEMMA InitHolds == Init => IInv
<1> USE LockAssumption DEF Init, Idle
<1>1. Init => TypeOK
  BY DEF TypeOK, Call
<1>2. Init => ClaimedOnce /\ SessionsApart /\ SessionsOpen
  BY DEF ClaimedOnce, Busy, SessionsApart, SessionsOpen
<1>3. Init => NoLockLeftBehind /\ CalmHeld
  BY DEF NoLockLeftBehind, CalmHeld
<1> QED  BY <1>1, <1>2, <1>3 DEF IInv

LEMMA StepKeeps ==
  ASSUME IInv, [Next]_vars
  PROVE  IInv'
<1>1. CASE \E c \in Callers : Step(c) \/ \E n \in Names : holdShared(c, n)
  BY <1>1, HoldSharedKeeps, UseLinkKeeps, ConnectKeeps, ConnectionRestingKeeps, GrantedKeeps,
     HeldElsewhereKeeps, AskThrowsKeeps, ReleaseKeeps DEF Step
<1>2. CASE \E p \in Procs : idleCloses(p) \/ restIsOver(p) \/ hearsOfLoss(p)
  BY <1>2, IdleClosesKeeps, RestIsOverKeeps, HearsOfLossKeeps
<1>3. CASE \E s \in Sessions : sessionEnds(s)
  BY <1>3, SessionEndsKeeps
<1>4. CASE Fault
  BY <1>4, ConnectRefusedKeeps, AskTimesOutKeeps, AskErrsKeeps, ReleaseTimesOutKeeps, ReleaseErrsKeeps,
     ConnectionDropsKeeps, CrashKeeps DEF Fault
<1>5. CASE UNCHANGED vars
  BY <1>5 DEF IInv, vars, TypeOK, ClaimedOnce, Busy, SessionsApart, SessionsOpen, NoLockLeftBehind, AtWork, CalmHeld,
             LockLost
<1> QED  BY <1>1, <1>2, <1>3, <1>4, <1>5 DEF Next

\* The inductive invariant: what the process remembers, what its connection
\* carries and what the database holds agree.
THEOREM Invariant == Spec => []IInv
<1> QED  BY InitHolds, StepKeeps, PTL DEF Spec

\* Every variable of the lock keeps its type: a lock is asked for, and worked
\* under, on a session only.
THEOREM TypeCorrect == Spec => []TypeOK
<1>1. IInv => TypeOK
  BY DEF IInv
<1> QED  BY Invariant, <1>1, PTL

\* Two callers of one process never work under one name, whatever becomes of
\* the connection (holdShared, forget).
THEOREM LocallyAlone == Spec => []LocalNotConcurrent
<1>1. IInv => LocalNotConcurrent
  BY DEF IInv, ClaimedOnce, Busy, LocalNotConcurrent, AtWork
<1> QED  BY Invariant, <1>1, PTL

\* A process's connection never carries a lock nobody of the process works
\* under (release, lose, idle closing), but one whose unlock failed.
THEOREM NoLockIsLeftBehind == Spec => []NoLockLeftBehind
<1>1. IInv => NoLockLeftBehind
  BY DEF IInv
<1> QED  BY Invariant, <1>1, PTL

\* Until a connection is lost under its callers, no two callers of any process
\* work under one name, though processes die (runExclusive).
THEOREM CalmIsAlone == Spec => []CalmNotConcurrent
<1>1. ASSUME IInv, ~LockLost, NEW n \in Names
      PROVE  Cardinality(AtWork(n)) <= 1
  <2>1. \A c, d \in AtWork(n) : c = d
    <3> SUFFICES ASSUME NEW c \in AtWork(n), NEW d \in AtWork(n)
                 PROVE  c = d
      OBVIOUS
    <3> USE <1>1 DEF IInv, AtWork
    <3>1. call[c].l = owner[n] /\ call[d].l = owner[n]
      BY DEF CalmHeld
    <3>2. call[c].l # None
      BY LockAssumption DEF TypeOK, Call, Idle
    <3>3. Of[c] = Of[d]
      BY <3>1, <3>2 DEF SessionsApart
    <3> QED  BY <3>3 DEF ClaimedOnce, Busy
  <2>2. CASE AtWork(n) = {}
    BY <2>2, FS_EmptySet
  <2>3. CASE AtWork(n) # {}
    <3>1. PICK c \in AtWork(n) : AtWork(n) = {c}
      BY <2>1, <2>3
    <3> QED  BY <3>1, FS_Singleton
  <2> QED  BY <2>2, <2>3
<1>2. IInv => CalmNotConcurrent
  BY <1>1 DEF CalmNotConcurrent, NotConcurrent
<1> QED  BY Invariant, <1>2, PTL

------------------------------------------------------------------------------
(* The promise of TryLock                                                  *)

\* Those who work under a name with their lock on it.
Holders(n) == {c \in AtWork(n) : owner[n] = call[c].l}

\* What the promise is about stays as it is.
Unmoved == \A n \in Names : AtWork(n)' = AtWork(n) /\ Holders(n)' = Holders(n)

LEMMA UnmovedStutters ==
  ASSUME Unmoved, LockLost' = LockLost
  PROVE  UNCHANGED Locks!lockVars
BY DEF Unmoved, Holders, Locks!lockVars

LEMMA UnmovedShakes ==
  ASSUME Unmoved, LockLost'
  PROVE  Locks!Next
<1>1. Locks!Lose({}, {}) BY DEF Unmoved, Holders, Locks!Lose, Locks!Leaves
<1>q. QED BY <1>1 DEF Locks!Next

\* A caller that does not work moves, and locks that nobody works under.
LEMMA AsideUnmoved ==
  ASSUME \A c \in Callers : call'[c] = call[c] \/ (call[c].pc # "work" /\ call'[c].pc # "work"),
         \A n \in Names : owner'[n] = owner[n]
           \/ (\A c \in AtWork(n) : call[c].l # owner[n] /\ call[c].l # owner'[n])
  PROVE  Unmoved
<1> SUFFICES ASSUME NEW n \in Names PROVE AtWork(n)' = AtWork(n) /\ Holders(n)' = Holders(n)
  BY DEF Unmoved
<1>1. AtWork(n)' = AtWork(n) /\ \A c \in AtWork(n) : call'[c] = call[c] BY DEF AtWork
<1>q. QED BY <1>1 DEF Holders

\* A caller that is let go of.
LEMMA ForgetIs ==
  ASSUME TypeOK, NEW c \in Callers, forget(c)
  PROVE  call'[c].pc = "idle" /\ \A d \in Callers \ {c} : call'[d] = call[d]
BY DEF TypeOK, forget, Idle

\* A caller works on a session, and no other of its process under its name.
LEMMA WorkIs ==
  ASSUME IInv, NEW n \in Names, NEW c \in AtWork(n)
  PROVE  /\ call[c].l \in Sessions /\ call[c].l # None
         /\ \A d \in Callers : Busy(d) /\ Of[d] = Of[c] /\ call[d].name = n => d = c
         /\ \A d \in Callers : call[d].l = call[c].l => Of[d] = Of[c]
BY LockAssumption DEF IInv, TypeOK, Call, Idle, AtWork, ClaimedOnce, Busy, SessionsApart,
   LockAssumption

LEMMA GrantTakes ==
  ASSUME IInv, NEW c \in Callers, granted(c)
  PROVE  Locks!Next
<1> SUFFICES ASSUME NEW n \in Names, NEW l \in Sessions, call[c].name = n, call[c].l = l
             PROVE  Locks!Next
  BY DEF granted, IInv, TypeOK, Call, Idle
<1>1. /\ call[c].pc = "ask" /\ owner[n] \in {None, l}
      /\ owner' = [owner EXCEPT ![n] = l] /\ call' = [call EXCEPT ![c].pc = "work"]
      /\ LockLost' = LockLost
  BY DEF granted, LockLost
<1>2. n \in Names /\ call[c] \in Call BY <1>1 DEF IInv, TypeOK, Call, Idle
<1>3. /\ call'[c].pc = "work" /\ call'[c].name = n /\ call'[c].l = l
      /\ \A d \in Callers \ {c} : call'[d] = call[d]
  BY <1>1, <1>2 DEF IInv, TypeOK, Call, Idle
<1>4. Holders(n) = {}
  <2> SUFFICES ASSUME NEW d \in AtWork(n), owner[n] = call[d].l PROVE FALSE
    BY DEF Holders
  <2>1. owner[n] = l BY <1>1, <1>2, WorkIs
  <2>2. Of[c] = Of[d]
    <3>1. call[c].l = call[d].l BY <2>1
    <3>q. QED BY <3>1, WorkIs
  <2>3. d = c BY <1>1, <1>2, <2>2, WorkIs DEF Busy
  <2>q. QED BY <1>1, <2>3 DEF AtWork
<1>5. \A m \in Names : AtWork(m)' = IF m = n THEN AtWork(m) \cup {c} ELSE AtWork(m)
  BY <1>1, <1>2, <1>3 DEF AtWork
<1>6. Holders(n)' = {c}
  <2>1. owner'[n] = l BY <1>1, <1>2 DEF IInv, TypeOK
  <2>2. c \in Holders(n)' BY <1>2, <1>3, <1>5, <2>1 DEF Holders
  <2>3. ASSUME NEW d \in AtWork(n), d # c, call[d].l = l PROVE FALSE
    <3>1. Of[c] = Of[d] BY <1>2, <2>3, WorkIs
    <3>q. QED BY <1>1, <1>2, <2>3, <3>1, WorkIs DEF Busy
  <2>4. \A d \in AtWork(n)' : d # c => d \in AtWork(n) /\ call'[d].l = call[d].l
    BY <1>2, <1>3, <1>5 DEF AtWork
  <2>5. \A d : d \in Holders(n)' <=> d \in AtWork(n)' /\ owner'[n] = call'[d].l BY DEF Holders
  <2>q. QED BY <2>1, <2>2, <2>3, <2>4, <2>5
<1>7. \A m \in Names : m # n => Holders(m)' = Holders(m)
  <2> SUFFICES ASSUME NEW m \in Names, m # n PROVE Holders(m)' = Holders(m)
    OBVIOUS
  <2>1. owner'[m] = owner[m] BY <1>1, <1>2 DEF IInv, TypeOK
  <2>2. c \notin AtWork(m) BY <1>1 DEF AtWork
  <2>3. \A d \in AtWork(m) : call'[d] = call[d] BY <1>3, <2>2 DEF AtWork
  <2>q. QED BY <1>5, <2>1, <2>3 DEF Holders
<1>8. Locks!Take(c, n)
  <2>1. [m \in Names |-> AtWork(m)]' = [[m \in Names |-> AtWork(m)] EXCEPT ![n] = @ \cup {c}]
    BY <1>2, <1>5
  <2>2. [m \in Names |-> Holders(m)]' = [[m \in Names |-> Holders(m)] EXCEPT ![n] = {c}]
    BY <1>2, <1>6, <1>7
  <2>3. [m \in Names |-> Holders(m)][n] = {} BY <1>2, <1>4
  <2>q. QED BY <1>1, <2>1, <2>2, <2>3 DEF Locks!Take, Holders
<1>q. QED BY <1>8 DEF Locks!Next

\* A caller stops working, and its lock is freed or nobody's.
LEMMA LeaveIs ==
  ASSUME IInv, NEW c \in Callers, call[c].pc = "work", forget(c),
         owner' = owner \/ (owner[call[c].name] = call[c].l
                            /\ owner' = [owner EXCEPT ![call[c].name] = None])
  PROVE  \A n \in Names : AtWork(n)' = AtWork(n) \ {c} /\ Holders(n)' = Holders(n) \ {c}
<1> DEFINE m == call[c].name
<1>1. call'[c].pc = "idle" /\ \A d \in Callers \ {c} : call'[d] = call[d]
  BY ForgetIs DEF IInv
<1> SUFFICES ASSUME NEW n \in Names
             PROVE  AtWork(n)' = AtWork(n) \ {c} /\ Holders(n)' = Holders(n) \ {c}
  OBVIOUS
<1>2. AtWork(n)' = AtWork(n) \ {c} BY <1>1 DEF AtWork
<1>3. \A d \in AtWork(n) \ {c} : call'[d] = call[d] BY <1>1 DEF AtWork
<1>4. CASE owner'[n] = owner[n] BY <1>2, <1>3, <1>4 DEF Holders
<1>5. CASE owner'[n] # owner[n]
  <2>1. n = m /\ owner[n] = call[c].l /\ owner'[n] = None BY <1>5 DEF IInv, TypeOK
  <2>2. c \in AtWork(n) BY <2>1 DEF AtWork
  <2>3. ASSUME NEW d \in AtWork(n) \ {c} PROVE call[d].l # owner[n] /\ call[d].l # None
    <3>1. call[d].l # None BY WorkIs
    <3>2. Of[d] = Of[c] => d = c BY <2>2, WorkIs DEF AtWork, Busy
    <3>q. QED BY <2>1, <2>2, <2>3, <3>1, <3>2, WorkIs
  <2>q. QED BY <1>2, <1>3, <2>1, <2>3 DEF Holders
<1>q. QED BY <1>4, <1>5

LEMMA ReleaseLeaves ==
  ASSUME IInv, NEW c \in Callers, release(c) \/ releaseErrs(c)
  PROVE  Locks!Next
<1>1. /\ call[c].pc = "work" /\ forget(c) /\ LockLost' = LockLost
      /\ \/ owner' = owner
         \/ /\ owner[call[c].name] = call[c].l
            /\ owner' = [owner EXCEPT ![call[c].name] = None]
  BY DEF release, releaseErrs, GoesWrong, LockLost
<1>2. \A n \in Names : AtWork(n)' = AtWork(n) \ {c} /\ Holders(n)' = Holders(n) \ {c}
  BY <1>1, LeaveIs
<1>3. Locks!Leave({c}) BY <1>1, <1>2 DEF Locks!Leave, Locks!Leaves, Holders
<1>q. QED BY <1>3 DEF Locks!Next

LEMMA LockIsLost ==
  ASSUME NEW kind \in {"drop", "timeout"}, GoesWrong(kind)
  PROVE  LockLost'
BY DEF GoesWrong, LockLost

LEMMA ReleaseTimesOutLoses ==
  ASSUME IInv, NEW c \in Callers, releaseTimesOut(c)
  PROVE  Locks!Next
<1>1. /\ call[c].pc = "work" /\ forget(c) /\ LockLost'
      /\ \/ owner' = owner
         \/ /\ owner[call[c].name] = call[c].l
            /\ owner' = [owner EXCEPT ![call[c].name] = None]
  BY LockIsLost DEF releaseTimesOut
<1>2. \A n \in Names : AtWork(n)' = AtWork(n) \ {c} /\ Holders(n)' = Holders(n) \ {c}
  BY <1>1, LeaveIs
<1>3. Locks!Lose({c}, {}) BY <1>1, <1>2 DEF Locks!Lose, Locks!Leaves, Holders
<1>q. QED BY <1>3 DEF Locks!Next

\* A lock taken by a statement that was given up is nobody's at work: a call of
\* the same process under the name is the one that gave up.
LEMMA TakenInVain ==
  ASSUME IInv, NEW c \in Callers, call[c].pc = "ask", forget(c),
         owner' = owner \/ (owner[call[c].name] = None
                            /\ owner' = [owner EXCEPT ![call[c].name] = call[c].l])
  PROVE  Unmoved
<1> DEFINE m == call[c].name
<1>1. call'[c].pc = "idle" /\ \A d \in Callers \ {c} : call'[d] = call[d]
  BY ForgetIs DEF IInv
<1>2. m \in Names BY DEF IInv, TypeOK, Call, Idle
<1>3. ASSUME NEW d \in AtWork(m) PROVE call[d].l # None /\ call[d].l # call[c].l
  <2>1. Of[c] = Of[d] => c = d BY <1>2, WorkIs DEF Busy
  <2>2. c # d BY DEF AtWork
  <2>q. QED BY <1>2, <2>1, <2>2, WorkIs
<1>4. \A n \in Names : owner'[n] = owner[n]
        \/ (\A d \in AtWork(n) : call[d].l # owner[n] /\ call[d].l # owner'[n])
  BY <1>2, <1>3 DEF IInv, TypeOK
<1>q. QED BY <1>1, <1>4, AsideUnmoved

\* A session ends, and the locks on it.
LEMMA EndLoses ==
  ASSUME IInv, NEW s \in Sessions, Ends(s), UNCHANGED call, LockLost'
  PROVE  Locks!Next
<1> SUFFICES ASSUME NEW N \in SUBSET Names, N = {n \in Names : owner[n] = s}
             PROVE  Locks!Next
  OBVIOUS
<1>1. \A n \in Names : AtWork(n)' = AtWork(n) BY DEF AtWork
<1>2. \A n \in Names : owner'[n] = IF owner[n] = s THEN None ELSE owner[n]
  BY DEF Ends, Freed
<1>3. \A n \in Names : Holders(n)' = IF n \in N THEN {} ELSE Holders(n) \ {}
  <2> SUFFICES ASSUME NEW n \in Names PROVE Holders(n)' = IF n \in N THEN {} ELSE Holders(n) \ {}
    OBVIOUS
  <2>1. \A c \in AtWork(n) : call[c].l # None BY WorkIs
  <2>q. QED BY <1>1, <1>2, <2>1 DEF Holders
<1>4. Locks!Lose({}, N) BY <1>1, <1>3 DEF Locks!Lose, Locks!Leaves, Holders
<1>q. QED BY <1>4 DEF Locks!Next

\* A session that nobody works on ends.
LEMMA QuietEnd ==
  ASSUME IInv, NEW s \in Sessions, Ends(s), UNCHANGED call,
         \A c \in Callers : call[c].pc = "work" => call[c].l # s
  PROVE  Unmoved
<1>1. \A n \in Names : owner'[n] = owner[n] \/ (owner[n] = s /\ owner'[n] = None)
  BY DEF Ends, Freed
<1>2. ASSUME NEW n \in Names, NEW c \in AtWork(n) PROVE call[c].l # s /\ call[c].l # None
  <2>1. call[c].l # None BY WorkIs
  <2>q. QED BY <2>1 DEF AtWork
<1>q. QED BY <1>1, <1>2, AsideUnmoved

LEMMA IdleClosesStutters ==
  ASSUME IInv, NEW p \in Procs, idleCloses(p)
  PROVE  UNCHANGED Locks!lockVars
<1>1. LockLost' = LockLost /\ UNCHANGED call BY DEF idleCloses, LockLost
<1>2. CASE heldHere[p] = {} /\ link[p] # None
  <2>1. Ends(link[p]) /\ link[p] \in Sessions BY <1>2 DEF idleCloses, IInv, TypeOK
  <2>2. \A c \in Callers : call[c].pc = "work" => call[c].l # link[p]
    BY <1>2 DEF IInv, SessionsApart, ClaimedOnce, Busy
  <2>q. QED BY <1>1, <2>1, <2>2, QuietEnd, UnmovedStutters
<1>3. CASE ~(heldHere[p] = {} /\ link[p] # None)
  <2>1. UNCHANGED <<owner, call>> BY <1>1, <1>3 DEF idleCloses
  <2>q. QED BY <1>1, <2>1, AsideUnmoved, UnmovedStutters
<1>q. QED BY <1>2, <1>3

LEMMA SessionEndIs ==
  ASSUME IInv, NEW s \in Sessions, sessionEnds(s)
  PROVE  [Locks!Next]_(Locks!lockVars)
<1>1. /\ session[s] = "abandoned" /\ Ends(s) /\ UNCHANGED call /\ LockLost' = LockLost
  BY DEF sessionEnds, LockLost
<1>2. CASE LockLost BY <1>1, <1>2, EndLoses
<1>3. CASE ~LockLost
  <2>1. ASSUME NEW c \in Callers, call[c].pc = "work" PROVE call[c].l # s
    <3>1. link[Of[c]] = call[c].l /\ Of[c] \in Procs
      BY <1>3, <2>1, LockAssumption DEF IInv, CalmHeld, LockAssumption
    <3>2. call[c].l # None BY <2>1, LockAssumption DEF IInv, TypeOK, Call, Idle, LockAssumption
    <3>3. session[call[c].l] = "up" BY <1>3, <3>1, <3>2 DEF IInv, CalmHeld
    <3>q. QED BY <1>1, <3>3
  <2>q. QED BY <1>1, <2>1, QuietEnd, UnmovedStutters
<1>q. QED BY <1>2, <1>3

LEMMA CrashLeaves ==
  ASSUME IInv, NEW p \in Procs, crash(p)
  PROVE  Locks!Next
<1> DEFINE S == {c \in Callers : Of[c] = p}
<1>1. /\ call' = [c \in Callers |-> IF Of[c] = p THEN Idle ELSE call[c]]
      /\ owner' = owner /\ LockLost' = LockLost
  BY DEF crash, GoesWrong, LockLost
<1>2. \A n \in Names : AtWork(n)' = AtWork(n) \ S BY <1>1 DEF AtWork, Idle
<1>3. \A n \in Names : Holders(n)' = Holders(n) \ S
  <2> SUFFICES ASSUME NEW n \in Names PROVE Holders(n)' = Holders(n) \ S
    OBVIOUS
  <2>1. \A c \in AtWork(n) \ S : call'[c] = call[c] BY <1>1 DEF AtWork
  <2>q. QED BY <1>1, <1>2, <2>1 DEF Holders
<1>4. Locks!Leave(S) BY <1>1, <1>2, <1>3 DEF Locks!Leave, Locks!Leaves, Holders
<1>5. S \in SUBSET Callers OBVIOUS
<1>q. QED BY <1>4, <1>5 DEF Locks!Next

\* A call before its lock is granted, or whose lock is not.
LEMMA BeforeGrant ==
  ASSUME IInv, NEW c \in Callers,
         \/ (\E n \in Names : holdShared(c, n)) \/ useLink(c) \/ (\E s \in Sessions : connect(c, s))
         \/ connectionResting(c) \/ connectRefused(c) \/ heldElsewhere(c) \/ askErrs(c)
  PROVE  UNCHANGED Locks!lockVars
<1>1. UNCHANGED owner /\ LockLost' = LockLost
  BY DEF holdShared, useLink, connect, connectionResting, connectRefused, heldElsewhere, askErrs, GoesWrong,
         LockLost
<1>2. call[c].pc # "work" /\ call'[c].pc # "work" /\ \A d \in Callers \ {c} : call'[d] = call[d]
  <2>1. CASE forget(c)
    <3>1. call[c].pc # "work"
      BY DEF holdShared, useLink, connect, connectionResting, connectRefused, heldElsewhere, askErrs
    <3>q. QED BY <2>1, <3>1, ForgetIs DEF IInv
  <2>2. CASE ~forget(c)
    BY <2>2 DEF holdShared, useLink, connect, connectionResting, connectRefused, heldElsewhere, askErrs, Asks,
                IInv, TypeOK
  <2>q. QED BY <2>1, <2>2
<1>q. QED BY <1>1, <1>2, AsideUnmoved, UnmovedStutters

LEMMA StepIsLocked ==
  ASSUME IInv, [Next]_vars
  PROVE  [Locks!Next]_(Locks!lockVars)
<1>1. ASSUME NEW c \in Callers, askThrows(c) PROVE UNCHANGED Locks!lockVars
  <2>1. /\ call[c].pc = "ask" /\ forget(c) /\ LockLost' = LockLost
        /\ \/ owner' = owner
           \/ owner[call[c].name] = None /\ owner' = [owner EXCEPT ![call[c].name] = call[c].l]
    BY <1>1 DEF askThrows, LockLost
  <2>q. QED BY <2>1, TakenInVain, UnmovedStutters
<1>2. ASSUME NEW c \in Callers, askTimesOut(c) PROVE Locks!Next
  <2>1. /\ call[c].pc = "ask" /\ forget(c) /\ LockLost'
        /\ \/ owner' = owner
           \/ owner[call[c].name] = None /\ owner' = [owner EXCEPT ![call[c].name] = call[c].l]
    BY <1>2, LockIsLost DEF askTimesOut
  <2>q. QED BY <2>1, TakenInVain, UnmovedShakes
<1>3. ASSUME NEW p \in Procs, restIsOver(p) \/ hearsOfLoss(p) PROVE UNCHANGED Locks!lockVars
  <2>1. UNCHANGED <<owner, call>> /\ LockLost' = LockLost
    BY <1>3 DEF restIsOver, hearsOfLoss, LockLost
  <2>q. QED BY <2>1, AsideUnmoved, UnmovedStutters
<1>4. ASSUME NEW s \in Sessions, connectionDrops(s) PROVE Locks!Next
  <2>1. Ends(s) /\ UNCHANGED call /\ LockLost' BY <1>4, LockIsLost DEF connectionDrops
  <2>q. QED BY <2>1, EndLoses
<1>5. CASE UNCHANGED vars
  <2>1. UNCHANGED <<owner, call>> /\ LockLost' = LockLost BY <1>5 DEF vars, LockLost
  <2>q. QED BY <2>1, AsideUnmoved, UnmovedStutters
<1>6. CASE \E c \in Callers : Step(c) \/ \E n \in Names : holdShared(c, n)
  BY <1>1, <1>6, BeforeGrant, GrantTakes, ReleaseLeaves DEF Step
<1>7. CASE \E p \in Procs : idleCloses(p) \/ restIsOver(p) \/ hearsOfLoss(p)
  BY <1>3, <1>7, IdleClosesStutters
<1>8. CASE \E s \in Sessions : sessionEnds(s) BY <1>8, SessionEndIs
<1>9. CASE Fault
  BY <1>2, <1>4, <1>9, BeforeGrant, ReleaseLeaves, ReleaseTimesOutLoses, CrashLeaves DEF Fault
<1>q. QED BY <1>5, <1>6, <1>7, <1>8, <1>9 DEF Next

\* The exclusive locks implement the try-lock: connecting, asking, timing out
\* and dying are taking, leaving or losing a lock, or nothing, and no name is
\* given to anybody while a lock on it stands, whatever was lost before.
THEOREM TryLockImplemented == Spec => ImplementsTryLock
<1>1. Init => Locks!Init
  BY DEF Init, Locks!Init, AtWork, Idle, LockLost
<1>2. IInv /\ [Next]_vars => [Locks!Next]_(Locks!lockVars) BY StepIsLocked
<1>q. QED BY <1>1, <1>2, Invariant, PTL DEF Spec, ImplementsTryLock, Locks!Spec

\* What the promise comes to: until a lock is lost, one caller at most works
\* under a name, and holds it.
THEOREM TryLockIsExclusive == Locks!Spec => []Locks!OneAtATime
<1>1. Locks!Init => Locks!OneAtATime
  BY DEF Locks!Init, Locks!OneAtATime
<1>2. Locks!OneAtATime /\ [Locks!Next]_(Locks!lockVars) => Locks!OneAtATime'
  <2> SUFFICES ASSUME Locks!OneAtATime, [Locks!Next]_(Locks!lockVars), ~LockLost'
               PROVE  Locks!OneAtATime'
    BY DEF Locks!OneAtATime
  <2> DEFINE H == [n \in Names |-> {c \in AtWork(n) : owner[n] = call[c].l}]
             W == [n \in Names |-> AtWork(n)]
  <2>1. CASE \E c \in Callers, n \in Names : Locks!Take(c, n)
    <3>1. PICK c \in Callers, n \in Names : Locks!Take(c, n) BY <2>1
    <3>2. /\ H[n] = {} /\ LockLost' = LockLost
          /\ W' = [W EXCEPT ![n] = @ \cup {c}] /\ H' = [H EXCEPT ![n] = {c}]
      BY <3>1 DEF Locks!Take
    <3>3. \A m \in Names : W[m] = H[m] /\ \A d, e \in W[m] : d = e
      BY <3>2 DEF Locks!OneAtATime
    <3>4. DOMAIN W = Names /\ DOMAIN H = Names OBVIOUS
    <3> HIDE DEF W, H
    <3>5. \A m \in Names : W'[m] = H'[m] /\ \A d, e \in W'[m] : d = e
      BY <3>2, <3>3, <3>4
    <3>q. QED BY <3>5 DEF Locks!OneAtATime, W, H
  <2>2. CASE \E S \in SUBSET Callers : Locks!Leave(S)
    <3>1. PICK S \in SUBSET Callers : Locks!Leave(S) BY <2>2
    <3>2. /\ LockLost' = LockLost
          /\ W' = [n \in Names |-> W[n] \ S] /\ H' = [n \in Names |-> H[n] \ S]
      BY <3>1 DEF Locks!Leave, Locks!Leaves
    <3>3. \A m \in Names : W[m] = H[m] /\ \A d, e \in W[m] : d = e
      BY <3>2 DEF Locks!OneAtATime
    <3> HIDE DEF W, H
    <3>4. \A m \in Names : W'[m] = H'[m] /\ \A d, e \in W'[m] : d = e
      BY <3>2, <3>3
    <3>q. QED BY <3>4 DEF Locks!OneAtATime, W, H
  <2>3. CASE \E S \in SUBSET Callers, N \in SUBSET Names : Locks!Lose(S, N)
    BY <2>3 DEF Locks!Lose
  <2>4. CASE UNCHANGED Locks!lockVars
    BY <2>4 DEF Locks!OneAtATime, Locks!lockVars
  <2>q. QED BY <2>1, <2>2, <2>3, <2>4 DEF Locks!Next
<1>q. QED BY <1>1, <1>2, PTL DEF Locks!Spec
=============================================================================
