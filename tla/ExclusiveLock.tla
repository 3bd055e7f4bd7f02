--------------------------- MODULE ExclusiveLock ---------------------------
(***************************************************************************)
(* The try-lock every periodic job of the platform runs under              *)
(* (api/src/platform/exclusive.ts: runExclusive, tryHoldExclusive): one    *)
(* database connection per api process carries all its session locks, the  *)
(* database keeps the processes apart, and a set in memory keeps the       *)
(* callers of one process apart.                                           *)
(*                                                                         *)
(* Every action runs from one await of the code to the next, or is one     *)
(* event of a connection.  Session locks are re-entrant within a session.  *)
(***************************************************************************)
EXTENDS Integers, FiniteSets

CONSTANTS Procs,      \* api processes on one database
          Callers,    \* calls of runExclusive there may be at once
          Of,         \* the process each is made in
          Names,      \* names of jobs
          Sessions,   \* database sessions, bounded; an ended one is used anew
          None,
          MaxFaults   \* how many kinds of fault may happen, each once

FaultKinds == {"drop", "timeout", "refuse", "error", "crash"}

ASSUME LockAssumption ==
  /\ Of \in [Callers -> Procs]
  /\ None \notin Procs \cup Callers \cup Names \cup Sessions
  /\ MaxFaults \in Nat

VARIABLES
  session,   \* each session, as the database sees it
  owner,     \* the session that holds each advisory lock
  link,      \* the process's lock connection
  heldHere,  \* names claimed in the process
  idleTimer, \* linkIdle is set
  resting,   \* refusedUntil lies ahead
  call,      \* what each caller is at
  left,      \* the locks an unlock failed to let go of
  faults     \* the kinds of fault there have been

vars == <<session, owner, link, heldHere, idleTimer, resting, call, left, faults>>

Idle == [pc |-> "idle", name |-> None, l |-> None]
Call == {Idle}
        \cup [pc : {"link"}, name : Names, l : {None}]
        \cup [pc : {"ask", "work"}, name : Names, l : Sessions]

TypeOK ==
  /\ session \in [Sessions -> {"closed", "up", "abandoned"}]
  /\ owner \in [Names -> Sessions \cup {None}]
  /\ link \in [Procs -> Sessions \cup {None}]
  /\ heldHere \in [Procs -> SUBSET Names]
  /\ idleTimer \in [Procs -> BOOLEAN]
  /\ resting \in [Procs -> BOOLEAN]
  /\ call \in [Callers -> Call]
  /\ left \subseteq Names
  /\ faults \subseteq FaultKinds

Init ==
  /\ session = [s \in Sessions |-> "closed"]
  /\ owner = [n \in Names |-> None]
  /\ link = [p \in Procs |-> None]
  /\ heldHere = [p \in Procs |-> {}]
  /\ idleTimer = [p \in Procs |-> FALSE]
  /\ resting = [p \in Procs |-> FALSE]
  /\ call = [c \in Callers |-> Idle]
  /\ left = {}
  /\ faults = {}

GoesWrong(kind) ==
  /\ kind \notin faults
  /\ Cardinality(faults) < MaxFaults
  /\ faults' = faults \cup {kind}

Refers(s) == {p \in Procs : link[p] = s} \cup {c \in Callers : call[c].l = s}
Unused    == {s \in Sessions : session[s] = "closed" /\ Refers(s) = {}}

\* The locks of a session go with it.
Freed(s) == [n \in Names |-> IF owner[n] = s THEN None ELSE owner[n]]

------------------------------------------------------------------------------
(* holdShared                                                              *)

\* Mutant: the name is claimed when the lock is granted, not before the await.
CallUnclaimed(c, n) ==
  LET p == Of[c] IN
  /\ call[c].pc = "idle"
  /\ n \notin heldHere[p]
  /\ idleTimer' = [idleTimer EXCEPT ![p] = FALSE]
  /\ call' = [call EXCEPT ![c] = [pc |-> "link", name |-> n, l |-> None]]
  /\ UNCHANGED <<session, owner, link, heldHere, resting, left, faults>>

\* A name claimed here answers null at once; else it is claimed before the
\* first await.
holdShared(c, n) ==
  LET p == Of[c] IN
  /\ call[c].pc = "idle"
  /\ n \notin heldHere[p]
  /\ heldHere' = [heldHere EXCEPT ![p] = heldHere[p] \cup {n}]
  /\ idleTimer' = [idleTimer EXCEPT ![p] = FALSE]
  /\ call' = [call EXCEPT ![c] = [pc |-> "link", name |-> n, l |-> None]]
  /\ UNCHANGED <<session, owner, link, resting, left, faults>>

\* The name is let go of, and the idle timer is set when it was the last one
\* and there is a connection to close.
forget(c) ==
  LET p == Of[c] IN
  /\ heldHere' = [heldHere EXCEPT ![p] = heldHere[p] \ {call[c].name}]
  /\ idleTimer' = [idleTimer EXCEPT ![p] = idleTimer[p] \/ (heldHere'[p] = {} /\ link'[p] # None)]
  /\ call' = [call EXCEPT ![c] = Idle]

Asks(c, s) == call' = [call EXCEPT ![c] = [pc |-> "ask", name |-> call[c].name, l |-> s]]

\* Mutant: the lock is asked for though no connection was opened.
UseLinkUnopened(c) ==
  /\ call[c].pc = "link"
  /\ Asks(c, link[Of[c]])
  /\ UNCHANGED <<session, owner, link, heldHere, idleTimer, resting, left, faults>>

useLink(c) ==
  /\ call[c].pc = "link"
  /\ link[Of[c]] # None
  /\ Asks(c, link[Of[c]])
  /\ UNCHANGED <<session, owner, link, heldHere, idleTimer, resting, left, faults>>

\* lockLink opens the connection every caller of the process then shares.
connect(c, s) ==
  LET p == Of[c] IN
  /\ call[c].pc = "link"
  /\ link[p] = None /\ ~resting[p]
  /\ s \in Unused
  /\ session' = [session EXCEPT ![s] = "up"]
  /\ link' = [link EXCEPT ![p] = s]
  /\ Asks(c, s)
  /\ UNCHANGED <<owner, heldHere, idleTimer, resting, left, faults>>

connectRefused(c) ==
  LET p == Of[c] IN
  /\ call[c].pc = "link"
  /\ link[p] = None /\ ~resting[p]
  /\ GoesWrong("refuse")
  /\ resting' = [resting EXCEPT ![p] = TRUE]
  /\ UNCHANGED <<session, owner, link, left>>
  /\ forget(c)

\* Mutant: the throw leaves the name claimed.
ThrowUnforgotten(c) ==
  LET p == Of[c] IN
  /\ call[c].pc = "link"
  /\ link[p] = None /\ resting[p]
  /\ call' = [call EXCEPT ![c] = Idle]
  /\ UNCHANGED <<session, owner, link, heldHere, idleTimer, resting, left, faults>>

\* LockConnectionResting: no lock dials again until the wait is out.
connectionResting(c) ==
  LET p == Of[c] IN
  /\ call[c].pc = "link"
  /\ link[p] = None /\ resting[p]
  /\ UNCHANGED <<session, owner, link, resting, left, faults>>
  /\ forget(c)

\* Mutant: the answer is not looked at.
AskAnswered(c) ==
  LET n == call[c].name IN
  /\ call[c].pc = "ask"
  /\ session[call[c].l] = "up"
  /\ owner' = [owner EXCEPT ![n] = IF @ = None THEN call[c].l ELSE @]
  /\ call' = [call EXCEPT ![c].pc = "work"]
  /\ UNCHANGED <<session, link, heldHere, idleTimer, resting, left, faults>>

\* pg_try_advisory_lock, granted: to a session that has the lock as well.
granted(c) ==
  LET n == call[c].name IN
  /\ call[c].pc = "ask"
  /\ session[call[c].l] = "up"
  /\ owner[n] \in {None, call[c].l}
  /\ owner' = [owner EXCEPT ![n] = call[c].l]
  /\ call' = [call EXCEPT ![c].pc = "work"]
  /\ UNCHANGED <<session, link, heldHere, idleTimer, resting, left, faults>>

heldElsewhere(c) ==
  /\ call[c].pc = "ask"
  /\ session[call[c].l] = "up"
  /\ owner[call[c].name] \notin {None, call[c].l}
  /\ UNCHANGED <<session, owner, link, resting, left, faults>>
  /\ forget(c)

\* On a connection that has ended the statement throws, and one given up
\* behind it may still have taken the lock.
askThrows(c) ==
  LET l == call[c].l
      n == call[c].name
  IN
  /\ call[c].pc = "ask"
  /\ session[l] # "up"
  /\ \/ UNCHANGED owner
     \/ session[l] = "abandoned" /\ owner[n] = None /\ owner' = [owner EXCEPT ![n] = l]
  /\ UNCHANGED <<session, link, resting, left, faults>>
  /\ forget(c)

\* lose: the connection is given up and ended; the database ends the session
\* when it hears of it.
lose(p, l) ==
  /\ session' = [session EXCEPT ![l] = "abandoned"]
  /\ link' = [link EXCEPT ![p] = IF @ = l THEN None ELSE @]

\* LOCK_QUERY_TIMEOUT_MS: the abandoned statement may still take the lock.
askTimesOut(c) ==
  LET l == call[c].l
      n == call[c].name
  IN
  /\ call[c].pc = "ask"
  /\ session[l] = "up"
  /\ GoesWrong("timeout")
  /\ lose(Of[c], l)
  /\ \/ UNCHANGED owner
     \/ owner[n] = None /\ owner' = [owner EXCEPT ![n] = l]
  /\ UNCHANGED <<resting, left>>
  /\ forget(c)

\* The statement fails on a connection that goes on, and takes no lock.
askErrs(c) ==
  /\ call[c].pc = "ask"
  /\ session[call[c].l] = "up"
  /\ GoesWrong("error")
  /\ UNCHANGED <<session, owner, link, resting, left>>
  /\ forget(c)

------------------------------------------------------------------------------
(* release, when the work has ended one way or the other                   *)

Alive(c) == link[Of[c]] = call[c].l

\* Mutant: the name is let go of, the lock is not.
ReleaseForgetsOnly(c) ==
  /\ call[c].pc = "work"
  /\ UNCHANGED <<session, owner, link, resting, left, faults>>
  /\ forget(c)

\* Unlocks on the connection the lock was taken on, if that is still alive.  A
\* lock left behind there had been taken once more, and stays.
release(c) ==
  LET n == call[c].name IN
  /\ call[c].pc = "work"
  /\ owner' = IF Alive(c) /\ owner[n] = call[c].l /\ n \notin left
              THEN [owner EXCEPT ![n] = None] ELSE owner
  /\ UNCHANGED <<session, link, resting, left, faults>>
  /\ forget(c)

releaseTimesOut(c) ==
  LET l == call[c].l
      n == call[c].name
  IN
  /\ call[c].pc = "work"
  /\ Alive(c) /\ session[l] = "up"
  /\ GoesWrong("timeout")
  /\ lose(Of[c], l)
  /\ \/ UNCHANGED owner
     \/ owner[n] = l /\ n \notin left /\ owner' = [owner EXCEPT ![n] = None]
  /\ UNCHANGED <<resting, left>>
  /\ forget(c)

\* The unlock fails on a connection that goes on: the name is let go of here,
\* and the connection keeps the lock.
releaseErrs(c) ==
  LET l == call[c].l
      n == call[c].name
  IN
  /\ call[c].pc = "work"
  /\ Alive(c) /\ session[l] = "up"
  /\ GoesWrong("error")
  /\ left' = IF owner[n] = l THEN left \cup {n} ELSE left
  /\ UNCHANGED <<session, owner, link, resting>>
  /\ forget(c)

------------------------------------------------------------------------------
(* Timers and connections.                                                 *)

Ends(s) ==
  /\ session' = [session EXCEPT ![s] = "closed"]
  /\ owner' = Freed(s)
  /\ left' = {n \in left : owner[n] # s}

\* The quiet api closes its lock connection, and no statement is under way on
\* it, so the database ends the session.
idleCloses(p) ==
  /\ idleTimer[p]
  /\ idleTimer' = [idleTimer EXCEPT ![p] = FALSE]
  /\ IF heldHere[p] = {} /\ link[p] # None
     THEN link' = [link EXCEPT ![p] = None] /\ Ends(link[p])
     ELSE UNCHANGED <<link, session, owner, left>>
  /\ UNCHANGED <<heldHere, resting, call, faults>>

restIsOver(p) ==
  /\ resting[p]
  /\ resting' = [resting EXCEPT ![p] = FALSE]
  /\ UNCHANGED <<session, owner, link, heldHere, idleTimer, call, left, faults>>

\* The database ends a session its client has given up.
sessionEnds(s) ==
  /\ session[s] = "abandoned"
  /\ Ends(s)
  /\ UNCHANGED <<link, heldHere, idleTimer, resting, call, faults>>

\* The connection drops, and with it its locks; the process does not know yet.
connectionDrops(s) ==
  /\ session[s] = "up"
  /\ GoesWrong("drop")
  /\ Ends(s)
  /\ UNCHANGED <<link, heldHere, idleTimer, resting, call>>

\* The connection's error or end event.
hearsOfLoss(p) ==
  /\ link[p] # None
  /\ session[link[p]] # "up"
  /\ link' = [link EXCEPT ![p] = None]
  /\ UNCHANGED <<session, owner, heldHere, idleTimer, resting, call, left, faults>>

\* The process dies: the database ends its session when it notices.
crash(p) ==
  LET ours == {s \in Sessions : session[s] = "up" /\
                                (link[p] = s \/ \E c \in Callers : Of[c] = p /\ call[c].l = s)} IN
  /\ GoesWrong("crash")
  /\ session' = [s \in Sessions |-> IF s \in ours THEN "abandoned" ELSE session[s]]
  /\ link' = [link EXCEPT ![p] = None]
  /\ heldHere' = [heldHere EXCEPT ![p] = {}]
  /\ idleTimer' = [idleTimer EXCEPT ![p] = FALSE]
  /\ resting' = [resting EXCEPT ![p] = FALSE]
  /\ call' = [c \in Callers |-> IF Of[c] = p THEN Idle ELSE call[c]]
  /\ UNCHANGED <<owner, left>>

Step(c) ==
  \/ useLink(c) \/ (\E s \in Sessions : connect(c, s)) \/ connectionResting(c)
  \/ granted(c) \/ heldElsewhere(c) \/ askThrows(c)
  \/ release(c)

Fault ==
  \/ \E c \in Callers : connectRefused(c) \/ askTimesOut(c) \/ askErrs(c)
                         \/ releaseTimesOut(c) \/ releaseErrs(c)
  \/ \E s \in Sessions : connectionDrops(s)
  \/ \E p \in Procs : crash(p)

Next ==
  \/ \E c \in Callers : Step(c) \/ \E n \in Names : holdShared(c, n)
  \/ \E p \in Procs : idleCloses(p) \/ restIsOver(p) \/ hearsOfLoss(p)
  \/ \E s \in Sessions : sessionEnds(s)
  \/ Fault

\* A call that was made goes on, timers fire, and the database and the
\* process hear of an ended connection.
Fairness ==
  /\ \A c \in Callers : WF_vars(Step(c))
  /\ \A p \in Procs : WF_vars(idleCloses(p)) /\ WF_vars(restIsOver(p)) /\ WF_vars(hearsOfLoss(p))
  /\ \A s \in Sessions : WF_vars(sessionEnds(s))

Spec == Init /\ [][Next]_vars
FairSpec == Spec /\ Fairness

------------------------------------------------------------------------------
(* Properties.                                                             *)

AtWork(n) == {c \in Callers : call[c].pc = "work" /\ call[c].name = n}

\* No two callers anywhere do the work of one name at once.
NotConcurrent == \A n \in Names : Cardinality(AtWork(n)) <= 1

\* The connection of callers at work may have been lost to them.
LockLost == faults \cap {"drop", "timeout"} # {}

\* As long as no connection is lost under its callers, no two of them in any
\* process do the work of one name at once: whoever dies, is refused a login, or
\* closes the idle connection and opens another.
CalmNotConcurrent == ~LockLost => NotConcurrent

\* Callers of one process never do, whatever happens to the connection: a
\* session lock alone would let the second one in.
LocalNotConcurrent ==
  \A n \in Names : \A c, d \in AtWork(n) : Of[c] = Of[d] => c = d

\* A lock that a process's own connection holds is one that a caller of this
\* process works under: none is left behind for others to find taken, but by an
\* unlock that failed.
NoLockLeftBehind ==
  \A p \in Procs : \A n \in Names \ left :
    link[p] # None /\ owner[n] = link[p] =>
      \E c \in AtWork(n) : Of[c] = p /\ call[c].l = link[p]

Locks == INSTANCE TryLock WITH
  working <- [n \in Names |-> AtWork(n)],
  held    <- [n \in Names |-> {c \in AtWork(n) : owner[n] = call[c].l}],
  shaken  <- LockLost

\* The locks keep the promise of TryLock.tla, the lost ones included: nobody is
\* given a name while a lock on it stands.
ImplementsTryLock == Locks!Spec

\* Whatever is lost or refused, a name claimed in a process is let go of, and
\* the database lets go of its lock, unless an unlock of it fails.
EveryNameComesFree ==
  \A n \in Names :
    /\ \A p \in Procs : n \in heldHere[p] ~> n \notin heldHere[p]
    /\ owner[n] # None ~> owner[n] = None \/ n \in left
=============================================================================
