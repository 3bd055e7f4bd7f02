------------------------------ MODULE TryLock ------------------------------
(***************************************************************************)
(* What a try-lock promises to those who work under its names, without     *)
(* saying how: a name that somebody holds is given to nobody else.  A lock *)
(* may be lost under its holder, who is not told and works on; from then   *)
(* on the promise is about locks and no longer about work.  An attempt may *)
(* be refused at any time, which changes nothing here.                     *)
(*                                                                         *)
(* The exclusive locks (ExclusiveLock.tla) keep this promise.              *)
(***************************************************************************)
CONSTANTS Names,     \* what is locked
          Callers    \* those who lock it

VARIABLES working,   \* [Names -> SUBSET Callers]: who works under a name
          held,      \* [Names -> SUBSET Callers]: whose lock on it still stands
          shaken     \* a lock may have been lost under its holder

lockVars == <<working, held, shaken>>

Init ==
  /\ working = [n \in Names |-> {}]
  /\ held = [n \in Names |-> {}]
  /\ shaken = FALSE

Take(c, n) ==
  /\ held[n] = {}
  /\ working' = [working EXCEPT ![n] = @ \cup {c}]
  /\ held' = [held EXCEPT ![n] = {c}]
  /\ UNCHANGED shaken

\* Some callers stop working, each with its lock: one of them, or all of a
\* process that dies.
Leaves(S) == working' = [n \in Names |-> working[n] \ S]

Leave(S) ==
  /\ Leaves(S)
  /\ held' = [n \in Names |-> held[n] \ S]
  /\ UNCHANGED shaken

\* The locks on some names are lost, now or soon.
Lose(S, N) ==
  /\ Leaves(S)
  /\ held' = [n \in Names |-> IF n \in N THEN {} ELSE held[n] \ S]
  /\ shaken' = TRUE

Next ==
  \/ \E c \in Callers, n \in Names : Take(c, n)
  \/ \E S \in SUBSET Callers : Leave(S) \/ \E N \in SUBSET Names : Lose(S, N)

Spec == Init /\ [][Next]_lockVars

\* Until a lock is lost, one caller at most works under a name, and it holds it.
OneAtATime ==
  ~shaken => \A n \in Names : working[n] = held[n] /\ \A c, d \in working[n] : c = d
=============================================================================
