------------------------------ MODULE SweepGate ------------------------------
(***************************************************************************)
(* The gate that bounds how many workspaces the sweeps hold open at once   *)
(* (api/src/db/sweep-gate.ts).  A waiter that is let through counts itself *)
(* in a callback of its own, later than the release that let it through.   *)
(***************************************************************************)
EXTENDS FiniteSets, Naturals, Sequences

CONSTANTS Callers,   \* those who may ask to pass
          Limits     \* what the limit may be set to

VARIABLES
  pc,      \* [Callers -> idle, waiting, woken, in, gone]
  active,  \* how many the gate counts
  waiting, \* the waiters, in order
  limit,   \* how many may pass
  most,    \* history: the highest limit there has been
  cut      \* history: a place was given while one let through was not counted

vars == <<pc, active, waiting, limit, most, cut>>

In        == {c \in Callers : pc[c] = "in"}
Uncounted == {c \in Callers : pc[c] = "woken"}

TypeOK ==
  /\ pc \in [Callers -> {"idle", "waiting", "woken", "in", "gone"}]
  /\ active \in Nat
  /\ waiting \in Seq(Callers)
  /\ limit \in Limits /\ most \in Limits
  /\ cut \in BOOLEAN

Init ==
  /\ pc = [c \in Callers |-> "idle"]
  /\ active = 0
  /\ waiting = <<>>
  /\ limit \in Limits
  /\ most = limit
  /\ cut = FALSE

\* Wakes the first n waiters.
Wake(p, n) == [c \in Callers |-> IF \E i \in 1..n : waiting[i] = c THEN "woken" ELSE p[c]]

pass(c) ==
  /\ pc[c] = "idle" /\ active < limit
  /\ active' = active + 1
  /\ pc' = [pc EXCEPT ![c] = "in"]
  /\ cut' = (cut \/ Uncounted # {})
  /\ UNCHANGED <<waiting, limit, most>>

await(c) ==
  /\ pc[c] = "idle" /\ active >= limit
  /\ waiting' = Append(waiting, c)
  /\ pc' = [pc EXCEPT ![c] = "waiting"]
  /\ UNCHANGED <<active, limit, most, cut>>

letThrough(c) ==
  /\ pc[c] = "woken"
  /\ active' = active + 1
  /\ pc' = [pc EXCEPT ![c] = "in"]
  /\ UNCHANGED <<waiting, limit, most, cut>>

\* Mutant: whoever leaves wakes nobody.
NobodyNext == 0

FirstInLine == IF waiting = <<>> THEN 0 ELSE 1

release(c) ==
  /\ pc[c] = "in"
  /\ active' = IF active > 0 THEN active - 1 ELSE 0
  /\ pc' = Wake([pc EXCEPT ![c] = "gone"], FirstInLine)
  /\ waiting' = SubSeq(waiting, FirstInLine + 1, Len(waiting))
  /\ UNCHANGED <<limit, most, cut>>

\* Mutant: those who are in are not counted off.
FreeAsTheLimit(l) == l

Free(l) == IF l > active THEN l - active ELSE 0

\* A raised limit lets waiters through at once, as does the same one set again.
setLimit(l) ==
  /\ limit' = l
  /\ most' = IF l > most THEN l ELSE most
  /\ LET n == IF Free(l) < Len(waiting) THEN Free(l) ELSE Len(waiting) IN
     /\ pc' = Wake(pc, n)
     /\ waiting' = SubSeq(waiting, n + 1, Len(waiting))
     /\ cut' = (cut \/ (n > 0 /\ Uncounted # {}))
  /\ UNCHANGED active

Next ==
  \/ \E c \in Callers : pass(c) \/ await(c) \/ letThrough(c) \/ release(c)
  \/ \E l \in Limits : setLimit(l)

Spec == Init /\ [][Next]_vars

\* Whoever is through leaves, and a promise that is resolved calls back.
Fairness == \A c \in Callers : WF_vars(letThrough(c) \/ release(c))

FairSpec == Spec /\ Fairness

(***************************************************************************)
(* Properties                                                              *)
(***************************************************************************)

\* The gate counts those who are through, and no more of them than its limit
\* ever was, unless it gave a place away while one it had let through was not
\* counted yet (see ../README.md).
GateHolds ==
  /\ active = Cardinality(In)
  /\ ~cut => active + Cardinality(Uncounted) <= most

\* Whoever waits passes, whatever the limit is set to meanwhile.
EveryWaiterPasses == \A c \in Callers : pc[c] = "waiting" ~> pc[c] = "gone"
=============================================================================
