------------------------------ MODULE JobQueue ------------------------------
(***************************************************************************)
(* The persistent job queue of the platform (api/src/platform/queue.ts):   *)
(* one registered queue of one workspace, and the ticks that work it off.  *)
(*                                                                         *)
(* A tick is one call of tick(): the interval starts one every five        *)
(* seconds whether or not the last has ended, in every api process that    *)
(* shares the database.  Every action is one statement on core_queue_jobs  *)
(* or one call of the queue's handler.  locked_by is written and never     *)
(* read by the code, so it is left out.                                    *)
(***************************************************************************)
EXTENDS Integers, FiniteSets

CONSTANTS Jobs,         \* ids of jobs, bounded
          Keys,         \* idempotency keys
          NoKey,        \* the job that names none
          Ticks,        \* calls of tick() there may be at once
          None,
          MaxAttempts,  \* max_attempts
          JobsPerTick,  \* JOBS_PER_TICK
          MaxFaults     \* how many kinds of fault may happen, each once

FaultKinds == {"slow", "crash", "db"}

ASSUME QueueAssumption ==
  /\ NoKey \notin Keys
  /\ None \notin Jobs
  /\ MaxAttempts \in Nat \ {0}
  /\ JobsPerTick \in Nat \ {0}
  /\ MaxFaults \in Nat

VARIABLES
  status,    \* core_queue_jobs.status; "absent" before the insert
  key,       \* idempotency_key
  attempts,
  due,       \* run_at has come
  aged,      \* locked_at is older than STALE_LOCK_MS
  tick,      \* what each tick holds in memory
  faults,    \* the kinds of fault there have been
  fails,     \* history: failed runs of each job, counted up to MaxAttempts
  handled    \* history: jobs a handler has finished

vars == <<status, key, attempts, due, aged, tick, faults, fails, handled>>
history == <<fails, handled>>

Statuses   == {"absent", "queued", "running", "done", "failed"}
Settled    == {"done", "failed"}
Unfinished == {j \in Jobs : status[j] \in {"queued", "running"}}

PCs  == {"idle", "sweep", "claim", "next", "run", "done", "retry"}
Tick == [pc : PCs, batch : SUBSET Jobs, job : Jobs \cup {None}, claimed : [Jobs -> 0..MaxAttempts]]
Idle == [pc |-> "idle", batch |-> {}, job |-> None, claimed |-> [j \in Jobs |-> 0]]

TypeOK ==
  /\ status \in [Jobs -> Statuses]
  /\ key \in [Jobs -> Keys \cup {NoKey}]
  /\ attempts \in [Jobs -> 0..MaxAttempts]
  /\ due \in [Jobs -> BOOLEAN]
  /\ aged \in [Jobs -> BOOLEAN]
  /\ tick \in [Ticks -> Tick]
  /\ faults \subseteq FaultKinds
  /\ fails \in [Jobs -> 0..MaxAttempts]
  /\ handled \subseteq Jobs

Init ==
  /\ status = [j \in Jobs |-> "absent"]
  /\ key = [j \in Jobs |-> NoKey]
  /\ attempts = [j \in Jobs |-> 0]
  /\ due = [j \in Jobs |-> FALSE]
  /\ aged = [j \in Jobs |-> FALSE]
  /\ tick = [t \in Ticks |-> Idle]
  /\ faults = {}
  /\ fails = [j \in Jobs |-> 0]
  /\ handled = {}

GoesWrong(kind) ==
  /\ kind \notin faults
  /\ Cardinality(faults) < MaxFaults
  /\ faults' = faults \cup {kind}

\* Mutant: the index covers waiting jobs only.
IndexAllowsRunning(j, k) ==
  k = NoKey \/ \A i \in Jobs \ {j} : status[i] = "queued" => key[i] # k

\* core_queue_jobs_idempotency_idx: one unfinished job per key.
IndexAllows(j, k) == k = NoKey \/ \A i \in Unfinished \ {j} : key[i] # k

------------------------------------------------------------------------------
(* enqueue: a key that is taken adds nothing, the caller gets the id of the *)
(* unfinished job, or inserts anew when that one finished in between.      *)

enqueue(j, k, now) ==
  /\ status[j] = "absent"
  /\ IndexAllows(j, k)
  /\ status' = [status EXCEPT ![j] = "queued"]
  /\ key' = [key EXCEPT ![j] = k]
  /\ due' = [due EXCEPT ![j] = now]
  /\ UNCHANGED <<attempts, aged, tick, faults, history>>

------------------------------------------------------------------------------
(* tick                                                                    *)

Goes(t, pc) == tick' = [tick EXCEPT ![t].pc = pc]

\* The interval fires.
startTick(t) ==
  /\ tick[t].pc = "idle"
  /\ tick' = [tick EXCEPT ![t] = [Idle EXCEPT !.pc = "sweep"]]
  /\ UNCHANGED <<status, key, attempts, due, aged, faults, history>>

\* Mutant: a crashed worker's jobs are never reclaimed.
SweepNothing(t) ==
  /\ tick[t].pc = "sweep"
  /\ Goes(t, "claim")
  /\ UNCHANGED <<status, key, attempts, due, aged, faults, history>>

\* Mutant: every running job is taken for a crashed worker's.
SweepFreshLocks(t) ==
  /\ tick[t].pc = "sweep"
  /\ status' = [j \in Jobs |-> IF status[j] = "running" THEN "queued" ELSE status[j]]
  /\ aged' = [j \in Jobs |-> FALSE]
  /\ Goes(t, "claim")
  /\ UNCHANGED <<key, attempts, due, faults, history>>

\* Mutant: being reclaimed counts as an attempt.
SweepCounts(t) ==
  LET stale == {j \in Jobs : status[j] = "running" /\ aged[j]} IN
  /\ tick[t].pc = "sweep"
  /\ status' = [j \in Jobs |-> IF j \in stale THEN "queued" ELSE status[j]]
  /\ aged' = [j \in Jobs |-> aged[j] /\ j \notin stale]
  /\ attempts' = [j \in Jobs |-> IF j \in stale /\ attempts[j] < MaxAttempts
                                 THEN attempts[j] + 1 ELSE attempts[j]]
  /\ Goes(t, "claim")
  /\ UNCHANGED <<key, due, faults, history>>

\* A stale lock is taken for a crashed worker's; attempts stay.
sweepStaleLocks(t) ==
  LET stale == {j \in Jobs : status[j] = "running" /\ aged[j]} IN
  /\ tick[t].pc = "sweep"
  /\ status' = [j \in Jobs |-> IF j \in stale THEN "queued" ELSE status[j]]
  /\ aged' = [j \in Jobs |-> aged[j] /\ j \notin stale]
  /\ Goes(t, "claim")
  /\ UNCHANGED <<key, attempts, due, faults, history>>

\* Mutant: a running job is as good as a queued one.
ReadyOrRunning == {j \in Unfinished : due[j]}

Ready == {j \in Jobs : status[j] = "queued" /\ due[j]}

\* One statement takes the ready jobs, at most JobsPerTick, and what it
\* returns of each row is what the tick goes by from then on.
claimAll(t, S) ==
  /\ tick[t].pc = "claim"
  /\ S \subseteq Ready
  /\ S = Ready \/ Cardinality(S) = JobsPerTick
  /\ Cardinality(S) <= JobsPerTick
  /\ status' = [j \in Jobs |-> IF j \in S THEN "running" ELSE status[j]]
  /\ aged' = [j \in Jobs |-> aged[j] /\ j \notin S]
  /\ tick' = [tick EXCEPT ![t] = [pc |-> "next", batch |-> S, job |-> None,
                                    claimed |-> [j \in Jobs |-> IF j \in S THEN attempts[j] ELSE 0]]]
  /\ UNCHANGED <<key, attempts, due, faults, history>>

\* The jobs of the batch run one after another.
callHandler(t, j) ==
  /\ tick[t].pc = "next"
  /\ j \in tick[t].batch
  /\ tick' = [tick EXCEPT ![t] = [@ EXCEPT !.pc = "run", !.job = j, !.batch = tick[t].batch \ {j}]]
  /\ UNCHANGED <<status, key, attempts, due, aged, faults, history>>

endTick(t) ==
  /\ tick[t].pc = "next"
  /\ tick[t].batch = {}
  /\ tick' = [tick EXCEPT ![t] = Idle]
  /\ UNCHANGED <<status, key, attempts, due, aged, faults, history>>

handlerReturns(t) ==
  /\ tick[t].pc = "run"
  /\ handled' = handled \cup {tick[t].job}
  /\ Goes(t, "done")
  /\ UNCHANGED <<status, key, attempts, due, aged, faults, fails>>

Failed(j) == fails' = [fails EXCEPT ![j] = IF fails[j] = MaxAttempts THEN fails[j] ELSE fails[j] + 1]

\* Mutant: the job is marked done whatever the handler did.
HandlerThrowsUnseen(t) ==
  /\ tick[t].pc = "run"
  /\ Failed(tick[t].job)
  /\ Goes(t, "done")
  /\ UNCHANGED <<status, key, attempts, due, aged, faults, handled>>

handlerThrows(t) ==
  /\ tick[t].pc = "run"
  /\ Failed(tick[t].job)
  /\ Goes(t, "retry")
  /\ UNCHANGED <<status, key, attempts, due, aged, faults, handled>>

\* Both endings update the row by its id, whatever has become of it.
Settle(t, s) ==
  LET j == tick[t].job IN
  /\ status' = [status EXCEPT ![j] = s]
  /\ aged' = [aged EXCEPT ![j] = FALSE]
  /\ tick' = [tick EXCEPT ![t] = [@ EXCEPT !.pc = "next", !.job = None]]

markDone(t) ==
  /\ tick[t].pc = "done"
  /\ Settle(t, "done")
  /\ UNCHANGED <<key, attempts, due, faults, history>>

\* Its statement fails, the write done or not: the catch counts a failed run.
markDoneThrows(t) ==
  LET j == tick[t].job IN
  /\ tick[t].pc = "done"
  /\ GoesWrong("db")
  /\ \/ UNCHANGED <<status, aged>>
     \/ status' = [status EXCEPT ![j] = "done"] /\ aged' = [aged EXCEPT ![j] = FALSE]
  /\ Failed(j)
  /\ Goes(t, "retry")
  /\ UNCHANGED <<key, attempts, due, handled>>

\* Mutant: one attempt too many is granted.
LastAttemptLate(t) == tick[t].claimed[tick[t].job] + 1 > MaxAttempts

LastAttempt(t) == tick[t].claimed[tick[t].job] + 1 >= MaxAttempts

CountAttempt(t) ==
  LET j == tick[t].job IN attempts' = [attempts EXCEPT ![j] = tick[t].claimed[j] + 1]

markFailed(t) ==
  /\ tick[t].pc = "retry"
  /\ LastAttempt(t)
  /\ Settle(t, "failed")
  /\ CountAttempt(t)
  /\ UNCHANGED <<key, due, faults, history>>

markRetry(t) ==
  LET j == tick[t].job IN
  /\ tick[t].pc = "retry"
  /\ ~LastAttempt(t)
  /\ IndexAllows(j, key[j])
  /\ Settle(t, "queued")
  /\ CountAttempt(t)
  /\ due' = [due EXCEPT ![j] = FALSE]
  /\ UNCHANGED <<key, faults, history>>

\* The update that queues a settled job again runs into the index, or the
\* statement fails: nothing catches it, and the rest of the batch is left.
tickThrows(t) ==
  LET j == tick[t].job IN
  /\ tick[t].pc = "retry"
  /\ \/ ~LastAttempt(t) /\ ~IndexAllows(j, key[j]) /\ UNCHANGED faults
     \/ GoesWrong("db")
  /\ tick' = [tick EXCEPT ![t] = Idle]
  /\ UNCHANGED <<status, key, attempts, due, aged, history>>

------------------------------------------------------------------------------
(* Time and faults.                                                        *)

ComesDue(j) ==
  /\ status[j] = "queued" /\ ~due[j]
  /\ due' = [due EXCEPT ![j] = TRUE]
  /\ UNCHANGED <<status, key, attempts, aged, tick, faults, history>>

InHand(j) == {t \in Ticks : tick[t].job = j \/ j \in tick[t].batch}

\* Fifteen minutes after the claim of a job nobody works on any more.
LockAges(j) ==
  /\ status[j] = "running" /\ ~aged[j]
  /\ InHand(j) = {}
  /\ aged' = [aged EXCEPT ![j] = TRUE]
  /\ UNCHANGED <<status, key, attempts, due, tick, faults, history>>

\* Fifteen minutes pass while the job is still run, or waits its turn in the
\* batch it was claimed with.
RunIsSlow(j) ==
  /\ status[j] = "running" /\ ~aged[j]
  /\ InHand(j) # {}
  /\ GoesWrong("slow")
  /\ aged' = [aged EXCEPT ![j] = TRUE]
  /\ UNCHANGED <<status, key, attempts, due, tick, history>>

\* The process dies; another, or the same one restarted, ticks on.
Crash(t) ==
  /\ tick[t].pc # "idle"
  /\ GoesWrong("crash")
  /\ tick' = [tick EXCEPT ![t] = Idle]
  /\ UNCHANGED <<status, key, attempts, due, aged, history>>

Step(t) ==
  \/ startTick(t)
  \/ sweepStaleLocks(t)
  \/ \E S \in SUBSET Jobs : claimAll(t, S)
  \/ \E j \in Jobs : callHandler(t, j)
  \/ handlerReturns(t) \/ handlerThrows(t)
  \/ markDone(t) \/ markFailed(t) \/ markRetry(t)
  \/ endTick(t)

Fault(t) == markDoneThrows(t) \/ Crash(t)

Next ==
  \/ \E j \in Jobs : \E k \in Keys \cup {NoKey}, now \in BOOLEAN : enqueue(j, k, now)
  \/ \E t \in Ticks : Step(t) \/ tickThrows(t) \/ Fault(t)
  \/ \E j \in Jobs : ComesDue(j) \/ LockAges(j) \/ RunIsSlow(j)

\* The interval fires and what it started goes on; time passes.
Fairness ==
  /\ \A t \in Ticks : WF_vars(Step(t) \/ tickThrows(t))
  /\ \A j \in Jobs : WF_vars(ComesDue(j)) /\ WF_vars(LockAges(j))

Spec == Init /\ [][Next]_vars
FairSpec == Spec /\ Fairness

------------------------------------------------------------------------------
(* Properties.                                                             *)

\* No two unfinished jobs carry the same key, also when a retry queues a job
\* again that had settled and whose key was enqueued anew since.
OneUnfinishedPerKey ==
  \A i, j \in Unfinished : key[i] = key[j] /\ key[i] # NoKey => i = j

\* A job that failed for good was tried, and failed, max_attempts times: being
\* reclaimed from a dead worker never uses up its retries.
FailedWasTried == \A j \in Jobs : status[j] = "failed" => fails[j] = MaxAttempts

\* A job is done only after its handler finished it once.
DoneWasHandled == \A j \in Jobs : status[j] = "done" => j \in handled

\* No job ends for less, either way.
EndsAreEarned == FailedWasTried /\ DoneWasHandled

Running(t, j) == tick[t].pc \in {"run", "done", "retry"} /\ tick[t].job = j

OneRunAtATime == \A s, t \in Ticks : \A j \in Jobs : Running(s, j) /\ Running(t, j) => s = t

\* As long as no live run outlasts its lock, no two ticks of any process run
\* one job at once, whoever dies.
PromptRunsAlone == "slow" \notin faults => OneRunAtATime

\* As long as no live run outlasts its lock and no statement fails halfway, a
\* job that has settled stays settled.
SettledStays ==
  [][ {"slow", "db"} \cap faults = {} =>
        \A j \in Jobs : status[j] \in Settled => status'[j] = status[j] ]_vars

\* Every job settles, though workers die and batches are left half done.
EveryJobSettles == \A j \in Jobs : status[j] = "queued" ~> status[j] \in Settled
=============================================================================
