--------------------------- MODULE JobQueueProofs ---------------------------
(***************************************************************************)
(* Proofs about JobQueue for any jobs, keys, ticks and bounds.             *)
(***************************************************************************)
EXTENDS JobQueue, TLAPS

Working == {"run", "done", "retry"}

\* A tick at work on a job has one in hand, no longer in its batch.
JobInHand ==
  \A t \in Ticks :
    /\ tick[t].pc \in Working => tick[t].job \in Jobs
    /\ tick[t].job \notin tick[t].batch

\* What a tick counts on was true of the job when it was claimed: it had tries
\* left, and each counted attempt stands for a failed run.
ClaimsCounted ==
  \A t \in Ticks :
    /\ \A j \in Jobs : tick[t].claimed[j] < MaxAttempts /\ tick[t].claimed[j] <= fails[j]
    /\ tick[t].pc = "retry" => tick[t].claimed[tick[t].job] + 1 <= fails[tick[t].job]

\* The same of the table: a job that has not settled has tries left.
AttemptsCounted ==
  \A j \in Jobs : attempts[j] <= fails[j] /\ (status[j] \notin Settled => attempts[j] < MaxAttempts)

FinishedByHandler == \A t \in Ticks : tick[t].pc = "done" => tick[t].job \in handled

Holds(t, j) == tick[t].job = j \/ j \in tick[t].batch

\* Before any run outlasts its lock, a job is in one tick's hands at most, is
\* running in the table (or done, when a statement failed after its write) and
\* has a fresh lock.
HeldAlone ==
  "slow" \notin faults =>
    \A t \in Ticks, j \in Jobs : Holds(t, j) =>
      /\ \A s \in Ticks : Holds(s, j) => s = t
      /\ status[j] = "running" \/ ("db" \in faults /\ status[j] = "done")
      /\ ~aged[j]

IInv ==
  /\ TypeOK
  /\ JobInHand
  /\ ClaimsCounted
  /\ AttemptsCounted
  /\ FinishedByHandler
  /\ FailedWasTried
  /\ DoneWasHandled
  /\ OneUnfinishedPerKey
  /\ HeldAlone

\* One more failed run, counted up to MaxAttempts.
LEMMA FailedCounts ==
  ASSUME TypeOK, NEW j \in Jobs, Failed(j)
  PROVE  fails' \in [Jobs -> 0..MaxAttempts]
<1> DEFINE n == IF fails[j] = MaxAttempts THEN fails[j] ELSE fails[j] + 1
<1>1. fails \in [Jobs -> 0..MaxAttempts] /\ MaxAttempts \in Nat
  BY QueueAssumption DEF TypeOK
<1>2. n \in 0..MaxAttempts
  BY <1>1
<1>3. fails' = [fails EXCEPT ![j] = n]
  BY DEF Failed
<1> QED  BY <1>1, <1>2, <1>3

\* A tick that ends a job goes on with its batch, and no other tick is touched.
LEMMA SettlesOneTick ==
  ASSUME TypeOK, NEW t \in Ticks, NEW s, Settle(t, s)
  PROVE  /\ tick' \in [Ticks -> Tick]
         /\ tick'[t].pc = "next" /\ tick'[t].job = None
         /\ tick'[t].batch = tick[t].batch /\ tick'[t].claimed = tick[t].claimed
         /\ \A u \in Ticks \ {t} : tick'[u] = tick[u]
<1> DEFINE r == [tick[t] EXCEPT !.pc = "next", !.job = None]
<1>1. tick[t] \in Tick
  BY DEF TypeOK
<1>2. /\ r \in Tick /\ r.pc = "next" /\ r.job = None
      /\ r.batch = tick[t].batch /\ r.claimed = tick[t].claimed
  BY <1>1 DEF Tick, PCs
<1>3. tick' = [tick EXCEPT ![t] = r]
  BY DEF Settle
<1> HIDE DEF r
<1> QED  BY <1>2, <1>3 DEF TypeOK

LEMMA StartTickKeeps ==
  ASSUME IInv, NEW t \in Ticks, startTick(t)
  PROVE  IInv'
<1> USE QueueAssumption DEF IInv, startTick, history
<1>1. TypeOK'
  BY DEF TypeOK, Tick, Idle, PCs, JobInHand, Working
<1>2. JobInHand' /\ FinishedByHandler'
  BY DEF Idle, JobInHand, Working, FinishedByHandler
<1>3. ClaimsCounted' /\ AttemptsCounted' /\ FailedWasTried'
  BY DEF TypeOK, Idle, ClaimsCounted, AttemptsCounted, FailedWasTried
<1>4. DoneWasHandled'
  BY DEF DoneWasHandled
<1>5. OneUnfinishedPerKey'
  BY DEF OneUnfinishedPerKey, Unfinished
<1>6. HeldAlone'
  BY DEF Idle, HeldAlone, Holds
<1> QED  BY <1>1, <1>2, <1>3, <1>4, <1>5, <1>6

LEMMA SweepStaleLocksKeeps ==
  ASSUME IInv, NEW t \in Ticks, sweepStaleLocks(t)
  PROVE  IInv'
<1> USE QueueAssumption DEF IInv, sweepStaleLocks, Goes, history
<1>0. tick' = [tick EXCEPT ![t].pc = "claim"]
  OBVIOUS
<1>1. TypeOK'
  <2>1. status' \in [Jobs -> Statuses] /\ aged' \in [Jobs -> BOOLEAN]
    BY DEF TypeOK, Statuses
  <2>2. tick' \in [Ticks -> Tick]
    <3> HIDE DEF sweepStaleLocks, Goes
    <3> QED  BY <1>0 DEF TypeOK, Tick, PCs
  <2> QED  BY <2>1, <2>2 DEF TypeOK
<1>2. JobInHand' /\ FinishedByHandler'
  BY DEF JobInHand, Working, FinishedByHandler
<1>3. ClaimsCounted' /\ AttemptsCounted' /\ FailedWasTried'
  BY DEF ClaimsCounted, AttemptsCounted, FailedWasTried, Settled
<1>4. DoneWasHandled'
  BY DEF DoneWasHandled
<1>5. OneUnfinishedPerKey'
  BY DEF OneUnfinishedPerKey, Unfinished
<1>6. HeldAlone'
  BY DEF TypeOK, HeldAlone, Holds
<1> QED  BY <1>1, <1>2, <1>3, <1>4, <1>5, <1>6

LEMMA ClaimAllKeeps ==
  ASSUME IInv, NEW t \in Ticks, NEW S \in SUBSET Jobs, claimAll(t, S)
  PROVE  IInv'
<1> USE QueueAssumption DEF IInv, claimAll, Ready, history
<1>1. TypeOK'
  BY DEF TypeOK, Tick, PCs, Statuses
<1>2. JobInHand' /\ FinishedByHandler'
  BY DEF JobInHand, Working, FinishedByHandler
<1>3. ClaimsCounted' /\ AttemptsCounted' /\ FailedWasTried'
  BY DEF TypeOK, ClaimsCounted, AttemptsCounted, FailedWasTried, Settled
<1>4. DoneWasHandled'
  BY DEF DoneWasHandled
<1>5. OneUnfinishedPerKey'
  BY DEF OneUnfinishedPerKey, Unfinished
<1>6. HeldAlone'
  <2> SUFFICES ASSUME "slow" \notin faults, NEW s \in Ticks, NEW j \in Jobs, Holds(s, j)'
               PROVE  /\ \A r \in Ticks : Holds(r, j)' => r = s
                      /\ status'[j] = "running" \/ ("db" \in faults' /\ status'[j] = "done")
                      /\ ~aged'[j]
    BY DEF HeldAlone
  <2>1. \A r \in Ticks : Holds(r, j)' <=> (r = t /\ j \in S) \/ (r # t /\ Holds(r, j))
    BY DEF TypeOK, Holds
  <2>2. j \in S => status[j] = "queued" /\ \A r \in Ticks : ~Holds(r, j)
    BY DEF HeldAlone
  <2>3. CASE j \in S
    BY <2>1, <2>2, <2>3
  <2>4. CASE j \notin S
    BY <2>1, <2>4 DEF HeldAlone
  <2> QED  BY <2>3, <2>4
<1> QED  BY <1>1, <1>2, <1>3, <1>4, <1>5, <1>6

LEMMA CallHandlerKeeps ==
  ASSUME IInv, NEW t \in Ticks, NEW j \in Jobs, callHandler(t, j)
  PROVE  IInv'
<1> USE QueueAssumption DEF IInv, callHandler, history
<1>1. TypeOK'
  <2> DEFINE r == [tick[t] EXCEPT !.pc = "run", !.job = j, !.batch = tick[t].batch \ {j}]
  <2>1. tick[t] \in Tick
    BY DEF TypeOK
  <2>2. r \in Tick
    BY <2>1 DEF Tick, PCs
  <2>3. tick' = [tick EXCEPT ![t] = r]
    OBVIOUS
  <2> HIDE DEF r
  <2>4. tick' \in [Ticks -> Tick]
    BY <2>2, <2>3 DEF TypeOK
  <2> QED  BY <2>4 DEF TypeOK
<1>2. JobInHand' /\ FinishedByHandler'
  BY DEF TypeOK, JobInHand, FinishedByHandler
<1>3. ClaimsCounted' /\ AttemptsCounted' /\ FailedWasTried'
  BY DEF TypeOK, ClaimsCounted, AttemptsCounted, FailedWasTried
<1>4. DoneWasHandled'
  BY DEF DoneWasHandled
<1>5. OneUnfinishedPerKey'
  BY DEF OneUnfinishedPerKey, Unfinished
<1>6. HeldAlone'
  BY DEF TypeOK, HeldAlone, Holds
<1> QED  BY <1>1, <1>2, <1>3, <1>4, <1>5, <1>6

LEMMA HandlerReturnsKeeps ==
  ASSUME IInv, NEW t \in Ticks, handlerReturns(t)
  PROVE  IInv'
<1> USE QueueAssumption DEF IInv, handlerReturns, Goes, history
<1>1. TypeOK'
  BY DEF TypeOK, Tick, PCs, JobInHand, Working
<1>2. JobInHand' /\ FinishedByHandler'
  BY DEF JobInHand, Working, FinishedByHandler
<1>3. ClaimsCounted' /\ AttemptsCounted' /\ FailedWasTried'
  BY DEF ClaimsCounted, AttemptsCounted, FailedWasTried
<1>4. DoneWasHandled'
  BY DEF DoneWasHandled
<1>5. OneUnfinishedPerKey'
  BY DEF OneUnfinishedPerKey, Unfinished
<1>6. HeldAlone'
  BY DEF HeldAlone, Holds
<1> QED  BY <1>1, <1>2, <1>3, <1>4, <1>5, <1>6

LEMMA HandlerThrowsKeeps ==
  ASSUME IInv, NEW t \in Ticks, handlerThrows(t)
  PROVE  IInv'
<1>0. fails' \in [Jobs -> 0..MaxAttempts]
  BY FailedCounts DEF IInv, handlerThrows, JobInHand, Working
<1> USE QueueAssumption DEF IInv, handlerThrows, Failed, Goes, history
<1>1. TypeOK'
  <2>1. tick' \in [Ticks -> Tick]
    BY DEF TypeOK, Tick, PCs
  <2> QED  BY <1>0, <2>1 DEF TypeOK
<1>2. JobInHand' /\ FinishedByHandler'
  BY DEF JobInHand, Working, FinishedByHandler
<1>3. ClaimsCounted' /\ AttemptsCounted' /\ FailedWasTried'
  BY DEF TypeOK, Tick, JobInHand, Working, ClaimsCounted, AttemptsCounted, FailedWasTried
<1>4. DoneWasHandled'
  BY DEF DoneWasHandled
<1>5. OneUnfinishedPerKey'
  BY DEF OneUnfinishedPerKey, Unfinished
<1>6. HeldAlone'
  BY DEF HeldAlone, Holds
<1> QED  BY <1>1, <1>2, <1>3, <1>4, <1>5, <1>6

LEMMA MarkDoneKeeps ==
  ASSUME IInv, NEW t \in Ticks, markDone(t)
  PROVE  IInv'
<1>0. /\ tick' \in [Ticks -> Tick]
      /\ tick'[t].pc = "next" /\ tick'[t].job = None
      /\ tick'[t].batch = tick[t].batch /\ tick'[t].claimed = tick[t].claimed
      /\ \A u \in Ticks \ {t} : tick'[u] = tick[u]
  <2>1. Settle(t, "done")
    BY DEF markDone
  <2> QED  BY <2>1, SettlesOneTick DEF IInv
<1> USE QueueAssumption DEF IInv, markDone, Settle, history
<1>j. tick[t].job \in Jobs
  BY DEF JobInHand, Working
<1>1. TypeOK'
  <2>1. status' \in [Jobs -> Statuses] /\ aged' \in [Jobs -> BOOLEAN]
    BY <1>j DEF TypeOK, Statuses
  <2> QED  BY <1>0, <2>1 DEF TypeOK
<1>2. JobInHand' /\ FinishedByHandler'
  <2>1. handled' = handled
    OBVIOUS
  <2>2. \A u \in Ticks : tick'[u].batch = tick[u].batch /\ (u = t \/ tick'[u] = tick[u])
    BY <1>0
  <2>3. None \notin Jobs
    OBVIOUS
  <2> HIDE DEF markDone, Settle
  <2>4. JobInHand'
    BY <1>0, <2>2, <2>3 DEF TypeOK, Tick, JobInHand, Working
  <2>5. FinishedByHandler'
    BY <1>0, <2>1, <2>2 DEF FinishedByHandler
  <2> QED  BY <2>4, <2>5
<1>3. ClaimsCounted' /\ AttemptsCounted' /\ FailedWasTried'
  BY DEF TypeOK, ClaimsCounted, AttemptsCounted, FailedWasTried, Settled
<1>4. DoneWasHandled'
  BY DEF FinishedByHandler, DoneWasHandled
<1>5. OneUnfinishedPerKey'
  BY DEF OneUnfinishedPerKey, Unfinished
<1>6. HeldAlone'
  BY DEF TypeOK, JobInHand, HeldAlone, Holds
<1> QED  BY <1>1, <1>2, <1>3, <1>4, <1>5, <1>6

LEMMA MarkFailedKeeps ==
  ASSUME IInv, NEW t \in Ticks, markFailed(t)
  PROVE  IInv'
<1>0. /\ tick' \in [Ticks -> Tick]
      /\ tick'[t].pc = "next" /\ tick'[t].job = None
      /\ tick'[t].batch = tick[t].batch /\ tick'[t].claimed = tick[t].claimed
      /\ \A u \in Ticks \ {t} : tick'[u] = tick[u]
  <2>1. Settle(t, "failed")
    BY DEF markFailed
  <2> QED  BY <2>1, SettlesOneTick DEF IInv
<1> USE QueueAssumption DEF IInv, markFailed, Settle, CountAttempt, LastAttempt, history
<1>j. tick[t].job \in Jobs
  BY DEF JobInHand, Working
<1>1. TypeOK'
  <2>1. status' \in [Jobs -> Statuses] /\ aged' \in [Jobs -> BOOLEAN]
    BY <1>j DEF TypeOK, Statuses
  <2>2. attempts' \in [Jobs -> 0..MaxAttempts]
    BY <1>j DEF TypeOK, Tick, ClaimsCounted
  <2> QED  BY <1>0, <2>1, <2>2 DEF TypeOK
<1>2. JobInHand' /\ FinishedByHandler'
  <2>1. handled' = handled
    OBVIOUS
  <2>2. \A u \in Ticks : tick'[u].batch = tick[u].batch /\ (u = t \/ tick'[u] = tick[u])
    BY <1>0
  <2>3. None \notin Jobs
    OBVIOUS
  <2> HIDE DEF markFailed, Settle
  <2>4. JobInHand'
    BY <1>0, <2>2, <2>3 DEF TypeOK, Tick, JobInHand, Working
  <2>5. FinishedByHandler'
    BY <1>0, <2>1, <2>2 DEF FinishedByHandler
  <2> QED  BY <2>4, <2>5
<1>3. ClaimsCounted' /\ AttemptsCounted' /\ FailedWasTried'
  <2> DEFINE k == tick[t].job
  <2>1. /\ fails' = fails /\ fails \in [Jobs -> 0..MaxAttempts] /\ MaxAttempts \in Nat
        /\ status' = [status EXCEPT ![k] = "failed"]
        /\ attempts' = [attempts EXCEPT ![k] = tick[t].claimed[k] + 1]
    BY DEF TypeOK
  <2>2. /\ tick[t].claimed[k] \in 0..MaxAttempts
        /\ tick[t].claimed[k] + 1 <= fails[k]
        /\ tick[t].claimed[k] + 1 >= MaxAttempts
    BY <1>j DEF TypeOK, Tick, ClaimsCounted
  <2>3. ClaimsCounted'
    BY <1>0, <2>1 DEF ClaimsCounted
  <2> HIDE DEF markFailed, Settle, k
  <2>4. AttemptsCounted'
    BY <1>j, <2>1, <2>2 DEF TypeOK, AttemptsCounted, Settled, k
  <2>5. FailedWasTried'
    BY <1>j, <2>1, <2>2 DEF TypeOK, FailedWasTried, k
  <2> QED  BY <2>3, <2>4, <2>5
<1>4. DoneWasHandled'
  BY DEF DoneWasHandled
<1>5. OneUnfinishedPerKey'
  BY DEF OneUnfinishedPerKey, Unfinished
<1>6. HeldAlone'
  BY DEF TypeOK, JobInHand, HeldAlone, Holds
<1> QED  BY <1>1, <1>2, <1>3, <1>4, <1>5, <1>6

LEMMA MarkRetryKeeps ==
  ASSUME IInv, NEW t \in Ticks, markRetry(t)
  PROVE  IInv'
<1>0. /\ tick' \in [Ticks -> Tick]
      /\ tick'[t].pc = "next" /\ tick'[t].job = None
      /\ tick'[t].batch = tick[t].batch /\ tick'[t].claimed = tick[t].claimed
      /\ \A u \in Ticks \ {t} : tick'[u] = tick[u]
  <2>1. Settle(t, "queued")
    BY DEF markRetry
  <2> QED  BY <2>1, SettlesOneTick DEF IInv
<1> USE QueueAssumption DEF IInv, markRetry, Settle, CountAttempt, LastAttempt, IndexAllows, history
<1>j. tick[t].job \in Jobs
  BY DEF JobInHand, Working
<1>1. TypeOK'
  <2>1. status' \in [Jobs -> Statuses] /\ aged' \in [Jobs -> BOOLEAN]
    BY <1>j DEF TypeOK, Statuses
  <2>2. attempts' \in [Jobs -> 0..MaxAttempts]
    BY <1>j DEF TypeOK, Tick, ClaimsCounted
  <2>3. due' \in [Jobs -> BOOLEAN]
    BY <1>j DEF TypeOK
  <2> QED  BY <1>0, <2>1, <2>2, <2>3 DEF TypeOK
<1>2. JobInHand' /\ FinishedByHandler'
  <2>1. handled' = handled
    OBVIOUS
  <2>2. \A u \in Ticks : tick'[u].batch = tick[u].batch /\ (u = t \/ tick'[u] = tick[u])
    BY <1>0
  <2>3. None \notin Jobs
    OBVIOUS
  <2> HIDE DEF markRetry, Settle
  <2>4. JobInHand'
    BY <1>0, <2>2, <2>3 DEF TypeOK, Tick, JobInHand, Working
  <2>5. FinishedByHandler'
    BY <1>0, <2>1, <2>2 DEF FinishedByHandler
  <2> QED  BY <2>4, <2>5
<1>3. ClaimsCounted' /\ AttemptsCounted' /\ FailedWasTried'
  BY <1>0, <1>j DEF TypeOK, Tick, ClaimsCounted, AttemptsCounted, FailedWasTried, Settled
<1>4. DoneWasHandled'
  BY DEF DoneWasHandled
<1>5. OneUnfinishedPerKey'
  BY DEF OneUnfinishedPerKey, Unfinished
<1>6. HeldAlone'
  BY DEF TypeOK, JobInHand, HeldAlone, Holds
<1> QED  BY <1>1, <1>2, <1>3, <1>4, <1>5, <1>6

LEMMA EndTickKeeps ==
  ASSUME IInv, NEW t \in Ticks, endTick(t)
  PROVE  IInv'
<1> USE QueueAssumption DEF IInv, endTick, history
<1>1. TypeOK'
  BY DEF TypeOK, Tick, Idle, PCs
<1>2. JobInHand' /\ FinishedByHandler'
  BY DEF Idle, JobInHand, Working, FinishedByHandler
<1>3. ClaimsCounted' /\ AttemptsCounted' /\ FailedWasTried'
  BY DEF TypeOK, Idle, ClaimsCounted, AttemptsCounted, FailedWasTried
<1>4. DoneWasHandled'
  BY DEF DoneWasHandled
<1>5. OneUnfinishedPerKey'
  BY DEF OneUnfinishedPerKey, Unfinished
<1>6. HeldAlone'
  BY DEF Idle, HeldAlone, Holds
<1> QED  BY <1>1, <1>2, <1>3, <1>4, <1>5, <1>6

LEMMA TickThrowsKeeps ==
  ASSUME IInv, NEW t \in Ticks, tickThrows(t)
  PROVE  IInv'
<1> USE QueueAssumption DEF IInv, tickThrows, GoesWrong, history
<1>1. TypeOK'
  <2>1. tick' \in [Ticks -> Tick]
    BY DEF TypeOK, Tick, Idle, PCs
  <2>2. faults' \subseteq FaultKinds
    BY DEF TypeOK, FaultKinds
  <2> QED  BY <2>1, <2>2 DEF TypeOK
<1>2. JobInHand' /\ FinishedByHandler'
  BY DEF Idle, JobInHand, Working, FinishedByHandler
<1>3. ClaimsCounted' /\ AttemptsCounted' /\ FailedWasTried'
  BY DEF TypeOK, Idle, ClaimsCounted, AttemptsCounted, FailedWasTried
<1>4. DoneWasHandled'
  BY DEF DoneWasHandled
<1>5. OneUnfinishedPerKey'
  BY DEF OneUnfinishedPerKey, Unfinished
<1>6. HeldAlone'
  BY DEF Idle, HeldAlone, Holds
<1> QED  BY <1>1, <1>2, <1>3, <1>4, <1>5, <1>6

LEMMA MarkDoneThrowsKeeps ==
  ASSUME IInv, NEW t \in Ticks, markDoneThrows(t)
  PROVE  IInv'
<1>0. fails' \in [Jobs -> 0..MaxAttempts]
  BY FailedCounts DEF IInv, markDoneThrows, JobInHand, Working
<1> USE QueueAssumption DEF IInv, markDoneThrows, GoesWrong, Failed, Goes, history
<1>1. TypeOK'
  <2>1. status' \in [Jobs -> Statuses] /\ aged' \in [Jobs -> BOOLEAN]
    BY DEF TypeOK, Statuses
  <2>2. tick' \in [Ticks -> Tick]
    BY DEF TypeOK, Tick, PCs
  <2>3. faults' \subseteq FaultKinds
    BY DEF TypeOK, FaultKinds
  <2> QED  BY <1>0, <2>1, <2>2, <2>3 DEF TypeOK
<1>2. JobInHand' /\ FinishedByHandler'
  BY DEF JobInHand, Working, FinishedByHandler
<1>3. ClaimsCounted' /\ AttemptsCounted' /\ FailedWasTried'
  BY DEF TypeOK, Tick, JobInHand, Working, ClaimsCounted, AttemptsCounted, FailedWasTried, Settled
<1>4. DoneWasHandled'
  BY DEF TypeOK, FinishedByHandler, DoneWasHandled
<1>5. OneUnfinishedPerKey'
  BY DEF TypeOK, OneUnfinishedPerKey, Unfinished
<1>6. HeldAlone'
  BY DEF TypeOK, HeldAlone, Holds
<1> QED  BY <1>1, <1>2, <1>3, <1>4, <1>5, <1>6

LEMMA CrashKeeps ==
  ASSUME IInv, NEW t \in Ticks, Crash(t)
  PROVE  IInv'
<1> USE QueueAssumption DEF IInv, Crash, GoesWrong, history
<1>1. TypeOK'
  BY DEF TypeOK, Tick, Idle, PCs, FaultKinds
<1>2. JobInHand' /\ FinishedByHandler'
  BY DEF Idle, JobInHand, Working, FinishedByHandler
<1>3. ClaimsCounted' /\ AttemptsCounted' /\ FailedWasTried'
  BY DEF TypeOK, Idle, ClaimsCounted, AttemptsCounted, FailedWasTried
<1>4. DoneWasHandled'
  BY DEF DoneWasHandled
<1>5. OneUnfinishedPerKey'
  BY DEF OneUnfinishedPerKey, Unfinished
<1>6. HeldAlone'
  BY DEF Idle, HeldAlone, Holds
<1> QED  BY <1>1, <1>2, <1>3, <1>4, <1>5, <1>6

LEMMA EnqueueKeeps ==
  ASSUME IInv, NEW j \in Jobs, NEW k \in Keys \cup {NoKey}, NEW now \in BOOLEAN, enqueue(j, k, now)
  PROVE  IInv'
<1> USE QueueAssumption DEF IInv, enqueue, IndexAllows, history
<1>1. TypeOK'
  BY DEF TypeOK, Statuses
<1>2. JobInHand' /\ FinishedByHandler'
  BY DEF JobInHand, FinishedByHandler
<1>3. ClaimsCounted' /\ AttemptsCounted' /\ FailedWasTried'
  BY DEF ClaimsCounted, AttemptsCounted, FailedWasTried, Settled
<1>4. DoneWasHandled'
  BY DEF DoneWasHandled
<1>5. OneUnfinishedPerKey'
  BY DEF TypeOK, OneUnfinishedPerKey, Unfinished
<1>6. HeldAlone'
  BY DEF HeldAlone, Holds
<1> QED  BY <1>1, <1>2, <1>3, <1>4, <1>5, <1>6

LEMMA ComesDueKeeps ==
  ASSUME IInv, NEW j \in Jobs, ComesDue(j)
  PROVE  IInv'
<1> USE QueueAssumption DEF IInv, ComesDue, history
<1>1. TypeOK'
  BY DEF TypeOK
<1>2. JobInHand' /\ FinishedByHandler'
  BY DEF JobInHand, FinishedByHandler
<1>3. ClaimsCounted' /\ AttemptsCounted' /\ FailedWasTried'
  BY DEF ClaimsCounted, AttemptsCounted, FailedWasTried
<1>4. DoneWasHandled'
  BY DEF DoneWasHandled
<1>5. OneUnfinishedPerKey'
  BY DEF OneUnfinishedPerKey, Unfinished
<1>6. HeldAlone'
  BY DEF HeldAlone, Holds
<1> QED  BY <1>1, <1>2, <1>3, <1>4, <1>5, <1>6

LEMMA LockAgesKeeps ==
  ASSUME IInv, NEW j \in Jobs, LockAges(j)
  PROVE  IInv'
<1> USE QueueAssumption DEF IInv, LockAges, InHand, history
<1>1. TypeOK'
  BY DEF TypeOK
<1>2. JobInHand' /\ FinishedByHandler'
  BY DEF JobInHand, FinishedByHandler
<1>3. ClaimsCounted' /\ AttemptsCounted' /\ FailedWasTried'
  BY DEF ClaimsCounted, AttemptsCounted, FailedWasTried
<1>4. DoneWasHandled'
  BY DEF DoneWasHandled
<1>5. OneUnfinishedPerKey'
  BY DEF OneUnfinishedPerKey, Unfinished
<1>6. HeldAlone'
  BY DEF HeldAlone, Holds
<1> QED  BY <1>1, <1>2, <1>3, <1>4, <1>5, <1>6

LEMMA RunIsSlowKeeps ==
  ASSUME IInv, NEW j \in Jobs, RunIsSlow(j)
  PROVE  IInv'
<1> USE QueueAssumption DEF IInv, RunIsSlow, InHand, GoesWrong, history
<1>1. TypeOK'
  BY DEF TypeOK, FaultKinds
<1>2. JobInHand' /\ FinishedByHandler'
  BY DEF JobInHand, FinishedByHandler
<1>3. ClaimsCounted' /\ AttemptsCounted' /\ FailedWasTried'
  BY DEF ClaimsCounted, AttemptsCounted, FailedWasTried
<1>4. DoneWasHandled'
  BY DEF DoneWasHandled
<1>5. OneUnfinishedPerKey'
  BY DEF OneUnfinishedPerKey, Unfinished
<1>6. HeldAlone'
  BY DEF HeldAlone
<1> QED  BY <1>1, <1>2, <1>3, <1>4, <1>5, <1>6

LEMMA InitHolds == Init => IInv
<1> USE QueueAssumption DEF Init, Idle
<1>1. Init => TypeOK
  BY DEF TypeOK, Tick, PCs, Statuses
<1>2. Init => JobInHand /\ FinishedByHandler /\ ClaimsCounted /\ AttemptsCounted
  BY DEF JobInHand, Working, FinishedByHandler, ClaimsCounted, AttemptsCounted
<1>3. Init => FailedWasTried /\ DoneWasHandled /\ OneUnfinishedPerKey /\ HeldAlone
  BY DEF FailedWasTried, DoneWasHandled, OneUnfinishedPerKey, Unfinished, HeldAlone, Holds
<1> QED  BY <1>1, <1>2, <1>3 DEF IInv

LEMMA StepKeeps ==
  ASSUME IInv, [Next]_vars
  PROVE  IInv'
<1>1. CASE \E t \in Ticks : Step(t)
  BY <1>1, StartTickKeeps, SweepStaleLocksKeeps, ClaimAllKeeps, CallHandlerKeeps, HandlerReturnsKeeps,
     HandlerThrowsKeeps, MarkDoneKeeps, MarkFailedKeeps, MarkRetryKeeps, EndTickKeeps DEF Step
<1>2. CASE \E t \in Ticks : tickThrows(t) \/ Fault(t)
  BY <1>2, TickThrowsKeeps, MarkDoneThrowsKeeps, CrashKeeps DEF Fault
<1>3. CASE \E j \in Jobs : \E k \in Keys \cup {NoKey}, now \in BOOLEAN : enqueue(j, k, now)
  BY <1>3, EnqueueKeeps
<1>4. CASE \E j \in Jobs : ComesDue(j) \/ LockAges(j) \/ RunIsSlow(j)
  BY <1>4, ComesDueKeeps, LockAgesKeeps, RunIsSlowKeeps
<1>5. CASE UNCHANGED vars
  BY <1>5 DEF IInv, vars, history, TypeOK, JobInHand, ClaimsCounted, AttemptsCounted, FinishedByHandler,
              FailedWasTried, DoneWasHandled, OneUnfinishedPerKey, Unfinished, HeldAlone, Holds
<1> QED  BY <1>1, <1>2, <1>3, <1>4, <1>5 DEF Next

\* The inductive invariant: whatever ticks overlap, die, throw or are reclaimed,
\* the table, the claims in memory and the runs there were agree.
THEOREM Invariant == Spec => []IInv
<1> QED  BY InitHolds, StepKeeps, PTL DEF Spec

\* Every variable of the queue keeps its type: no attempt beyond max_attempts is
\* ever counted.
THEOREM TypeCorrect == Spec => []TypeOK
<1>1. IInv => TypeOK
  BY DEF IInv
<1> QED  BY Invariant, <1>1, PTL

\* Two unfinished jobs never carry one key (enqueue, markFailedOrRetry and the
\* partial unique index).
THEOREM KeysAreUnique == Spec => []OneUnfinishedPerKey
<1>1. IInv => OneUnfinishedPerKey
  BY DEF IInv
<1> QED  BY Invariant, <1>1, PTL

\* A job that failed for good failed max_attempts times (markFailedOrRetry,
\* sweepStaleLocks), and a done job was handled (tick, markDone).
THEOREM NoEndIsUnearned == Spec => []EndsAreEarned
<1>1. IInv => EndsAreEarned
  BY DEF IInv, EndsAreEarned
<1> QED  BY Invariant, <1>1, PTL

\* Until a live run outlasts its lock, one tick at most runs a job (claimAll,
\* sweepStaleLocks).
THEOREM PromptRunsAreAlone == Spec => []PromptRunsAlone
<1>1. IInv => PromptRunsAlone
  BY DEF IInv, HeldAlone, Holds, PromptRunsAlone, OneRunAtATime, Running
<1> QED  BY Invariant, <1>1, PTL

\* Until a live run outlasts its lock or a statement fails halfway, a settled
\* job is left alone by every step.
THEOREM SettledIsLeftAlone == Spec => SettledStays
<1> DEFINE Calm == {"slow", "db"} \cap faults = {}
           Left == Calm => \A j \in Jobs : status[j] \in Settled => status'[j] = status[j]
<1>1. ASSUME IInv, [Next]_vars
      PROVE  Left
  <2> SUFFICES ASSUME Calm, NEW j \in Jobs, status[j] \in Settled
               PROVE  status'[j] = status[j]
    OBVIOUS
  <2> USE <1>1 DEF IInv, Settled
  <2>1. \A t \in Ticks : ~Holds(t, j)
    <3>1. "slow" \notin faults /\ "db" \notin faults
      OBVIOUS
    <3> QED  BY <3>1 DEF HeldAlone
  <2>2. ASSUME NEW t \in Ticks, Step(t)
        PROVE  status'[j] = status[j]
    <3> USE <2>1, <2>2 DEF TypeOK, Holds, Tick
    <3>1. CASE startTick(t) \/ (\E i \in Jobs : callHandler(t, i)) \/ endTick(t)
               \/ handlerReturns(t) \/ handlerThrows(t)
      BY <3>1 DEF startTick, callHandler, endTick, handlerReturns, handlerThrows
    <3>2. CASE sweepStaleLocks(t)
      BY <3>2 DEF sweepStaleLocks
    <3>3. CASE \E S \in SUBSET Jobs : claimAll(t, S)
      BY <3>3 DEF claimAll, Ready
    <3>4. CASE markDone(t) \/ markFailed(t) \/ markRetry(t)
      <4>1. tick[t].job # j
        OBVIOUS
      <4>2. \E s \in Statuses : status' = [status EXCEPT ![tick[t].job] = s]
        BY <3>4 DEF markDone, markFailed, markRetry, Settle, Statuses
      <4> QED  BY <4>1, <4>2
    <3> QED  BY <3>1, <3>2, <3>3, <3>4 DEF Step
  <2>3. ASSUME NEW t \in Ticks, tickThrows(t) \/ Fault(t)
        PROVE  status'[j] = status[j]
    <3> USE <2>1 DEF TypeOK, Holds
    <3>1. CASE tickThrows(t) \/ Crash(t)
      BY <3>1 DEF tickThrows, Crash
    <3>2. CASE markDoneThrows(t)
      <4>1. tick[t].job # j
        OBVIOUS
      <4>2. status' = status \/ status' = [status EXCEPT ![tick[t].job] = "done"]
        BY <3>2 DEF markDoneThrows
      <4> QED  BY <4>1, <4>2
    <3> QED  BY <2>3, <3>1, <3>2 DEF Fault
  <2>4. ASSUME NEW i \in Jobs, NEW k \in Keys \cup {NoKey}, NEW now \in BOOLEAN, enqueue(i, k, now)
        PROVE  status'[j] = status[j]
    BY <2>4 DEF TypeOK, enqueue
  <2>5. ASSUME NEW i \in Jobs, ComesDue(i) \/ LockAges(i) \/ RunIsSlow(i)
        PROVE  status'[j] = status[j]
    BY <2>5 DEF ComesDue, LockAges, RunIsSlow
  <2>6. CASE UNCHANGED vars
    BY <2>6 DEF vars
  <2> QED  BY <2>2, <2>3, <2>4, <2>5, <2>6 DEF Next
<1>2. IInv /\ [Next]_vars => [Left]_vars
  <2> HIDE DEF Left
  <2> QED  BY <1>1
<1> QED  BY Invariant, <1>2, PTL DEF Spec, SettledStays
=============================================================================
