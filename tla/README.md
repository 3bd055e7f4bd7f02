# Cobblr: specifications, checks and proofs

Cobblr is a self-hosted platform of modules (inventory, purchases, machines,
scanning...) on one api server, a Postgres database for the platform and one
per workspace. Most of its code is presentation, forms and plain reads and
writes. What this project is about is the part where several requests, sweeps,
timers and api processes meet on the same rows and locks, fail halfway and try
again. Paths below are relative to `src/`.

## 1. Inventory

### 1.1 Components

| Component | State | Operations | Here |
|---|---|---|---|
| **Receive outbox** `modules/purchases/src/receive.ts` | order lines (`received_at`, `receipt_unconfirmed`, `receipt_refused`, `stock_withdrawn_at`), `purchases_receive_outbox` rows (payload, acknowledged recipients, completed) | receive lines, settle an unconfirmed line, take a receive back, flush (visit each due row under its lock), retry sweep | `Receipts` |
| **Event bus and wires** `api/src/platform/events.ts`, `wires.ts` | none of their own; a `delivery` object carries the acknowledged set | `emit` calls subscribers, then the wires bound to the event, acknowledging each one | inside `Receipts`; promise in `DurableDelivery` |
| **Stock write** `modules/inventory/src/api/action-handlers.ts`, `stock-floor.ts` | `inventory_parts.qty`, disposition, `inventory_stock_operations` | adjust stock once per operation id; refuse a gone part; floor a withdrawal | inside `Receipts` |
| **Job queue** `api/src/platform/queue.ts` | `core_queue_jobs` (status, attempts, run_at, locked_at, idempotency key) | enqueue, tick: sweep stale locks, claim, run handler, done, retry, fail | `JobQueue` |
| **Exclusive locks** `api/src/platform/exclusive.ts` | one lock connection per process, names claimed in memory, idle and rest timers; advisory locks in the database | try-lock, run, release, give up, close | `ExclusiveLock` |
| **Service jobs** `api/src/platform/services.ts`, `service-supervisor.ts` | job rows with status and attempt number, poll jobs in the queue | gate, submit, poll, fall through, nudge, hand on, ask and answer, cancel, settle | `ServiceJobs` |
| **Request replays** `api/src/platform/request-replays.ts` | one row per Idempotency-Key: claimed or answered | claim, answer, release, give up, forget | `RequestReplays` |
| **History outbox** `api/src/platform/activity-outbox.ts`, `activity-trace.ts` | workspace copies of History lines | write with the change, leave an intent, mark, visit, send, recover | `HistoryOutbox` |
| **Workspace pools** `api/src/db/tenant.ts`, `sweep-gate.ts` | cache of connection pools and their hand-outs; a counting gate | hand out, release, evict, wait | the gate only: `SweepGate` |
| **In-memory helpers** `api/src/lib/ttl-cache.ts`, `per-key-coalesce.ts` | values with generations, loads and runs under way | get, load, delete, clear, run | `SharedMisses`, `CoalescedRuns` |
| **Tenant sweeps** `api/src/platform/tenant-sweeps.ts` | due times of passes | visit every workspace | used as fairness |
| **Approvals** `api/src/platform/approvals.ts` | one row per ask with its remedies, status, outcome and a draft to finish | ask, answer, apply, withdraw, expire, resume, finish | `Approvals` |
| Digest delivery, sandbox pool, fabrication polling | claims in one table each | claim, send, expire | listed in `PROJECT.json` |
| Web client, mobile shells, bundles, migrations, deployment | none shared between actors | | not modelled: presentation, or run once at boot |

### 1.2 How they meet

- A request that receives a line commits the line's stamp and its outbox row in
  one transaction, then flushes in the same request. The **tenant sweeps** visit
  the same rows every minute. Both take an **exclusive lock** per row, and
  deliver through the **event bus**, which runs the user's **wires**; the usual
  wire is the **stock write**.
- The **job queue** is polled by every api process. Service jobs and fabrication
  polls are chains of jobs that enqueue their own successor.
- Every periodic pass (sweeps, digests, sandbox top-up, the collecting rounds)
  runs under an exclusive lock, so that two api processes do not do it at once.

### 1.3 What is hard here

- *Between two awaits anything may run.* A row selected before its lock is taken
  may be closed by the time it is read; a claim in memory and a lock in the
  database are two steps; an idle timer fires between them; a poll writes what
  it heard after the job was handed to another service.
- *A write whose answer is lost.* The database commits, the caller sees a throw,
  and the retry, possibly in another process, must find out.
- *A lock that ends while its work goes on*, and a job whose lock is taken for a
  dead worker's because its live run is slow.
- *Long sequences*: receive, refuse, settle, take back and receive again, each
  step legal, and the cost of the line must be told once.
- *Something must happen in the end*: a receipt is delivered, a job settles, a
  name comes free, whatever failed before.

`PROJECT.json` lists 40 hazards at their lines with the properties that cover
them, or why none does.

### 1.4 What makes each component correct

- Receive outbox: stock moves once per receipt; a line's cost is told once;
  nothing is closed before everybody answered; a refusal reaches a person and
  means that no stock was added; every receipt is closed in the end.
- Job queue: one run of a job at a time, retries are counted right, one
  unfinished job per key, a settled job stays settled, every job settles.
- Exclusive locks: no two callers work under one name; nothing stays locked or
  claimed that nobody works under.
- Service jobs: a moving job has somebody to carry it on, a finished one stays
  as it finished, an attempt's answer is its own service's, what acts in the
  world is given to one machine, a watched job does not go on for ever.
- Request replays: a write is done once per key, and a repeat is given the
  answer of a request that did the write.
- History outbox: a change has its line in the History in the end, whatever
  failed on the way, and nothing kept for it is removed before.
- Workspace pools: the gate keeps its limit and lets everybody through. (Not
  modelled: a pool handed out is not closed under its holder.)
- In-memory helpers: an invalidation is not undone by a read that started
  before it, misses are shared, a call returns with a run that started after it,
  one run per key at a time.
- Approvals: the answer on the row says what was done, and the refused request
  is handed back to be finished once, after a yes only.

## 2. The modules

| Module | What it is |
|---|---|
| `DurableDelivery` | What a durable delivery promises: recorded events, answers, closing. |
| `Receipts` | The receive outbox with lock, bus, wires and stock write. Implements `DurableDelivery`. |
| `JobQueue` | The job queue and its overlapping ticks. |
| `TryLock` | What a try-lock promises: taking, leaving and losing names. |
| `ExclusiveLock` | The try-lock of the periodic jobs: processes, callers, sessions. Implements `TryLock`. |
| `ServiceJobs` | One service job: its polls, its person, its supervisor, its services. |
| `RequestReplays` | The requests that carry one Idempotency-Key. |
| `HistoryOutbox` | The lines of the History and the rounds that send what was left. Implements `DurableDelivery`. |
| `SharedMisses` | One key of the cache whose misses are shared. |
| `CoalescedRuns` | One key of a coalesced function. |
| `SweepGate` | The gate in front of the workspaces' pools. |
| `Approvals` | One person's asks, their approvers, and the windows that finish what was refused. |
| `MCReceipts`, `MCJobQueue`, `MCExclusiveLock` | Symmetry sets and the process of each caller, for TLC. |
| `MCServiceJobs`, `MCRounds`, `MCAtOnce` | Several small modules in one run each. Their parts share no state: in a behaviour one part moves and the others have not begun (in `MCAtOnce`, beside a gate that starts with its higher limit). |
| `ReceiptsProofs`, `JobQueueProofs`, `ExclusiveLockProofs`, `ServiceJobsProofs`, `RequestReplaysProofs`, `HistoryOutboxProofs`, `AtOnceProofs` (cache, coalesced runs and gate), `ApprovalsProofs` | Theorems and proofs. |

In every module an action is the code between two awaits: one statement or
transaction, or one call whose result is awaited. Faults are explicit. In
`Receipts`, `JobQueue` and `ExclusiveLock` each kind may happen once, and
`MaxFaults` says how many kinds a behaviour may have; in the other modules it
says how many faults of any kind, the same one again included.
Operators marked `Mutant:` are wrong versions of a definition, kept beside it;
no specification uses them.

### 2.1 Receipts

`line` is a row of `purchases_order_items` reduced to four bits: stamped as
received, the question whether it arrived, whether that question is about a
refusal, and whether a receive was ever taken back. `row` is the outbox row;
`told` is its acknowledged list. `work[w]` is what request or visit `w` holds in
memory: the ids it selected, the row it is at, its own copy of the acknowledged
list, the refusals it has heard.

- `Receive`, `SettleAdd`, `SettleCounted`, `Unreceive` are the request handlers:
  the committed transaction, then the flush they start. `queueReceived` decides
  whether a receipt carries the cost. A receive that finds no new line only
  flushes, which is what `Sweep` of those rows is, so it has no action.
- `Select`, `Lock`, `LockHeld`, `LockUnavailable`, `Read`, `Acknowledge`,
  `Complete`, `Throw`, `Release`, `EndFlush` are `flushReceipts`, in its order.
  A failed flush ends the request (`ReceiptPending`), so a take-back goes on only
  after a flush in which nothing failed.
- `Tell`, `RefuseStock`, `SkipStock`, `MoveStock` are `emit` and `fireBindings`
  calling one recipient that has not been acknowledged. The stock write refuses
  a gone part before it looks the operation up, as the code does.
- `ClearReceived` and `Withdraw` are the rest of the take-back: one statement,
  then one plain event per line that had stock, which may fail unnoticed.
- `SetGone`, `Crash`, `LoseLock` are what happens around them.
- `Heal` is a visit of the arrival heal at a later boot: it stamps a line made
  before its date (`OldLines`) that is unreceived in an order that arrived, and
  asks about it or does not. It counts as a crash, since the line is unstamped
  only because whoever took the arrival died. `HealedLines` are those its first
  visit stamped and flagged, before the model begins.

`moves`, `answered`, `asked` and `askedAgain` are history: they record what
happened and no guard reads them. `askedAgain` is what `CostToldOnce` steps
around: a line received, taken back, then healed with a question has told its
cost; `settleUnconfirmedLine` looks at the refusal only and not at
`stock_withdrawn_at` (`receive.ts:120-121`), so a person's "add" tells it again.

Left out: quantities other than one, lots, units and trackers of the part,
`setReceivedCount` (counting single units, the last of which receives the line
through the same function), the wording of refusals, and the time of a backoff
(a pending row may be swept at any time), and the heal's first statement, which
takes back a question asked in error (`heal-unreceived-arrivals.ts:76-83`):
settling as counted leaves the line the same. The bus's subscribers are recipients
like the wires. What the lock does across processes is taken from
`ExclusiveLock`: held by one, refused to others, lost at any time.

### 2.2 JobQueue

The variables are columns of `core_queue_jobs`; `due` and `aged` stand for
`run_at` having come and `locked_at` having passed fifteen minutes. `tick[t]` is
one call of `tick()`: the batch it claimed, the job it runs, and `claimed`, the
attempts the claim returned. The code computes the new count from that copy and
not from the row, and so does `CountAttempt`.

- `startTick`, `sweepStaleLocks`, `claimAll`, `callHandler`, `handlerReturns`,
  `handlerThrows`, `markDone`, `markFailed`, `markRetry`, `endTick` follow the
  code; endings write by id, whatever has become of the row.
- `markDoneThrows`: the statement fails, with or without its write, and the catch
  counts a failed run. `tickThrows`: the catch's own statement fails, or the
  unique index refuses to queue the job again; the rest of the batch is left
  running in the table with nobody working on it.
- `LockAges` is time passing for a job nobody holds, `RunIsSlow` for one that is
  still held: the first is certain, the second a fault.

The order in which ready jobs are taken (oldest `run_at` first) is abstracted to
any choice of `JobsPerTick` of them. `locked_by` is written and never read. Several
queues only differ in running side by side.

### 2.3 ExclusiveLock

`session` and `owner` are the database's side: which sessions exist and who holds
which advisory lock. `link`, `heldHere`, `idleTimer` and `resting` are a process's:
its lock connection, the names claimed in memory, the idle timer and the wait
after a refused login. `call[c]` is one call of `runExclusive`, from its claim
through connecting and asking to its work.

A dropped connection frees its locks at once and the process hears of it later
(`hearsOfLoss`). A statement that times out abandons the connection; the statement
may still take the lock, until the database ends the session (`sessionEnds`). A
statement may also fail on a connection that goes on: the ask has taken nothing
(`askErrs`), the unlock has let go of nothing (`releaseErrs`). The process forgets
the name then, and the lock stays with the connection until that ends; `left` are
these locks. One that is asked for again over the same connection is granted, once
more, and a release leaves it held. `NoLockLeftBehind` and `EveryNameComesFree`
speak of the other locks. An ended session's identity is used again only when nobody refers to it any more.
`openLockSession` groups such holds and adds no step. Left out: `runSerialised`,
which waits for a lock on a pooled connection.

`TryLock` is the promise without sessions and connections: who works under a name
and whose lock on it still stands, both read off the callers at work and the owner
of the advisory lock. A granted ask is a `Take`; a release, or a death of the
process, a `Leave`; a dropped connection or a statement that timed out a `Lose`,
after which the lock may go at any time while its caller works on. All else is a
stutter: a lock taken by a statement nobody waits for is no caller's at work.

### 2.4 ServiceJobs

`job` is the row of `core_services_jobs`: status, attempt, the route it is at
(the number of a service in the workspace's order), the remote job, the errors
counted, and the supervisor's `stalled_at`. `step[w]` is what one poll holds in
memory between reading the row and writing it; `polls` are the attempts with a
poll waiting in the queue. `door` and `sup` are a starting call and a supervisor's
visit that still have to queue one.

- `invokeAs`, `confirmServiceJob`, `expireOne`, `invokeReturns` start a job, at
  once or after a yes.
- `beginPoll` and `runInline` are the head of `step`; `submitRemote`, `ask`,
  `unreachable` are its hop to the service; `takeSubmitted`, `takeProgress`,
  `takeQuestion`, `takeFailure`, `fallThrough`, `countError`, `recordOutputs`,
  `takeAnswer` what it makes of the answer. Every one of their writes is guarded
  by the attempt and by the job not having finished (`Holds`), but
  `recordOutputs`, which the code does not guard either.
- `answer`, `cancel` are requests of a person: the service is called first, the
  row written after.
- `superviseMoving`, `nudgeStalled`, `handOn`, `handOnReturns`,
  `superviseFinished` are the supervisor. A job that has been still is polled
  once more, and handed on or failed when it has not moved after that.
- A `crash` leaves the queue's own poll to be run again; a poll that throws is
  run again or, as a fault, given up for good.

`enqueue` keeps the key of the queue: no second poll of an attempt while one with
the same number waits; a poll under way may or may not have that number.
How long a job has been still is left to chance. Left out: one person's retry
and skip of a finished job (`services.ts` 1054-1075), disconnecting a service
(854-858), confirm triggers, reminders, runs without a row, progress texts and
the files themselves, of which only the service they are of is kept.

What the code does that the properties step around:

- The comment on `startQueuedJob` says "one poll chain per job"
  (`services.ts:609`), and the code makes a second one in two ways: the
  supervisor's nudge polls beside the chain, and a call that still runs the job
  when it is handed on (a built-in may take longer than the supervisor's ten
  minutes) queues the new attempt once more when it returns. Two polls of one
  attempt may then cross. `OneChain` exempts these attempts (`doubled`) from
  `OwnAnswer`, `RemoteIsItsOwn` and `OneMachineActs`.
- `stalled_at` is the time of the visit. A job that moved between the visit's
  read and its write is stalled at a time before its last move
  (`"overtaken"`), and passed over until it moves again. `WatchedJobEnds` excepts it.
- A gateway that answers "busy" for a job the service took makes a second
  service take it, also one that acts in the world; so does a submit that throws
  after the service took the job (803), or a crash before its answer is written,
  when the next submit is put off. `OneMachineActs` holds, whatever else fails,
  until such an answer is lost (`lost`). `changelog.d/services-supervisor.md:13`
  says that such a job "is never handed to a different machine", which is true of
  `handOn` and not of falling through (`services.ts` 874-893 looks at neither
  effect nor acceptance).
- A late answer's files are recorded before the write that its attempt forbids,
  so they stay the job's: `OwnAnswer` speaks of files for a first attempt only.
- A service out of reach throws and never falls through; after the queue's last
  try the chain is gone, and the job waits for the supervisor, if it is watched
  (its insert is best effort).

### 2.5 RequestReplays

`row` is the key's row of `request_replays`, as a set of at most one: state, body,
whether the claim is five minutes old, and whose it is. `pc[r]` is where a request
is: `claim` (the insert), `look` (the select), `giveUp` (the delete of an old
claim), `handler`, `settle` (the answer, or the release after a failure).
`settle` goes by key, so it writes whoever's row there is. Handlers are external:
one writes, or fails with nothing written, or, as a fault, fails after it has
written (a 5xx frees the key all the same, 124-125, and the repeat writes again).
`forget` is the sweep of the rows a day old, whoever is at work or looking; a day
is longer than the five minutes of `growsOld`.

The exemptions are history: `dropped` (a claim was given up, a row forgotten, or
the key freed by a request that wrote and failed), `taken` (a row went from under
a request at work) and `slow` (a claim grew old while its request was at work).
`AnsweredByItsWrite` needs only `taken`, and only for the body: a repeat is told of
nothing that was not done, whatever is given up, forgotten or crashes. After
`taken`, the slow request's answer may be stored under the row of another body.
Left out: storing the response's bytes, streams (`unreplayable`, chosen freely),
the pause between two looks.

### 2.6 HistoryOutbox

A change made by a route commits with its line in `core_activity_log_pending`
(`commit`); one made by a record's writer leaves an intent first (`beginIntent`,
`work`, `workThrows`). Then the line is sent (`insertLine`), kept when refused
(`keepLine`), and the row that stood for it removed (`endWrite`). Before all this
the workspace is marked in the server's database (`markForTrace`), once a minute
at most, so that a round finds it. `candidates`, `candidatesBusy`, `namedRound`
choose the workspace; `readLines`, `sendLine`, `removeLine`, `readIntents`,
`recoverIntent`, `removeIntent`, `anythingLeft`, `endVisit` are the visit.
`tick` is a minute; a `crash` stops every write where it is.

`touched`, `covered` and `visit.mark` are the mark's age, whether a visit has
covered it, and whether the visit read it and found it quiet. One workspace and
one process at a time are modelled.

What the properties step around: a mark the server refused to a process that had
marked the workspace before is not made again (284 asks `!marked.has`), and a
named round forgets what was waiting; `unmarked` exempts it. `MaxWrite` keeps a
write under two minutes: the code takes an older intent for one its write left
behind and would read the record while the write goes on. Left out: an intent
recovered with its writer unreadable (deleted without a line), and the double
line when a row of the outbox and an intent speak of one change.

### 2.7 SharedMisses, CoalescedRuns, SweepGate

One key, or one gate, each; an action is a call or a promise's callback.

- `SharedMisses`: `get`, `resolved`, `rejected`, `delete`, `forgetPrefix`,
  `clear`. The generation a load compares is the sum of the clears and of the
  key's deletes since, so a delete followed by a clear brings the number back;
  `crossed` exempts that.
- `CoalescedRuns`: `callStarts`, `callQueues`, `callJoins`, `ends`, `followsOn`.
  Between `ends` and `followsOn` the key has no run, and a call that comes then
  starts one beside the one that waited; `cut` exempts that from `OneRunPerKey`.
- `SweepGate`: `pass`, `await`, `letThrough`, `release`, `setLimit`. A woken
  waiter counts itself in a microtask of its own; a caller or a raised limit that
  comes before it takes a place twice; `cut` exempts that from `GateHolds`.

### 2.8 Approvals

`row[i]` is an ask's row of `approval_requests`; `held` are the remedies that
hold for the person who asked and `offered` the share of an AI connection, the
one remedy a no takes away. `step[a]` is what an approver's answer holds in
memory, `window[w]` where a window of the person is with finishing. `transition`
is one statement, guarded by the status the caller read (`From`).

- `createApprovalRequest`, `lapse`, `expires`; `withdraw` and `withdrawn`.
- `decide` reads the row; `deny` and `takeOff` carry out a no; `holds`, `apply`,
  `applyFails` take the remedies one by one, `recordFailure` or `approve` writes
  what came of them.
- `prepareResume`, `grantHoldsNow`, `take` hand the draft out, and
  `completeApprovalRequest` ends the ask. `byHand` is the owner, `crash` the end
  of the process; a browser's replay survives it.

What the code does that `AnswerIsTrue` steps around:

- `approvals.ts:616-617` says "Claim the decision before applying anything, so
  two approvers pressing in the same second apply it once". The code applies
  every remedy and claims the row after (646). Two approvers may both apply, and
  both halves of the property hold then; but a no, a withdrawal or an expiry that
  comes in between leaves a row that says no with the remedies given (`cut`).
- A failure is written by the row's id alone (636-640), over the outcome of
  whoever has said yes since (`spoilt`). The remedies applied before it stay, with
  the row still to be answered and a no still possible (`cut`). So they do after a
  crash between two of them.

`spoilt` is left out of the half about a yes only, `cut` of the half about a no
only.

An expired row is pending until somebody looks: the first new ask after a week
gets it back, where 62-63 says that "a fresh card goes out"; only the ask after
that makes one. The model lets `expires` happen at any time.

## 3. The runs

| Run | Question | Answer |
|---|---|---|
| `receipts` | Two workers, one line, two operations, a stock wire and a spend wire, one fault of any kind: is stock moved once, the cost told once, nothing closed early, no acknowledgement overwritten while no lock is lost, and, without faults, every refusal put to a person? | holds |
| `receipts_live` | A flagged line and all kinds of fault: is every receipt closed in the end? | holds |
| `refusal_reaches_person` | The same refusal with one fault. | violated, see 5 |
| `refused_put_nothing` | Does a refused receipt mean that no stock was added? | violated, see 5 |
| `job_queue` | Two ticks, two jobs, one key, two attempts, one fault of any kind: keys, that no job ends unearned, one run at a time, and that every job settles. | holds |
| `one_run_at_a_time` | The same with slow runs. | violated, see 5 |
| `exclusive_lock` | Two callers in one process, one in another, two names, three sessions, one fault of any kind: exclusion while no connection is lost, no name given away under a lock that stands (`TryLock`), nothing left behind, every name comes free. | holds |
| `not_concurrent` | Exclusion when a connection is lost. | violated, see 5 |
| `service_jobs` | One job, harmless or acting, a remote service and a built-in, two polls under way, one hand-on, one fault of any kind: does the chain go on, do endings stay, is an answer its own service's, does one machine act? Or one approval, of two grants or of a shared AI connection, two approvers, two windows, one fault: is the answer true, and is the draft handed out once? | holds |
| `rounds` | Two changes, one in a transaction and one by a record's writer, two faults of any kind: is what was left found, does every line arrive, is no line given up early? And one service job with one fault: does a watched job end? | holds |
| `at_once` | Four requests under one key, one with another body; three loads and three invalidations; four coalesced calls; four callers at a gate of one or two: writes done once, answers their own, invalidations kept, runs and gate as they promise, every call and every waiter through. | holds |
| `running_is_waited_for` | Is a request still at work waited for? Three repeats. | violated, see 5 |

**Bounds and why they are enough.** Two workers (or ticks) are what it takes for
one to act between two steps of the other; a third adds no new pair, since they
share only rows and locks. Two operations are what it takes for two receipts of
one line to disagree; that three do not bring a second cost is proved. Two
recipients are one that may refuse and one that comes before or after it. Two
jobs with one key are the late retry against its successor, and both fit one
batch. Three callers in two processes are a collision within a process and one
across. Three sessions let a connection be replaced while the old one lingers in
the database and the other process has its own. Two polls are a late one and the
one that replaced it; one hand-on from a remote service to a built-in has both
sorts of successor, and a second would need a third service. Two errors, the
first of which falls through, are one of each treatment
(in `rounds` the first ends the job). Two changes are one of
each sort, and two faults are a crash after a refusal. Four requests are a
claim, two repeats that race for it after it grew old, and another body. Three
loads are one before, one across and one after an invalidation; three
invalidations are a delete, a clear and one more. Two approvers and two windows
are two that read the same row; two grants are one applied before the other
fails; a second ask is a row of its own. Four calls are a run, the one queued
behind it, one that joins it and one that comes in the gap. Four callers fill a
gate of two and wait twice.

In the passing safety runs one fault occurs at most (two in `rounds`), of any
kind and at any point; the proofs lift this to every number, and to all the
other bounds, for the properties that are proved. `receipts_live` allows all
three kinds in one behaviour. In the first three modules each kind happening
once is a bound of the model itself.

`CHECK_DEADLOCK FALSE` stands in every configuration: a run ends when the bounded
operations, jobs or faults are used up, and an idle platform is allowed to stay so.
Symmetry is used only for runs without liveness properties.

**Fairness.** `Receipts`: a worker that has started goes on (weak fairness of
`Step`; an awaited call returns or throws), and each pending row is swept again
and again (strong fairness of `Sweep`, since a sweep needs an idle worker and
these come and go): `registerReceiptRetries` registers a pass every 60 s that
selects every due row, and a row's backoff is finite. Nothing makes a person act.
`JobQueue`: the interval of `startWorker` fires and a tick goes on, and time
passes (`ComesDue`, `LockAges`). Neither outcome of a handler is assumed, only
that it ends. `ExclusiveLock`: a call goes on, work ends, timers fire, a process
hears that its connection ended and the database ends a session its client gave
up. `ServiceJobs`: the queue runs what waits in it, a poll goes on (every hop has
a timeout), the supervisor's sweep comes round, a call and a person's request
return; services and people owe nothing. `HistoryOutbox`: a request goes on until
it is answered, the round comes every minute and its visit goes on, and the clock
does not stop. `CoalescedRuns`, `SweepGate`: a run ends, whoever is through
leaves, and a settled promise calls back. No fault is ever fair.

Every property has a mutant in `PROJECT.json`: a plausible mistake in one
definition that makes TLC report exactly that property.

## 4. What is proved

All theorems are `Spec => ...` for every value of the constants that satisfies
the module's one named assumption, if it has one: `ReceiptsAssumption`,
`QueueAssumption`, `LockAssumption`, `ServicesAssumption`, `ReplaysAssumption`,
`HistoryAssumption`, `LimitsAssumption`, `AsksAssumption`. These say that null
values are none of the real ones, that sets of special cases are subsets, that
numbers are numbers and that somebody may ask; `HistoryAssumption` also bounds a
write by two minutes.
Sets of lines, workers, jobs, sessions, requests, changes, calls and so on are
arbitrary, not necessarily finite, and so is the number of faults.

**Receipts** (`ReceiptsProofs`): `TypeCorrect`, `StockMovesOnce`, `CostIsToldOnce`,
`DeliveryImplemented`, `CalmRefusalsReachPeople`, `AcknowledgementsStay`. The
fourth is the refinement: initial states map to initial
states and each step records, answers, closes or stutters. `CostToldOnce` is not
inductive: `queueReceived` decides from the *line*, not from the rows. Two parts
close the gap: a queued receipt's line is received or was withdrawn
(`QueuedWasReceived`), so a second receive never costs again; and once a cost was
queued, a question about the line is about a refusal (`CostedIsAskedWhenRefused`,
with `AskedWasReceived`), so settling does not cost it again either. Only the heal
asks otherwise, and its lines are left out. `StockOnce` needs that the
shelf moved for an operation only if the operation was recorded
(`MovedIsApplied`). The refinement needs that whoever a row *or a visit in
memory* has down as told has answered (`ToldHasAnswered`), because `Complete`
goes by the visit's own list. The last two rest on `Calm`. Until a lock is lost,
whoever is at a row holds its lock (`HeldByItsWorker`), so what a visit has down
as told includes what the row has (`ToldIsSeen`) and a write of its list removes
nobody. Until anything fails, each receipt is told in one visit, and what that
visit heard of the stock write agrees with the shelf (`CalmVisits`,
`AbsentIsBare`), so a refusal is heard by the visit that closes the row.

**JobQueue** (`JobQueueProofs`): `TypeCorrect`, `KeysAreUnique`,
`NoEndIsUnearned`, `PromptRunsAreAlone`, `SettledIsLeftAlone`. That a failed job
was tried as often as it may be (`FailedWasTried`) rests on both copies of a job's attempts, the table's and the
claim's, being at most its failed runs (`AttemptsCounted`, `ClaimsCounted`): a
stale claim may write an older count, never a larger one. `PromptRunsAlone` rests
on `HeldAlone`: until a run outlasts its lock, a job in any tick's hands is in no
other's, is running in the table (or done, after a statement that failed behind its
write) and has a fresh lock, so no sweep frees it and no claim takes it.

**ExclusiveLock** (`ExclusiveLockProofs`): `TypeCorrect`, `LocallyAlone`,
`NoLockIsLeftBehind`, `CalmIsAlone`, `TryLockImplemented`, `TryLockIsExclusive`.
Exclusion within a process follows from `ClaimedOnce`: a busy caller's name is
claimed, by it alone. Exclusion across processes needs `SessionsApart` (a session
is one process's) and `CalmHeld` (until a connection is lost, callers work on
their process's live connection, which holds their lock; a process that dies
stops working before its session ends). `NoLockIsLeftBehind` goes by what a
process's connection holds: a caller's at work, one being asked for, or one in
`left`. `TryLockImplemented` is the refinement and
says more: also after connections were lost, nobody is given a name while a
lock on it stands. It is here that a lock is re-entrant within its session, so it
needs both `SessionsApart` and `ClaimedOnce`: a lock held by one's own connection
is not another's at work. `TryLockIsExclusive` is what the promise comes to.

**ServiceJobs** (`ServiceJobsProofs`): `TypeCorrect`, `EndsAreFinal`,
`ChainHolds`, `OwnAnswersOnly`, `RemotesAreOwn`, `OneMachineOnly`. What a poll
hears is an answer only if its service knows the job it asks for, so type
correctness needs `Known`: whoever names a remote job, the row or a poll in
memory, names one its service knows. `ChainGoesOn` needs `PollsAreHeld`: a poll of
the queue has its key while it is under way, and one inside a call has that call
at the door, which will queue the job. The last three are about what the row says
of services, and none is inductive alone. They hold because an attempt that is not
doubled is in one hand until a service has the job: a poll that waits, a poll at
work, the call at the door or the supervisor about to queue it, and no two of them
(`Alone`, with `Fresh`: nothing names an attempt that is still to come). That hand holds what the
row says (`SameAt`), so what it writes is about the service the row names. On this
rest the files of a first attempt (`FilesOwn`) and, for a job that acts, that the
machine that took it is the row's and no poll can pass the job on any more
(`OneTaker`), until an answer of a machine that took it is lost. `Owned` joins these parts.

**RequestReplays** (`RequestReplaysProofs`): `TypeCorrect`, `NoRetryDoubles`,
`RepeatsAreAnswered`. Until a row is taken from under a request at work, the key's
row is held by whoever is at work (`WorkHoldsKey`), so an answer is stored with its
own body (`AnswerWithItsBody`); until the key is dropped, also by whoever has
written (`WroteHoldsKey`), so two who wrote are one. That an answer under the key
is that of a request that wrote (`AnswerOfAWrite`) holds always.

**HistoryOutbox** (`HistoryOutboxProofs`): `TypeCorrect`, `WhatIsLeftIsFound`,
`DeliveryImplemented`. The refinement needs that the row a visit has in hand has
its line sent, that an intent it reads is of a write that is over (`VisitReads`,
from `Ages`), and that a write removes its row only when the line has gone another
way (`Rows`, `NothingLost`). `LeftIsFound` needs that a covered mark has nothing
left behind it and no write under way (`CoveredIsClear`). That follows from the
mark's age: the workspace was marked a minute before a write began at most, and the
write is over before its age is two, so a mark quiet for three minutes stands for
writes that are over (`Marks`).

**SharedMisses, CoalescedRuns, SweepGate** (`AtOnceProofs`): `InvalidationsStand`,
`OneLoadPerMiss`, `CallsAreSeen`, `RunsTakeTurns`, `GateIsKept`. Until `crossed`, a
load out of date started at a lower generation than the present one
(`GenerationsGrow`); a load that is not is the shared one (`SharedIsFresh`). One run
waits at most, and it is the one that calls may join (`RunQueue`); until `cut`, the
key's run is the one under way and the waiting one follows it (`RunsInTurn`).
The gate's property counts callers against a number and a line: whoever is in the
line waits and is in it once (`Line`), and the sets that are counted are finite
(`Counted`), though the callers need not be. `AtOnceKeeps` carries all five to the
composition that the run checks, by `PartsRun`: each part of it runs as it would
alone.

**Approvals** (`ApprovalsProofs`): `AnswersAreTrue`, `DraftsHandedOnce`. A row says
yes by the copy an approver holds in memory, so that copy must be true while it is
made: what the yes has looked at it held or gave, but for the one in its hands
(`Honest`). A no is true because what was given without an answer is in the hands
of somebody at work (`Traced`), and whoever ends that work without an answer, or
says no in the middle of it, leaves the ask in `cut`. A yes, once written, stays
true: the row is written over by a failure alone, which leaves the ask in
`spoilt`. A draft has one window and
goes to it from `approved` only (`Drafted`). `AllKeep` carries both to the
composition that the run checks.

**A note on the prover.** tlapm 1.4.5 derives a contradiction from a double update
of the form `[f EXCEPT ![c].a = x, ![c].b = y]` of a function of records, so the
definitions update the record instead (`![c] = [@ EXCEPT !.a = x, !.b = y]`). It
also reads an `@` inside such a record wrongly (`[@ EXCEPT !.a = @ + 1]` becomes
`f[c].a.a + 1`), so there the field is named in full. Each
leaf of the proof modules was also tried with the goal `FALSE` in place of its
own, from the same facts and definitions: the prover finds none of them, but for
the steps that rule a case out.

**Only model-checked.** Liveness (`EveryReceiptCloses`, `EveryJobSettles`,
`EveryNameComesFree`, `LineArrives`, `WatchedJobEnds`, `EveryCallReturns`,
`EveryWaiterPasses`): temporal reasoning under fairness is out of the prover's
reach. Every other property of a passing run is a theorem. The types of
`RequestReplays`, `HistoryOutbox` and the parts of `AtOnceProofs` and
`ApprovalsProofs` are proved and in no run.

## 5. Where the code and its words disagree

1. **A refusal can be lost** (`refusal_reaches_person`). `receive.ts:218-219`: the
   stock write said no for good, "so the line waits for a person". The refusal is
   held in the visit's memory while the recipient that refused is acknowledged in
   the row. If a later recipient throws, the retry passes the acknowledged one
   over, hears no refusal, and closes the row: no stock, no question.
2. **A refused receipt may have moved stock** (`refused_put_nothing`).
   `receive.ts:142-143`: a refused line "put nothing on the shelf". A write that
   was applied but not acknowledged is refused on retry when the part was marked
   gone in between, because that is looked at first (`action-handlers.ts:702`).
3. **A job can be run twice at once** (`one_run_at_a_time`). `queue.ts:18-21`:
   instances "race without colliding" and a stale lock is "a crashed worker". The
   lock's age counts from the claim of the whole batch and is never renewed.
4. **Exclusive work can overlap** (`not_concurrent`). `exclusive.ts:20-21`: "the
   work does not run CONCURRENTLY in two processes". When the lock connection is
   lost its work is not told and goes on.
5. **A running request is not waited for** (`running_is_waited_for`).
   `request-replays.ts:1`: "A retry never doubles"; 8-9: "one still running is
   waited for". The statement that gives up an old claim (81) deletes whatever
   running row the key has. Two repeats read the old claim of a dead process; one
   deletes it, claims and runs; the other's delete takes that fresh claim away,
   and it runs too.

Each run checks the statement as the source words it. The statement that does
hold, with the condition it needs, is a property of the passing run of that
module: `CalmRefusals`, `PromptRunsAlone`, `CalmNotConcurrent`,
`RetryNeverDoubles`.

**Without a run of their own.** These words of the code are not true either. Each
is left out of a property of a passing run by a history variable, which is raised
in exactly the case the words leave open, and TLC finds the property violated when
the exemption is dropped.

| What is said | What the code does | Left out of |
|---|---|---|
| `receive.ts:136-138`: a taken-back line's cost is kept "from being counted again when it really arrives" | a question of the heal, answered "add", counts it again | `CostToldOnce` (`askedAgain`) |
| `request-replays.ts:8`: a repeat "is answered with it", the first answer to its key | an answer is stored by key (120-129), under the claim that replaced its own, which may be of another body | `AnsweredByItsWrite` (`taken`) |
| `services-supervisor.md:13`: what acts in the world "is never handed to a different machine" | falling through looks neither at the effect nor at whether the service took the job | `OneMachineActs` (`lost`) |
| `services.ts:609`: "one poll chain per job" | a nudge, or a call that outlives a hand-on, starts another | `OwnAnswer`, `RemoteIsItsOwn`, `OneMachineActs` (`doubled`) |
| `approvals.ts:616-617`: "Claim the decision before applying anything" | it is claimed after | `AnswerIsTrue` (`cut`, `spoilt`) |
| `activity-trace.ts:177-179` | a mark refused after an earlier one was made is not made again | `LeftIsFound`, `LineArrives` (`unmarked`) |
| `ttl-cache.ts:18-22`: "an invalidation is never undone by a read that started before it" | a delete followed by a clear brings the load's generation back | `InvalidationStands` (`crossed`) |
| `per-key-coalesce.ts:1`: "One run at a time per key" | a call between a run and its trailing one starts a second | `OneRunPerKey` (`cut`) |
| `sweep-gate.ts:1`: "How many tenant pools the sweeps may hold open at once" | a woken waiter is not counted until its microtask | `GateHolds` (`cut`) |

## 6. Plan

What is left, in this order:

1. `TenantPools` (`api/src/db/tenant.ts`): hand-outs, eviction, closing, deletion
   and the wait for a workspace's updates; that a pool handed out is not closed
   under its holder and a deleted workspace has no pool. It would stand behind
   `SweepGate`.
2. The rest of `ServiceJobs`: retry and skip of a finished job by two people at
   once, disconnecting a service, and confirm triggers; the polls of fabrication
   jobs (`digifab/src/poll-worker.ts`), a chain of the same make with a repair of
   its own.
3. Composition: `Receipts` takes its locks through `TryLock`, which
   `ExclusiveLock` implements; `ServiceJobs` takes its polls through `JobQueue`.

**Not modelled.** Of approvals: who may ask and who may decide, somebody's
leaving the workspace, notices and cards. Digest delivery and the sandbox pool are single
claiming statements under a lock; what can go wrong around them is what the lock
or a crash leaves, which `ExclusiveLock` shows. The web client, the mobile
shells and the content bundles, most of the repository, are presentation and
data and keep no state shared between actors; migrations run once at boot. So
the models cover the part of the code where several actors meet, and a small
share of its lines.
