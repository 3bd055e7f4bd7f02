----------------------------- MODULE ServiceJobs -----------------------------
(***************************************************************************)
(* One service job: a row of core_services_jobs, the polls that carry it   *)
(* on (api/src/platform/services.ts), the person who says yes, answers or  *)
(* cancels, and the supervisor that looks after it                         *)
(* (service-supervisor.ts).                                                *)
(*                                                                         *)
(* A poll is split where it waits: it reads the row, asks the service,     *)
(* and writes what it heard; anything may happen to the row in between.    *)
(* Its last write and the queueing of the next poll are one step: a process *)
(* that dies between them leaves its own poll to be run again.             *)
(* The clock is left to chance: whenever the supervisor looks, a moving    *)
(* job may have been still for long enough, or not.                        *)
(* The services are external: one keeps at most one job for this row,      *)
(* since every submit of it carries the same idempotency key.  The polls   *)
(* are jobs of the queue (JobQueue.tla) and follow what it promises: a run *)
(* that throws is tried again or given up, one whose process died is tried *)
(* again.  Attempts that wait are a set: polls of one attempt that wait at *)
(* once are as good as one.                                                *)
(***************************************************************************)
EXTENDS Integers

CONSTANTS NRoutes,       \* how many may answer, in the workspace's order
          BuiltIn,       \* those of them that run in this process
          Workers,       \* polls there may be under way at once
          MaxHandoffs,   \* SERVICE_MAX_HANDOFFS
          MaxErrors,     \* answers a poll could not use before the job fails
          FallThroughs,  \* of them, how many pass a new job to the next service
          MaxNews,       \* bound: progress reports and questions of the services
          Kinds,         \* what the job may be: acts in the world, pinned to a service
          MaxFaults      \* bound: faults there may be, of any kind

Routes == 1..NRoutes
Attempts == 0..MaxHandoffs

ASSUME ServicesAssumption ==
  /\ NRoutes \in Nat \ {0}
  /\ BuiltIn \subseteq Routes
  /\ MaxHandoffs \in Nat
  /\ MaxErrors \in Nat \ {0}
  /\ FallThroughs \in Nat
  /\ MaxNews \in Nat
  /\ Kinds \subseteq [acts : BOOLEAN, pinned : BOOLEAN]
  /\ MaxFaults \in Nat

VARIABLES
  job,      \* the row; still: it has not moved since the supervisor looked
  kind,     \* what never changes of it
  files,    \* the service whose files are its outputs, 0 for none
  svc,      \* [Routes -> what each service has made of the job]
  polls,    \* the attempts with a poll waiting in the queue
  step,     \* what each poll under way holds in memory
  door,     \* the call or the yes that started the job has still to queue it
  person,   \* an answer or a cancel under way
  sup,      \* the supervisor's visit
  watched,  \* service_watched_jobs holds the job
  news,     \* reports and questions left
  faults,   \* how many faults there have been
  doubled,  \* history: the attempts that may have a second chain of polls
  lost      \* history: a machine took the job and its answer never came back

vars == <<job, kind, files, svc, polls, step, door, person, sup, watched, news, faults, doubled, lost>>

Finished == {"done", "failed", "cancelled"}
Moving   == {"queued", "running"}
Statuses == {"absent", "awaiting_confirm", "needs_input"} \cup Moving \cup Finished

Job  == [status : Statuses, attempt : Attempts, at : Routes, remote : 0..NRoutes,
         errors : 0..MaxErrors, still : BOOLEAN,
         stalled : {"no", "yes", "overtaken"}, output : 0..NRoutes]
PCs  == {"idle", "hop", "run", "submitted", "busy", "refused", "working", "asks", "done",
         "over", "finish"}
Step == [pc : PCs, attempt : Attempts, at : Routes, remote : 0..NRoutes,
         errors : 0..MaxErrors, queued : BOOLEAN]
Idle == [pc |-> "idle", attempt |-> 0, at |-> 1, remote |-> 0, errors |-> 0, queued |-> FALSE]
Nobody == [pc |-> "idle", attempt |-> 0]

TypeOK ==
  /\ job \in Job
  /\ kind \in Kinds
  /\ files \in 0..NRoutes
  /\ svc \in [Routes -> {"none", "run", "working", "asks", "done", "over"}]
  /\ polls \subseteq Attempts
  /\ step \in [Workers -> Step]
  /\ door \in {"idle", "call", "start"}
  /\ person \in [pc : {"idle", "answer", "cancel"}, attempt : Attempts]
  /\ sup \in {"idle", "nudge", "hand", "start"}
  /\ watched \in BOOLEAN
  /\ news \in 0..MaxNews
  /\ faults \in 0..MaxFaults
  /\ doubled \subseteq Attempts
  /\ lost \in BOOLEAN

Init ==
  /\ job = [status |-> "absent", attempt |-> 0, at |-> 1, remote |-> 0, errors |-> 0,
            still |-> FALSE, stalled |-> "no", output |-> 0]
  /\ kind \in Kinds
  /\ files = 0
  /\ svc = [r \in Routes |-> "none"]
  /\ polls = {}
  /\ step = [w \in Workers |-> Idle]
  /\ door = "idle"
  /\ person = Nobody
  /\ sup = "idle"
  /\ watched = FALSE
  /\ news = MaxNews
  /\ faults = 0
  /\ doubled = {}
  /\ lost = FALSE

GoesWrong == faults < MaxFaults /\ faults' = faults + 1

LosesAnswer == lost' = kind.acts

------------------------------------------------------------------------------
(* update, finish, emit, startQueuedJob                                    *)

\* Mutant: the guard of update() on the attempt is dropped.
HoldsAnyAttempt(attempt) == job.status \notin Finished

\* Mutant: the guard of update() on a job that has finished is dropped.
HoldsFinished(attempt) == job.attempt = attempt

\* The guard of every write of a poll: the row is still of this attempt and
\* has not finished.
Holds(attempt) == job.attempt = attempt /\ job.status \notin Finished

\* A row that moved is not stalled.
Moved(j) == [j EXCEPT !.still = FALSE, !.stalled = "no"]
Becomes(status) == IF job.status = status THEN job ELSE [Moved(job) EXCEPT !.status = status]
finish(status, output) == [Moved(job) EXCEPT !.status = status, !.output = output]

\* The event of a change puts the job on the watch list.  The list is kept
\* best effort: the insert may fail, or the process die before it.
emit ==
  \/ watched' = TRUE /\ UNCHANGED faults
  \/ GoesWrong /\ UNCHANGED watched

\* A guarded write: the row becomes j and its event goes out, or nothing does.
update(attempt, j) ==
  IF Holds(attempt) THEN job' = j /\ emit ELSE UNCHANGED <<job, watched, faults>>

\* Mutant: a poll that waits and one under way have one key.
KeyOfAnyPoll(w, attempt) == step[w].attempt = attempt

Carries(w, attempt) == step[w].queued /\ step[w].attempt = attempt

\* A poll is queued for an attempt, unless its key (the attempt and the number
\* of the poll) is that of a poll under way, which then carries the job on.
enqueue(attempt, others) ==
  \/ polls' = polls \cup {attempt}
  \/ (\E v \in others : Carries(v, attempt)) /\ UNCHANGED polls

startQueuedJob ==
  /\ job' = Moved(job)
  /\ enqueue(job.attempt, Workers)

------------------------------------------------------------------------------
(* invokeAs, confirmServiceJob, expireOne                                  *)

\* The gate lets it run or holds it for a yes.
invokeAs ==
  /\ job.status = "absent"
  /\ \/ job' = [job EXCEPT !.status = "queued"] /\ door' = "call"
     \/ job' = [job EXCEPT !.status = "awaiting_confirm"] /\ UNCHANGED door
  /\ emit
  /\ UNCHANGED <<kind, files, svc, polls, step, person, sup, news, doubled, lost>>

\* A yes moves the job once, whichever card it was given on.
confirmServiceJob ==
  /\ job.status = "awaiting_confirm"
  /\ job' = [job EXCEPT !.status = "queued"]
  /\ door' = "start"
  /\ emit
  /\ UNCHANGED <<kind, files, svc, polls, step, person, sup, news, doubled, lost>>

\* Nobody said yes within a day.
expireOne ==
  /\ job.status = "awaiting_confirm"
  /\ job' = [job EXCEPT !.status = "cancelled"]
  /\ emit
  /\ UNCHANGED <<kind, files, svc, polls, step, door, person, sup, news, doubled, lost>>

Inline == {w \in Workers : step[w].pc # "idle" /\ ~step[w].queued}

\* The call returns: the job goes to the poller, unless the call ran it
\* itself and it is settled or waits for an answer.
invokeReturns ==
  /\ door # "idle" /\ Inline = {}
  /\ \/ startQueuedJob
     \/ door = "call" /\ job.status \in Finished \cup {"needs_input"} /\ UNCHANGED <<job, polls>>
  /\ door' = "idle"
  /\ UNCHANGED <<kind, files, svc, step, person, sup, watched, news, faults, doubled, lost>>

------------------------------------------------------------------------------
(* step: one poll, of the queue's worker or inside the call                *)

\* Reads the row.  A built-in is marked running and run; a service is asked.
Begin(w, queued) ==
  /\ step' = [step EXCEPT ![w] = [pc |-> IF job.at \in BuiltIn THEN "run" ELSE "hop",
        attempt |-> job.attempt, at |-> job.at, remote |-> job.remote,
        errors |-> job.errors, queued |-> queued]]
  /\ IF job.at \in BuiltIn
     THEN job' = Becomes("running") /\ emit /\ svc' = [svc EXCEPT ![job.at] = "run"]
     ELSE UNCHANGED <<job, watched, faults, svc>>

\* A poll of an attempt that was replaced, or of a job that needs none, ends.
beginPoll(w, attempt) ==
  /\ step[w].pc = "idle" /\ attempt \in polls
  /\ polls' = polls \ {attempt}
  /\ IF job.status \in Finished \cup {"awaiting_confirm"} \/ job.attempt # attempt
     THEN UNCHANGED <<job, step, watched, faults, svc>>
     ELSE Begin(w, TRUE)
  /\ UNCHANGED <<kind, files, door, person, sup, news, doubled, lost>>

\* A sync capability answers inside the call.
runInline(w) ==
  /\ step[w].pc = "idle" /\ door = "call" /\ Inline = {}
  /\ job.status \in Moving
  /\ Begin(w, FALSE)
  /\ UNCHANGED <<kind, files, polls, door, person, sup, news, doubled, lost>>

Goes(w, pc) == step' = [step EXCEPT ![w].pc = pc]
Ends(w) == step' = [step EXCEPT ![w] = Idle]

\* The poll ends and the next one is queued; inside a call the loop goes on.
QueueNext(w) ==
  /\ Ends(w)
  /\ IF step[w].queued THEN enqueue(step[w].attempt, Workers \ {w}) ELSE UNCHANGED polls

\* What a poll heard becomes the row and the chain goes on, unless the row is
\* no longer the poll's to write.
Absorbs(w, j) ==
  /\ update(step[w].attempt, j)
  /\ IF Holds(step[w].attempt) THEN QueueNext(w) ELSE Ends(w) /\ UNCHANGED polls

Accepts(r) == svc' = [svc EXCEPT ![r] = IF svc[r] = "none" THEN "working" ELSE svc[r]]

\* POST /jobs: taken, put off, refused, or taken and answered by a gateway
\* that says it was put off.
submitRemote(w) ==
  /\ step[w].pc = "hop" /\ step[w].remote = 0
  /\ \/ Goes(w, "submitted") /\ Accepts(step[w].at) /\ UNCHANGED <<faults, lost>>
     \/ Goes(w, "busy") /\ UNCHANGED <<svc, faults, lost>>
     \/ Goes(w, "refused") /\ UNCHANGED <<svc, faults, lost>>
     \/ Goes(w, "busy") /\ Accepts(step[w].at) /\ GoesWrong /\ LosesAnswer
  /\ UNCHANGED <<job, kind, files, polls, door, person, sup, watched, news, doubled>>

\* GET /jobs/:id.  A service that knows nothing of the id answers with an
\* error, as does one that is busy.
ask(w) ==
  /\ step[w].pc = "hop" /\ step[w].remote # 0
  /\ \/ Goes(w, "busy")
     \/ step[w].remote = step[w].at /\ Goes(w, svc[step[w].at])
  /\ UNCHANGED <<job, kind, files, svc, polls, door, person, sup, watched, news, faults, doubled, lost>>

\* A service out of reach: the poll throws, and the queue tries it again or,
\* after the last time, gives it up.  One that has just taken the job may be
\* out of reach when it answers.
unreachable(w) ==
  /\ step[w].pc \in {"hop", "submitted"}
  /\ Ends(w)
  /\ \/ /\ polls' = IF step[w].queued THEN polls \cup {step[w].attempt} ELSE polls
        /\ IF step[w].pc = "hop" THEN UNCHANGED faults ELSE GoesWrong
     \/ step[w].queued /\ GoesWrong /\ UNCHANGED polls
  /\ IF step[w].pc = "submitted" THEN LosesAnswer ELSE UNCHANGED lost
  /\ UNCHANGED <<job, kind, files, svc, door, person, sup, watched, news, doubled>>

\* The service has the job.
takeSubmitted(w) ==
  /\ step[w].pc = "submitted"
  /\ Absorbs(w, [Becomes("running") EXCEPT !.remote = step[w].at, !.errors = 0])
  /\ UNCHANGED <<kind, files, svc, door, person, sup, news, doubled, lost>>

\* Refused at the door, or run and failed.
takeFailure(w) ==
  /\ step[w].pc \in {"refused", "over", "run"}
  /\ update(step[w].attempt, finish("failed", 0))
  /\ Ends(w)
  /\ UNCHANGED <<kind, files, svc, polls, door, person, sup, news, doubled, lost>>

\* Mutant: a service that has the job is passed over like one that has not.
FallsThroughLate(w) ==
  /\ ~kind.pinned
  /\ step[w].at < NRoutes /\ step[w].errors < FallThroughs

FallsThrough(w) ==
  /\ step[w].remote = 0 /\ ~kind.pinned
  /\ step[w].at < NRoutes /\ step[w].errors < FallThroughs

Errs(w) == IF step[w].errors < MaxErrors THEN step[w].errors + 1 ELSE MaxErrors

\* Before the service has the job, a busy one hands it to the next.
fallThrough(w) ==
  /\ step[w].pc = "busy" /\ FallsThrough(w)
  /\ job' = IF Holds(step[w].attempt)
            THEN [job EXCEPT !.at = step[w].at + 1, !.errors = Errs(w)] ELSE job
  /\ QueueNext(w)
  /\ UNCHANGED <<kind, files, svc, door, person, sup, watched, news, faults, doubled, lost>>

\* After, the same one is asked again, so many times.
countError(w) ==
  /\ step[w].pc = "busy" /\ ~FallsThrough(w)
  /\ IF Errs(w) = MaxErrors
     THEN /\ update(step[w].attempt, [finish("failed", 0) EXCEPT !.errors = MaxErrors])
          /\ Ends(w) /\ UNCHANGED polls
     ELSE /\ job' = IF Holds(step[w].attempt) THEN [job EXCEPT !.errors = Errs(w)] ELSE job
          /\ IF Holds(step[w].attempt) THEN QueueNext(w) ELSE Ends(w) /\ UNCHANGED polls
          /\ UNCHANGED <<watched, faults>>
  /\ UNCHANGED <<kind, files, svc, door, person, sup, news, doubled, lost>>

\* The service says what it is doing, which may be news.
takeProgress(w) ==
  /\ step[w].pc = "working"
  /\ LET j == [Becomes("running") EXCEPT !.errors = 0] IN
     \/ Absorbs(w, j) /\ UNCHANGED news
     \/ news > 0 /\ news' = news - 1 /\ Absorbs(w, Moved(j))
  /\ UNCHANGED <<kind, files, svc, door, person, sup, doubled, lost>>

\* So may a built-in, while it runs.
reportProgress(w) ==
  /\ step[w].pc = "run" /\ news > 0 /\ news' = news - 1
  /\ job' = IF Holds(step[w].attempt) THEN Moved(job) ELSE job
  /\ UNCHANGED <<kind, files, svc, polls, step, door, person, sup, watched, faults, doubled, lost>>

takeQuestion(w) ==
  /\ step[w].pc = "asks"
  /\ Absorbs(w, [Becomes("needs_input") EXCEPT !.errors = 0])
  /\ UNCHANGED <<kind, files, svc, door, person, sup, news, doubled, lost>>

\* The files are the job's from here on: the first of each name is kept.
recordOutputs(w) ==
  /\ step[w].pc \in {"done", "run"}
  /\ files' = IF files = 0 THEN step[w].at ELSE files
  /\ Goes(w, "finish")
  /\ UNCHANGED <<job, kind, svc, polls, door, person, sup, watched, news, faults, doubled, lost>>

takeAnswer(w) ==
  /\ step[w].pc = "finish"
  /\ update(step[w].attempt, finish("done", step[w].at))
  /\ Ends(w)
  /\ UNCHANGED <<kind, files, svc, polls, door, person, sup, news, doubled, lost>>

------------------------------------------------------------------------------
(* answer, cancel                                                          *)

\* Best effort: the service may not hear it.
CancelsRemote ==
  \/ /\ job.remote = job.at /\ svc[job.at] \in {"working", "asks"}
     /\ svc' = [svc EXCEPT ![job.at] = "over"]
  \/ UNCHANGED svc

answer ==
  /\ person.pc = "idle" /\ job.status = "needs_input"
  /\ job.remote = job.at /\ svc[job.at] = "asks"
  /\ svc' = [svc EXCEPT ![job.at] = "working"]
  /\ person' = [pc |-> "answer", attempt |-> job.attempt]
  /\ UNCHANGED <<job, kind, files, polls, step, door, sup, watched, news, faults, doubled, lost>>

\* A job that has moved on is left alone, and the person is told so.
answerTaken ==
  /\ person.pc = "answer"
  /\ update(person.attempt, Moved(Becomes("running")))
  /\ IF Holds(person.attempt) THEN enqueue(job.attempt, Workers) ELSE UNCHANGED polls
  /\ person' = Nobody
  /\ UNCHANGED <<kind, files, svc, step, door, sup, news, doubled, lost>>

cancel ==
  /\ person.pc = "idle" /\ job.status \notin Finished \cup {"absent"}
  /\ CancelsRemote
  /\ person' = [pc |-> "cancel", attempt |-> job.attempt]
  /\ UNCHANGED <<job, kind, files, polls, step, door, sup, watched, news, faults, doubled, lost>>

cancelTaken ==
  /\ person.pc = "cancel"
  /\ update(person.attempt, finish("cancelled", 0))
  /\ person' = Nobody
  /\ UNCHANGED <<kind, files, svc, polls, step, door, sup, news, doubled, lost>>

------------------------------------------------------------------------------
(* supervise, nudgeStalled, handOn                                         *)

\* A job that has been still for long is polled once more, and given up when
\* it has not moved after that.  One said stalled at a time before its last
\* move is passed over.
superviseMoving ==
  /\ sup = "idle" /\ watched /\ job.status \in Moving
  /\ \/ job.stalled = "no" /\ sup' = "nudge" /\ job' = [job EXCEPT !.still = TRUE]
     \/ job.stalled = "yes" /\ sup' = "hand" /\ UNCHANGED job
  /\ UNCHANGED <<kind, files, svc, polls, step, door, person, watched, news, faults, doubled, lost>>

\* A job that has finished is taken off the list, its notices sent.
superviseFinished ==
  /\ sup = "idle" /\ watched /\ job.status \in Finished
  /\ watched' = FALSE
  /\ UNCHANGED <<job, kind, files, svc, polls, step, door, person, sup, news, faults, doubled, lost>>

\* Mutant: the time of the nudge is not kept.
NeverStalled == "no"

\* stalled_at is the time of the visit: before the move, if it moved since.
Stalled == IF job.still THEN "yes" ELSE "overtaken"

\* A built-in is not polled again.
nudgeStalled ==
  /\ sup = "nudge"
  /\ IF job.status \in Moving
     THEN /\ job' = [job EXCEPT !.still = FALSE, !.stalled = Stalled]
          /\ polls' = IF job.at \in BuiltIn THEN polls ELSE polls \cup {job.attempt}
          /\ doubled' = IF job.at \in BuiltIn THEN doubled ELSE doubled \cup {job.attempt}
     ELSE UNCHANGED <<job, polls, doubled>>
  /\ sup' = "idle"
  /\ UNCHANGED <<kind, files, svc, step, door, person, watched, news, faults, lost>>

HandedOn == [job EXCEPT !.at = job.at + 1, !.remote = 0, !.status = "queued", !.errors = 0,
                        !.attempt = job.attempt + 1, !.stalled = "no"]

\* Mutant: the last service is not the last.
MayHandPastTheLast == job.at <= NRoutes /\ ~kind.pinned /\ ~kind.acts /\ job.attempt < MaxHandoffs

MayHandOn == job.at < NRoutes /\ ~kind.pinned /\ ~kind.acts /\ job.attempt < MaxHandoffs

\* The row is read again, not whether it moved since.  Its service is told to
\* stop, unless it acts in the world.  A call that still runs the job queues
\* the new attempt once more when it returns.
handOn ==
  /\ sup = "hand"
  /\ IF job.status \notin Moving
     THEN sup' = "idle" /\ UNCHANGED <<job, svc, watched, faults>>
     ELSE /\ IF kind.acts THEN UNCHANGED svc ELSE CancelsRemote
          /\ emit
          /\ IF MayHandOn THEN job' = HandedOn /\ sup' = "start"
             ELSE job' = [finish("failed", 0) EXCEPT !.stalled = job.stalled] /\ sup' = "idle"
  /\ doubled' = doubled \cup {a \in {job'.attempt} : a # job.attempt /\ door # "idle"}
  /\ UNCHANGED <<kind, files, polls, step, door, person, news, lost>>

handOnReturns ==
  /\ sup = "start"
  /\ startQueuedJob
  /\ sup' = "idle"
  /\ UNCHANGED <<kind, files, svc, step, door, person, watched, news, faults, doubled, lost>>

------------------------------------------------------------------------------
(* Outside                                                                 *)

serviceWorks(r) ==
  /\ svc[r] = "working"
  /\ \/ svc' = [svc EXCEPT ![r] = "done"] /\ UNCHANGED news
     \/ svc' = [svc EXCEPT ![r] = "over"] /\ UNCHANGED news
     \/ news > 0 /\ news' = news - 1 /\ svc' = [svc EXCEPT ![r] = "asks"]
  /\ UNCHANGED <<job, kind, files, polls, step, door, person, sup, watched, faults, doubled, lost>>

\* The process dies: what it held in memory is gone, the queue's jobs are
\* found by the next one.
crash ==
  /\ GoesWrong
  /\ polls' = polls \cup {step[w].attempt : w \in {v \in Workers : step[v].queued}}
  /\ step' = [w \in Workers |-> Idle]
  /\ door' = "idle"
  /\ person' = Nobody
  /\ sup' = "idle"
  /\ IF \E w \in Workers : step[w].pc = "submitted" THEN LosesAnswer ELSE UNCHANGED lost
  /\ UNCHANGED <<job, kind, files, svc, watched, news, doubled>>

\* What a poll does once its worker has it.
Poll(w) ==
  \/ submitRemote(w) \/ ask(w) \/ unreachable(w)
  \/ takeSubmitted(w) \/ takeFailure(w) \/ fallThrough(w) \/ countError(w)
  \/ takeProgress(w) \/ reportProgress(w) \/ takeQuestion(w) \/ recordOutputs(w) \/ takeAnswer(w)

supervise ==
  \/ superviseMoving \/ superviseFinished \/ nudgeStalled \/ handOn \/ handOnReturns

Next ==
  \/ invokeAs \/ confirmServiceJob \/ expireOne \/ invokeReturns
  \/ answer \/ answerTaken \/ cancel \/ cancelTaken
  \/ supervise \/ crash
  \/ \E w \in Workers : Poll(w) \/ runInline(w) \/ \E a \in Attempts : beginPoll(w, a)
  \/ \E r \in Routes : serviceWorks(r)

Spec == Init /\ [][Next]_vars

\* The queue runs what is due, a poll goes on (every hop has a timeout), the
\* supervisor's sweep comes round while the clock runs, and the call returns.
\* Services and people owe nothing.
Fairness ==
  /\ WF_vars(supervise)
  /\ WF_vars(invokeReturns)
  /\ WF_vars(answerTaken \/ cancelTaken)
  /\ \A w \in Workers : WF_vars(Poll(w))
  /\ \A a \in Attempts : WF_vars(\E w \in Workers : beginPoll(w, a))

FairSpec == Spec /\ Fairness

------------------------------------------------------------------------------
(* Properties                                                              *)

\* Nothing polls the attempt beside its chain: two polls of one attempt may
\* cross (see ../README.md).
OneChain == job.attempt \notin doubled

\* A job done was answered by the service its row names, whatever of an
\* earlier attempt was still under way.  Its files are of that service too,
\* unless the job was handed on: a late answer's files are kept.
OwnAnswer ==
  job.status = "done" /\ OneChain =>
    /\ job.output = job.at
    /\ job.attempt = 0 => files = job.at

\* The remote job a row holds is one of the service it names: a late poll of
\* the service the job was taken from never writes it back.
RemoteIsItsOwn == OneChain => job.remote \in {0, job.at}

\* A job that has finished stays as it finished, whatever was under way.
EndStays ==
  [][job.status \in Finished =>
       /\ job'.status = job.status
       /\ job'.output = job.output
       /\ job'.attempt = job.attempt]_vars

\* A job that moves has somebody to carry it on, as long as nothing failed.
ChainGoesOn ==
  job.status \in Moving /\ faults = 0 =>
    \/ job.attempt \in polls
    \/ \E w \in Workers : step[w].pc # "idle" /\ step[w].attempt = job.attempt
    \/ door # "idle" \/ sup = "start"

\* A watched job does not go on for ever.
WatchedJobEnds ==
  watched /\ job.status \in Moving ~> job.status \notin Moving \/ job.stalled = "overtaken"

\* One machine at most takes a job that acts in the world, whatever fails,
\* until the answer of one that took it is lost, or a poll crossed its chain
\* (see ../README.md).
OneMachineActs ==
  kind.acts /\ ~lost /\ OneChain =>
    \A q, r \in Routes : svc[q] # "none" /\ svc[r] # "none" => q = r
=============================================================================
