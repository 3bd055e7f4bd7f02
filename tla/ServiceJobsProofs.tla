-------------------------- MODULE ServiceJobsProofs --------------------------
(***************************************************************************)
(* Proofs about ServiceJobs.tla: its type, that a job that has finished     *)
(* stays as it finished, that somebody carries a moving job on, and that    *)
(* its answer, its remote job and the machine it acts with are its own, for *)
(* any number of services, polls under way, hand-ons and faults.            *)
(***************************************************************************)
EXTENDS ServiceJobs, TLAPS

\* Whoever has the name of a remote job has it from a service that knows the
\* job; so does a poll whose submit was taken.
Known ==
  /\ job.remote # 0 => svc[job.remote] # "none"
  /\ \A w \in Workers :
       /\ step[w].remote # 0 => svc[step[w].remote] # "none"
       /\ step[w].pc = "submitted" => svc[step[w].at] # "none"

\* A service never forgets a job.
Grows == \A r \in Routes : svc[r] # "none" => svc'[r] # "none"

\* What a row may name after a step, and what a poll may hold.
RowNames ==
  \/ job'.remote \in {0, job.remote}
  \/ \E w \in Workers : step[w].pc = "submitted" /\ job'.remote = step[w].at
PollsHold ==
  \A w \in Workers :
    /\ step'[w].remote \in {0, job.remote, step[w].remote}
    /\ step'[w].pc = "submitted" =>
         step'[w].at = step[w].at /\ (step[w].pc = "submitted" \/ svc'[step[w].at] # "none")

LEMMA KnownStays ==
  ASSUME TypeOK, Known, Grows, RowNames, PollsHold, TypeOK'
  PROVE  Known'
<1>1. job'.remote # 0 => svc'[job'.remote] # "none"
  BY ServicesAssumption, SMTT(30)
  DEF TypeOK, Known, Grows, RowNames, Job, Step, Routes, ServicesAssumption
<1>2. ASSUME NEW w \in Workers, step'[w].remote # 0 PROVE svc'[step'[w].remote] # "none"
  BY <1>2, ServicesAssumption, SMTT(30)
  DEF TypeOK, Known, Grows, PollsHold, Job, Step, Routes, ServicesAssumption
<1>3. ASSUME NEW w \in Workers, step'[w].pc = "submitted" PROVE svc'[step'[w].at] # "none"
  BY <1>3 DEF TypeOK, Known, Grows, PollsHold, Job, Step, Routes
<1>q. QED BY <1>1, <1>2, <1>3 DEF Known

------------------------------------------------------------------------------
(* What the helpers leave                                                  *)

LEMMA MovedTyped ==
  ASSUME NEW j \in Job
  PROVE  Moved(j) \in Job /\ Moved(j).remote = j.remote /\ Moved(j).status = j.status
         /\ Moved(j).output = j.output /\ Moved(j).attempt = j.attempt
BY DEF Moved, Job

LEMMA BecomesTyped ==
  ASSUME job \in Job, NEW s \in Statuses
  PROVE  /\ Becomes(s) \in Job /\ Becomes(s).remote = job.remote
         /\ Becomes(s).attempt = job.attempt
BY DEF Becomes, Moved, Job

LEMMA FinishTyped ==
  ASSUME job \in Job, NEW s \in Statuses, NEW o \in 0..NRoutes
  PROVE  finish(s, o) \in Job /\ finish(s, o).remote = job.remote
BY DEF finish, Moved, Job

LEMMA FaultsCounted ==
  ASSUME TypeOK, GoesWrong
  PROVE  faults' \in 0..MaxFaults
BY ServicesAssumption DEF TypeOK, GoesWrong, ServicesAssumption

LEMMA LosesTyped ==
  ASSUME TypeOK, LosesAnswer \/ UNCHANGED lost
  PROVE  lost' \in BOOLEAN
BY ServicesAssumption DEF TypeOK, LosesAnswer, ServicesAssumption

LEMMA EmitTyped ==
  ASSUME TypeOK, emit
  PROVE  watched' \in BOOLEAN /\ faults' \in 0..MaxFaults
<1>1. CASE watched' = TRUE /\ UNCHANGED faults BY <1>1 DEF TypeOK
<1>2. CASE GoesWrong /\ UNCHANGED watched BY <1>2, FaultsCounted DEF TypeOK
<1>q. QED BY <1>1, <1>2 DEF emit

LEMMA UpdateTyped ==
  ASSUME TypeOK, NEW a, NEW j \in Job, update(a, j)
  PROVE  /\ job' \in Job /\ watched' \in BOOLEAN /\ faults' \in 0..MaxFaults
         /\ job' = j \/ job' = job
         /\ job.status \in Finished => job' = job
<1>1. CASE Holds(a)
  <2>1. job' = j /\ emit BY <1>1 DEF update
  <2>2. watched' \in BOOLEAN /\ faults' \in 0..MaxFaults BY <2>1, EmitTyped
  <2>q. QED BY <1>1, <2>1, <2>2 DEF Holds
<1>2. CASE ~Holds(a) BY <1>2 DEF update, TypeOK
<1>q. QED BY <1>1, <1>2

LEMMA EnqueueTyped ==
  ASSUME TypeOK, NEW a \in Attempts, NEW S, enqueue(a, S)
  PROVE  polls' \subseteq Attempts
BY DEF enqueue, TypeOK

LEMMA IdleTyped == Idle \in Step /\ Idle.remote = 0 /\ Idle.pc = "idle"
BY ServicesAssumption DEF Idle, Step, ServicesAssumption, Attempts, Routes, PCs

LEMMA EndsTyped ==
  ASSUME TypeOK, NEW w \in Workers, Ends(w), job' \in Job
  PROVE  step' \in [Workers -> Step] /\ (UNCHANGED svc => PollsHold)
<1>1. step' = [step EXCEPT ![w] = Idle] BY DEF Ends
<1>2. step' \in [Workers -> Step] BY <1>1, IdleTyped DEF TypeOK
<1>3. \A v \in Workers : step'[v] = IF v = w THEN Idle ELSE step[v] BY <1>1 DEF TypeOK
<1>q. QED BY <1>2, <1>3, IdleTyped DEF PollsHold

LEMMA GoesTyped ==
  ASSUME TypeOK, NEW w \in Workers, NEW pc \in PCs, Goes(w, pc),
         pc = "submitted" => svc'[step[w].at] # "none"
  PROVE  step' \in [Workers -> Step] /\ PollsHold
<1>1. step' = [step EXCEPT ![w] = [step[w] EXCEPT !.pc = pc]] BY DEF Goes, TypeOK
<1>2. step[w] \in Step BY DEF TypeOK
<1>3. [step[w] EXCEPT !.pc = pc] \in Step BY <1>2 DEF Step
<1>4. step' \in [Workers -> Step] BY <1>1, <1>3 DEF TypeOK
<1>5. \A v \in Workers :
        step'[v] = IF v = w THEN [step[w] EXCEPT !.pc = pc] ELSE step[v]
  BY <1>1 DEF TypeOK
<1>6. [step[w] EXCEPT !.pc = pc].remote = step[w].remote
      /\ [step[w] EXCEPT !.pc = pc].at = step[w].at
      /\ [step[w] EXCEPT !.pc = pc].pc = pc
  BY <1>2 DEF Step
<1>q. QED BY <1>4, <1>5, <1>6 DEF PollsHold

LEMMA StepsUnchanged ==
  ASSUME UNCHANGED step
  PROVE  PollsHold
BY DEF PollsHold

LEMMA QueueNextTyped ==
  ASSUME TypeOK, NEW w \in Workers, QueueNext(w)
  PROVE  Ends(w) /\ polls' \subseteq Attempts
<1>1. step[w].attempt \in Attempts BY DEF TypeOK, Step
<1>q. QED BY <1>1, EnqueueTyped DEF QueueNext, TypeOK

\* A poll that absorbs what it heard.
LEMMA AbsorbsTyped ==
  ASSUME TypeOK, NEW w \in Workers, NEW j \in Job, Absorbs(w, j), UNCHANGED svc
  PROVE  /\ job' \in Job /\ watched' \in BOOLEAN /\ faults' \in 0..MaxFaults
         /\ job' = j \/ job' = job
         /\ job.status \in Finished => job' = job
         /\ step' \in [Workers -> Step] /\ polls' \subseteq Attempts /\ PollsHold
<1>1. update(step[w].attempt, j) BY DEF Absorbs
<1>2. Ends(w) /\ polls' \subseteq Attempts BY QueueNextTyped DEF Absorbs, TypeOK
<1>q. QED BY <1>1, <1>2, UpdateTyped, EndsTyped

------------------------------------------------------------------------------
(* The steps                                                               *)

\* How a job that has finished, finished.
Stands ==
  job.status \in Finished =>
    /\ job'.status = job.status
    /\ job'.output = job.output
    /\ job'.attempt = job.attempt

Good == TypeOK' /\ Grows /\ RowNames /\ PollsHold /\ Stands

LEMMA invokeAsGood ==
  ASSUME TypeOK, Known, invokeAs
  PROVE  Good
<1>1. job.status = "absent" BY DEF invokeAs
<1>2. job' \in Job /\ job'.remote = job.remote BY DEF invokeAs, TypeOK, Job, Statuses, Moving
<1>3. door' \in {"idle", "call", "start"} BY DEF invokeAs, TypeOK
<1>4. watched' \in BOOLEAN /\ faults' \in 0..MaxFaults BY EmitTyped DEF invokeAs
<1>5. UNCHANGED <<kind, files, svc, polls, step, person, sup, news, doubled, lost>> BY DEF invokeAs
<1>6. TypeOK' BY <1>2, <1>3, <1>4, <1>5 DEF TypeOK
<1>q. QED BY <1>1, <1>2, <1>5, <1>6, StepsUnchanged DEF Good, Grows, RowNames, Stands, Finished

LEMMA confirmGood ==
  ASSUME TypeOK, Known, confirmServiceJob
  PROVE  Good
<1>1. job.status = "awaiting_confirm" BY DEF confirmServiceJob
<1>2. job' \in Job /\ job'.remote = job.remote
  BY DEF confirmServiceJob, TypeOK, Job, Statuses, Moving
<1>3. watched' \in BOOLEAN /\ faults' \in 0..MaxFaults BY EmitTyped DEF confirmServiceJob
<1>4. door' = "start" /\ UNCHANGED <<kind, files, svc, polls, step, person, sup, news, doubled, lost>>
  BY DEF confirmServiceJob
<1>5. TypeOK' BY <1>2, <1>3, <1>4 DEF TypeOK
<1>q. QED BY <1>1, <1>2, <1>4, <1>5, StepsUnchanged DEF Good, Grows, RowNames, Stands, Finished

LEMMA expireOneGood ==
  ASSUME TypeOK, Known, expireOne
  PROVE  Good
<1>1. job.status = "awaiting_confirm" BY DEF expireOne
<1>2. job' \in Job /\ job'.remote = job.remote
  BY DEF expireOne, TypeOK, Job, Statuses, Finished
<1>3. watched' \in BOOLEAN /\ faults' \in 0..MaxFaults BY EmitTyped DEF expireOne
<1>4. UNCHANGED <<kind, files, svc, polls, step, door, person, sup, news, doubled, lost>>
  BY DEF expireOne
<1>5. TypeOK' BY <1>2, <1>3, <1>4 DEF TypeOK
<1>q. QED BY <1>1, <1>2, <1>4, <1>5, StepsUnchanged DEF Good, Grows, RowNames, Stands, Finished

LEMMA StartTyped ==
  ASSUME TypeOK, startQueuedJob
  PROVE  job' \in Job /\ job'.remote = job.remote /\ polls' \subseteq Attempts /\ Stands
<1>1. job \in Job /\ job.attempt \in Attempts BY DEF TypeOK, Job
<1>q. QED BY <1>1, MovedTyped, EnqueueTyped DEF startQueuedJob, Stands

LEMMA invokeReturnsGood ==
  ASSUME TypeOK, Known, invokeReturns
  PROVE  Good
<1>1. door' = "idle" /\ UNCHANGED <<kind, files, svc, step, person, sup, watched, news, faults, doubled, lost>>
  BY DEF invokeReturns
<1>2. job' \in Job /\ job'.remote = job.remote /\ polls' \subseteq Attempts /\ Stands
  <2>1. CASE startQueuedJob BY <2>1, StartTyped
  <2>2. CASE UNCHANGED <<job, polls>> BY <2>2 DEF TypeOK, Stands
  <2>q. QED BY <2>1, <2>2 DEF invokeReturns
<1>3. TypeOK' BY <1>1, <1>2 DEF TypeOK
<1>q. QED BY <1>1, <1>2, <1>3, StepsUnchanged DEF Good, Grows, RowNames

\* Reading the row.
Read(queued) ==
  [pc |-> IF job.at \in BuiltIn THEN "run" ELSE "hop",
   attempt |-> job.attempt, at |-> job.at, remote |-> job.remote,
   errors |-> job.errors, queued |-> queued]

LEMMA BeginTyped ==
  ASSUME TypeOK, NEW w \in Workers, NEW queued \in BOOLEAN, Begin(w, queued),
         job.status \notin Finished
  PROVE  /\ job' \in Job /\ watched' \in BOOLEAN /\ faults' \in 0..MaxFaults
         /\ svc' \in [Routes -> {"none", "run", "working", "asks", "done", "over"}]
         /\ step' \in [Workers -> Step] /\ Grows /\ RowNames /\ PollsHold /\ Stands
<1>1. job \in Job BY DEF TypeOK
<1>2. Read(queued) \in Step BY <1>1 DEF Read, Job, Step, PCs
<1>3. step' = [step EXCEPT ![w] = Read(queued)] BY DEF Begin, Read
<1>4. step' \in [Workers -> Step] BY <1>2, <1>3 DEF TypeOK
<1>5. \A v \in Workers : step'[v] = IF v = w THEN Read(queued) ELSE step[v] BY <1>3 DEF TypeOK
<1>6. Read(queued).remote = job.remote /\ Read(queued).pc # "submitted" BY DEF Read
<1>7. PollsHold BY <1>5, <1>6 DEF PollsHold
<1>8. CASE job.at \in BuiltIn
  <2>1. job' = Becomes("running") /\ emit /\ svc' = [svc EXCEPT ![job.at] = "run"]
    BY <1>8 DEF Begin
  <2>2. job' \in Job /\ job'.remote = job.remote
    BY <1>1, <2>1, BecomesTyped DEF Statuses, Moving
  <2>3. svc' \in [Routes -> {"none", "run", "working", "asks", "done", "over"}] /\ Grows
    BY <2>1 DEF TypeOK, Grows
  <2>q. QED BY <1>4, <1>7, <2>1, <2>2, <2>3, EmitTyped DEF RowNames, Stands
<1>9. CASE job.at \notin BuiltIn
  BY <1>4, <1>7, <1>9 DEF Begin, TypeOK, Grows, RowNames, Stands
<1>q. QED BY <1>8, <1>9

LEMMA beginPollGood ==
  ASSUME TypeOK, Known, NEW w \in Workers, NEW a \in Attempts, beginPoll(w, a)
  PROVE  Good
<1>1. polls' \subseteq Attempts BY DEF beginPoll, TypeOK
<1>2. UNCHANGED <<kind, files, door, person, sup, news, doubled, lost>> BY DEF beginPoll
<1>3. CASE UNCHANGED <<job, step, watched, faults, svc>>
  <2>1. TypeOK' BY <1>1, <1>2, <1>3 DEF TypeOK
  <2>q. QED BY <1>3, <2>1, StepsUnchanged DEF Good, Grows, RowNames, Stands
<1>4. CASE job.status \notin Finished /\ Begin(w, TRUE)
  <2>1. TypeOK' BY <1>1, <1>2, <1>4, BeginTyped DEF TypeOK
  <2>q. QED BY <1>4, <2>1, BeginTyped DEF Good
<1>q. QED BY <1>3, <1>4 DEF beginPoll

LEMMA runInlineGood ==
  ASSUME TypeOK, Known, NEW w \in Workers, runInline(w)
  PROVE  Good
<1>1. UNCHANGED <<kind, files, polls, door, person, sup, news, doubled, lost>> BY DEF runInline
<1>2. job.status \notin Finished /\ Begin(w, FALSE) BY DEF runInline, Moving, Finished
<1>3. TypeOK' BY <1>1, <1>2, BeginTyped DEF TypeOK
<1>q. QED BY <1>2, <1>3, BeginTyped DEF Good

LEMMA submitRemoteGood ==
  ASSUME TypeOK, Known, NEW w \in Workers, submitRemote(w)
  PROVE  Good
<1>1. UNCHANGED <<job, kind, files, polls, door, person, sup, watched, news, doubled>>
  BY DEF submitRemote
<1>2. step[w].at \in Routes BY DEF TypeOK, Step
<1>3. Accepts(step[w].at) =>
        /\ svc' \in [Routes -> {"none", "run", "working", "asks", "done", "over"}]
        /\ Grows /\ svc'[step[w].at] # "none"
  BY <1>2 DEF Accepts, TypeOK, Grows
<1>4. UNCHANGED svc =>
        svc' \in [Routes -> {"none", "run", "working", "asks", "done", "over"}] /\ Grows
  BY DEF TypeOK, Grows
<1>5. svc' \in [Routes -> {"none", "run", "working", "asks", "done", "over"}] /\ Grows
  BY <1>3, <1>4 DEF submitRemote
<1>6. step' \in [Workers -> Step] /\ PollsHold
  <2>1. CASE Goes(w, "submitted") /\ Accepts(step[w].at) BY <1>3, <2>1, GoesTyped DEF PCs
  <2>2. CASE Goes(w, "busy") BY <2>2, GoesTyped DEF PCs
  <2>3. CASE Goes(w, "refused") BY <2>3, GoesTyped DEF PCs
  <2>q. QED BY <2>1, <2>2, <2>3 DEF submitRemote
<1>7. faults' \in 0..MaxFaults BY FaultsCounted DEF submitRemote, TypeOK
<1>8. lost' \in BOOLEAN BY LosesTyped DEF submitRemote
<1>9. TypeOK' BY <1>1, <1>5, <1>6, <1>7, <1>8 DEF TypeOK
<1>q. QED BY <1>1, <1>5, <1>6, <1>9 DEF Good, RowNames, Stands

LEMMA askGood ==
  ASSUME TypeOK, Known, NEW w \in Workers, ask(w)
  PROVE  Good
<1>1. UNCHANGED <<job, kind, files, svc, polls, door, person, sup, watched, news, faults, doubled, lost>>
  BY DEF ask
<1>2. step[w].at \in Routes BY DEF TypeOK, Step
<1>3. step' \in [Workers -> Step] /\ PollsHold
  <2>1. CASE Goes(w, "busy") BY <2>1, GoesTyped DEF PCs
  <2>2. CASE step[w].remote = step[w].at /\ Goes(w, svc[step[w].at])
    <3>1. svc[step[w].at] # "none" BY <2>2 DEF ask, Known
    <3>2. svc[step[w].at] \in {"run", "working", "asks", "done", "over"}
      BY <1>2, <3>1 DEF TypeOK
    <3>q. QED BY <2>2, <3>2, GoesTyped DEF PCs
  <2>q. QED BY <2>1, <2>2 DEF ask
<1>4. TypeOK' BY <1>1, <1>3 DEF TypeOK
<1>q. QED BY <1>1, <1>3, <1>4 DEF Good, Grows, RowNames, Stands

LEMMA unreachableGood ==
  ASSUME TypeOK, Known, NEW w \in Workers, unreachable(w)
  PROVE  Good
<1>1. UNCHANGED <<job, kind, files, svc, door, person, sup, watched, news, doubled>>
  BY DEF unreachable
<1>2. step' \in [Workers -> Step] /\ PollsHold BY <1>1, EndsTyped DEF unreachable, TypeOK
<1>3. step[w].attempt \in Attempts BY DEF TypeOK, Step
<1>4. polls' \subseteq Attempts BY <1>3 DEF unreachable, TypeOK
<1>5. faults' \in 0..MaxFaults BY FaultsCounted DEF unreachable, TypeOK
<1>6. lost' \in BOOLEAN BY LosesTyped DEF unreachable
<1>7. TypeOK' BY <1>1, <1>2, <1>4, <1>5, <1>6 DEF TypeOK
<1>q. QED BY <1>1, <1>2, <1>7 DEF Good, Grows, RowNames, Stands

LEMMA takeSubmittedGood ==
  ASSUME TypeOK, Known, NEW w \in Workers, takeSubmitted(w)
  PROVE  Good
<1> DEFINE j == [Becomes("running") EXCEPT !.remote = step[w].at, !.errors = 0]
<1>1. UNCHANGED <<kind, files, svc, door, person, sup, news, doubled, lost>> BY DEF takeSubmitted
<1>2. step[w].pc = "submitted" /\ Absorbs(w, j) BY DEF takeSubmitted
<1>3. Becomes("running") \in Job BY BecomesTyped DEF TypeOK, Statuses, Moving
<1>4. step[w].at \in 0..NRoutes /\ 0 \in 0..MaxErrors
  BY ServicesAssumption DEF TypeOK, Step, Routes, ServicesAssumption
<1>5. j \in Job /\ j.remote = step[w].at BY <1>3, <1>4 DEF Job
<1>6. /\ job' \in Job /\ watched' \in BOOLEAN /\ faults' \in 0..MaxFaults
      /\ job' = j \/ job' = job
      /\ job.status \in Finished => job' = job
      /\ step' \in [Workers -> Step] /\ polls' \subseteq Attempts /\ PollsHold
  <2> HIDE DEF j
  <2>q. QED BY <1>1, <1>2, <1>5, AbsorbsTyped
<1> HIDE DEF j
<1>7. TypeOK' BY <1>1, <1>6 DEF TypeOK
<1>q. QED BY <1>1, <1>2, <1>5, <1>6, <1>7 DEF Good, Grows, RowNames, Stands

LEMMA takeFailureGood ==
  ASSUME TypeOK, Known, NEW w \in Workers, takeFailure(w)
  PROVE  Good
<1>1. UNCHANGED <<kind, files, svc, polls, door, person, sup, news, doubled, lost>> BY DEF takeFailure
<1>2. finish("failed", 0) \in Job /\ finish("failed", 0).remote = job.remote
  BY FinishTyped, ServicesAssumption DEF TypeOK, Statuses, Finished, ServicesAssumption
<1>3. /\ job' \in Job /\ watched' \in BOOLEAN /\ faults' \in 0..MaxFaults
      /\ job' = finish("failed", 0) \/ job' = job
      /\ job.status \in Finished => job' = job
  BY <1>2, UpdateTyped DEF takeFailure
<1>4. step' \in [Workers -> Step] /\ PollsHold BY <1>1, <1>3, EndsTyped DEF takeFailure
<1>5. TypeOK' BY <1>1, <1>3, <1>4 DEF TypeOK
<1>q. QED BY <1>1, <1>2, <1>3, <1>4, <1>5 DEF Good, Grows, RowNames, Stands

LEMMA ErrsTyped ==
  ASSUME TypeOK, NEW w \in Workers
  PROVE  Errs(w) \in 0..MaxErrors
<1>1. step[w].errors \in 0..MaxErrors BY DEF TypeOK, Step
<1>q. QED BY <1>1, ServicesAssumption DEF Errs, ServicesAssumption

LEMMA fallThroughGood ==
  ASSUME TypeOK, Known, NEW w \in Workers, fallThrough(w)
  PROVE  Good
<1>1. UNCHANGED <<kind, files, svc, door, person, sup, watched, news, faults, doubled, lost>>
  BY DEF fallThrough
<1>2. step[w].at + 1 \in Routes
  BY ServicesAssumption DEF fallThrough, FallsThrough, TypeOK, Step, Routes, ServicesAssumption
<1>3. job' \in Job /\ job'.remote = job.remote /\ Stands
  <2>1. CASE Holds(step[w].attempt)
    <3>1. job' = [job EXCEPT !.at = step[w].at + 1, !.errors = Errs(w)]
      BY <2>1 DEF fallThrough
    <3>2. job' \in Job /\ job'.remote = job.remote BY <1>2, <3>1, ErrsTyped DEF TypeOK, Job
    <3>q. QED BY <2>1, <3>2 DEF Holds, Stands
  <2>2. CASE ~Holds(step[w].attempt) BY <2>2 DEF fallThrough, TypeOK, Stands
  <2>q. QED BY <2>1, <2>2
<1>4. Ends(w) /\ polls' \subseteq Attempts BY QueueNextTyped DEF fallThrough
<1>5. step' \in [Workers -> Step] /\ PollsHold BY <1>1, <1>3, <1>4, EndsTyped
<1>6. TypeOK' BY <1>1, <1>3, <1>4, <1>5 DEF TypeOK
<1>q. QED BY <1>1, <1>3, <1>5, <1>6 DEF Good, Grows, RowNames

LEMMA countErrorGood ==
  ASSUME TypeOK, Known, NEW w \in Workers, countError(w)
  PROVE  Good
<1>1. UNCHANGED <<kind, files, svc, door, person, sup, news, doubled, lost>> BY DEF countError
<1>2. /\ job' \in Job /\ job'.remote = job.remote /\ Stands
      /\ watched' \in BOOLEAN /\ faults' \in 0..MaxFaults
      /\ Ends(w) /\ polls' \subseteq Attempts
  <2>1. CASE Errs(w) = MaxErrors
    <3> DEFINE j == [finish("failed", 0) EXCEPT !.errors = MaxErrors]
    <3>1. update(step[w].attempt, j) /\ Ends(w) /\ UNCHANGED polls BY <2>1 DEF countError
    <3>2. finish("failed", 0) \in Job /\ finish("failed", 0).remote = job.remote
      BY FinishTyped, ServicesAssumption DEF TypeOK, Statuses, Finished, ServicesAssumption
    <3>3. MaxErrors \in 0..MaxErrors BY ServicesAssumption DEF ServicesAssumption
    <3>4. j \in Job /\ j.remote = job.remote BY <3>2, <3>3 DEF Job
    <3> HIDE DEF j
    <3>5. /\ job' \in Job /\ watched' \in BOOLEAN /\ faults' \in 0..MaxFaults
          /\ job' = j \/ job' = job
          /\ job.status \in Finished => job' = job
      BY <3>1, <3>4, UpdateTyped
    <3>q. QED BY <3>1, <3>4, <3>5 DEF TypeOK, Stands
  <2>2. CASE Errs(w) # MaxErrors
    <3>1. /\ job' = IF Holds(step[w].attempt) THEN [job EXCEPT !.errors = Errs(w)] ELSE job
          /\ IF Holds(step[w].attempt) THEN QueueNext(w) ELSE Ends(w) /\ UNCHANGED polls
          /\ UNCHANGED <<watched, faults>>
      BY <2>2 DEF countError
    <3>2. job' \in Job /\ job'.remote = job.remote BY <3>1, ErrsTyped DEF TypeOK, Job
    <3>3. Stands BY <3>1 DEF Holds, Stands
    <3>4. Ends(w) /\ polls' \subseteq Attempts BY <3>1, QueueNextTyped DEF TypeOK
    <3>q. QED BY <3>1, <3>2, <3>3, <3>4 DEF TypeOK
  <2>q. QED BY <2>1, <2>2
<1>3. step' \in [Workers -> Step] /\ PollsHold BY <1>1, <1>2, EndsTyped
<1>4. TypeOK' BY <1>1, <1>2, <1>3 DEF TypeOK
<1>q. QED BY <1>1, <1>2, <1>3, <1>4 DEF Good, Grows, RowNames

LEMMA NewsCounted ==
  ASSUME TypeOK, news > 0, news' = news - 1
  PROVE  news' \in 0..MaxNews
BY ServicesAssumption DEF TypeOK, ServicesAssumption

LEMMA takeProgressGood ==
  ASSUME TypeOK, Known, NEW w \in Workers, takeProgress(w)
  PROVE  Good
<1> DEFINE j == [Becomes("running") EXCEPT !.errors = 0]
<1>1. UNCHANGED <<kind, files, svc, door, person, sup, doubled, lost>> BY DEF takeProgress
<1>2. j \in Job /\ j.remote = job.remote
  <2>1. Becomes("running") \in Job /\ Becomes("running").remote = job.remote
    BY BecomesTyped DEF TypeOK, Statuses, Moving
  <2>2. 0 \in 0..MaxErrors BY ServicesAssumption DEF ServicesAssumption
  <2>q. QED BY <2>1, <2>2 DEF Job
<1>3. \/ Absorbs(w, j) /\ UNCHANGED news
      \/ news > 0 /\ news' = news - 1 /\ Absorbs(w, Moved(j))
  BY DEF takeProgress
<1> HIDE DEF j
<1>4. Moved(j) \in Job /\ Moved(j).remote = job.remote BY <1>2, MovedTyped
<1>5. news' \in 0..MaxNews BY <1>3, NewsCounted DEF TypeOK
<1>6. /\ job' \in Job /\ watched' \in BOOLEAN /\ faults' \in 0..MaxFaults
      /\ job'.remote = job.remote
      /\ job.status \in Finished => job' = job
      /\ step' \in [Workers -> Step] /\ polls' \subseteq Attempts /\ PollsHold
  <2>1. CASE Absorbs(w, j) BY <1>1, <1>2, <2>1, AbsorbsTyped
  <2>2. CASE Absorbs(w, Moved(j)) BY <1>1, <1>4, <2>2, AbsorbsTyped
  <2>q. QED BY <1>3, <2>1, <2>2
<1>7. TypeOK' BY <1>1, <1>5, <1>6 DEF TypeOK
<1>q. QED BY <1>1, <1>6, <1>7 DEF Good, Grows, RowNames, Stands

LEMMA reportProgressGood ==
  ASSUME TypeOK, Known, NEW w \in Workers, reportProgress(w)
  PROVE  Good
<1>1. UNCHANGED <<kind, files, svc, polls, step, door, person, sup, watched, faults, doubled, lost>>
  BY DEF reportProgress
<1>2. news' \in 0..MaxNews BY NewsCounted DEF reportProgress
<1>3. job' \in Job /\ job'.remote = job.remote
  BY MovedTyped DEF reportProgress, TypeOK
<1>4. Stands BY MovedTyped DEF reportProgress, TypeOK, Stands
<1>5. TypeOK' BY <1>1, <1>2, <1>3 DEF TypeOK
<1>q. QED BY <1>1, <1>3, <1>4, <1>5, StepsUnchanged DEF Good, Grows, RowNames

LEMMA takeQuestionGood ==
  ASSUME TypeOK, Known, NEW w \in Workers, takeQuestion(w)
  PROVE  Good
<1> DEFINE j == [Becomes("needs_input") EXCEPT !.errors = 0]
<1>1. UNCHANGED <<kind, files, svc, door, person, sup, news, doubled, lost>> BY DEF takeQuestion
<1>2. j \in Job /\ j.remote = job.remote
  <2>1. Becomes("needs_input") \in Job /\ Becomes("needs_input").remote = job.remote
    BY BecomesTyped DEF TypeOK, Statuses
  <2>2. 0 \in 0..MaxErrors BY ServicesAssumption DEF ServicesAssumption
  <2>q. QED BY <2>1, <2>2 DEF Job
<1>3. Absorbs(w, j) BY DEF takeQuestion
<1> HIDE DEF j
<1>4. /\ job' \in Job /\ watched' \in BOOLEAN /\ faults' \in 0..MaxFaults
      /\ job'.remote = job.remote
      /\ job.status \in Finished => job' = job
      /\ step' \in [Workers -> Step] /\ polls' \subseteq Attempts /\ PollsHold
  BY <1>1, <1>2, <1>3, AbsorbsTyped
<1>5. TypeOK' BY <1>1, <1>4 DEF TypeOK
<1>q. QED BY <1>1, <1>4, <1>5 DEF Good, Grows, RowNames, Stands

LEMMA recordOutputsGood ==
  ASSUME TypeOK, Known, NEW w \in Workers, recordOutputs(w)
  PROVE  Good
<1>1. UNCHANGED <<job, kind, svc, polls, door, person, sup, watched, news, faults, doubled, lost>>
  BY DEF recordOutputs
<1>2. files' \in 0..NRoutes
  BY ServicesAssumption DEF recordOutputs, TypeOK, Step, Routes, ServicesAssumption
<1>3. step' \in [Workers -> Step] /\ PollsHold BY GoesTyped DEF recordOutputs, PCs
<1>4. TypeOK' BY <1>1, <1>2, <1>3 DEF TypeOK
<1>q. QED BY <1>1, <1>3, <1>4 DEF Good, Grows, RowNames, Stands

LEMMA takeAnswerGood ==
  ASSUME TypeOK, Known, NEW w \in Workers, takeAnswer(w)
  PROVE  Good
<1>1. UNCHANGED <<kind, files, svc, polls, door, person, sup, news, doubled, lost>> BY DEF takeAnswer
<1>2. step[w].at \in 0..NRoutes
  BY ServicesAssumption DEF TypeOK, Step, Routes, ServicesAssumption
<1>3. finish("done", step[w].at) \in Job /\ finish("done", step[w].at).remote = job.remote
  BY <1>2, FinishTyped DEF TypeOK, Statuses, Finished
<1>4. /\ job' \in Job /\ watched' \in BOOLEAN /\ faults' \in 0..MaxFaults
      /\ job' = finish("done", step[w].at) \/ job' = job
      /\ job.status \in Finished => job' = job
  BY <1>3, UpdateTyped DEF takeAnswer
<1>5. step' \in [Workers -> Step] /\ PollsHold BY <1>1, <1>4, EndsTyped DEF takeAnswer
<1>6. TypeOK' BY <1>1, <1>4, <1>5 DEF TypeOK
<1>q. QED BY <1>1, <1>3, <1>4, <1>5, <1>6 DEF Good, Grows, RowNames, Stands

LEMMA PollGood ==
  ASSUME TypeOK, Known, NEW w \in Workers, Poll(w)
  PROVE  Good
BY submitRemoteGood, askGood, unreachableGood, takeSubmittedGood, takeFailureGood,
   fallThroughGood, countErrorGood, takeProgressGood, reportProgressGood, takeQuestionGood,
   recordOutputsGood, takeAnswerGood DEF Poll

LEMMA CancelsTyped ==
  ASSUME TypeOK, CancelsRemote
  PROVE  svc' \in [Routes -> {"none", "run", "working", "asks", "done", "over"}] /\ Grows
BY DEF CancelsRemote, TypeOK, Grows

LEMMA NobodyTyped == Nobody \in [pc : {"idle", "answer", "cancel"}, attempt : Attempts]
BY ServicesAssumption DEF Nobody, Attempts, ServicesAssumption

LEMMA answerGood ==
  ASSUME TypeOK, Known, answer
  PROVE  Good
<1>1. UNCHANGED <<job, kind, files, polls, step, door, sup, watched, news, faults, doubled, lost>>
  BY DEF answer
<1>2. svc' \in [Routes -> {"none", "run", "working", "asks", "done", "over"}] /\ Grows
  BY DEF answer, TypeOK, Grows
<1>3. person' \in [pc : {"idle", "answer", "cancel"}, attempt : Attempts]
  BY DEF answer, TypeOK, Job
<1>4. TypeOK' BY <1>1, <1>2, <1>3 DEF TypeOK
<1>q. QED BY <1>1, <1>2, <1>4, StepsUnchanged DEF Good, RowNames, Stands

LEMMA answerTakenGood ==
  ASSUME TypeOK, Known, answerTaken
  PROVE  Good
<1>1. UNCHANGED <<kind, files, svc, step, door, sup, news, doubled, lost>> /\ person' = Nobody
  BY DEF answerTaken
<1>2. Becomes("running") \in Job /\ Becomes("running").remote = job.remote
  BY BecomesTyped DEF TypeOK, Statuses, Moving
<1>3. Moved(Becomes("running")) \in Job /\ Moved(Becomes("running")).remote = job.remote
  BY <1>2, MovedTyped
<1>4. /\ job' \in Job /\ watched' \in BOOLEAN /\ faults' \in 0..MaxFaults
      /\ job' = Moved(Becomes("running")) \/ job' = job
      /\ job.status \in Finished => job' = job
  BY <1>3, UpdateTyped DEF answerTaken
<1>5. job.attempt \in Attempts BY DEF TypeOK, Job
<1>6. polls' \subseteq Attempts BY <1>5, EnqueueTyped DEF answerTaken, TypeOK
<1>7. TypeOK' BY <1>1, <1>4, <1>6, NobodyTyped DEF TypeOK
<1>q. QED BY <1>1, <1>3, <1>4, <1>7, StepsUnchanged DEF Good, Grows, RowNames, Stands

LEMMA cancelGood ==
  ASSUME TypeOK, Known, cancel
  PROVE  Good
<1>1. UNCHANGED <<job, kind, files, polls, step, door, sup, watched, news, faults, doubled, lost>>
  BY DEF cancel
<1>2. svc' \in [Routes -> {"none", "run", "working", "asks", "done", "over"}] /\ Grows
  BY CancelsTyped DEF cancel
<1>3. person' \in [pc : {"idle", "answer", "cancel"}, attempt : Attempts]
  BY DEF cancel, TypeOK, Job
<1>4. TypeOK' BY <1>1, <1>2, <1>3 DEF TypeOK
<1>q. QED BY <1>1, <1>2, <1>4, StepsUnchanged DEF Good, RowNames, Stands

LEMMA cancelTakenGood ==
  ASSUME TypeOK, Known, cancelTaken
  PROVE  Good
<1>1. UNCHANGED <<kind, files, svc, polls, step, door, sup, news, doubled, lost>> /\ person' = Nobody
  BY DEF cancelTaken
<1>2. finish("cancelled", 0) \in Job /\ finish("cancelled", 0).remote = job.remote
  BY FinishTyped, ServicesAssumption DEF TypeOK, Statuses, Finished, ServicesAssumption
<1>3. /\ job' \in Job /\ watched' \in BOOLEAN /\ faults' \in 0..MaxFaults
      /\ job' = finish("cancelled", 0) \/ job' = job
      /\ job.status \in Finished => job' = job
  BY <1>2, UpdateTyped DEF cancelTaken
<1>4. TypeOK' BY <1>1, <1>3, NobodyTyped DEF TypeOK
<1>q. QED BY <1>1, <1>2, <1>3, <1>4, StepsUnchanged DEF Good, Grows, RowNames, Stands

LEMMA superviseMovingGood ==
  ASSUME TypeOK, Known, superviseMoving
  PROVE  Good
<1>1. UNCHANGED <<kind, files, svc, polls, step, door, person, watched, news, faults, doubled, lost>>
  BY DEF superviseMoving
<1>2. job.status \notin Finished BY DEF superviseMoving, Moving, Finished
<1>3. job' \in Job /\ job'.remote = job.remote BY DEF superviseMoving, TypeOK, Job
<1>4. sup' \in {"idle", "nudge", "hand", "start"} BY DEF superviseMoving
<1>5. TypeOK' BY <1>1, <1>3, <1>4 DEF TypeOK
<1>q. QED BY <1>1, <1>2, <1>3, <1>5, StepsUnchanged DEF Good, Grows, RowNames, Stands

LEMMA superviseFinishedGood ==
  ASSUME TypeOK, Known, superviseFinished
  PROVE  Good
<1>1. UNCHANGED <<job, kind, files, svc, polls, step, door, person, sup, news, faults, doubled, lost>>
  BY DEF superviseFinished
<1>2. watched' \in BOOLEAN BY DEF superviseFinished
<1>3. TypeOK' BY <1>1, <1>2 DEF TypeOK
<1>q. QED BY <1>1, <1>3, StepsUnchanged DEF Good, Grows, RowNames, Stands

LEMMA nudgeStalledGood ==
  ASSUME TypeOK, Known, nudgeStalled
  PROVE  Good
<1>1. UNCHANGED <<kind, files, svc, step, door, person, watched, news, faults, lost>> /\ sup' = "idle"
  BY DEF nudgeStalled
<1>2. job' \in Job /\ job'.remote = job.remote
  <2>1. Stalled \in {"no", "yes", "overtaken"} BY DEF Stalled
  <2>2. job' = [job EXCEPT !.still = FALSE, !.stalled = Stalled] \/ job' = job
    BY DEF nudgeStalled
  <2>q. QED BY <2>1, <2>2 DEF TypeOK, Job
<1>3. Stands BY DEF nudgeStalled, Moving, Finished, Stands
<1>4. job.attempt \in Attempts BY DEF TypeOK, Job
<1>5. polls' \subseteq Attempts /\ doubled' \subseteq Attempts BY <1>4 DEF nudgeStalled, TypeOK
<1>6. TypeOK' BY <1>1, <1>2, <1>5 DEF TypeOK
<1>q. QED BY <1>1, <1>2, <1>3, <1>6, StepsUnchanged DEF Good, Grows, RowNames

LEMMA handOnGood ==
  ASSUME TypeOK, Known, handOn
  PROVE  Good
<1>1. UNCHANGED <<kind, files, polls, step, door, person, news, lost>> BY DEF handOn
<1>4. job' \in Job => doubled' \subseteq Attempts BY DEF handOn, TypeOK, Job
<1>2. CASE job.status \notin Moving
  <2>1. sup' = "idle" /\ UNCHANGED <<job, svc, watched, faults>> BY <1>2 DEF handOn
  <2>2. TypeOK' BY <1>1, <1>4, <2>1 DEF TypeOK
  <2>q. QED BY <1>1, <2>1, <2>2, StepsUnchanged DEF Good, Grows, RowNames, Stands
<1>3. CASE job.status \in Moving
  <2>1. watched' \in BOOLEAN /\ faults' \in 0..MaxFaults BY <1>3, EmitTyped DEF handOn
  <2>2. svc' \in [Routes -> {"none", "run", "working", "asks", "done", "over"}] /\ Grows
    <3>1. CASE UNCHANGED svc BY <3>1 DEF TypeOK, Grows
    <3>q. QED BY <1>3, <3>1, CancelsTyped DEF handOn
  <2>3. Stands BY <1>3 DEF Moving, Finished, Stands
  <2>4. job' \in Job /\ job'.remote \in {0, job.remote} /\ sup' \in {"idle", "start"}
    <3>1. CASE MayHandOn
      <4>1. job' = HandedOn /\ sup' = "start" BY <1>3, <3>1 DEF handOn
      <4>2. job.at + 1 \in Routes
        BY <3>1, ServicesAssumption DEF MayHandOn, TypeOK, Job, Routes, ServicesAssumption
      <4>3. job.attempt + 1 \in Attempts
        BY <3>1, ServicesAssumption DEF MayHandOn, TypeOK, Job, Attempts, ServicesAssumption
      <4>4. 0 \in 0..NRoutes /\ 0 \in 0..MaxErrors
        BY ServicesAssumption DEF ServicesAssumption
      <4>5. HandedOn \in Job /\ HandedOn.remote = 0
        BY <4>2, <4>3, <4>4 DEF HandedOn, TypeOK, Job, Statuses, Moving
      <4>q. QED BY <4>1, <4>5
    <3>2. CASE ~MayHandOn
      <4>1. job' = [finish("failed", 0) EXCEPT !.stalled = job.stalled] /\ sup' = "idle"
        BY <1>3, <3>2 DEF handOn
      <4>2. finish("failed", 0) \in Job /\ finish("failed", 0).remote = job.remote
        BY FinishTyped, ServicesAssumption DEF TypeOK, Statuses, Finished, ServicesAssumption
      <4>3. job.stalled \in {"no", "yes", "overtaken"} BY DEF TypeOK, Job
      <4>4. [finish("failed", 0) EXCEPT !.stalled = job.stalled] \in Job
            /\ [finish("failed", 0) EXCEPT !.stalled = job.stalled].remote = job.remote
        BY <4>2, <4>3 DEF Job
      <4>q. QED BY <4>1, <4>4
    <3>q. QED BY <3>1, <3>2
  <2>5. TypeOK' BY <1>1, <1>4, <2>1, <2>2, <2>4 DEF TypeOK
  <2>q. QED BY <1>1, <2>2, <2>3, <2>4, <2>5, StepsUnchanged DEF Good, RowNames
<1>q. QED BY <1>2, <1>3

LEMMA handOnReturnsGood ==
  ASSUME TypeOK, Known, handOnReturns
  PROVE  Good
<1>1. sup' = "idle" /\ UNCHANGED <<kind, files, svc, step, door, person, watched, news, faults, doubled, lost>>
  BY DEF handOnReturns
<1>2. job' \in Job /\ job'.remote = job.remote /\ polls' \subseteq Attempts /\ Stands
  BY StartTyped DEF handOnReturns
<1>3. TypeOK' BY <1>1, <1>2 DEF TypeOK
<1>q. QED BY <1>1, <1>2, <1>3, StepsUnchanged DEF Good, Grows, RowNames

LEMMA serviceWorksGood ==
  ASSUME TypeOK, Known, NEW r \in Routes, serviceWorks(r)
  PROVE  Good
<1>1. UNCHANGED <<job, kind, files, polls, step, door, person, sup, watched, faults, doubled, lost>>
  BY DEF serviceWorks
<1>2. svc' \in [Routes -> {"none", "run", "working", "asks", "done", "over"}] /\ Grows
  BY DEF serviceWorks, TypeOK, Grows
<1>3. news' \in 0..MaxNews BY NewsCounted DEF serviceWorks, TypeOK
<1>4. TypeOK' BY <1>1, <1>2, <1>3 DEF TypeOK
<1>q. QED BY <1>1, <1>2, <1>4, StepsUnchanged DEF Good, RowNames, Stands

LEMMA crashGood ==
  ASSUME TypeOK, Known, crash
  PROVE  Good
<1>1. UNCHANGED <<job, kind, files, svc, watched, news, doubled>> BY DEF crash
<1>2. \A w \in Workers : step[w].attempt \in Attempts BY DEF TypeOK, Step
<1>3. polls' \subseteq Attempts BY <1>2 DEF crash, TypeOK
<1>4. step' \in [Workers -> Step] /\ PollsHold BY IdleTyped DEF crash, PollsHold
<1>5. faults' \in 0..MaxFaults BY FaultsCounted DEF crash
<1>6. person' = Nobody /\ door' = "idle" /\ sup' = "idle" BY DEF crash
<1>7. lost' \in BOOLEAN BY LosesTyped DEF crash
<1>8. TypeOK' BY <1>1, <1>3, <1>4, <1>5, <1>6, <1>7, NobodyTyped DEF TypeOK
<1>q. QED BY <1>1, <1>4, <1>8 DEF Good, Grows, RowNames, Stands

LEMMA StutterGood ==
  ASSUME TypeOK, Known, UNCHANGED vars
  PROVE  Good
<1>1. UNCHANGED <<job, kind, files, svc, polls, step, door, person, sup, watched, news, faults, doubled, lost>>
  BY DEF vars
<1>2. TypeOK' BY <1>1 DEF TypeOK
<1>q. QED BY <1>1, <1>2, StepsUnchanged DEF Good, Grows, RowNames, Stands

------------------------------------------------------------------------------
(* The theorems                                                            *)

LEMMA InitHolds == Init => TypeOK /\ Known
<1> SUFFICES ASSUME Init PROVE TypeOK /\ Known OBVIOUS
<1>1. 1 \in Routes /\ 0 \in Attempts /\ 0 \in 0..NRoutes /\ 0 \in 0..MaxErrors
      /\ MaxNews \in 0..MaxNews /\ 0 \in 0..MaxFaults
  BY ServicesAssumption DEF ServicesAssumption, Routes, Attempts
<1>2. job \in Job BY <1>1 DEF Init, Job, Statuses
<1>3. step \in [Workers -> Step] BY IdleTyped DEF Init
<1>4. TypeOK BY <1>1, <1>2, <1>3, NobodyTyped DEF Init, TypeOK
<1>5. Known BY IdleTyped DEF Init, Known
<1>q. QED BY <1>4, <1>5

LEMMA NextGood ==
  ASSUME TypeOK, Known, [Next]_vars
  PROVE  Good /\ Known'
<1>1. Good
  <2>1. CASE invokeAs \/ confirmServiceJob \/ expireOne \/ invokeReturns
    BY <2>1, invokeAsGood, confirmGood, expireOneGood, invokeReturnsGood
  <2>2. CASE answer \/ answerTaken \/ cancel \/ cancelTaken
    BY <2>2, answerGood, answerTakenGood, cancelGood, cancelTakenGood
  <2>3. CASE supervise
    BY <2>3, superviseMovingGood, superviseFinishedGood, nudgeStalledGood, handOnGood,
       handOnReturnsGood DEF supervise
  <2>4. CASE crash BY <2>4, crashGood
  <2>5. ASSUME NEW w \in Workers, Poll(w) \/ runInline(w) PROVE Good
    BY <2>5, PollGood, runInlineGood
  <2>6. ASSUME NEW w \in Workers, NEW a \in Attempts, beginPoll(w, a) PROVE Good
    BY <2>6, beginPollGood
  <2>7. ASSUME NEW r \in Routes, serviceWorks(r) PROVE Good BY <2>7, serviceWorksGood
  <2>8. CASE UNCHANGED vars BY <2>8, StutterGood
  <2>q. QED BY <2>1, <2>2, <2>3, <2>4, <2>5, <2>6, <2>7, <2>8 DEF Next
<1>2. Known' BY <1>1, KnownStays DEF Good
<1>q. QED BY <1>1, <1>2

\* Every variable keeps its type; whoever names a remote job names one that a
\* service knows, which is why a poll's answer is never that of a stranger.
THEOREM Invariant == Spec => [](TypeOK /\ Known)
<1>1. TypeOK /\ Known /\ [Next]_vars => (TypeOK /\ Known)' BY NextGood DEF Good
<1>q. QED BY InitHolds, <1>1, PTL DEF Spec

\* Every variable keeps its type.
THEOREM TypeCorrect == Spec => []TypeOK
BY Invariant, PTL

\* A job that has finished keeps its status, its answer and its attempt,
\* whatever polls, visits, answers and cancels were under way when it did.
THEOREM EndsAreFinal == Spec => EndStays
<1>1. TypeOK /\ Known /\ [Next]_vars =>
        [job.status \in Finished =>
           /\ job'.status = job.status
           /\ job'.output = job.output
           /\ job'.attempt = job.attempt]_vars
  BY NextGood DEF Good, Stands
<1>q. QED BY Invariant, <1>1, PTL DEF Spec, EndStays

------------------------------------------------------------------------------
(* Somebody carries the job on                                             *)

Carried ==
  \/ job.attempt \in polls
  \/ \E w \in Workers : step[w].pc # "idle" /\ step[w].attempt = job.attempt
  \/ door # "idle" \/ sup = "start"

\* A poll of the queue is under way while its worker has its key, and one
\* inside a call while that call has not returned.
PollsAreHeld ==
  \A w \in Workers :
    /\ step[w].queued => step[w].pc # "idle"
    /\ step[w].pc # "idle" /\ ~step[w].queued => door # "idle"

Chain == PollsAreHeld /\ ChainGoesOn

LEMMA GoesWrongShows ==
  ASSUME TypeOK, GoesWrong
  PROVE  faults' # 0
BY ServicesAssumption DEF TypeOK, GoesWrong, ServicesAssumption

LEMMA EmitShows ==
  ASSUME TypeOK, emit, faults' = 0
  PROVE  faults = 0
BY GoesWrongShows DEF emit

LEMMA UpdateShows ==
  ASSUME TypeOK, NEW a, NEW j, update(a, j)
  PROVE  /\ faults' = 0 => faults = 0
         /\ Holds(a) => job' = j
         /\ ~Holds(a) => job' = job
BY EmitShows DEF update

\* Nothing that carries the job is touched.
LEMMA Untouched ==
  ASSUME TypeOK, Carried, job'.attempt = job.attempt, polls \subseteq polls', UNCHANGED step,
         door # "idle" => door' # "idle", sup = "start" => sup' = "start"
  PROVE  Carried'
BY DEF Carried

LEMMA HeldUntouched ==
  ASSUME PollsAreHeld, UNCHANGED step, door # "idle" => door' # "idle"
  PROVE  PollsAreHeld'
BY DEF PollsAreHeld

LEMMA IdleIsFree == Idle.pc = "idle" /\ Idle.queued = FALSE
BY DEF Idle

LEMMA EndsHeld ==
  ASSUME TypeOK, PollsAreHeld, NEW w \in Workers, Ends(w), UNCHANGED door
  PROVE  PollsAreHeld'
<1>1. \A v \in Workers : step'[v] = IF v = w THEN Idle ELSE step[v] BY DEF Ends, TypeOK
<1>q. QED BY <1>1, IdleIsFree DEF PollsAreHeld

LEMMA GoesHeld ==
  ASSUME TypeOK, PollsAreHeld, NEW w \in Workers, NEW pc, pc # "idle", Goes(w, pc),
         step[w].pc # "idle", UNCHANGED door
  PROVE  PollsAreHeld' /\ (\A v \in Workers : step'[v].attempt = step[v].attempt)
         /\ (\A v \in Workers : step[v].pc # "idle" => step'[v].pc # "idle")
<1>1. step' = [step EXCEPT ![w] = [step[w] EXCEPT !.pc = pc]] BY DEF Goes, TypeOK
<1>2. step[w] \in Step BY DEF TypeOK
<1>3. \A v \in Workers :
        step'[v] = IF v = w THEN [step[w] EXCEPT !.pc = pc] ELSE step[v]
  BY <1>1 DEF TypeOK
<1>4. [step[w] EXCEPT !.pc = pc].attempt = step[w].attempt
      /\ [step[w] EXCEPT !.pc = pc].queued = step[w].queued
      /\ [step[w] EXCEPT !.pc = pc].pc = pc
  BY <1>2 DEF Step
<1>q. QED BY <1>3, <1>4 DEF PollsAreHeld

\* A poll that goes on.
LEMMA GoesCarried ==
  ASSUME TypeOK, Chain, NEW w \in Workers, NEW pc, pc # "idle", Goes(w, pc),
         step[w].pc # "idle", UNCHANGED <<job, polls, door, sup>>, faults' = 0 => faults = 0
  PROVE  Chain'
<1>1. PollsAreHeld' BY GoesHeld DEF Chain
<1>2. ASSUME Carried PROVE Carried' BY <1>2, GoesHeld DEF Chain, Carried
<1>q. QED BY <1>1, <1>2 DEF Chain, ChainGoesOn, Carried

LEMMA EnqueueCarries ==
  ASSUME TypeOK, PollsAreHeld, NEW S, S \subseteq Workers, enqueue(job.attempt, S),
         \A v \in S : step'[v] = step[v], job'.attempt = job.attempt
  PROVE  Carried'
<1>1. CASE polls' = polls \cup {job.attempt} BY <1>1 DEF Carried
<1>2. CASE \E v \in S : Carries(v, job.attempt)
  BY <1>2 DEF Carries, Carried, PollsAreHeld
<1>q. QED BY <1>1, <1>2 DEF enqueue

\* A poll of the job's attempt that ends with the next one queued.
LEMMA QueueNextCarries ==
  ASSUME TypeOK, PollsAreHeld, NEW w \in Workers, step[w].pc # "idle", QueueNext(w),
         UNCHANGED door, step[w].attempt = job.attempt, job'.attempt = job.attempt
  PROVE  Carried'
<1>1. CASE step[w].queued
  <2>1. enqueue(job.attempt, Workers \ {w}) BY <1>1 DEF QueueNext
  <2>2. \A v \in Workers \ {w} : step'[v] = step[v] BY DEF QueueNext, Ends, TypeOK
  <2>q. QED BY <2>1, <2>2, EnqueueCarries
<1>2. CASE ~step[w].queued BY <1>2 DEF PollsAreHeld, Carried
<1>q. QED BY <1>1, <1>2

\* A poll of another attempt that ends.
LEMMA OthersCarry ==
  ASSUME TypeOK, Carried, NEW w \in Workers, Ends(w), polls \subseteq polls',
         UNCHANGED <<door, sup>>, job'.attempt = job.attempt, step[w].attempt # job.attempt
  PROVE  Carried'
<1>1. \A v \in Workers : v # w => step'[v] = step[v] BY DEF Ends, TypeOK
<1>q. QED BY <1>1 DEF Carried

\* A poll that absorbs what it heard.
LEMMA AbsorbsCarried ==
  ASSUME TypeOK, Chain, NEW w \in Workers, NEW j, Absorbs(w, j), step[w].pc # "idle",
         j.attempt = job.attempt, UNCHANGED <<door, sup>>
  PROVE  Chain'
<1>1. update(step[w].attempt, j) BY DEF Absorbs
<1>2. Ends(w) BY DEF Absorbs, QueueNext
<1>3. PollsAreHeld' BY <1>2, EndsHeld DEF Chain
<1>4. CASE Holds(step[w].attempt)
  <2>1. job' = j /\ QueueNext(w) /\ step[w].attempt = job.attempt
    BY <1>1, <1>4, UpdateShows DEF Absorbs, Holds
  <2>2. Carried' BY <2>1, QueueNextCarries DEF Chain
  <2>q. QED BY <1>3, <2>2 DEF Chain, ChainGoesOn, Carried
<1>5. CASE ~Holds(step[w].attempt)
  <2>1. job' = job /\ UNCHANGED polls /\ (faults' = 0 => faults = 0)
    BY <1>1, <1>5, UpdateShows DEF Absorbs
  <2>2. ASSUME job'.status \in Moving, faults' = 0 PROVE Carried'
    <3>1. Carried BY <2>1, <2>2 DEF Chain, ChainGoesOn, Carried
    <3>2. step[w].attempt # job.attempt BY <1>5, <2>1, <2>2 DEF Holds, Moving, Finished
    <3>q. QED BY <1>2, <2>1, <3>1, <3>2, OthersCarry
  <2>q. QED BY <1>3, <2>2 DEF Chain, ChainGoesOn, Carried
<1>q. QED BY <1>4, <1>5

\* A poll that settles the job, or finds that it may not.
LEMMA SettlesCarried ==
  ASSUME TypeOK, Chain, NEW w \in Workers, NEW j, update(step[w].attempt, j), Ends(w),
         j.status \in Finished, UNCHANGED <<polls, door, sup>>
  PROVE  Chain'
<1>1. PollsAreHeld' BY EndsHeld DEF Chain
<1>2. ASSUME job'.status \in Moving, faults' = 0 PROVE Carried'
  <2>1. ~Holds(step[w].attempt) BY <1>2, UpdateShows DEF Moving, Finished
  <2>2. job' = job /\ faults = 0 BY <1>2, <2>1, UpdateShows
  <2>3. Carried BY <1>2, <2>2 DEF Chain, ChainGoesOn, Carried
  <2>4. step[w].attempt # job.attempt BY <1>2, <2>1, <2>2 DEF Holds, Moving, Finished
  <2>q. QED BY <2>2, <2>3, <2>4, OthersCarry
<1>q. QED BY <1>1, <1>2 DEF Chain, ChainGoesOn, Carried

\* A step that keeps the carriers and moves no job that did not move.
LEMMA QuietChain ==
  ASSUME TypeOK, Chain, UNCHANGED <<step, polls>>, job'.attempt = job.attempt,
         door # "idle" => door' # "idle", sup = "start" => sup' = "start",
         job'.status \in Moving => job.status \in Moving, faults' = 0 => faults = 0
  PROVE  Chain'
<1>1. PollsAreHeld' BY HeldUntouched DEF Chain
<1>2. ASSUME Carried PROVE Carried' BY <1>2, Untouched
<1>q. QED BY <1>1, <1>2 DEF Chain, ChainGoesOn, Carried

LEMMA StartCarries ==
  ASSUME TypeOK, PollsAreHeld, startQueuedJob, UNCHANGED step
  PROVE  Carried'
<1>1. job \in Job BY DEF TypeOK
<1>2. job'.attempt = job.attempt BY <1>1, MovedTyped DEF startQueuedJob
<1>3. enqueue(job.attempt, Workers) BY DEF startQueuedJob
<1>q. QED BY <1>2, <1>3, EnqueueCarries

LEMMA invokeChain ==
  ASSUME TypeOK, Chain, invokeAs \/ confirmServiceJob
  PROVE  Chain'
<1>1. faults' = 0 => faults = 0 BY EmitShows DEF invokeAs, confirmServiceJob
<1>2. door # "idle" => door' # "idle" BY DEF invokeAs, confirmServiceJob
<1>3. PollsAreHeld' BY <1>2, HeldUntouched DEF invokeAs, confirmServiceJob, Chain
<1>4. job'.status \in Moving => door' # "idle"
  BY DEF invokeAs, confirmServiceJob, TypeOK, Job, Moving
<1>q. QED BY <1>3, <1>4 DEF Chain, ChainGoesOn

LEMMA expireChain ==
  ASSUME TypeOK, Chain, expireOne
  PROVE  Chain'
<1>1. job'.status \notin Moving BY DEF expireOne, TypeOK, Job, Moving
<1>2. PollsAreHeld' BY HeldUntouched DEF expireOne, Chain
<1>q. QED BY <1>1, <1>2 DEF Chain, ChainGoesOn

LEMMA invokeReturnsChain ==
  ASSUME TypeOK, Chain, invokeReturns
  PROVE  Chain'
<1>1. UNCHANGED <<step, sup, faults>> /\ Inline = {} BY DEF invokeReturns
<1>2. PollsAreHeld' BY <1>1 DEF Inline, Chain, PollsAreHeld
<1>3. job'.status \in Moving => Carried'
  <2>1. CASE startQueuedJob BY <1>1, <2>1, StartCarries DEF Chain
  <2>2. CASE job.status \in Finished \cup {"needs_input"} /\ UNCHANGED <<job, polls>>
    BY <2>2 DEF Moving, Finished
  <2>q. QED BY <2>1, <2>2 DEF invokeReturns
<1>q. QED BY <1>2, <1>3 DEF Chain, ChainGoesOn, Carried

LEMMA BeginChain ==
  ASSUME TypeOK, Chain, NEW w \in Workers, NEW queued \in BOOLEAN, Begin(w, queued),
         step[w].pc = "idle", queued \/ door # "idle", UNCHANGED door
  PROVE  Chain'
<1>1. step' = [step EXCEPT ![w] = Read(queued)] BY DEF Begin, Read
<1>2. \A v \in Workers : step'[v] = IF v = w THEN Read(queued) ELSE step[v] BY <1>1 DEF TypeOK
<1>3. Read(queued).pc # "idle" /\ Read(queued).queued = queued
      /\ Read(queued).attempt = job.attempt
  BY DEF Read
<1>4. PollsAreHeld' BY <1>2, <1>3 DEF Chain, PollsAreHeld
<1>5. job'.attempt = job.attempt BY BecomesTyped DEF Begin, TypeOK, Statuses, Moving
<1>6. Carried' BY <1>2, <1>3, <1>5 DEF Carried
<1>q. QED BY <1>4, <1>6 DEF Chain, ChainGoesOn, Carried

LEMMA beginPollChain ==
  ASSUME TypeOK, Chain, NEW w \in Workers, NEW a \in Attempts, beginPoll(w, a)
  PROVE  Chain'
<1>1. CASE /\ job.status \in Finished \cup {"awaiting_confirm"} \/ job.attempt # a
           /\ UNCHANGED <<job, step, watched, faults, svc>>
  <2>1. PollsAreHeld' BY <1>1, HeldUntouched DEF beginPoll, Chain
  <2>2. job.status \in Moving => job.attempt # a BY <1>1 DEF Moving, Finished
  <2>3. job.attempt \in polls /\ job.attempt # a => job.attempt \in polls' BY DEF beginPoll
  <2>4. UNCHANGED <<door, sup>> BY DEF beginPoll
  <2>q. QED BY <1>1, <2>1, <2>2, <2>3, <2>4 DEF Chain, ChainGoesOn
<1>2. CASE Begin(w, TRUE) BY <1>2, BeginChain DEF beginPoll
<1>q. QED BY <1>1, <1>2 DEF beginPoll

LEMMA runInlineChain ==
  ASSUME TypeOK, Chain, NEW w \in Workers, runInline(w)
  PROVE  Chain'
BY BeginChain DEF runInline

LEMMA submitRemoteChain ==
  ASSUME TypeOK, Chain, NEW w \in Workers, submitRemote(w)
  PROVE  Chain'
<1>1. UNCHANGED <<job, polls, door, sup>> /\ step[w].pc # "idle" BY DEF submitRemote
<1>2. faults' = 0 => faults = 0 BY GoesWrongShows DEF submitRemote
<1>3. \E pc \in {"submitted", "busy", "refused"} : Goes(w, pc) BY DEF submitRemote
<1>q. QED BY <1>1, <1>2, <1>3, GoesCarried

LEMMA askChain ==
  ASSUME TypeOK, Chain, NEW w \in Workers, ask(w)
  PROVE  Chain'
<1>1. UNCHANGED <<job, polls, door, sup, faults>> /\ step[w].pc # "idle" BY DEF ask
<1>2. step[w].at \in Routes BY DEF TypeOK, Step
<1>3. svc[step[w].at] # "idle" BY <1>2 DEF TypeOK
<1>4. \E pc : pc # "idle" /\ Goes(w, pc) BY <1>3 DEF ask
<1>q. QED BY <1>1, <1>4, GoesCarried

LEMMA unreachableChain ==
  ASSUME TypeOK, Chain, NEW w \in Workers, unreachable(w)
  PROVE  Chain'
<1>1. UNCHANGED <<job, door, sup>> /\ step[w].pc # "idle" /\ Ends(w) BY DEF unreachable
<1>2. PollsAreHeld' BY <1>1, EndsHeld DEF Chain
<1>3. ASSUME job'.status \in Moving, faults' = 0 PROVE Carried'
  <2>1. faults = 0 /\ polls' = IF step[w].queued THEN polls \cup {step[w].attempt} ELSE polls
    BY <1>3, GoesWrongShows DEF unreachable
  <2>2. Carried BY <1>1, <1>3, <2>1 DEF Chain, ChainGoesOn, Carried
  <2>3. CASE step[w].attempt # job.attempt BY <1>1, <2>1, <2>2, <2>3, OthersCarry
  <2>4. CASE step[w].attempt = job.attempt /\ step[w].queued BY <1>1, <2>1, <2>4 DEF Carried
  <2>5. CASE ~step[w].queued BY <1>1, <2>5 DEF Chain, PollsAreHeld, Carried
  <2>q. QED BY <2>3, <2>4, <2>5
<1>q. QED BY <1>2, <1>3 DEF Chain, ChainGoesOn, Carried

LEMMA takeSubmittedChain ==
  ASSUME TypeOK, Chain, NEW w \in Workers, takeSubmitted(w)
  PROVE  Chain'
<1> DEFINE j == [Becomes("running") EXCEPT !.remote = step[w].at, !.errors = 0]
<1>1. Absorbs(w, j) /\ UNCHANGED <<door, sup>> /\ step[w].pc # "idle" BY DEF takeSubmitted
<1>2. Becomes("running") \in Job /\ Becomes("running").attempt = job.attempt
  BY BecomesTyped DEF TypeOK, Statuses, Moving
<1>3. j.attempt = job.attempt BY <1>2 DEF Job
<1> HIDE DEF j
<1>q. QED BY <1>1, <1>3, AbsorbsCarried

LEMMA takeFailureChain ==
  ASSUME TypeOK, Chain, NEW w \in Workers, takeFailure(w)
  PROVE  Chain'
<1>1. finish("failed", 0).status \in Finished BY DEF finish, Moved, TypeOK, Job, Finished
<1>q. QED BY <1>1, SettlesCarried DEF takeFailure

LEMMA takeAnswerChain ==
  ASSUME TypeOK, Chain, NEW w \in Workers, takeAnswer(w)
  PROVE  Chain'
<1>1. finish("done", step[w].at).status \in Finished
  BY DEF finish, Moved, TypeOK, Job, Finished
<1>q. QED BY <1>1, SettlesCarried DEF takeAnswer

\* A poll that writes its row by its attempt and queues the next one.
LEMMA GoesOnChain ==
  ASSUME TypeOK, Chain, NEW w \in Workers, step[w].pc # "idle", UNCHANGED <<door, sup, faults>>,
         job'.attempt = job.attempt, ~Holds(step[w].attempt) => job' = job,
         IF Holds(step[w].attempt) THEN QueueNext(w) ELSE Ends(w) /\ polls \subseteq polls'
  PROVE  Chain'
<1>1. PollsAreHeld' BY EndsHeld DEF QueueNext, Chain
<1>2. CASE Holds(step[w].attempt)
  <2>1. Carried' BY <1>2, QueueNextCarries DEF Holds, Chain
  <2>q. QED BY <1>1, <2>1 DEF Chain, ChainGoesOn, Carried
<1>3. CASE ~Holds(step[w].attempt)
  <2>1. ASSUME job'.status \in Moving, faults' = 0 PROVE Carried'
    <3>1. Carried BY <1>3, <2>1 DEF Chain, ChainGoesOn, Carried
    <3>2. step[w].attempt # job.attempt BY <1>3, <2>1 DEF Holds, Moving, Finished
    <3>q. QED BY <1>3, <3>1, <3>2, OthersCarry
  <2>q. QED BY <1>1, <2>1 DEF Chain, ChainGoesOn, Carried
<1>q. QED BY <1>2, <1>3

LEMMA fallThroughChain ==
  ASSUME TypeOK, Chain, NEW w \in Workers, fallThrough(w)
  PROVE  Chain'
<1>1. UNCHANGED <<door, sup, faults>> /\ step[w].pc # "idle" /\ QueueNext(w) BY DEF fallThrough
<1>2. job'.attempt = job.attempt /\ (~Holds(step[w].attempt) => job' = job)
  BY DEF fallThrough, TypeOK, Job
<1>3. Ends(w) /\ polls \subseteq polls' BY <1>1 DEF QueueNext, enqueue
<1>q. QED BY <1>1, <1>2, <1>3, GoesOnChain

LEMMA countErrorChain ==
  ASSUME TypeOK, Chain, NEW w \in Workers, countError(w)
  PROVE  Chain'
<1>1. UNCHANGED <<door, sup>> /\ step[w].pc # "idle" BY DEF countError
<1>2. CASE Errs(w) = MaxErrors
  <2> DEFINE j == [finish("failed", 0) EXCEPT !.errors = MaxErrors]
  <2>1. update(step[w].attempt, j) /\ Ends(w) /\ UNCHANGED polls BY <1>2 DEF countError
  <2>2. j.status \in Finished BY DEF finish, Moved, TypeOK, Job, Finished
  <2> HIDE DEF j
  <2>q. QED BY <1>1, <2>1, <2>2, SettlesCarried
<1>3. CASE Errs(w) # MaxErrors
  <2>1. /\ job' = IF Holds(step[w].attempt) THEN [job EXCEPT !.errors = Errs(w)] ELSE job
        /\ IF Holds(step[w].attempt) THEN QueueNext(w) ELSE Ends(w) /\ UNCHANGED polls
        /\ UNCHANGED faults
    BY <1>3 DEF countError
  <2>2. job'.attempt = job.attempt BY <2>1 DEF TypeOK, Job
  <2>q. QED BY <1>1, <2>1, <2>2, GoesOnChain
<1>q. QED BY <1>2, <1>3

LEMMA takeProgressChain ==
  ASSUME TypeOK, Chain, NEW w \in Workers, takeProgress(w)
  PROVE  Chain'
<1> DEFINE j == [Becomes("running") EXCEPT !.errors = 0]
<1>1. UNCHANGED <<door, sup>> /\ step[w].pc # "idle" /\ (Absorbs(w, j) \/ Absorbs(w, Moved(j)))
  BY DEF takeProgress
<1>2. Becomes("running") \in Job /\ Becomes("running").attempt = job.attempt
  BY BecomesTyped DEF TypeOK, Statuses, Moving
<1>3. 0 \in 0..MaxErrors BY ServicesAssumption DEF ServicesAssumption
<1>4. j \in Job /\ j.attempt = job.attempt BY <1>2, <1>3 DEF Job
<1> HIDE DEF j
<1>5. Moved(j).attempt = job.attempt BY <1>4, MovedTyped
<1>q. QED BY <1>1, <1>4, <1>5, AbsorbsCarried

LEMMA takeQuestionChain ==
  ASSUME TypeOK, Chain, NEW w \in Workers, takeQuestion(w)
  PROVE  Chain'
<1> DEFINE j == [Becomes("needs_input") EXCEPT !.errors = 0]
<1>1. UNCHANGED <<door, sup>> /\ step[w].pc # "idle" /\ Absorbs(w, j) BY DEF takeQuestion
<1>2. Becomes("needs_input") \in Job /\ Becomes("needs_input").attempt = job.attempt
  BY BecomesTyped DEF TypeOK, Statuses
<1>3. j.attempt = job.attempt BY <1>2 DEF Job
<1> HIDE DEF j
<1>q. QED BY <1>1, <1>3, AbsorbsCarried

LEMMA reportProgressChain ==
  ASSUME TypeOK, Chain, NEW w \in Workers, reportProgress(w)
  PROVE  Chain'
<1>1. UNCHANGED <<polls, step, door, sup, faults>> BY DEF reportProgress
<1>2. job'.attempt = job.attempt /\ job'.status = job.status
  BY MovedTyped DEF reportProgress, TypeOK
<1>q. QED BY <1>1, <1>2, QuietChain

LEMMA recordOutputsChain ==
  ASSUME TypeOK, Chain, NEW w \in Workers, recordOutputs(w)
  PROVE  Chain'
<1>1. Goes(w, "finish") /\ step[w].pc # "idle" /\ UNCHANGED <<job, polls, door, sup, faults>>
  BY DEF recordOutputs
<1>q. QED BY <1>1, GoesCarried

LEMMA PollChain ==
  ASSUME TypeOK, Chain, NEW w \in Workers, Poll(w)
  PROVE  Chain'
BY submitRemoteChain, askChain, unreachableChain, takeSubmittedChain, takeFailureChain,
   fallThroughChain, countErrorChain, takeProgressChain, reportProgressChain,
   takeQuestionChain, recordOutputsChain, takeAnswerChain DEF Poll

LEMMA answerTakenChain ==
  ASSUME TypeOK, Chain, answerTaken
  PROVE  Chain'
<1>1. UNCHANGED <<step, door, sup>> /\ update(person.attempt, Moved(Becomes("running")))
  BY DEF answerTaken
<1>2. Becomes("running") \in Job /\ Becomes("running").attempt = job.attempt
  BY BecomesTyped DEF TypeOK, Statuses, Moving
<1>3. Moved(Becomes("running")).attempt = job.attempt BY <1>2, MovedTyped
<1>4. PollsAreHeld' BY <1>1, HeldUntouched DEF Chain
<1>5. CASE Holds(person.attempt)
  <2>1. job'.attempt = job.attempt BY <1>1, <1>3, <1>5, UpdateShows
  <2>2. enqueue(job.attempt, Workers) BY <1>5 DEF answerTaken
  <2>3. Carried' BY <1>1, <2>1, <2>2, EnqueueCarries DEF Chain
  <2>q. QED BY <1>4, <2>3 DEF Chain, ChainGoesOn, Carried
<1>6. CASE ~Holds(person.attempt)
  <2>1. job' = job /\ UNCHANGED polls /\ (faults' = 0 => faults = 0)
    BY <1>1, <1>6, UpdateShows DEF answerTaken
  <2>q. QED BY <1>1, <2>1, QuietChain
<1>q. QED BY <1>5, <1>6

LEMMA cancelTakenChain ==
  ASSUME TypeOK, Chain, cancelTaken
  PROVE  Chain'
<1>1. UNCHANGED <<step, polls, door, sup>> /\ update(person.attempt, finish("cancelled", 0))
  BY DEF cancelTaken
<1>2. finish("cancelled", 0).status \notin Moving
      /\ finish("cancelled", 0).attempt = job.attempt
  BY DEF finish, Moved, TypeOK, Job, Moving
<1>3. job'.attempt = job.attempt /\ (job'.status \in Moving => job.status \in Moving)
      /\ (faults' = 0 => faults = 0)
  BY <1>1, <1>2, UpdateShows
<1>q. QED BY <1>1, <1>3, QuietChain

LEMMA personChain ==
  ASSUME TypeOK, Chain, answer \/ cancel
  PROVE  Chain'
BY QuietChain DEF answer, cancel

LEMMA superviseMovingChain ==
  ASSUME TypeOK, Chain, superviseMoving
  PROVE  Chain'
<1>1. UNCHANGED <<step, polls, door, faults>> /\ sup # "start" BY DEF superviseMoving
<1>2. job'.attempt = job.attempt /\ (job'.status \in Moving => job.status \in Moving)
  BY DEF superviseMoving, TypeOK, Job
<1>q. QED BY <1>1, <1>2, QuietChain

LEMMA superviseFinishedChain ==
  ASSUME TypeOK, Chain, superviseFinished
  PROVE  Chain'
BY QuietChain DEF superviseFinished

LEMMA nudgeStalledChain ==
  ASSUME TypeOK, Chain, nudgeStalled
  PROVE  Chain'
<1>1. UNCHANGED <<step, door, faults>> /\ sup = "nudge" /\ polls \subseteq polls'
  BY DEF nudgeStalled
<1>2. job' = [job EXCEPT !.still = FALSE, !.stalled = Stalled] \/ job' = job
  BY DEF nudgeStalled
<1>3. job'.attempt = job.attempt /\ job'.status = job.status BY <1>2 DEF TypeOK, Job
<1>4. PollsAreHeld' BY <1>1, HeldUntouched DEF Chain
<1>5. ASSUME Carried PROVE Carried' BY <1>1, <1>3, <1>5, Untouched
<1>q. QED BY <1>1, <1>3, <1>4, <1>5 DEF Chain, ChainGoesOn, Carried

LEMMA handOnChain ==
  ASSUME TypeOK, Chain, handOn
  PROVE  Chain'
<1>1. UNCHANGED <<step, polls, door>> /\ sup = "hand" BY DEF handOn
<1>2. PollsAreHeld' BY <1>1, HeldUntouched DEF Chain
<1>3. CASE job.status \notin Moving
  BY <1>1, <1>2, <1>3 DEF handOn, Chain, ChainGoesOn
<1>4. CASE job.status \in Moving /\ MayHandOn
  BY <1>2, <1>4 DEF handOn, Chain, ChainGoesOn
<1>5. CASE job.status \in Moving /\ ~MayHandOn
  <2>1. job' = [finish("failed", 0) EXCEPT !.stalled = job.stalled] BY <1>5 DEF handOn
  <2>2. finish("failed", 0) \in Job
    BY FinishTyped, ServicesAssumption DEF TypeOK, Statuses, Finished, ServicesAssumption
  <2>3. finish("failed", 0).status = "failed" BY DEF finish, Moved, TypeOK, Job
  <2>4. job'.status \notin Moving BY <2>1, <2>2, <2>3 DEF Job, Moving
  <2>q. QED BY <1>2, <2>4 DEF Chain, ChainGoesOn
<1>q. QED BY <1>3, <1>4, <1>5

LEMMA handOnReturnsChain ==
  ASSUME TypeOK, Chain, handOnReturns
  PROVE  Chain'
<1>1. Carried' BY StartCarries DEF handOnReturns, Chain
<1>2. PollsAreHeld' BY HeldUntouched DEF handOnReturns, Chain
<1>q. QED BY <1>1, <1>2 DEF Chain, ChainGoesOn, Carried

LEMMA serviceWorksChain ==
  ASSUME TypeOK, Chain, NEW r \in Routes, serviceWorks(r)
  PROVE  Chain'
BY QuietChain DEF serviceWorks

\* A crash is a fault, and leaves nothing under way.
LEMMA crashChain ==
  ASSUME TypeOK, Chain, crash
  PROVE  Chain'
<1>1. faults' # 0 BY GoesWrongShows DEF crash
<1>2. PollsAreHeld' BY IdleIsFree DEF crash, PollsAreHeld
<1>q. QED BY <1>1, <1>2 DEF Chain, ChainGoesOn

LEMMA NextChain ==
  ASSUME TypeOK, Chain, [Next]_vars
  PROVE  Chain'
<1>1. CASE invokeAs \/ confirmServiceJob \/ expireOne \/ invokeReturns
  BY <1>1, invokeChain, expireChain, invokeReturnsChain
<1>2. CASE answer \/ answerTaken \/ cancel \/ cancelTaken
  BY <1>2, personChain, answerTakenChain, cancelTakenChain
<1>3. CASE supervise
  BY <1>3, superviseMovingChain, superviseFinishedChain, nudgeStalledChain, handOnChain,
     handOnReturnsChain DEF supervise
<1>4. CASE crash BY <1>4, crashChain
<1>5. ASSUME NEW w \in Workers, Poll(w) \/ runInline(w) PROVE Chain'
  BY <1>5, PollChain, runInlineChain
<1>6. ASSUME NEW w \in Workers, NEW a \in Attempts, beginPoll(w, a) PROVE Chain'
  BY <1>6, beginPollChain
<1>7. ASSUME NEW r \in Routes, serviceWorks(r) PROVE Chain' BY <1>7, serviceWorksChain
<1>8. CASE UNCHANGED vars BY <1>8, QuietChain DEF vars
<1>q. QED BY <1>1, <1>2, <1>3, <1>4, <1>5, <1>6, <1>7, <1>8 DEF Next

\* A job that moves has somebody to carry it on until something fails: a poll
\* that waits or is under way, the call that started it, or the supervisor
\* handing it on, whatever keys coincide and whoever answers or cancels.
THEOREM ChainHolds == Spec => []ChainGoesOn
<1>1. Init => Chain BY IdleIsFree DEF Init, Chain, PollsAreHeld, ChainGoesOn, Moving
<1>2. TypeOK /\ Known /\ Chain /\ [Next]_vars => Chain' BY NextChain
<1>3. Chain => ChainGoesOn BY DEF Chain
<1>q. QED BY Invariant, <1>1, <1>2, <1>3, PTL DEF Spec

------------------------------------------------------------------------------
(* One chain of polls for an attempt, and one machine at a time            *)

\* The polls of the row's attempt that are under way.
AtWork == {w \in Workers : step[w].pc # "idle" /\ step[w].attempt = job.attempt}
Early == {"absent", "awaiting_confirm"}

\* Nobody is ahead of the row.
Fresh ==
  /\ polls \subseteq 0..job.attempt /\ doubled \subseteq 0..job.attempt
  /\ \A w \in Workers : step[w].attempt <= job.attempt
  /\ person.attempt <= job.attempt

\* Until somebody says yes nothing is done.
Unbegun ==
  job.status \in Early =>
    /\ door = "idle" /\ polls = {} /\ sup = "idle" /\ job.remote = 0
    /\ \A w \in Workers : step[w].pc = "idle"

\* An answer is given to a service that has the job.
AnswersKnown == person.pc = "answer" /\ person.attempt = job.attempt => job.remote # 0

\* Until a service has the job, one of these carries it on: a poll that waits,
\* one under way, the call, the supervisor.
Alone ==
  OneChain /\ job.remote = 0 =>
    /\ \A v, w \in AtWork : v = w
    /\ job.attempt \in polls => AtWork = {} /\ door = "idle" /\ sup # "start"
    /\ door # "idle" => sup # "start" /\ \A w \in AtWork : ~step[w].queued
    /\ sup = "start" => AtWork = {}

\* A poll holds what the row says of its attempt.
SameAt == OneChain => \A w \in AtWork : step[w].at = job.at /\ step[w].remote = job.remote

\* What acts in the world is never handed on.
Actor == kind.acts => job.attempt = 0

OneByOne ==
  Fresh /\ Unbegun /\ AnswersKnown /\ Alone /\ SameAt /\ RemoteIsItsOwn /\ Actor

\* What a poll may hold at each place.
Fits(s) ==
  /\ s.pc = "run" => s.at \in BuiltIn
  /\ s.pc \notin {"idle", "run", "finish"} => s.at \notin BuiltIn
  /\ s.pc \in {"submitted", "refused"} => s.remote = 0
  /\ s.pc \in {"working", "asks", "done", "over"} => s.remote # 0
  /\ s.queued => s.pc # "idle"
  /\ s.pc # "idle" /\ ~s.queued => door = "call"
  /\ s.pc = "finish" => files # 0

Fitting ==
  /\ \A w \in Workers : Fits(step[w])
  /\ \A r \in Routes : svc[r] = "run" => r \in BuiltIn

\* The files of a first attempt are of the service that has the job.
FilesOwn ==
  OneChain /\ job.attempt = 0 /\ files # 0 =>
    files = job.at /\ (job.remote # 0 \/ job.at \in BuiltIn)

\* The machine that has a job that acts is the one the row names, and no poll
\* can pass the job to another any more.
OneTaker ==
  kind.acts /\ ~lost /\ OneChain =>
    \A r \in Routes : svc[r] # "none" =>
      /\ r = job.at
      /\ \/ job.remote # 0 \/ r \in BuiltIn \/ job.status \in Finished
         \/ \E w \in AtWork : step[w].pc = "submitted"

Owned == OneByOne /\ Fitting /\ FilesOwn /\ OwnAnswer /\ OneTaker

------------------------------------------------------------------------------
(* The shapes of a step                                                    *)

LEMMA IdleIs == Idle.pc = "idle" /\ Idle.attempt = 0 /\ Idle.queued = FALSE
BY DEF Idle

\* The row stays where it is.
SameRow ==
  /\ job'.attempt = job.attempt /\ job'.at = job.at /\ job'.remote = job.remote
  /\ job'.status \in Early => job.status \in Early

Others(w) == \A v \in Workers : v # w => step'[v] = step[v]

\* A poll that goes on, or ends and leaves the next one to the queue.
Moves(w) ==
  /\ step[w].pc # "idle" /\ Others(w)
  /\ \/ step'[w] = Idle
     \/ /\ step'[w].attempt = step[w].attempt /\ step'[w].at = step[w].at
        /\ step'[w].remote = step[w].remote /\ step'[w].queued = step[w].queued
        /\ UNCHANGED polls
  /\ \/ UNCHANGED polls
     \/ step[w].queued /\ polls' = polls \cup {step[w].attempt}
  /\ UNCHANGED <<door, sup, person, doubled, kind>>

\* What the row may become as a poll ends.
Hands(w) ==
  /\ step'[w] = Idle /\ step[w].attempt = job.attempt /\ step[w].remote = 0
  /\ job'.attempt = job.attempt /\ job'.status \notin Early
  /\ \/ job'.remote = job.remote
     \/ job'.at = job.at /\ job'.remote = step[w].at

LEMMA MovesKeep ==
  ASSUME TypeOK, TypeOK', OneByOne, Fitting, NEW w \in Workers, Moves(w), SameRow \/ Hands(w)
  PROVE  OneByOne'
<1> USE DEF OneByOne
<1>1. /\ job.attempt \in Nat /\ job'.attempt = job.attempt
      /\ \A v \in Workers : step[v].attempt \in Nat
      /\ \A v \in Workers \ {w} : step'[v] = step[v]
      /\ step[w].at \in Routes /\ job.at \in Routes
  BY ServicesAssumption DEF TypeOK, Job, Step, Attempts, SameRow, Hands, Moves, Others, ServicesAssumption
<1>2. AtWork' \subseteq AtWork /\ (step'[w] = Idle => w \notin AtWork')
  BY <1>1, IdleIs DEF AtWork, Moves
<1>3. Fresh'
  BY <1>1, IdleIs DEF Fresh, Moves
<1>4. Unbegun'
  BY DEF Unbegun, Moves, SameRow, Hands
<1>5. OneChain' = OneChain
  BY <1>1 DEF OneChain, Moves
<1>6. Hands(w) /\ OneChain => w \in AtWork /\ job.remote = 0 /\ step[w].at = job.at /\ AtWork' = {}
  <2>1. Hands(w) => w \in AtWork BY DEF Hands, AtWork, Moves
  <2>2. Hands(w) /\ OneChain => job.remote = 0 /\ step[w].at = job.at BY <2>1 DEF Hands, SameAt
  <2>q. QED BY <1>2, <2>1, <2>2 DEF Alone, Hands
<1>7. AnswersKnown'
  BY <1>1 DEF AnswersKnown, Moves, SameRow, Hands, Routes
<1>8. SameAt'
  BY <1>1, <1>2, <1>5, <1>6 DEF SameAt, Moves, SameRow, AtWork
<1>9. RemoteIsItsOwn'
  BY <1>5, <1>6 DEF RemoteIsItsOwn, SameRow, Hands
<1>10. Actor'
  BY <1>1 DEF Actor, Moves
<1>11. Alone'
  <2> SUFFICES ASSUME OneChain', job'.remote = 0 PROVE Alone'
    BY DEF Alone
  <2>1. job.remote = 0
    BY <1>1, <1>5, <1>6 DEF SameRow, Hands, Routes
  <2>2. \A v \in AtWork' : (v = w /\ step'[v].queued = step[v].queued) \/ step'[v] = step[v]
    BY <1>1, <1>2 DEF AtWork, Moves
  <2>3. CASE UNCHANGED polls
    BY <1>1, <1>2, <1>5, <2>1, <2>2, <2>3 DEF Alone, Moves
  <2>4. CASE step[w].queued /\ polls' = polls \cup {step[w].attempt} /\ step'[w] = Idle
    <3>1. CASE step[w].attempt = job.attempt
      <4>1. w \in AtWork BY <3>1 DEF AtWork, Moves
      <4>2. door = "idle" /\ sup # "start" /\ AtWork' = {}
        BY <1>2, <1>5, <2>1, <2>4, <4>1 DEF Alone
      <4>q. QED BY <1>1, <4>2 DEF Alone, Moves
    <3>2. CASE step[w].attempt # job.attempt
      BY <1>1, <1>2, <1>5, <2>1, <2>2, <2>4, <3>2 DEF Alone, Moves
    <3>q. QED BY <3>1, <3>2
  <2>q. QED BY <2>3, <2>4 DEF Moves
<1>q. QED BY <1>3, <1>4, <1>7, <1>8, <1>9, <1>10, <1>11

\* A step that is not a poll's.
Quiet ==
  /\ SameRow /\ UNCHANGED <<step, kind, door>>
  /\ doubled \subseteq doubled' /\ doubled' \subseteq doubled \cup {job.attempt}
  /\ \/ UNCHANGED polls
     \/ polls' = polls \cup {job.attempt} /\ (job.remote # 0 \/ job.attempt \in doubled')
  /\ sup' = "start" => sup = "start"
  /\ person'.attempt \in {0, person.attempt, job.attempt}
  /\ person'.pc = "answer" => person' = person \/ job.remote # 0
  /\ job'.status \in Early => UNCHANGED <<polls, sup>>

LEMMA QuietKeeps ==
  ASSUME TypeOK, OneByOne, Quiet
  PROVE  OneByOne'
<1> USE DEF OneByOne
<1>1. job.attempt \in Nat /\ job'.attempt = job.attempt /\ job'.remote = job.remote /\ job'.at = job.at
  BY ServicesAssumption DEF TypeOK, Job, Attempts, Quiet, SameRow, ServicesAssumption
<1>2. AtWork' = AtWork
  BY <1>1 DEF AtWork, Quiet
<1>3. OneChain' => OneChain /\ (job.remote = 0 => UNCHANGED polls)
  BY <1>1 DEF OneChain, Quiet
<1>4. Fresh'
  <2>1. polls' \subseteq polls \cup {job.attempt} /\ doubled' \subseteq doubled \cup {job.attempt}
        /\ job.attempt \in 0..job.attempt /\ 0 <= job.attempt
    BY <1>1 DEF Quiet
  <2>2. polls' \subseteq 0..job.attempt /\ doubled' \subseteq 0..job.attempt
    BY <2>1 DEF Fresh
  <2>3. \A w \in Workers : step'[w].attempt <= job.attempt
    BY DEF Fresh, Quiet
  <2>4. person'.attempt <= job.attempt
    BY <2>1, <1>1 DEF Fresh, Quiet
  <2>q. QED BY <1>1, <2>2, <2>3, <2>4 DEF Fresh
<1>5. Unbegun'
  BY <1>1 DEF Unbegun, Quiet, SameRow
<1>6. AnswersKnown'
  BY <1>1 DEF AnswersKnown, Quiet
<1>7. Alone'
  BY <1>1, <1>2, <1>3 DEF Alone, Quiet
<1>8. SameAt' /\ RemoteIsItsOwn' /\ Actor'
  BY <1>1, <1>2, <1>3 DEF SameAt, RemoteIsItsOwn, Actor, Quiet
<1>q. QED BY <1>4, <1>5, <1>6, <1>7, <1>8


\* A step after which the files, the answer and the machines are still as the
\* row has them.
Kept ==
  /\ job'.attempt = job.attempt /\ job'.at = job.at
  /\ job.remote # 0 => job'.remote # 0
  /\ job.status \in Finished => job'.status \in Finished
  /\ job'.status = "done" => job.status = "done" /\ job'.output = job.output
  /\ UNCHANGED <<files, kind>> /\ doubled \subseteq doubled' /\ (~lost' => ~lost)
  /\ \A r \in Routes : svc[r] = "none" => svc'[r] = "none"
  /\ \A w \in Workers :
       step[w].pc = "submitted" =>
         \/ job'.remote # 0
         \/ step'[w].pc = "submitted" /\ step'[w].attempt = step[w].attempt

LEMMA KeptKeeps ==
  ASSUME TypeOK, FilesOwn, OwnAnswer, OneTaker, Kept
  PROVE  FilesOwn' /\ OwnAnswer' /\ OneTaker'
<1>1. OneChain' => OneChain BY DEF OneChain, Kept
<1>2. FilesOwn' BY <1>1 DEF FilesOwn, Kept
<1>3. OwnAnswer' BY <1>1 DEF OwnAnswer, Kept
<1>4. ASSUME kind.acts, ~lost', OneChain', NEW r \in Routes, svc'[r] # "none"
      PROVE  /\ r = job'.at
             /\ \/ job'.remote # 0 \/ r \in BuiltIn \/ job'.status \in Finished
                \/ \E w \in AtWork' : step'[w].pc = "submitted"
  <2>1. /\ r = job.at
        /\ \/ job.remote # 0 \/ r \in BuiltIn \/ job.status \in Finished
           \/ \E w \in AtWork : step[w].pc = "submitted"
    BY <1>1, <1>4 DEF OneTaker, Kept
  <2>2. ASSUME NEW w \in AtWork, step[w].pc = "submitted"
        PROVE  job'.remote # 0 \/ (w \in AtWork' /\ step'[w].pc = "submitted")
    BY <2>2 DEF AtWork, Kept
  <2>q. QED BY <2>1, <2>2 DEF Kept
<1>5. kind' = kind BY DEF Kept
<1>q. QED BY <1>2, <1>3, <1>4, <1>5 DEF OneTaker

\* A step of one poll, and of none.
LEMMA FittingKeeps ==
  ASSUME Fitting, NEW w \in Workers, Others(w), Fits(step[w])', UNCHANGED door,
         files # 0 => files' # 0, \A r \in Routes : svc'[r] = "run" => svc[r] = "run" \/ r \in BuiltIn
  PROVE  Fitting'
<1>1. ASSUME NEW v \in Workers, v # w PROVE Fits(step[v])'
  <2>1. step'[v] = step[v] BY <1>1 DEF Others
  <2>2. Fits(step[v]) BY DEF Fitting
  <2>q. QED BY <2>1, <2>2 DEF Fits
<1>q. QED BY <1>1 DEF Fitting

LEMMA FittingStays ==
  ASSUME Fitting, UNCHANGED <<step, files>>, door = "call" => door' = "call",
         \A r \in Routes : svc'[r] = "run" => svc[r] = "run" \/ r \in BuiltIn
  PROVE  Fitting'
<1>1. ASSUME NEW v \in Workers PROVE Fits(step[v])'
  BY DEF Fits, Fitting
<1>q. QED BY <1>1 DEF Fitting

LEMMA AcceptsIs ==
  ASSUME TypeOK, NEW q \in Routes, Accepts(q)
  PROVE  \A r \in Routes : svc'[r] = svc[r] \/ (r = q /\ svc'[r] = "working" /\ svc[r] = "none")
BY DEF TypeOK, Accepts

LEMMA IdleFits == ASSUME NEW w \in Workers, step'[w] = Idle PROVE Fits(step[w])'
BY IdleIs DEF Fits

LEMMA EndsIs ==
  ASSUME TypeOK, NEW w \in Workers, Ends(w)
  PROVE  step'[w] = Idle /\ Others(w)
BY DEF TypeOK, Ends, Others

LEMMA GoesIs ==
  ASSUME TypeOK, NEW w \in Workers, NEW pc, Goes(w, pc)
  PROVE  /\ Others(w) /\ step'[w].pc = pc
         /\ step'[w].attempt = step[w].attempt /\ step'[w].at = step[w].at
         /\ step'[w].remote = step[w].remote /\ step'[w].queued = step[w].queued
<1>1. step[w] \in Step /\ step'[w] = [step[w] EXCEPT !.pc = pc] /\ Others(w)
  BY DEF TypeOK, Goes, Others
<1>q. QED BY <1>1 DEF Step

\* The parts of the row that its conversions keep.
LEMMA MovedIs ==
  ASSUME NEW j \in Job
  PROVE  /\ Moved(j).attempt = j.attempt /\ Moved(j).at = j.at /\ Moved(j).remote = j.remote
         /\ Moved(j).status = j.status /\ Moved(j).output = j.output
BY DEF Moved, Job

LEMMA BecomesIs ==
  ASSUME job \in Job, NEW s \in Statuses
  PROVE  /\ Becomes(s).attempt = job.attempt /\ Becomes(s).at = job.at
         /\ Becomes(s).remote = job.remote /\ Becomes(s).status = s
         /\ Becomes(s).output = job.output
BY DEF Becomes, Moved, Job

LEMMA FinishIs ==
  ASSUME job \in Job, NEW s \in Statuses, NEW o \in 0..NRoutes
  PROVE  /\ finish(s, o).attempt = job.attempt /\ finish(s, o).at = job.at
         /\ finish(s, o).remote = job.remote /\ finish(s, o).status = s
         /\ finish(s, o).output = o
BY DEF finish, Moved, Job

\* A poll that ends and moves the row, or may not.
LEMMA QueueNextMoves ==
  ASSUME TypeOK, NEW w \in Workers, step[w].pc # "idle", QueueNext(w),
         UNCHANGED <<door, sup, person, doubled, kind>>
  PROVE  Moves(w) /\ step'[w] = Idle
<1>1. step'[w] = Idle /\ Others(w) BY EndsIs DEF QueueNext
<1> step[w].queued \in BOOLEAN BY DEF TypeOK, Step
<1>2. UNCHANGED polls \/ (step[w].queued /\ polls' = polls \cup {step[w].attempt})
  <2>1. CASE step[w].queued
    <3>1. enqueue(step[w].attempt, Workers \ {w}) BY <2>1 DEF QueueNext
    <3>q. QED BY <2>1, <3>1 DEF enqueue
  <2>2. CASE ~step[w].queued BY <2>2 DEF QueueNext
  <2>q. QED BY <2>1, <2>2
<1>q. QED BY <1>1, <1>2 DEF Moves

LEMMA EndsMoves ==
  ASSUME TypeOK, NEW w \in Workers, step[w].pc # "idle", Ends(w),
         UNCHANGED <<door, sup, person, doubled, kind, polls>>
  PROVE  Moves(w) /\ step'[w] = Idle
BY EndsIs DEF Moves

LEMMA AbsorbsMoves ==
  ASSUME TypeOK, NEW w \in Workers, step[w].pc # "idle", NEW j, Absorbs(w, j),
         UNCHANGED <<door, sup, person, doubled, kind>>
  PROVE  /\ Moves(w) /\ step'[w] = Idle
         /\ job' = IF Holds(step[w].attempt) THEN j ELSE job
<1>1. job' = IF Holds(step[w].attempt) THEN j ELSE job
  BY UpdateShows DEF Absorbs
<1>2. Moves(w) /\ step'[w] = Idle
  BY QueueNextMoves, EndsMoves DEF Absorbs
<1>q. QED BY <1>1, <1>2

LEMMA GoesMoves ==
  ASSUME TypeOK, NEW w \in Workers, step[w].pc # "idle", NEW pc, Goes(w, pc),
         UNCHANGED <<door, sup, person, doubled, kind, polls>>
  PROVE  Moves(w)
BY GoesIs DEF Moves

------------------------------------------------------------------------------
(* Each step of a poll                                                     *)

\* A poll that ends and leaves the files, the answer and the machines alone.
LEMMA EndingOwned ==
  ASSUME TypeOK, TypeOK', Owned, NEW w \in Workers, Moves(w), SameRow, step'[w] = Idle,
         Kept, UNCHANGED svc
  PROVE  Owned'
<1>1. OneByOne' BY MovesKeep DEF Owned
<1>2. FilesOwn' /\ OwnAnswer' /\ OneTaker' BY KeptKeeps DEF Owned
<1>3. Fitting'
  BY FittingKeeps, IdleFits DEF Owned, Moves, Kept
<1>q. QED BY <1>1, <1>2, <1>3 DEF Owned

\* One that has not heard whether its submit was taken, or has no submit.
Unsubmitted(w) == step[w].pc # "submitted"

LEMMA submitRemoteOwned ==
  ASSUME TypeOK, TypeOK', Owned, NEW w \in Workers, submitRemote(w)
  PROVE  Owned'
<1> USE DEF Owned
<1>1. PICK pc \in {"submitted", "busy", "refused"} : Goes(w, pc)
  BY DEF submitRemote
<1>2. step[w].pc = "hop" /\ step[w].remote = 0
      /\ UNCHANGED <<job, kind, files, polls, door, person, sup, watched, news, doubled>>
  BY DEF submitRemote
<1>3. Moves(w) BY <1>1, <1>2, GoesMoves
<1>4. OneByOne' BY <1>2, <1>3, MovesKeep DEF SameRow
<1>5. Others(w) /\ step'[w].pc = pc
         /\ step'[w].attempt = step[w].attempt /\ step'[w].at = step[w].at
         /\ step'[w].remote = step[w].remote /\ step'[w].queued = step[w].queued
  BY <1>1, GoesIs
<1>6. step[w].at \in Routes BY DEF TypeOK, Step
<1>7. \A r \in Routes : svc'[r] = svc[r] \/ (r = step[w].at /\ svc'[r] = "working" /\ svc[r] = "none")
  <2>1. CASE UNCHANGED svc BY <2>1
  <2>2. CASE Accepts(step[w].at) BY <1>6, <2>2, AcceptsIs
  <2>q. QED BY <2>1, <2>2 DEF submitRemote
<1>8. Fitting'
  <2>1. Fits(step[w])' BY <1>2, <1>5 DEF Fits, Fitting
  <2>q. QED BY <1>2, <1>5, <1>7, <2>1, FittingKeeps
<1>9. FilesOwn' /\ OwnAnswer'
  BY <1>2 DEF FilesOwn, OwnAnswer, OneChain
<1>10. kind.acts /\ ~lost' => ~lost /\ (UNCHANGED svc \/ pc = "submitted")
  BY <1>1, <1>5, GoesIs DEF submitRemote, LosesAnswer
<1>11. OneTaker'
  <2> SUFFICES ASSUME kind.acts, ~lost', OneChain', NEW r \in Routes, svc'[r] # "none"
               PROVE  /\ r = job.at
                      /\ \/ job.remote # 0 \/ r \in BuiltIn \/ job.status \in Finished
                         \/ \E v \in AtWork' : step'[v].pc = "submitted"
    BY <1>2 DEF OneTaker
  <2>1. OneChain BY <1>2 DEF OneChain
  <2>2. AtWork' = AtWork
    BY <1>1, <1>2, <1>5 DEF AtWork, Others
  <2>3. CASE svc[r] # "none"
    <3>1. /\ r = job.at
          /\ \/ job.remote # 0 \/ r \in BuiltIn \/ job.status \in Finished
             \/ \E v \in AtWork : step[v].pc = "submitted"
      BY <1>10, <2>1, <2>3 DEF OneTaker
    <3>2. ASSUME NEW v \in AtWork, step[v].pc = "submitted"
          PROVE  v \in AtWork' /\ step'[v].pc = "submitted"
      BY <1>2, <1>5, <2>2, <3>2 DEF AtWork, Others
    <3>q. QED BY <3>1, <3>2
  <2>4. CASE svc[r] = "none"
    <3>1. r = step[w].at /\ pc = "submitted" BY <1>7, <1>10, <2>4
    <3>2. step[w].attempt = job.attempt
      <4>1. job.attempt = 0 BY DEF OneByOne, Actor
      <4>2. step[w].attempt \in Nat BY ServicesAssumption DEF TypeOK, Step, Attempts, ServicesAssumption
      <4>q. QED BY <4>1, <4>2 DEF OneByOne, Fresh
    <3>3. w \in AtWork BY <1>2, <3>2 DEF AtWork
    <3>4. step[w].at = job.at BY <2>1, <3>3 DEF OneByOne, SameAt
    <3>q. QED BY <1>5, <2>2, <3>1, <3>3, <3>4
  <2>q. QED BY <2>3, <2>4
<1>q. QED BY <1>4, <1>8, <1>9, <1>11

LEMMA askOwned ==
  ASSUME TypeOK, TypeOK', Owned, NEW w \in Workers, ask(w)
  PROVE  Owned'
<1> USE DEF Owned
<1>1. step[w].pc = "hop" /\ step[w].remote # 0
      /\ UNCHANGED <<job, kind, files, svc, polls, door, person, sup, watched, news, faults, doubled, lost>>
  BY DEF ask
<1>2. PICK pc : Goes(w, pc) /\ pc \in {"busy", svc[step[w].at]}
  BY DEF ask
<1>3. Moves(w) BY <1>1, <1>2, GoesMoves
<1>4. OneByOne' BY <1>1, <1>3, MovesKeep DEF SameRow
<1>5. Others(w) /\ step'[w].pc = pc
         /\ step'[w].attempt = step[w].attempt /\ step'[w].at = step[w].at
         /\ step'[w].remote = step[w].remote /\ step'[w].queued = step[w].queued
  BY <1>2, GoesIs
<1>6. Fitting'
  <2>1. step[w].at \in Routes /\ step[w].at \notin BuiltIn BY <1>1 DEF TypeOK, Step, Fitting, Fits
  <2>2. pc \in {"busy", "working", "asks", "done", "over"}
    <3>1. svc[step[w].at] \in {"none", "run", "working", "asks", "done", "over"}
          /\ svc[step[w].at] # "run"
      BY <2>1 DEF TypeOK, Fitting
    <3>2. step'[w].pc \in PCs BY DEF TypeOK, Step
    <3>q. QED BY <1>2, <1>5, <3>1, <3>2 DEF PCs
  <2>3. Fits(step[w])' BY <1>1, <1>5, <2>1, <2>2 DEF Fits, Fitting
  <2>q. QED BY <1>1, <1>5, <2>3, FittingKeeps
<1>7. Kept BY <1>1, <1>5 DEF Kept, Others
<1>q. QED BY <1>4, <1>6, <1>7, KeptKeeps

LEMMA unreachableOwned ==
  ASSUME TypeOK, TypeOK', Owned, NEW w \in Workers, unreachable(w)
  PROVE  Owned'
<1> USE DEF Owned
<1>1. step[w].pc \in {"hop", "submitted"} /\ Ends(w)
      /\ UNCHANGED <<job, kind, files, svc, door, person, sup, watched, news, doubled>>
      /\ IF step[w].pc = "submitted" THEN LosesAnswer ELSE UNCHANGED lost
  BY DEF unreachable
<1>2. step'[w] = Idle /\ Others(w) BY <1>1, EndsIs
<1> step[w].queued \in BOOLEAN BY DEF TypeOK, Step
<1>3. UNCHANGED polls \/ (step[w].queued /\ polls' = polls \cup {step[w].attempt})
  BY DEF unreachable
<1>4. Moves(w) BY <1>1, <1>2, <1>3 DEF Moves
<1>5. CASE step[w].pc = "hop"
  <2>1. Kept BY <1>1, <1>2, <1>5 DEF Kept, Others
  <2>q. QED BY <1>1, <1>2, <1>4, <2>1, EndingOwned DEF SameRow
<1>6. CASE step[w].pc = "submitted"
  <2>1. OneByOne' BY <1>1, <1>4, MovesKeep DEF SameRow
  <2>2. Fitting' BY <1>1, <1>2, FittingKeeps, IdleFits
  <2>3. FilesOwn' /\ OwnAnswer' BY <1>1 DEF FilesOwn, OwnAnswer, OneChain
  <2>4. OneTaker' BY <1>1, <1>6 DEF OneTaker, LosesAnswer
  <2>q. QED BY <2>1, <2>2, <2>3, <2>4
<1>q. QED BY <1>1, <1>5, <1>6

\* Heard from a poll that may write the row: nothing of it moves but its
\* status and what is counted.
SameButStatus(j) ==
  /\ j.attempt = job.attempt /\ j.at = job.at /\ j.remote = job.remote
  /\ j.status \notin Early /\ j.status # "done"

LEMMA HeardOwned ==
  ASSUME TypeOK, TypeOK', Owned, NEW w \in Workers, Moves(w), step'[w] = Idle,
         NEW j, SameButStatus(j), UNCHANGED <<files, svc, lost>>,
         job' = IF Holds(step[w].attempt) THEN j ELSE job, Unsubmitted(w)
  PROVE  Owned'
<1>1. SameRow BY DEF SameRow, SameButStatus
<1>2. Kept
  <2>1. /\ job'.attempt = job.attempt /\ job'.at = job.at /\ job'.remote = job.remote
        /\ job'.status = "done" => job' = job
        /\ job.status \in Finished => job' = job
    BY DEF SameButStatus, Holds
  <2>2. \A v \in Workers : step[v].pc = "submitted" => step'[v] = step[v]
    BY DEF Moves, Others, Unsubmitted
  <2>q. QED BY <2>1, <2>2 DEF Kept, Moves
<1>q. QED BY <1>1, <1>2, EndingOwned

LEMMA takeSubmittedOwned ==
  ASSUME TypeOK, TypeOK', Owned, NEW w \in Workers, takeSubmitted(w)
  PROVE  Owned'
<1> DEFINE j == [Becomes("running") EXCEPT !.remote = step[w].at, !.errors = 0]
<1> USE DEF Owned
<1>1. step[w].pc = "submitted" /\ Absorbs(w, j)
      /\ UNCHANGED <<kind, files, svc, door, person, sup, news, doubled, lost>>
  BY DEF takeSubmitted
<1>2. /\ Moves(w) /\ step'[w] = Idle
      /\ job' = IF Holds(step[w].attempt) THEN j ELSE job
  <2> HIDE DEF j
  <2>q. QED BY <1>1, AbsorbsMoves
<1>3. /\ j.attempt = job.attempt /\ j.at = job.at /\ j.remote = step[w].at
      /\ j.status = "running"
  <2>1. Becomes("running") \in Job BY BecomesTyped DEF TypeOK, Statuses, Moving
  <2>2. Becomes("running").attempt = job.attempt /\ Becomes("running").at = job.at
        /\ Becomes("running").status = "running"
    BY BecomesIs DEF TypeOK, Statuses, Moving
  <2>q. QED BY <2>1, <2>2 DEF Job
<1> HIDE DEF j
<1>4. step[w].remote = 0 /\ step[w].at \in Routes /\ step[w].at # 0
  BY <1>1 DEF Fitting, Fits, TypeOK, Step, Routes
<1>5. CASE Holds(step[w].attempt)
  <2>1. Hands(w) BY <1>2, <1>3, <1>4, <1>5 DEF Hands, Holds, Early
  <2>2. OneByOne' BY <1>2, <2>1, MovesKeep
  <2>3. job'.remote # 0 BY <1>2, <1>3, <1>4, <1>5
  <2>4. Kept
    BY <1>1, <1>2, <1>3, <1>5, <2>3 DEF Kept, Moves, Holds
  <2>5. Fitting' BY <1>1, <1>2, FittingKeeps, IdleFits DEF Moves
  <2>q. QED BY <2>2, <2>4, <2>5, KeptKeeps
<1>6. CASE ~Holds(step[w].attempt)
  <2>1. SameRow BY <1>2, <1>6 DEF SameRow
  <2>2. OneByOne' BY <1>2, <2>1, MovesKeep
  <2>3. Fitting' BY <1>1, <1>2, FittingKeeps, IdleFits DEF Moves
  <2>4. OneChain' = OneChain BY <1>1, <1>2, <1>6 DEF OneChain
  <2>5. FilesOwn' /\ OwnAnswer' BY <1>1, <1>2, <1>6, <2>4 DEF FilesOwn, OwnAnswer
  <2>6. OneTaker'
    <3> SUFFICES ASSUME kind.acts, ~lost, OneChain, NEW r \in Routes, svc[r] # "none"
                 PROVE  r = job.at /\ (job.remote # 0 \/ r \in BuiltIn \/ job.status \in Finished)
      BY <1>1, <1>2, <1>6, <2>4 DEF OneTaker
    <3>1. r = job.at BY DEF OneTaker
    <3>2. CASE w \in AtWork
      <4>1. job.status \in Finished BY <1>6, <3>2 DEF AtWork, Holds
      <4>q. QED BY <3>1, <4>1
    <3>3. CASE w \notin AtWork
      <4>1. step[w].attempt # job.attempt BY <1>1, <3>3 DEF AtWork
      <4>2. job.attempt = 0 BY DEF OneByOne, Actor
      <4>3. step[w].attempt \in Nat
        BY ServicesAssumption DEF TypeOK, Step, Attempts, ServicesAssumption
      <4>q. QED BY <4>1, <4>2, <4>3 DEF OneByOne, Fresh
    <3>q. QED BY <3>2, <3>3
  <2>q. QED BY <2>2, <2>3, <2>5, <2>6
<1>q. QED BY <1>5, <1>6

LEMMA takeFailureOwned ==
  ASSUME TypeOK, TypeOK', Owned, NEW w \in Workers, takeFailure(w)
  PROVE  Owned'
<1>1. step[w].pc \in {"refused", "over", "run"} /\ update(step[w].attempt, finish("failed", 0))
      /\ Ends(w) /\ UNCHANGED <<kind, files, svc, polls, door, person, sup, news, doubled, lost>>
  BY DEF takeFailure
<1>2. SameButStatus(finish("failed", 0))
  BY FinishIs, ServicesAssumption DEF SameButStatus, TypeOK, Statuses, Finished, Early, ServicesAssumption
<1>3. Moves(w) /\ step'[w] = Idle BY <1>1, EndsMoves
<1>4. job' = IF Holds(step[w].attempt) THEN finish("failed", 0) ELSE job
  BY <1>1, UpdateShows
<1>q. QED BY <1>1, <1>2, <1>3, <1>4, HeardOwned DEF Unsubmitted

LEMMA fallThroughOwned ==
  ASSUME TypeOK, TypeOK', Owned, NEW w \in Workers, fallThrough(w)
  PROVE  Owned'
<1> USE DEF Owned
<1>1. step[w].pc = "busy" /\ step[w].remote = 0 /\ QueueNext(w)
      /\ job' = (IF Holds(step[w].attempt)
                 THEN [job EXCEPT !.at = step[w].at + 1, !.errors = Errs(w)] ELSE job)
      /\ UNCHANGED <<kind, files, svc, door, person, sup, watched, news, faults, doubled, lost>>
  BY DEF fallThrough, FallsThrough
<1>2. Moves(w) /\ step'[w] = Idle BY <1>1, QueueNextMoves
<1>3. CASE ~Holds(step[w].attempt)
  <2>1. SameRow BY <1>1, <1>3 DEF SameRow
  <2>2. Kept BY <1>1, <1>2, <1>3 DEF Kept, Moves, Others
  <2>q. QED BY <1>1, <1>2, <2>1, <2>2, EndingOwned
<1>4. CASE Holds(step[w].attempt)
  <2>1. /\ job'.attempt = job.attempt /\ job'.remote = job.remote /\ job'.status = job.status
        /\ step[w].attempt = job.attempt /\ job.status \notin Finished /\ w \in AtWork
    BY <1>1, <1>4 DEF TypeOK, Job, Holds, AtWork
  <2>2. job'.status \notin Early BY <1>1, <2>1 DEF OneByOne, Unbegun
  <2>3. Hands(w) BY <1>1, <1>2, <2>1, <2>2 DEF Hands
  <2>4. OneByOne' BY <1>2, <2>3, MovesKeep
  <2>5. Fitting' BY <1>1, <1>2, FittingKeeps, IdleFits DEF Moves
  <2>6. OneChain' = OneChain BY <1>1, <2>1 DEF OneChain
  <2>7. OneChain => step[w].at = job.at /\ job.remote = 0 /\ job.at \notin BuiltIn
                    /\ \A v \in AtWork : step[v].pc = "busy"
    BY <1>1, <2>1 DEF OneByOne, SameAt, Alone, Fitting, Fits
  <2>8. FilesOwn' BY <1>1, <2>1, <2>6, <2>7 DEF FilesOwn
  <2>9. OwnAnswer' BY <2>1 DEF OwnAnswer, Finished
  <2>10. OneTaker' BY <1>1, <2>1, <2>6, <2>7 DEF OneTaker
  <2>q. QED BY <2>4, <2>5, <2>8, <2>9, <2>10
<1>q. QED BY <1>3, <1>4

LEMMA countErrorOwned ==
  ASSUME TypeOK, TypeOK', Owned, NEW w \in Workers, countError(w)
  PROVE  Owned'
<1>1. step[w].pc = "busy" /\ UNCHANGED <<kind, files, svc, door, person, sup, news, doubled, lost>>
  BY DEF countError
<1>2. CASE Errs(w) = MaxErrors
  <2> DEFINE j == [finish("failed", 0) EXCEPT !.errors = MaxErrors]
  <2>1. update(step[w].attempt, j) /\ Ends(w) /\ UNCHANGED polls BY <1>2 DEF countError
  <2>2. SameButStatus(j)
    <3>1. finish("failed", 0) \in Job
      BY FinishTyped, ServicesAssumption DEF TypeOK, Statuses, Finished, ServicesAssumption
    <3>2. /\ finish("failed", 0).attempt = job.attempt /\ finish("failed", 0).at = job.at
          /\ finish("failed", 0).remote = job.remote /\ finish("failed", 0).status = "failed"
      BY FinishIs, ServicesAssumption DEF TypeOK, Statuses, Finished, ServicesAssumption
    <3>q. QED BY <3>1, <3>2 DEF SameButStatus, Early, Job
  <2> HIDE DEF j
  <2>3. Moves(w) /\ step'[w] = Idle BY <1>1, <2>1, EndsMoves
  <2>4. job' = IF Holds(step[w].attempt) THEN j ELSE job
    BY <2>1, UpdateShows
  <2>q. QED BY <1>1, <2>2, <2>3, <2>4, HeardOwned DEF Unsubmitted
<1>3. CASE Errs(w) # MaxErrors
  <2>1. /\ job' = IF Holds(step[w].attempt) THEN [job EXCEPT !.errors = Errs(w)] ELSE job
        /\ IF Holds(step[w].attempt) THEN QueueNext(w) ELSE Ends(w) /\ UNCHANGED polls
        /\ UNCHANGED <<watched, faults>>
    BY <1>3 DEF countError
  <2>2. Moves(w) /\ step'[w] = Idle
    <3>1. CASE Holds(step[w].attempt) BY <1>1, <2>1, <3>1, QueueNextMoves
    <3>2. CASE ~Holds(step[w].attempt) BY <1>1, <2>1, <3>2, EndsMoves
    <3>q. QED BY <3>1, <3>2
  <2>3. /\ job'.attempt = job.attempt /\ job'.at = job.at /\ job'.remote = job.remote
        /\ job'.status = job.status /\ job'.output = job.output
    BY <2>1 DEF TypeOK, Job
  <2>4. SameRow BY <2>3 DEF SameRow
  <2>5. Kept BY <1>1, <2>1, <2>2, <2>3 DEF Kept, Moves, Others
  <2>q. QED BY <1>1, <2>2, <2>4, <2>5, EndingOwned
<1>q. QED BY <1>2, <1>3

\* The row as a poll that heard of work or of a question writes it.
LEMMA HeardIs ==
  ASSUME TypeOK, NEW s \in {"running", "needs_input"}
  PROVE  /\ [Becomes(s) EXCEPT !.errors = 0] \in Job
         /\ SameButStatus([Becomes(s) EXCEPT !.errors = 0])
<1>1. s \in Statuses BY DEF Statuses, Moving
<1>2. Becomes(s) \in Job BY <1>1, BecomesTyped DEF TypeOK
<1>3. /\ Becomes(s).attempt = job.attempt /\ Becomes(s).at = job.at
      /\ Becomes(s).remote = job.remote /\ Becomes(s).status = s
  BY <1>1, BecomesIs DEF TypeOK
<1>4. 0 \in 0..MaxErrors BY ServicesAssumption DEF ServicesAssumption
<1>q. QED BY <1>2, <1>3, <1>4 DEF SameButStatus, Early, Job

LEMMA AbsorbsOwned ==
  ASSUME TypeOK, TypeOK', Owned, NEW w \in Workers, NEW j, SameButStatus(j), Absorbs(w, j),
         step[w].pc \in {"working", "asks"}, UNCHANGED <<kind, files, svc, door, person, sup, doubled, lost>>
  PROVE  Owned'
<1>1. /\ Moves(w) /\ step'[w] = Idle
      /\ job' = IF Holds(step[w].attempt) THEN j ELSE job
  BY AbsorbsMoves
<1>q. QED BY <1>1, HeardOwned DEF Unsubmitted

LEMMA takeProgressOwned ==
  ASSUME TypeOK, TypeOK', Owned, NEW w \in Workers, takeProgress(w)
  PROVE  Owned'
<1> DEFINE j == [Becomes("running") EXCEPT !.errors = 0]
<1>1. step[w].pc = "working" /\ UNCHANGED <<kind, files, svc, door, person, sup, doubled, lost>>
      /\ (Absorbs(w, j) \/ Absorbs(w, Moved(j)))
  BY DEF takeProgress
<1>2. j \in Job /\ SameButStatus(j) BY HeardIs
<1> HIDE DEF j
<1>3. SameButStatus(Moved(j)) BY <1>2, MovedIs DEF SameButStatus
<1>4. CASE Absorbs(w, j) BY <1>1, <1>2, <1>4, AbsorbsOwned
<1>5. CASE Absorbs(w, Moved(j)) BY <1>1, <1>3, <1>5, AbsorbsOwned
<1>q. QED BY <1>1, <1>4, <1>5

LEMMA takeQuestionOwned ==
  ASSUME TypeOK, TypeOK', Owned, NEW w \in Workers, takeQuestion(w)
  PROVE  Owned'
<1> DEFINE j == [Becomes("needs_input") EXCEPT !.errors = 0]
<1>1. step[w].pc = "asks" /\ UNCHANGED <<kind, files, svc, door, person, sup, doubled, lost>>
      /\ Absorbs(w, j)
  BY DEF takeQuestion
<1>2. SameButStatus(j) BY HeardIs
<1> HIDE DEF j
<1>q. QED BY <1>1, <1>2, AbsorbsOwned

\* A step that is not a poll's and leaves the files, the answer and the
\* machines alone.
LEMMA QuietOwned ==
  ASSUME TypeOK, Owned, Quiet, Kept, \A r \in Routes : svc'[r] = "run" => svc[r] = "run"
  PROVE  Owned'
<1>1. OneByOne' BY QuietKeeps DEF Owned
<1>2. FilesOwn' /\ OwnAnswer' /\ OneTaker' BY KeptKeeps DEF Owned
<1>3. Fitting' BY FittingStays DEF Owned, Quiet, Kept
<1>q. QED BY <1>1, <1>2, <1>3 DEF Owned

LEMMA reportProgressOwned ==
  ASSUME TypeOK, TypeOK', Owned, NEW w \in Workers, reportProgress(w)
  PROVE  Owned'
<1>1. UNCHANGED <<kind, files, svc, polls, step, door, person, sup, watched, faults, doubled, lost>>
      /\ job' = IF Holds(step[w].attempt) THEN Moved(job) ELSE job
  BY DEF reportProgress
<1>2. /\ job'.attempt = job.attempt /\ job'.at = job.at /\ job'.remote = job.remote
      /\ job'.status = job.status /\ job'.output = job.output
  BY <1>1, MovedIs DEF TypeOK
<1>3. Quiet BY <1>1, <1>2 DEF Quiet, SameRow
<1>4. Kept BY <1>1, <1>2 DEF Kept
<1>q. QED BY <1>1, <1>3, <1>4, QuietOwned

LEMMA recordOutputsOwned ==
  ASSUME TypeOK, TypeOK', Owned, NEW w \in Workers, recordOutputs(w)
  PROVE  Owned'
<1> USE DEF Owned
<1>1. step[w].pc \in {"done", "run"} /\ Goes(w, "finish")
      /\ files' = (IF files = 0 THEN step[w].at ELSE files)
      /\ UNCHANGED <<job, kind, svc, polls, door, person, sup, watched, news, faults, doubled, lost>>
  BY DEF recordOutputs
<1>2. Moves(w) BY <1>1, GoesMoves
<1>3. OneByOne' BY <1>1, <1>2, MovesKeep DEF SameRow
<1>4. Others(w) /\ step'[w].pc = "finish"
         /\ step'[w].attempt = step[w].attempt /\ step'[w].at = step[w].at
         /\ step'[w].remote = step[w].remote /\ step'[w].queued = step[w].queued
  BY <1>1, GoesIs
<1>5. step[w].at # 0 /\ job.at # 0 /\ job.attempt \in Nat /\ step[w].attempt \in Nat
  <2>1. job.attempt \in Attempts /\ step[w].attempt \in Attempts
        /\ step[w].at \in Routes /\ job.at \in Routes
    BY DEF TypeOK, Step, Job
  <2>q. QED BY <2>1, ServicesAssumption DEF Attempts, Routes, ServicesAssumption
<1>6. OneChain' = OneChain BY <1>1 DEF OneChain
<1>7. Fitting'
  <2>1. Fits(step[w])' BY <1>1, <1>4, <1>5 DEF Fits, Fitting
  <2>q. QED BY <1>1, <1>4, <1>5, <2>1, FittingKeeps
<1>8. FilesOwn'
  <2>1. CASE files # 0 BY <1>1, <1>6, <2>1 DEF FilesOwn
  <2>2. CASE files = 0
    <3> SUFFICES ASSUME OneChain, job.attempt = 0
                 PROVE  step[w].at = job.at /\ (job.remote # 0 \/ job.at \in BuiltIn)
      BY <1>1, <1>6, <2>2 DEF FilesOwn
    <3>1. step[w].attempt = 0 BY <1>5 DEF OneByOne, Fresh
    <3>2. w \in AtWork BY <1>1, <3>1 DEF AtWork
    <3>3. step[w].at = job.at /\ step[w].remote = job.remote BY <3>2 DEF OneByOne, SameAt
    <3>q. QED BY <1>1, <3>3 DEF Fitting, Fits
  <2>q. QED BY <2>1, <2>2
<1>9. OwnAnswer'
  BY <1>1, <1>5, <1>6 DEF OwnAnswer, FilesOwn
<1>10. OneTaker'
  <2> SUFFICES ASSUME kind.acts, ~lost, OneChain, NEW r \in Routes, svc[r] # "none",
                      NEW v \in AtWork, step[v].pc = "submitted"
               PROVE  v \in AtWork' /\ step'[v].pc = "submitted"
    BY <1>1, <1>6 DEF OneTaker
  <2>q. QED BY <1>1, <1>4 DEF AtWork, Others
<1>q. QED BY <1>3, <1>7, <1>8, <1>9, <1>10

LEMMA takeAnswerOwned ==
  ASSUME TypeOK, TypeOK', Owned, NEW w \in Workers, takeAnswer(w)
  PROVE  Owned'
<1> USE DEF Owned
<1>1. step[w].pc = "finish" /\ update(step[w].attempt, finish("done", step[w].at)) /\ Ends(w)
      /\ UNCHANGED <<kind, files, svc, polls, door, person, sup, news, doubled, lost>>
  BY DEF takeAnswer
<1>2. Moves(w) /\ step'[w] = Idle BY <1>1, EndsMoves
<1>3. job' = IF Holds(step[w].attempt) THEN finish("done", step[w].at) ELSE job
  BY <1>1, UpdateShows
<1>4. CASE ~Holds(step[w].attempt)
  <2>1. SameRow BY <1>3, <1>4 DEF SameRow
  <2>2. Kept BY <1>1, <1>2, <1>3, <1>4 DEF Kept, Moves, Others
  <2>q. QED BY <1>1, <1>2, <2>1, <2>2, EndingOwned
<1>5. CASE Holds(step[w].attempt)
  <2>1. step[w].at \in 0..NRoutes /\ "done" \in Statuses
    BY ServicesAssumption DEF TypeOK, Step, Routes, Statuses, Finished, ServicesAssumption
  <2>2. /\ job'.attempt = job.attempt /\ job'.at = job.at /\ job'.remote = job.remote
        /\ job'.status = "done" /\ job'.output = step[w].at
    BY <1>3, <1>5, <2>1, FinishIs DEF TypeOK
  <2>3. OneByOne' BY <1>2, <2>2, MovesKeep DEF SameRow, Early
  <2>4. Fitting' BY <1>1, <1>2, FittingKeeps, IdleFits DEF Moves
  <2>5. OneChain' = OneChain BY <1>1, <2>2 DEF OneChain
  <2>6. w \in AtWork BY <1>1, <1>5 DEF AtWork, Holds
  <2>7. OneChain => step[w].at = job.at BY <2>6 DEF OneByOne, SameAt
  <2>8. FilesOwn' BY <1>1, <2>2, <2>5 DEF FilesOwn
  <2>9. files # 0 BY <1>1 DEF Fitting, Fits
  <2>10. OwnAnswer' BY <1>1, <2>2, <2>5, <2>7, <2>9 DEF OwnAnswer, FilesOwn
  <2>11. OneTaker' BY <1>1, <1>3, <2>2, <2>5 DEF OneTaker, Finished
  <2>q. QED BY <2>3, <2>4, <2>8, <2>10, <2>11
<1>q. QED BY <1>4, <1>5

LEMMA PollOwned ==
  ASSUME TypeOK, TypeOK', Owned, NEW w \in Workers, Poll(w)
  PROVE  Owned'
BY submitRemoteOwned, askOwned, unreachableOwned, takeSubmittedOwned, takeFailureOwned,
   fallThroughOwned, countErrorOwned, takeProgressOwned, reportProgressOwned,
   takeQuestionOwned, recordOutputsOwned, takeAnswerOwned DEF Poll

------------------------------------------------------------------------------
(* A poll begins                                                           *)

\* What a poll may hold as it begins is what the row says.
LEMMA BeginIs ==
  ASSUME TypeOK, NEW w \in Workers, NEW queued \in BOOLEAN, Begin(w, queued)
  PROVE  /\ Others(w) /\ step'[w].pc = (IF job.at \in BuiltIn THEN "run" ELSE "hop")
         /\ step'[w].attempt = job.attempt /\ step'[w].at = job.at
         /\ step'[w].remote = job.remote /\ step'[w].queued = queued
         /\ job'.attempt = job.attempt /\ job'.at = job.at /\ job'.remote = job.remote
         /\ job' = job \/ job'.status = "running"
         /\ job.at \notin BuiltIn => UNCHANGED svc
         /\ job.at \in BuiltIn => svc' = [svc EXCEPT ![job.at] = "run"]
<1>1. Others(w) /\ step'[w] = [pc |-> IF job.at \in BuiltIn THEN "run" ELSE "hop",
        attempt |-> job.attempt, at |-> job.at, remote |-> job.remote,
        errors |-> job.errors, queued |-> queued]
  BY DEF Begin, Others, TypeOK
<1>3. job' = job \/ job' = Becomes("running") BY DEF Begin
<1>4. /\ Becomes("running").attempt = job.attempt /\ Becomes("running").at = job.at
      /\ Becomes("running").remote = job.remote /\ Becomes("running").status = "running"
  BY BecomesIs DEF TypeOK, Statuses, Moving
<1>5. /\ job.at \notin BuiltIn => UNCHANGED svc
      /\ job.at \in BuiltIn => svc' = [svc EXCEPT ![job.at] = "run"]
  BY DEF Begin
<1>q. QED BY <1>1, <1>3, <1>4, <1>5

\* Nobody else carries the attempt on, if no service has the job.
BeginsAlone(w, queued) ==
  OneChain /\ job.remote = 0 =>
    /\ AtWork = {} /\ job.attempt \notin polls' /\ sup # "start"
    /\ door # "idle" => ~queued

LEMMA BeginOwned ==
  ASSUME TypeOK, TypeOK', Owned, NEW w \in Workers, NEW queued \in BOOLEAN, Begin(w, queued),
         step[w].pc = "idle", job.status \notin Finished \cup Early, BeginsAlone(w, queued),
         polls' \subseteq polls, queued \/ door = "call",
         UNCHANGED <<kind, files, door, person, sup, doubled, lost>>
  PROVE  Owned'
<1> USE DEF Owned
<1> DEFINE pc == IF job.at \in BuiltIn THEN "run" ELSE "hop"
<1>1. /\ Others(w) /\ step'[w].pc = pc
      /\ step'[w].attempt = job.attempt /\ step'[w].at = job.at
      /\ step'[w].remote = job.remote /\ step'[w].queued = queued
      /\ job'.attempt = job.attempt /\ job'.at = job.at /\ job'.remote = job.remote
      /\ job' = job \/ job'.status = "running"
      /\ job.at \notin BuiltIn => UNCHANGED svc
      /\ job.at \in BuiltIn => svc' = [svc EXCEPT ![job.at] = "run"]
  BY BeginIs
<1>2. pc # "idle" /\ pc \in {"run", "hop"} /\ job.attempt \in Nat
  BY ServicesAssumption DEF TypeOK, Job, Attempts, ServicesAssumption
<1>3. AtWork' = AtWork \cup {w}
  BY <1>1, <1>2 DEF AtWork, Others
<1>4. OneChain' = OneChain BY <1>1 DEF OneChain
<1>5. OneByOne'
  <2>1. Fresh' BY <1>1, <1>2 DEF OneByOne, Fresh, Others
  <2>2. Unbegun' BY <1>1 DEF OneByOne, Unbegun, Early
  <2>3. AnswersKnown' BY <1>1 DEF OneByOne, AnswersKnown
  <2>4. SameAt'
    <3> SUFFICES ASSUME OneChain, NEW v \in AtWork'
                 PROVE  step'[v].at = job.at /\ step'[v].remote = job.remote
      BY <1>1, <1>4 DEF SameAt
    <3>1. CASE v = w BY <1>1, <3>1
    <3>2. CASE v # w
      <4>1. v \in AtWork /\ step'[v] = step[v] BY <1>1, <1>3, <3>2 DEF AtWork, Others
      <4>q. QED BY <4>1 DEF OneByOne, SameAt
    <3>q. QED BY <3>1, <3>2
  <2>5. RemoteIsItsOwn' /\ Actor' BY <1>1, <1>4 DEF OneByOne, RemoteIsItsOwn, Actor
  <2>6. Alone' BY <1>1, <1>3, <1>4 DEF OneByOne, Alone, BeginsAlone
  <2>q. QED BY <2>1, <2>2, <2>3, <2>4, <2>5, <2>6 DEF OneByOne
<1>6. \A r \in Routes : svc'[r] = svc[r] \/ (r = job.at /\ r \in BuiltIn)
  <2>1. CASE job.at \in BuiltIn BY <1>1, <2>1 DEF TypeOK
  <2>2. CASE job.at \notin BuiltIn BY <1>1, <2>2
  <2>q. QED BY <2>1, <2>2
<1>7. Fitting'
  <2>1. Fits(step[w])' BY <1>1 DEF Fits
  <2>q. QED BY <1>1, <1>6, <2>1, FittingKeeps
<1>8. FilesOwn' BY <1>1, <1>4 DEF FilesOwn
<1>9. OwnAnswer' BY <1>1 DEF OwnAnswer, Finished
<1>10. OneTaker'
  <2> SUFFICES ASSUME kind.acts, ~lost, OneChain, NEW r \in Routes, svc'[r] # "none"
               PROVE  /\ r = job.at
                      /\ \/ job.remote # 0 \/ r \in BuiltIn
                         \/ \E v \in AtWork' : step'[v].pc = "submitted"
    BY <1>1, <1>4 DEF OneTaker
  <2>1. CASE r = job.at /\ r \in BuiltIn BY <2>1
  <2>2. CASE svc'[r] = svc[r]
    <3>1. /\ r = job.at
          /\ \/ job.remote # 0 \/ r \in BuiltIn
             \/ \E v \in AtWork : step[v].pc = "submitted"
      BY <2>2 DEF OneTaker
    <3>2. \A v \in AtWork : v \in AtWork' /\ step'[v] = step[v]
      BY <1>1, <1>3 DEF AtWork, Others
    <3>q. QED BY <3>1, <3>2
  <2>q. QED BY <1>6, <2>1, <2>2
<1>q. QED BY <1>5, <1>7, <1>8, <1>9, <1>10

LEMMA beginPollOwned ==
  ASSUME TypeOK, TypeOK', Owned, NEW w \in Workers, NEW a \in Attempts, beginPoll(w, a)
  PROVE  Owned'
<1>1. /\ step[w].pc = "idle" /\ a \in polls /\ polls' = polls \ {a}
      /\ UNCHANGED <<kind, files, door, person, sup, news, doubled, lost>>
  BY DEF beginPoll
<1>2. CASE job.status \in Finished \cup {"awaiting_confirm"} \/ job.attempt # a
  <2>1. UNCHANGED <<job, step, watched, faults, svc>> BY <1>2 DEF beginPoll
  <2>2. OneChain' = OneChain /\ AtWork' = AtWork BY <1>1, <2>1 DEF OneChain, AtWork
  <2>3. OneByOne'
    <3> USE DEF Owned, OneByOne
    <3>1. Fresh' /\ Unbegun' /\ AnswersKnown' BY <1>1, <2>1 DEF Fresh, Unbegun, AnswersKnown
    <3>2. Alone' BY <1>1, <2>1, <2>2 DEF Alone
    <3>3. SameAt' /\ RemoteIsItsOwn' /\ Actor'
      BY <1>1, <2>1, <2>2 DEF SameAt, RemoteIsItsOwn, Actor
    <3>q. QED BY <3>1, <3>2, <3>3
  <2>4. Kept BY <1>1, <2>1 DEF Kept
  <2>5. Fitting' BY <1>1, <2>1, FittingStays DEF Owned
  <2>q. QED BY <2>3, <2>4, <2>5, KeptKeeps DEF Owned
<1>3. CASE job.status \notin Finished \cup {"awaiting_confirm"} /\ job.attempt = a
  <2>1. Begin(w, TRUE) BY <1>3 DEF beginPoll
  <2>2. job.status \notin Finished \cup Early
    BY <1>1, <1>3 DEF Owned, OneByOne, Unbegun, Early
  <2>3. BeginsAlone(w, TRUE) BY <1>1, <1>3 DEF Owned, OneByOne, Alone, BeginsAlone
  <2>q. QED BY <1>1, <2>1, <2>2, <2>3, BeginOwned
<1>q. QED BY <1>2, <1>3

LEMMA runInlineOwned ==
  ASSUME TypeOK, TypeOK', Owned, NEW w \in Workers, runInline(w)
  PROVE  Owned'
<1>1. /\ step[w].pc = "idle" /\ door = "call" /\ Inline = {} /\ job.status \in Moving
      /\ Begin(w, FALSE) /\ UNCHANGED <<kind, files, polls, door, person, sup, news, doubled, lost>>
  BY DEF runInline
<1>2. job.status \notin Finished \cup Early BY <1>1 DEF Moving, Finished, Early
<1>3. BeginsAlone(w, FALSE)
  <2> SUFFICES ASSUME OneChain, job.remote = 0
               PROVE  AtWork = {} /\ job.attempt \notin polls /\ sup # "start"
    BY <1>1 DEF BeginsAlone
  <2>1. sup # "start" /\ job.attempt \notin polls /\ \A v \in AtWork : ~step[v].queued
    BY <1>1 DEF Owned, OneByOne, Alone
  <2>2. AtWork \subseteq Inline BY <2>1 DEF AtWork, Inline
  <2>q. QED BY <1>1, <2>1, <2>2
<1>q. QED BY <1>1, <1>2, <1>3, BeginOwned

------------------------------------------------------------------------------
(* The calls, the person, the supervisor and a crash                       *)

\* The call, or the supervisor, leaves the job to the queue.
LEMMA StartOwned ==
  ASSUME TypeOK, TypeOK', Owned, startQueuedJob, job.status \notin Early,
         OneChain /\ job.remote = 0 => AtWork = {} /\ job.attempt \notin polls,
         \/ door # "idle" /\ door' = "idle" /\ UNCHANGED sup /\ Inline = {}
            /\ (OneChain /\ job.remote = 0 => sup # "start")
         \/ sup = "start" /\ sup' = "idle" /\ UNCHANGED door
            /\ (OneChain /\ job.remote = 0 => door = "idle"),
         UNCHANGED <<kind, files, svc, step, person, faults, doubled, lost>>
  PROVE  Owned'
<1> USE DEF Owned
<1>1. /\ job'.attempt = job.attempt /\ job'.at = job.at /\ job'.remote = job.remote
      /\ job'.status = job.status /\ job'.output = job.output
  BY MovedIs DEF startQueuedJob, TypeOK
<1>2. polls' = polls \cup {job.attempt} \/ UNCHANGED polls
  BY DEF startQueuedJob, enqueue
<1>3. AtWork' = AtWork /\ OneChain' = OneChain BY <1>1 DEF AtWork, OneChain
<1>4. job.attempt \in Nat
  BY ServicesAssumption DEF TypeOK, Job, Attempts, ServicesAssumption
<1>5. Fresh'
  <2>1. job.attempt \in 0..job.attempt BY <1>4
  <2>2. polls' \subseteq 0..job.attempt BY <1>2, <2>1 DEF OneByOne, Fresh
  <2>q. QED BY <1>1, <2>2 DEF OneByOne, Fresh
<1>6. Unbegun' /\ AnswersKnown' BY <1>1 DEF OneByOne, Unbegun, AnswersKnown
<1>7. Alone' BY <1>1, <1>2, <1>3 DEF OneByOne, Alone
<1>8. SameAt' /\ RemoteIsItsOwn' /\ Actor'
  BY <1>1, <1>3 DEF OneByOne, SameAt, RemoteIsItsOwn, Actor
<1>9. Kept BY <1>1 DEF Kept
<1>10. Fitting'
  <2>1. ASSUME NEW v \in Workers PROVE Fits(step[v])'
    <3>1. Fits(step[v]) BY DEF Fitting
    <3>2. door' # door => step[v].pc = "idle" \/ step[v].queued BY DEF Inline
    <3>q. QED BY <3>1, <3>2 DEF Fits
  <2>q. QED BY <2>1 DEF Fitting
<1>q. QED BY <1>5, <1>6, <1>7, <1>8, <1>9, <1>10, KeptKeeps DEF OneByOne

LEMMA invokeReturnsOwned ==
  ASSUME TypeOK, TypeOK', Owned, invokeReturns
  PROVE  Owned'
<1>1. /\ door # "idle" /\ Inline = {} /\ door' = "idle"
      /\ UNCHANGED <<kind, files, svc, step, person, sup, watched, news, faults, doubled, lost>>
  BY DEF invokeReturns
<1>2. job.status \notin Early BY <1>1 DEF Owned, OneByOne, Unbegun
<1>3. OneChain /\ job.remote = 0 => AtWork = {} /\ job.attempt \notin polls /\ sup # "start"
  <2> SUFFICES ASSUME OneChain, job.remote = 0
               PROVE  AtWork = {} /\ job.attempt \notin polls /\ sup # "start"
    OBVIOUS
  <2>1. sup # "start" /\ job.attempt \notin polls /\ \A v \in AtWork : ~step[v].queued
    BY <1>1 DEF Owned, OneByOne, Alone
  <2>2. AtWork \subseteq Inline BY <2>1 DEF AtWork, Inline
  <2>q. QED BY <1>1, <2>1, <2>2
<1>4. CASE startQueuedJob BY <1>1, <1>2, <1>3, <1>4, StartOwned
<1>5. CASE UNCHANGED <<job, polls>>
  <2>1. AtWork' = AtWork /\ OneChain' = OneChain BY <1>1, <1>5 DEF AtWork, OneChain
  <2>2. OneByOne'
    <3> USE DEF Owned, OneByOne
    <3>1. Fresh' /\ Unbegun' /\ AnswersKnown' BY <1>1, <1>5 DEF Fresh, Unbegun, AnswersKnown
    <3>2. Alone' BY <1>1, <1>5, <2>1 DEF Alone
    <3>3. SameAt' /\ RemoteIsItsOwn' /\ Actor'
      BY <1>1, <1>5, <2>1 DEF SameAt, RemoteIsItsOwn, Actor
    <3>q. QED BY <3>1, <3>2, <3>3
  <2>3. Kept BY <1>1, <1>5 DEF Kept
  <2>4. Fitting'
    <3>1. ASSUME NEW v \in Workers PROVE Fits(step[v])'
      <4>1. Fits(step[v]) BY DEF Owned, Fitting
      <4>2. step[v].pc = "idle" \/ step[v].queued BY <1>1 DEF Inline
      <4>q. QED BY <1>1, <4>1, <4>2 DEF Fits
    <3>q. QED BY <1>1, <3>1 DEF Owned, Fitting
  <2>q. QED BY <2>2, <2>3, <2>4, KeptKeeps DEF Owned
<1>q. QED BY <1>4, <1>5 DEF invokeReturns

LEMMA handOnReturnsOwned ==
  ASSUME TypeOK, TypeOK', Owned, handOnReturns
  PROVE  Owned'
<1>1. /\ sup = "start" /\ sup' = "idle" /\ startQueuedJob
      /\ UNCHANGED <<kind, files, svc, step, door, person, watched, news, faults, doubled, lost>>
  BY DEF handOnReturns
<1>2. job.status \notin Early BY <1>1 DEF Owned, OneByOne, Unbegun
<1>3. OneChain /\ job.remote = 0 => AtWork = {} /\ job.attempt \notin polls /\ door = "idle"
  BY <1>1 DEF Owned, OneByOne, Alone
<1>q. QED BY <1>1, <1>2, <1>3, StartOwned

\* The call, the yes and the day that passed without one.
LEMMA beginsOwned ==
  ASSUME TypeOK, TypeOK', Owned, invokeAs \/ confirmServiceJob \/ expireOne
  PROVE  Owned'
<1> USE DEF Owned
<1>1. /\ job.status \in Early
      /\ UNCHANGED <<kind, files, svc, polls, step, person, sup, news, doubled, lost>>
  BY DEF invokeAs, confirmServiceJob, expireOne, Early
<1>2. PICK s \in {"queued", "awaiting_confirm", "cancelled"} :
        /\ job' = [job EXCEPT !.status = s]
        /\ s # "queued" => UNCHANGED door
  BY DEF invokeAs, confirmServiceJob, expireOne
<1>3. /\ job'.attempt = job.attempt /\ job'.at = job.at /\ job'.remote = job.remote
      /\ job'.status = s /\ job'.output = job.output
  BY <1>2 DEF TypeOK, Job
<1>5. /\ door = "idle" /\ polls = {} /\ sup = "idle" /\ job.remote = 0
      /\ \A v \in Workers : step[v].pc = "idle"
  BY <1>1 DEF OneByOne, Unbegun
<1>6. AtWork = {} /\ AtWork' = {} /\ OneChain' = OneChain
  BY <1>1, <1>3, <1>5 DEF AtWork, OneChain
<1>7. OneByOne'
  <2> USE DEF OneByOne
  <2>1. Fresh' /\ AnswersKnown' BY <1>1, <1>3 DEF Fresh, AnswersKnown
  <2>2. Unbegun' BY <1>1, <1>2, <1>3, <1>5 DEF Unbegun, Early
  <2>3. Alone' BY <1>1, <1>3, <1>5, <1>6 DEF Alone
  <2>4. SameAt' /\ RemoteIsItsOwn' /\ Actor'
    BY <1>1, <1>3, <1>6 DEF SameAt, RemoteIsItsOwn, Actor
  <2>q. QED BY <2>1, <2>2, <2>3, <2>4
<1>8. Kept
  <2>1. job.status \notin Finished BY <1>1 DEF Early, Finished
  <2>2. step' = step BY <1>1
  <2>q. QED BY <1>1, <1>3, <2>1, <2>2 DEF Kept
<1>9. Fitting' BY <1>1, <1>5, FittingStays
<1>q. QED BY <1>7, <1>8, <1>9, KeptKeeps

\* Of the services, none takes the job up.
Settles ==
  \A r \in Routes :
    /\ svc[r] = "none" => svc'[r] = "none"
    /\ svc'[r] = "run" => svc[r] = "run"

LEMMA CancelsSettles == ASSUME TypeOK, CancelsRemote PROVE Settles
<1>1. CASE UNCHANGED svc BY <1>1 DEF Settles
<1>2. CASE svc[job.at] \in {"working", "asks"} /\ svc' = [svc EXCEPT ![job.at] = "over"]
  BY <1>2 DEF Settles, TypeOK
<1>q. QED BY <1>1, <1>2 DEF CancelsRemote

LEMMA NobodyIs == Nobody.pc = "idle" /\ Nobody.attempt = 0
BY DEF Nobody

\* A step that is not a poll's and leaves the row, or settles it.
LEMMA RestingOwned ==
  ASSUME TypeOK, Owned, Quiet, Settles, UNCHANGED <<files, lost>>,
         job.status \in Finished => job'.status \in Finished,
         job'.status = "done" => job.status = "done" /\ job'.output = job.output
  PROVE  Owned'
<1>1. Kept BY DEF Kept, Quiet, SameRow, Settles
<1>q. QED BY <1>1, QuietOwned DEF Settles

LEMMA answerOwned ==
  ASSUME TypeOK, TypeOK', Owned, answer
  PROVE  Owned'
<1>1. /\ job.status = "needs_input" /\ job.remote = job.at /\ svc[job.at] = "asks"
      /\ svc' = [svc EXCEPT ![job.at] = "working"]
      /\ person' = [pc |-> "answer", attempt |-> job.attempt]
      /\ UNCHANGED <<job, kind, files, polls, step, door, sup, watched, news, faults, doubled, lost>>
  BY DEF answer
<1>2. job.at # 0 BY DEF TypeOK, Job, Routes
<1>3. Quiet BY <1>1, <1>2 DEF Quiet, SameRow
<1>4. Settles BY <1>1 DEF Settles, TypeOK
<1>q. QED BY <1>1, <1>3, <1>4, RestingOwned

LEMMA answerTakenOwned ==
  ASSUME TypeOK, TypeOK', Owned, answerTaken
  PROVE  Owned'
<1>1. /\ person.pc = "answer" /\ update(person.attempt, Moved(Becomes("running")))
      /\ person' = Nobody
      /\ UNCHANGED <<kind, files, svc, step, door, sup, news, doubled, lost>>
  BY DEF answerTaken
<1>2. /\ Holds(person.attempt) => job' = Moved(Becomes("running"))
      /\ ~Holds(person.attempt) => job' = job
  BY <1>1, UpdateShows
<1>3. Settles BY <1>1 DEF Settles
<1>4. CASE Holds(person.attempt)
  <2>1. Becomes("running") \in Job BY BecomesTyped DEF TypeOK, Statuses, Moving
  <2>2. /\ Becomes("running").attempt = job.attempt /\ Becomes("running").at = job.at
        /\ Becomes("running").remote = job.remote /\ Becomes("running").status = "running"
    BY BecomesIs DEF TypeOK, Statuses, Moving
  <2>3. /\ job'.attempt = job.attempt /\ job'.at = job.at /\ job'.remote = job.remote
        /\ job'.status = "running"
    BY <1>2, <1>4, <2>1, <2>2, MovedIs
  <2>4. job.remote # 0 BY <1>1, <1>4 DEF Owned, OneByOne, AnswersKnown, Holds
  <2>5. enqueue(job.attempt, Workers) BY <1>4 DEF answerTaken
  <2>6. UNCHANGED polls \/ polls' = polls \cup {job.attempt} BY <2>5 DEF enqueue
  <2>7. Quiet BY <1>1, <2>3, <2>4, <2>6, NobodyIs DEF Quiet, SameRow, Early
  <2>q. QED BY <1>1, <1>2, <1>3, <1>4, <2>3, <2>7, RestingOwned DEF Holds
<1>5. CASE ~Holds(person.attempt)
  <2>1. UNCHANGED <<job, polls>> BY <1>2, <1>5 DEF answerTaken
  <2>2. Quiet BY <1>1, <2>1, NobodyIs DEF Quiet, SameRow
  <2>q. QED BY <1>1, <1>2, <1>3, <2>1, <2>2, RestingOwned
<1>q. QED BY <1>4, <1>5

LEMMA cancelOwned ==
  ASSUME TypeOK, TypeOK', Owned, cancel
  PROVE  Owned'
<1>1. /\ CancelsRemote /\ person' = [pc |-> "cancel", attempt |-> job.attempt]
      /\ UNCHANGED <<job, kind, files, polls, step, door, sup, watched, news, faults, doubled, lost>>
  BY DEF cancel
<1>2. Quiet BY <1>1 DEF Quiet, SameRow
<1>q. QED BY <1>1, <1>2, CancelsSettles, RestingOwned

LEMMA cancelTakenOwned ==
  ASSUME TypeOK, TypeOK', Owned, cancelTaken
  PROVE  Owned'
<1>1. /\ update(person.attempt, finish("cancelled", 0)) /\ person' = Nobody
      /\ UNCHANGED <<kind, files, svc, polls, step, door, sup, news, doubled, lost>>
  BY DEF cancelTaken
<1>2. job' = IF Holds(person.attempt) THEN finish("cancelled", 0) ELSE job
  BY <1>1, UpdateShows
<1>3. SameButStatus(finish("cancelled", 0)) /\ finish("cancelled", 0).status = "cancelled"
  BY FinishIs, ServicesAssumption DEF SameButStatus, TypeOK, Statuses, Finished, Early, ServicesAssumption
<1>4. /\ job'.attempt = job.attempt /\ job'.at = job.at /\ job'.remote = job.remote
      /\ job' = job \/ job'.status = "cancelled"
  BY <1>2, <1>3 DEF SameButStatus
<1>5. Quiet BY <1>1, <1>4, NobodyIs DEF Quiet, SameRow, Early
<1>6. Settles BY <1>1 DEF Settles
<1>q. QED BY <1>1, <1>2, <1>4, <1>5, <1>6, RestingOwned DEF Finished

LEMMA superviseOwned ==
  ASSUME TypeOK, TypeOK', Owned, superviseMoving \/ superviseFinished \/ nudgeStalled
  PROVE  Owned'
<1>1. UNCHANGED <<kind, files, svc, step, door, person, news, lost>>
  BY DEF superviseMoving, superviseFinished, nudgeStalled
<1>2. Settles BY <1>1 DEF Settles
<1>3. job.status \notin Early \/ UNCHANGED <<job, polls, sup, doubled, lost>>
  <2>1. CASE superviseMoving BY <2>1 DEF superviseMoving, Moving, Early
  <2>2. CASE superviseFinished BY <2>2 DEF superviseFinished
  <2>3. CASE nudgeStalled BY <2>3 DEF nudgeStalled, Owned, OneByOne, Unbegun
  <2>q. QED BY <2>1, <2>2, <2>3
<1>4. /\ job'.attempt = job.attempt /\ job'.at = job.at /\ job'.remote = job.remote
      /\ job'.status = job.status /\ job'.output = job.output
  BY DEF superviseMoving, superviseFinished, nudgeStalled, TypeOK, Job
<1>5. /\ sup' = "start" => sup = "start"
      /\ \/ UNCHANGED <<polls, doubled>>
         \/ polls' = polls \cup {job.attempt} /\ doubled' = doubled \cup {job.attempt}
  <2>1. CASE superviseMoving BY <2>1 DEF superviseMoving
  <2>2. CASE superviseFinished BY <2>2 DEF superviseFinished
  <2>3. CASE nudgeStalled BY <2>3 DEF nudgeStalled
  <2>q. QED BY <2>1, <2>2, <2>3
<1>6. Quiet BY <1>1, <1>3, <1>4, <1>5 DEF Quiet, SameRow
<1>q. QED BY <1>1, <1>2, <1>4, <1>6, RestingOwned

LEMMA handOnOwned ==
  ASSUME TypeOK, TypeOK', Owned, handOn
  PROVE  Owned'
<1> USE DEF Owned
<1>1. /\ sup = "hand" /\ UNCHANGED <<kind, files, polls, step, door, person, news, lost>>
      /\ doubled' = doubled \cup {a \in {job'.attempt} : a # job.attempt /\ door # "idle"}
  BY DEF handOn
<1>2. job.status \notin Early BY <1>1 DEF OneByOne, Unbegun
<1>3. CASE job.status \notin Moving
  <2>1. sup' = "idle" /\ UNCHANGED <<job, svc, watched, faults>> BY <1>3 DEF handOn
  <2>2. doubled' = doubled BY <1>1, <2>1
  <2>3. Quiet BY <1>1, <1>2, <2>1, <2>2 DEF Quiet, SameRow
  <2>4. Settles BY <2>1 DEF Settles
  <2>q. QED BY <1>1, <2>1, <2>3, <2>4, RestingOwned
<1>4. CASE job.status \in Moving
  <2>1. Settles
    <3>1. CASE UNCHANGED svc BY <3>1 DEF Settles
    <3>2. CASE CancelsRemote BY <3>2, CancelsSettles
    <3>q. QED BY <1>4, <3>1, <3>2 DEF handOn
  <2>4. CASE ~MayHandOn
    <3>1. job' = [finish("failed", 0) EXCEPT !.stalled = job.stalled] /\ sup' = "idle"
      BY <1>4, <2>4 DEF handOn
    <3>2. finish("failed", 0) \in Job
      BY FinishTyped, ServicesAssumption DEF TypeOK, Statuses, Finished, ServicesAssumption
    <3>3. /\ finish("failed", 0).attempt = job.attempt /\ finish("failed", 0).at = job.at
          /\ finish("failed", 0).remote = job.remote /\ finish("failed", 0).status = "failed"
      BY FinishIs, ServicesAssumption DEF TypeOK, Statuses, Finished, ServicesAssumption
    <3>4. /\ job'.attempt = job.attempt /\ job'.at = job.at /\ job'.remote = job.remote
          /\ job'.status = "failed"
      BY <3>1, <3>2, <3>3 DEF Job
    <3>5. doubled' = doubled BY <1>1, <3>4
    <3>6. Quiet BY <1>1, <3>1, <3>4, <3>5 DEF Quiet, SameRow, Early
    <3>q. QED BY <1>1, <2>1, <3>4, <3>6, RestingOwned DEF Finished
  <2>5. CASE MayHandOn
    <3>1. job' = HandedOn /\ sup' = "start" BY <1>4, <2>5 DEF handOn
    <3>2. /\ job'.attempt = job.attempt + 1 /\ job'.remote = 0 /\ job'.status = "queued"
          /\ job.attempt \in Nat
      <4>1. job.attempt \in Attempts BY DEF TypeOK, Job
      <4>2. job'.attempt = job.attempt + 1 /\ job'.remote = 0 /\ job'.status = "queued"
        BY <3>1 DEF HandedOn, TypeOK, Job
      <4>q. QED BY <4>1, <4>2, ServicesAssumption DEF Attempts, ServicesAssumption
    <3>3. \A v \in Workers : step[v].attempt <= job.attempt /\ step[v].attempt \in Nat
      BY ServicesAssumption DEF TypeOK, Step, Attempts, OneByOne, Fresh, ServicesAssumption
    <3>4. AtWork' = {} BY <1>1, <3>2, <3>3 DEF AtWork
    <3>5. OneChain' => door = "idle" BY <1>1, <3>2 DEF OneChain
    <3>6. job'.attempt \notin polls BY <3>2 DEF OneByOne, Fresh
    <3>7. ~kind.acts BY <2>5 DEF MayHandOn
    <3>8. Fresh'
      <4>1. polls \subseteq 0..job'.attempt /\ doubled \subseteq 0..job'.attempt
            /\ job'.attempt \in 0..job'.attempt
        BY <3>2 DEF OneByOne, Fresh
      <4>2. doubled' \subseteq 0..job'.attempt BY <1>1, <4>1
      <4>3. \A v \in Workers : step'[v].attempt <= job'.attempt BY <1>1, <3>2, <3>3
      <4>4. person'.attempt <= job'.attempt
        <5>1. person.attempt \in Attempts BY DEF TypeOK
        <5>2. person.attempt \in Nat BY <5>1, ServicesAssumption DEF Attempts, ServicesAssumption
        <5>q. QED BY <1>1, <3>2, <5>2 DEF OneByOne, Fresh
      <4>q. QED BY <1>1, <4>1, <4>2, <4>3, <4>4 DEF Fresh
    <3>9. Unbegun' BY <3>2 DEF Unbegun, Early
    <3>10. AnswersKnown'
      <4>1. person.attempt \in Attempts BY DEF TypeOK
      <4>2. person.attempt \in Nat BY <4>1, ServicesAssumption DEF Attempts, ServicesAssumption
      <4>q. QED BY <1>1, <3>2, <4>2 DEF OneByOne, Fresh, AnswersKnown
    <3>11. Alone' BY <1>1, <3>4, <3>5, <3>6 DEF Alone
    <3>12. SameAt' /\ RemoteIsItsOwn' /\ Actor'
      BY <1>1, <3>2, <3>4, <3>7 DEF SameAt, RemoteIsItsOwn, Actor
    <3>13. FilesOwn' /\ OwnAnswer' /\ OneTaker'
      BY <1>1, <3>2, <3>7 DEF FilesOwn, OwnAnswer, OneTaker
    <3>14. Fitting' BY <1>1, <2>1, FittingStays DEF Settles
    <3>q. QED BY <3>8, <3>9, <3>10, <3>11, <3>12, <3>13, <3>14 DEF OneByOne
  <2>q. QED BY <2>4, <2>5
<1>q. QED BY <1>3, <1>4

LEMMA serviceWorksOwned ==
  ASSUME TypeOK, TypeOK', Owned, NEW r \in Routes, serviceWorks(r)
  PROVE  Owned'
<1>1. UNCHANGED <<job, kind, files, polls, step, door, person, sup, watched, faults, doubled, lost>>
  BY DEF serviceWorks
<1>2. Settles
  <2>1. svc[r] = "working" /\ \E s \in {"done", "over", "asks"} : svc' = [svc EXCEPT ![r] = s]
    BY DEF serviceWorks
  <2>q. QED BY <2>1 DEF Settles, TypeOK
<1>3. Quiet BY <1>1 DEF Quiet, SameRow
<1>q. QED BY <1>1, <1>2, <1>3, RestingOwned

LEMMA crashOwned ==
  ASSUME TypeOK, TypeOK', Owned, crash
  PROVE  Owned'
<1> USE DEF Owned
<1>1. /\ polls' = polls \cup {step[w].attempt : w \in {v \in Workers : step[v].queued}}
      /\ step' = [w \in Workers |-> Idle] /\ door' = "idle" /\ person' = Nobody /\ sup' = "idle"
      /\ UNCHANGED <<job, kind, files, svc, watched, news, doubled>>
  BY DEF crash
<1>2. kind.acts /\ ~lost' => ~lost /\ \A w \in Workers : step[w].pc # "submitted"
  BY DEF crash, LosesAnswer
<1>3. \A w \in Workers : step'[w] = Idle BY <1>1
<1>4. AtWork' = {} /\ OneChain' = OneChain BY <1>1, <1>3, IdleIs DEF AtWork, OneChain
<1>5. job.attempt \in Nat
  <2>1. job.attempt \in Attempts BY DEF TypeOK, Job
  <2>q. QED BY <2>1, ServicesAssumption DEF Attempts, ServicesAssumption
<1>6. Fresh'
  <2>1. ASSUME NEW w \in Workers PROVE step[w].attempt \in 0..job.attempt
    <3>1. step[w].attempt \in Attempts BY DEF TypeOK, Step
    <3>2. step[w].attempt \in Nat BY <3>1, ServicesAssumption DEF Attempts, ServicesAssumption
    <3>q. QED BY <1>5, <3>2 DEF OneByOne, Fresh
  <2>2. polls' \subseteq 0..job.attempt BY <1>1, <2>1 DEF OneByOne, Fresh
  <2>q. QED BY <1>1, <1>3, <1>5, <2>2, IdleIs, NobodyIs DEF OneByOne, Fresh
<1>7. Unbegun'
  <2> SUFFICES ASSUME job.status \in Early PROVE polls' = {} /\ job.remote = 0
    BY <1>1, <1>3, IdleIs DEF Unbegun
  <2>1. polls = {} /\ job.remote = 0 /\ \A w \in Workers : step[w].pc = "idle"
    BY DEF OneByOne, Unbegun
  <2>2. \A w \in Workers : ~step[w].queued BY <2>1 DEF Fitting, Fits
  <2>q. QED BY <1>1, <2>1, <2>2
<1>8. AnswersKnown' /\ Alone' BY <1>1, <1>4, NobodyIs DEF AnswersKnown, Alone
<1>9. SameAt' /\ RemoteIsItsOwn' /\ Actor'
  BY <1>1, <1>4 DEF OneByOne, SameAt, RemoteIsItsOwn, Actor
<1>10. Fitting'
  <2>1. ASSUME NEW w \in Workers PROVE Fits(step[w])' BY <1>3, IdleFits
  <2>q. QED BY <1>1, <2>1 DEF Fitting
<1>11. FilesOwn' /\ OwnAnswer'
  BY <1>1, <1>4 DEF FilesOwn, OwnAnswer
<1>12. OneTaker'
  <2>1. \A w \in AtWork : w \in Workers BY DEF AtWork
  <2>q. QED BY <1>1, <1>2, <1>4, <2>1 DEF OneTaker
<1>q. QED BY <1>6, <1>7, <1>8, <1>9, <1>10, <1>11, <1>12 DEF OneByOne

LEMMA NextOwned ==
  ASSUME TypeOK, TypeOK', Owned, [Next]_vars
  PROVE  Owned'
<1>1. CASE invokeAs \/ confirmServiceJob \/ expireOne \/ invokeReturns
  BY <1>1, beginsOwned, invokeReturnsOwned
<1>2. CASE answer \/ answerTaken \/ cancel \/ cancelTaken
  BY <1>2, answerOwned, answerTakenOwned, cancelOwned, cancelTakenOwned
<1>3. CASE supervise BY <1>3, superviseOwned, handOnOwned, handOnReturnsOwned DEF supervise
<1>4. CASE crash BY <1>4, crashOwned
<1>5. ASSUME NEW w \in Workers, Poll(w) \/ runInline(w) PROVE Owned'
  BY <1>5, PollOwned, runInlineOwned
<1>6. ASSUME NEW w \in Workers, NEW a \in Attempts, beginPoll(w, a) PROVE Owned'
  BY <1>6, beginPollOwned
<1>7. ASSUME NEW r \in Routes, serviceWorks(r) PROVE Owned' BY <1>7, serviceWorksOwned
<1>8. CASE UNCHANGED vars
  <2>1. Quiet BY <1>8 DEF vars, Quiet, SameRow
  <2>2. Settles BY <1>8 DEF vars, Settles
  <2>q. QED BY <1>8, <2>1, <2>2, RestingOwned DEF vars
<1>q. QED BY <1>1, <1>2, <1>3, <1>4, <1>5, <1>6, <1>7, <1>8 DEF Next

LEMMA InitOwned == Init => Owned
<1> SUFFICES ASSUME Init PROVE Owned OBVIOUS
<1>1. /\ job.attempt = 0 /\ job.at = 1 /\ job.remote = 0 /\ job.status = "absent"
      /\ files = 0 /\ polls = {} /\ door = "idle" /\ sup = "idle" /\ doubled = {}
      /\ person.pc = "idle" /\ person.attempt = 0
      /\ \A w \in Workers : step[w] = Idle
      /\ \A r \in Routes : svc[r] = "none"
  BY NobodyIs DEF Init
<1>2. AtWork = {} BY <1>1, IdleIs DEF AtWork
<1>3. Fresh /\ Unbegun /\ AnswersKnown /\ Alone /\ SameAt /\ RemoteIsItsOwn /\ Actor
  BY <1>1, <1>2, IdleIs DEF Fresh, Unbegun, AnswersKnown, Alone, SameAt, RemoteIsItsOwn, Actor
<1>4. Fitting BY <1>1, IdleIs DEF Fitting, Fits
<1>5. FilesOwn /\ OwnAnswer /\ OneTaker BY <1>1 DEF FilesOwn, OwnAnswer, OneTaker
<1>q. QED BY <1>3, <1>4, <1>5 DEF Owned, OneByOne

LEMMA OwnedHolds == Spec => []Owned
<1>1. TypeOK /\ TypeOK' /\ Owned /\ [Next]_vars => Owned' BY NextOwned
<1>q. QED BY InitOwned, TypeCorrect, <1>1, PTL DEF Spec

\* A job done was answered by the service its row names, and the files of a
\* first attempt are of that service: a late poll of the service the job was
\* taken from answers for nobody, for any number of hand-ons and faults.
THEOREM OwnAnswersOnly == Spec => []OwnAnswer
<1>1. Owned => OwnAnswer BY DEF Owned
<1>q. QED BY OwnedHolds, <1>1, PTL

\* The remote job the row holds is one of the service the row names: a poll of
\* the service before never writes it back.
THEOREM RemotesAreOwn == Spec => []RemoteIsItsOwn
<1>1. Owned => RemoteIsItsOwn BY DEF Owned, OneByOne
<1>q. QED BY OwnedHolds, <1>1, PTL

\* A job that acts in the world is taken by one machine at most, whatever else
\* fails, until the answer of a machine that took it is lost or a poll crosses
\* its chain: the next service is asked only after the one before has put the
\* job off without taking it.
THEOREM OneMachineOnly == Spec => []OneMachineActs
<1>1. Owned => OneMachineActs BY DEF Owned, OneTaker, OneMachineActs
<1>q. QED BY OwnedHolds, <1>1, PTL
=============================================================================
