---------------------------- MODULE ApprovalsProofs ----------------------------
(***************************************************************************)
(* Proofs about the approvals of MCServiceJobs.tla (Approvals.tla), for any *)
(* number of approvers, windows, remedies, asks and faults.                 *)
(***************************************************************************)
EXTENDS MCServiceJobs, FiniteSetTheorems, TLAPS

\* Whoever says yes and has not finished.
AtYes(a) == answering[a].pc \in {"yes", "give", "failed"}

\* A yes has held or given whatever it has looked at, but the one in its hands.
HonestOf(a) ==
  /\ row[answering[a].ask].status # "none"
  /\ answering[a].pc = "yes" => answering[a].hand = {}
  /\ \A r, s \in answering[a].hand : r = s
  /\ \A r \in asked \ (answering[a].todo \cup answering[a].hand) :
       answering[a].applied[r] \in {"held", "given"}

Honest == \A a \in Approvers : AtYes(a) => HonestOf(a)

\* What was given for an ask without an answer is in somebody's hands, and
\* nobody is at work on an ask that got a no.
Traced ==
  \A i \in Asking!Asks :
    /\ row[i].status = "none" => given[i] = {}
    /\ i \notin cut /\ row[i].status = "pending" /\ given[i] # {} => Asking!AtWork(i)
    /\ i \notin cut /\ row[i].status \in Asking!No => ~Asking!AtWork(i) /\ given[i] = {}

\* What a yes has put on the row.
Told ==
  \A i \in Asking!Asks \ spoilt :
    row[i].status \in Asking!Yes => \A r \in asked : row[i].outcome[r] \in {"held", "given"}

\* A draft goes to one window, and only once there was a yes.
Drafted ==
  \A i \in Asking!Asks :
    /\ \A v, w \in drafts[i] : v = w
    /\ drafts[i] # {} => row[i].status \in {"resuming", "completed"}

AskInv == Asking!TypeOK /\ Honest /\ Traced /\ Told /\ Drafted

------------------------------------------------------------------------------
(* What the steps have in common                                           *)

\* The ask of a row that may change.
OnlyRow(i) == \A j \in Asking!Asks : j # i => row'[j] = row[j]

\* A step that changes nobody's ask, nor what was given or handed out.
LEMMA Resting ==
  ASSUME AskInv, Asking!TypeOK', UNCHANGED <<asked, row, given, drafts, cut, spoilt>>,
         \A a \in Approvers : AtYes(a)' => AtYes(a) /\ answering'[a] = answering[a],
         \A a \in Approvers : AtYes(a) => answering'[a] = answering[a]
  PROVE  AskInv'
<1> USE DEF AskInv
<1>1. Honest' BY DEF Honest, HonestOf, AtYes
<1>2. \A i \in Asking!Asks : Asking!AtWork(i)' <=> Asking!AtWork(i)
  BY DEF Asking!AtWork, AtYes
<1>3. Traced' BY <1>2 DEF Traced
<1>4. Told' /\ Drafted' BY DEF Told, Drafted
<1>q. QED BY <1>1, <1>3, <1>4

\* The parts that say nothing of who is at work.
LEMMA RowsKept ==
  ASSUME AskInv, UNCHANGED <<asked, drafts, spoilt>>,
         \A i \in Asking!Asks : row'[i].status = row[i].status /\ row'[i].outcome = row[i].outcome
  PROVE  Told' /\ Drafted'
BY DEF AskInv, Told, Drafted

LEMMA RowTyped ==
  ASSUME Asking!TypeOK, NEW i \in Asking!Asks, NEW s \in {"none", "pending"} \cup Asking!Yes \cup Asking!No,
         row' = [row EXCEPT ![i].status = s]
  PROVE  /\ row' \in [Asking!Asks -> Asking!Row] /\ OnlyRow(i)
         /\ row'[i].status = s /\ row'[i].outcome = row[i].outcome
<1>1. row[i] \in Asking!Row BY DEF Asking!TypeOK
<1>2. row' = [row EXCEPT ![i] = [row[i] EXCEPT !.status = s]] BY DEF Asking!TypeOK
<1>3. [row[i] EXCEPT !.status = s] \in Asking!Row BY <1>1 DEF Asking!Row
<1>4. row'[i] = [row[i] EXCEPT !.status = s] /\ OnlyRow(i)
  BY <1>2 DEF Asking!TypeOK, OnlyRow
<1>q. QED BY <1>1, <1>2, <1>3, <1>4 DEF Asking!TypeOK, Asking!Row

LEMMA RestTyped ==
  Asking!AtRest \in Asking!Step /\ Asking!AtRest.pc = "idle"
  /\ Asking!Closed \in [pc : {"idle", "withdraw", "check", "take", "replay"}, ask : Asking!Asks]
<1>1. 1 \in Asking!Asks BY AsksAssumption DEF AsksAssumption, Asking!Asks
<1>2. Asking!Nothing \in Asking!Outcomes BY DEF Asking!Nothing, Asking!Outcomes
<1>q. QED BY <1>1, <1>2 DEF Asking!AtRest, Asking!Step, Asking!Closed

\* One approver moves.
Answers(a) == \A b \in Approvers : b # a => answering'[b] = answering[b]

LEMMA FaultTyped ==
  ASSUME Asking!TypeOK, Asking!GoesWrong
  PROVE  askFaults' \in 0..MaxFaults
BY ServicesAssumption DEF Asking!TypeOK, Asking!GoesWrong, ServicesAssumption

LEMMA AnswerTyped ==
  ASSUME Asking!TypeOK, NEW a \in Approvers, NEW s \in Asking!Step,
         answering' = [answering EXCEPT ![a] = s]
  PROVE  answering' \in [Approvers -> Asking!Step] /\ answering'[a] = s /\ Answers(a)
BY DEF Asking!TypeOK, Answers

\* The others are as honest as they were.
LEMMA HonestKept ==
  ASSUME AskInv, NEW a \in Approvers, asked' = asked, Answers(a),
         \A i \in Asking!Asks : row[i].status # "none" => row'[i].status # "none",
         AtYes(a)' => HonestOf(a)'
  PROVE  Honest'
<1> SUFFICES ASSUME NEW b \in Approvers, AtYes(b)', b # a PROVE HonestOf(b)'
  BY DEF Honest
<1>1. answering'[b] = answering[b] BY DEF Answers
<1>2. AtYes(b) /\ HonestOf(b) BY <1>1 DEF AtYes, AskInv, Honest
<1>3. answering[b].ask \in Asking!Asks BY DEF AskInv, Asking!TypeOK, Asking!Step
<1>q. QED BY <1>1, <1>2, <1>3 DEF HonestOf

LEMMA HonestStays ==
  ASSUME AskInv, UNCHANGED <<asked, answering>>,
         \A i \in Asking!Asks : row[i].status # "none" => row'[i].status # "none"
  PROVE  Honest'
<1> SUFFICES ASSUME NEW b \in Approvers, AtYes(b)' PROVE HonestOf(b)'
  BY DEF Honest
<1>2. AtYes(b) /\ HonestOf(b) BY DEF AtYes, AskInv, Honest
<1>3. answering[b].ask \in Asking!Asks BY DEF AskInv, Asking!TypeOK, Asking!Step
<1>q. QED BY <1>2, <1>3 DEF HonestOf

\* Who is at work on what.
SameWork == \A i \in Asking!Asks : Asking!AtWork(i)' <=> Asking!AtWork(i)

LEMMA WorkStays ==
  ASSUME UNCHANGED answering
  PROVE  SameWork
BY DEF SameWork, Asking!AtWork

LEMMA WorkKept ==
  ASSUME NEW a \in Approvers, Answers(a), AtYes(a)' <=> AtYes(a),
         AtYes(a) => answering'[a].ask = answering[a].ask
  PROVE  SameWork
BY DEF SameWork, Asking!AtWork, Answers, AtYes

\* A no puts the asks it cuts short aside.
LEMMA NoIsRecorded ==
  ASSUME AskInv, NEW i \in Asking!Asks, NEW s \in Asking!No, Asking!SaysNo(i, s),
         UNCHANGED <<asked, given, drafts, spoilt>>, SameWork
  PROVE  /\ row' \in [Asking!Asks -> Asking!Row] /\ cut' \subseteq Asking!Asks
         /\ \A j \in Asking!Asks : row[j].status # "none" => row'[j].status # "none"
         /\ Traced' /\ Told' /\ Drafted'
<1>1. CASE row[i].status = "pending"
  <2>1. row' = [row EXCEPT ![i].status = s]
        /\ cut' = IF Asking!AtWork(i) THEN cut \cup {i} ELSE cut
    BY <1>1 DEF Asking!SaysNo, Asking!From, Asking!Becomes
  <2>2. /\ row' \in [Asking!Asks -> Asking!Row] /\ OnlyRow(i)
        /\ row'[i].status = s /\ row'[i].outcome = row[i].outcome
    BY <2>1, RowTyped DEF AskInv
  <2>3. s \notin {"none", "pending"} /\ s \notin Asking!Yes BY DEF Asking!No, Asking!Yes
  <2>4. cut \subseteq cut' /\ cut' \subseteq Asking!Asks BY <2>1 DEF AskInv, Asking!TypeOK
  <2>5. \A j \in Asking!Asks : row[j].status # "none" => row'[j].status # "none"
    BY <2>2, <2>3 DEF OnlyRow
  <2>6. Traced'
    <3> SUFFICES ASSUME NEW j \in Asking!Asks
                 PROVE  /\ row'[j].status = "none" => given[j] = {}
                        /\ j \notin cut' /\ row'[j].status = "pending" /\ given[j] # {}
                             => Asking!AtWork(j)
                        /\ j \notin cut' /\ row'[j].status \in Asking!No
                             => ~Asking!AtWork(j) /\ given[j] = {}
      BY DEF Traced, SameWork
    <3>1. CASE j = i BY <3>1, <1>1, <2>1, <2>2, <2>3 DEF AskInv, Traced
    <3>2. CASE j # i BY <3>2, <2>2, <2>4 DEF AskInv, Traced, OnlyRow
    <3>q. QED BY <3>1, <3>2
  <2>7. Told' BY <2>2, <2>3 DEF AskInv, Told, OnlyRow
  <2>8. Drafted' BY <1>1, <2>2 DEF AskInv, Drafted, OnlyRow
  <2>q. QED BY <2>2, <2>4, <2>5, <2>6, <2>7, <2>8
<1>2. CASE row[i].status # "pending"
  <2>1. UNCHANGED <<row, cut>> BY <1>2 DEF Asking!SaysNo, Asking!From
  <2>2. Traced' /\ Told' /\ Drafted' BY <2>1 DEF AskInv, Traced, Told, Drafted, SameWork
  <2>q. QED BY <2>1, <2>2 DEF AskInv, Asking!TypeOK
<1>q. QED BY <1>1, <1>2

------------------------------------------------------------------------------
(* The asks                                                                *)

LEMMA StartInv == Asking!Init => AskInv
<1> SUFFICES ASSUME Asking!Init PROVE AskInv OBVIOUS
<1>1. Asking!TypeOK
  <2>1. 1 \in Asking!Asks BY AsksAssumption DEF AsksAssumption, Asking!Asks
  <2>2. Asking!Nothing \in Asking!Outcomes BY DEF Asking!Nothing, Asking!Outcomes
  <2>3. row \in [Asking!Asks -> Asking!Row] BY <2>2 DEF Asking!Init, Asking!Row
  <2>4. 0 \in 0..MaxFaults BY ServicesAssumption DEF ServicesAssumption
  <2>q. QED BY <2>3, <2>4, RestTyped DEF Asking!Init, Asking!TypeOK
<1>2. \A a \in Approvers : ~AtYes(a) BY RestTyped DEF Asking!Init, AtYes
<1>3. \A i \in Asking!Asks : row[i].status = "none" /\ given[i] = {} /\ drafts[i] = {}
  BY DEF Asking!Init
<1>q. QED BY <1>1, <1>2, <1>3 DEF AskInv, Honest, Traced, Told, Drafted, Asking!Yes, Asking!No

LEMMA CreateKeeps ==
  ASSUME AskInv, NEW i \in Asking!Asks, Asking!createApprovalRequest(i)
  PROVE  AskInv'
<1>1. PICK tied \in {FALSE, asked = Grants} :
        row' = [row EXCEPT ![i] = [@ EXCEPT !.status = "pending", !.tied = tied]]
  BY DEF Asking!createApprovalRequest
<1>2. tied \in BOOLEAN OBVIOUS
<1>3. row[i] \in Asking!Row BY DEF AskInv, Asking!TypeOK
<1>4. [row[i] EXCEPT !.status = "pending", !.tied = tied] \in Asking!Row
  BY <1>2, <1>3 DEF Asking!Row
<1>5. row' \in [Asking!Asks -> Asking!Row] /\ OnlyRow(i) /\ row'[i].status = "pending"
  BY <1>1, <1>3, <1>4 DEF AskInv, Asking!TypeOK, OnlyRow, Asking!Row
<1>6. row[i].status = "none" /\ UNCHANGED <<asked, held, answering, window, askFaults, given, drafts, cut, spoilt>>
      /\ offered' = (asked = {Share})
  BY DEF Asking!createApprovalRequest
<1>7. Asking!TypeOK' BY <1>5, <1>6 DEF AskInv, Asking!TypeOK
<1>8. Honest' BY <1>5, <1>6, HonestStays DEF OnlyRow
<1>9. Traced'
  <2>1. SameWork BY <1>6, WorkStays
  <2>2. given[i] = {} BY <1>6 DEF AskInv, Traced
  <2>3. "pending" \notin Asking!No BY DEF Asking!No
  <2>q. QED BY <1>5, <1>6, <2>1, <2>2, <2>3 DEF AskInv, Traced, SameWork, OnlyRow
<1>10. Told'
  <2>1. "pending" \notin Asking!Yes BY DEF Asking!Yes
  <2>q. QED BY <1>5, <1>6, <2>1 DEF AskInv, Told, OnlyRow
<1>11. Drafted' BY <1>5, <1>6 DEF AskInv, Drafted, OnlyRow
<1>q. QED BY <1>7, <1>8, <1>9, <1>10, <1>11 DEF AskInv

LEMMA ExpiresKeeps ==
  ASSUME AskInv, NEW i \in Asking!Asks, Asking!expires(i)
  PROVE  AskInv'
<1>1. Asking!SaysNo(i, "expired")
      /\ UNCHANGED <<asked, held, offered, answering, window, askFaults, given, drafts, spoilt>>
  BY DEF Asking!expires
<1>2. "expired" \in Asking!No BY DEF Asking!No
<1>3. SameWork BY <1>1, WorkStays
<1>4. /\ row' \in [Asking!Asks -> Asking!Row] /\ cut' \subseteq Asking!Asks
      /\ \A j \in Asking!Asks : row[j].status # "none" => row'[j].status # "none"
      /\ Traced' /\ Told' /\ Drafted'
  BY <1>1, <1>2, <1>3, NoIsRecorded
<1>5. Asking!TypeOK' BY <1>1, <1>4 DEF AskInv, Asking!TypeOK
<1>6. Honest' BY <1>1, <1>4, HonestStays
<1>q. QED BY <1>4, <1>5, <1>6 DEF AskInv

LEMMA LapseKeeps ==
  ASSUME AskInv, NEW i \in Asking!Asks, Asking!lapse(i)
  PROVE  AskInv'
<1>1. row' = [row EXCEPT ![i] = [row[i] EXCEPT !.lapsed = TRUE]]
      /\ UNCHANGED <<asked, held, offered, answering, window, askFaults, given, drafts, cut, spoilt>>
  BY DEF Asking!lapse, AskInv, Asking!TypeOK
<1>2. row[i] \in Asking!Row BY DEF AskInv, Asking!TypeOK
<1>3. [row[i] EXCEPT !.lapsed = TRUE] \in Asking!Row BY <1>2 DEF Asking!Row
<1>4. row' \in [Asking!Asks -> Asking!Row] BY <1>1, <1>3 DEF AskInv, Asking!TypeOK
<1>5. \A j \in Asking!Asks : row'[j].status = row[j].status /\ row'[j].outcome = row[j].outcome
  <2>1. OnlyRow(i) /\ row'[i] = [row[i] EXCEPT !.lapsed = TRUE]
    BY <1>1 DEF AskInv, Asking!TypeOK, OnlyRow
  <2>q. QED BY <1>2, <2>1 DEF OnlyRow, Asking!Row
<1>6. Asking!TypeOK' BY <1>1, <1>4 DEF AskInv, Asking!TypeOK
<1>7. Honest' BY <1>1, <1>5, HonestStays
<1>8. Traced' BY <1>1, <1>5, WorkStays DEF AskInv, Traced, SameWork
<1>9. Told' /\ Drafted' BY <1>1, <1>5, RowsKept
<1>q. QED BY <1>6, <1>7, <1>8, <1>9 DEF AskInv

------------------------------------------------------------------------------
(* The answers                                                             *)

\* Nothing is put on a row, and the work is the same.
LEMMA RowsStay ==
  ASSUME AskInv, UNCHANGED <<asked, row, given, drafts, cut, spoilt>>, SameWork
  PROVE  Traced' /\ Told' /\ Drafted'
BY DEF AskInv, Traced, Told, Drafted, SameWork

LEMMA StepOf ==
  ASSUME AskInv, NEW a \in Approvers
  PROVE  /\ answering[a] \in Asking!Step
         /\ answering[a].ask \in Asking!Asks
         /\ answering[a].applied \in [Grants \cup {Share} -> {"none", "held", "given", "failed"}]
         /\ answering[a].todo \subseteq Grants \cup {Share}
         /\ asked \subseteq Grants \cup {Share}
         /\ DOMAIN row[answering[a].ask] = {"status", "lapsed", "tied", "outcome"}
BY DEF AskInv, Asking!TypeOK, Asking!Step, Asking!Outcomes, Asking!Remedies, Asking!Row

LEMMA DecideKeeps ==
  ASSUME AskInv, NEW a \in Approvers, NEW i \in Asking!Asks, Asking!decide(a, i)
  PROVE  AskInv'
<1>1. PICK s \in {[Asking!AtRest EXCEPT !.pc = "no", !.ask = i],
                  [Asking!AtRest EXCEPT !.pc = "yes", !.ask = i, !.todo = asked]} :
        answering' = [answering EXCEPT ![a] = s]
  BY DEF Asking!decide
<1>2. answering[a].pc = "idle" /\ row[i].status = "pending"
      /\ UNCHANGED <<asked, row, held, offered, window, askFaults, given, drafts, cut, spoilt>>
  BY DEF Asking!decide
<1>3. s \in Asking!Step /\ s.ask = i /\ s.hand = {} /\ s.pc \in {"no", "yes"}
      /\ (s.pc = "yes" => s.todo = asked)
  <2>1. asked \subseteq Asking!Remedies BY DEF AskInv, Asking!TypeOK, Asking!Remedies
  <2>q. QED BY <2>1, RestTyped DEF Asking!AtRest, Asking!Step
<1>4. answering' \in [Approvers -> Asking!Step] /\ answering'[a] = s /\ Answers(a)
  BY <1>1, <1>3, AnswerTyped DEF AskInv
<1>5. Asking!TypeOK' BY <1>2, <1>4 DEF AskInv, Asking!TypeOK
<1>6. AtYes(a)' => HonestOf(a)' BY <1>2, <1>3, <1>4 DEF AtYes, HonestOf
<1>7. Honest' BY <1>2, <1>4, <1>6, HonestKept
<1>8. \A j \in Asking!Asks : Asking!AtWork(j) => Asking!AtWork(j)'
  BY <1>2, <1>4 DEF Asking!AtWork, Answers
<1>9. \A j \in Asking!Asks : j # i /\ Asking!AtWork(j)' => Asking!AtWork(j)
  BY <1>3, <1>4 DEF Asking!AtWork, Answers
<1>10. "pending" \notin Asking!No BY DEF Asking!No
<1>11. Traced' BY <1>2, <1>8, <1>9, <1>10 DEF AskInv, Traced
<1>12. Told' /\ Drafted' BY <1>2 DEF AskInv, Told, Drafted
<1>q. QED BY <1>5, <1>7, <1>11, <1>12 DEF AskInv

LEMMA DenyKeeps ==
  ASSUME AskInv, NEW a \in Approvers, Asking!deny(a)
  PROVE  AskInv'
<1> DEFINE i == answering[a].ask
<1>1. /\ answering[a].pc = "no" /\ Asking!SaysNo(i, "denied")
      /\ UNCHANGED <<asked, held, offered, window, askFaults, given, drafts, spoilt>>
  BY DEF Asking!deny
<1>2. PICK s \in {[answering[a] EXCEPT !.pc = "takeOff"], Asking!AtRest} :
        answering' = [answering EXCEPT ![a] = s]
  BY DEF Asking!deny, AskInv, Asking!TypeOK
<1>3. s \in Asking!Step /\ s.pc \in {"takeOff", "idle"}
  BY StepOf, RestTyped DEF Asking!Step
<1>4. answering' \in [Approvers -> Asking!Step] /\ answering'[a] = s /\ Answers(a)
  BY <1>2, <1>3, AnswerTyped DEF AskInv
<1>5. ~AtYes(a) /\ ~AtYes(a)' BY <1>1, <1>3, <1>4 DEF AtYes
<1>6. SameWork BY <1>4, <1>5, WorkKept
<1>7. "denied" \in Asking!No /\ i \in Asking!Asks BY StepOf DEF Asking!No
<1>8. /\ row' \in [Asking!Asks -> Asking!Row] /\ cut' \subseteq Asking!Asks
      /\ \A j \in Asking!Asks : row[j].status # "none" => row'[j].status # "none"
      /\ Traced' /\ Told' /\ Drafted'
  BY <1>1, <1>6, <1>7, NoIsRecorded
<1>9. Asking!TypeOK' BY <1>1, <1>4, <1>8 DEF AskInv, Asking!TypeOK
<1>10. Honest' BY <1>1, <1>4, <1>5, <1>8, HonestKept
<1>q. QED BY <1>8, <1>9, <1>10 DEF AskInv

LEMMA TakeOffKeeps ==
  ASSUME AskInv, NEW a \in Approvers, Asking!takeOff(a)
  PROVE  AskInv'
<1>1. /\ answering[a].pc = "takeOff" /\ answering' = [answering EXCEPT ![a] = Asking!AtRest]
      /\ UNCHANGED <<asked, row, window, given, drafts, cut, spoilt>>
      /\ held' \subseteq held /\ offered' \in BOOLEAN /\ askFaults' \in 0..MaxFaults
  <2>1. askFaults' \in 0..MaxFaults BY FaultTyped DEF Asking!takeOff, AskInv, Asking!TypeOK
  <2>q. QED BY <2>1 DEF Asking!takeOff, AskInv, Asking!TypeOK
<1>2. answering' \in [Approvers -> Asking!Step] /\ answering'[a] = Asking!AtRest /\ Answers(a)
  BY <1>1, RestTyped, AnswerTyped DEF AskInv
<1>3. ~AtYes(a) /\ ~AtYes(a)' BY <1>1, <1>2, RestTyped DEF AtYes
<1>4. SameWork BY <1>2, <1>3, WorkKept
<1>5. Asking!TypeOK' BY <1>1, <1>2 DEF AskInv, Asking!TypeOK
<1>6. Honest' BY <1>1, <1>2, <1>3, HonestKept
<1>7. Traced' /\ Told' /\ Drafted' BY <1>1, <1>4, RowsStay
<1>q. QED BY <1>5, <1>6, <1>7 DEF AskInv

LEMMA HoldsKeeps ==
  ASSUME AskInv, NEW a \in Approvers, NEW r \in Asking!Remedies, Asking!holds(a, r)
  PROVE  AskInv'
<1> DEFINE t == answering[a]
           s == IF r \in held
                THEN [t EXCEPT !.todo = t.todo \ {r}, !.applied = [t.applied EXCEPT ![r] = "held"]]
                ELSE [t EXCEPT !.todo = t.todo \ {r}, !.hand = {r}, !.pc = "give"]
<1>1. /\ t.pc = "yes" /\ r \in t.todo
      /\ UNCHANGED <<asked, row, held, offered, window, askFaults, given, drafts, cut, spoilt>>
  BY DEF Asking!holds
<1>2. answering' = [answering EXCEPT ![a] = s]
  BY DEF Asking!holds, AskInv, Asking!TypeOK, Asking!Step
<1>3. t \in Asking!Step /\ AtYes(a) /\ HonestOf(a)
  BY <1>1, StepOf DEF AskInv, Honest, AtYes
<1>4. [t.applied EXCEPT ![r] = "held"] \in Asking!Outcomes
  BY <1>3 DEF Asking!Step, Asking!Outcomes
<1>5. s \in Asking!Step BY <1>3, <1>4 DEF Asking!Step
<1>6. answering' \in [Approvers -> Asking!Step] /\ answering'[a] = s /\ Answers(a)
  <2> HIDE DEF s
  <2>q. QED BY <1>2, <1>5, AnswerTyped DEF AskInv
<1>7. s.pc \in {"yes", "give"} /\ s.ask = t.ask BY <1>1, <1>3 DEF Asking!Step
<1>8. Asking!TypeOK' BY <1>1, <1>6 DEF AskInv, Asking!TypeOK
<1>9. HonestOf(a)'
  <2>1. row'[s.ask].status # "none" BY <1>1, <1>3, <1>7 DEF HonestOf
  <2>2. (s.pc = "yes" => s.hand = {}) /\ \A x, y \in s.hand : x = y
    BY <1>1, <1>3 DEF HonestOf, Asking!Step
  <2>3. \A x \in asked \ (s.todo \cup s.hand) : s.applied[x] \in {"held", "given"}
    <3> SUFFICES ASSUME NEW x \in asked, x \notin s.todo, x \notin s.hand
                 PROVE  s.applied[x] \in {"held", "given"}
      OBVIOUS
    <3>1. x \in Grants \cup {Share} /\ DOMAIN t.applied = Grants \cup {Share} BY StepOf
    <3>2. t.hand = {} BY <1>1, <1>3 DEF HonestOf
    <3>3. CASE r \in held
      <4>1. s.todo = t.todo \ {r} /\ s.applied = [t.applied EXCEPT ![r] = "held"]
        BY <1>3, <3>3 DEF Asking!Step
      <4>2. CASE x = r BY <3>1, <4>1, <4>2
      <4>3. CASE x # r
        <5>1. x \notin t.todo \cup t.hand BY <3>2, <4>1, <4>3
        <5>2. t.applied[x] \in {"held", "given"} BY <1>3, <5>1 DEF HonestOf
        <5>q. QED BY <3>1, <4>1, <4>3, <5>2
      <4>q. QED BY <4>2, <4>3
    <3>4. CASE r \notin held
      <4>1. s.todo = t.todo \ {r} /\ s.hand = {r} /\ s.applied = t.applied
        BY <1>3, <3>4 DEF Asking!Step
      <4>2. x \notin t.todo \cup t.hand BY <3>2, <4>1
      <4>q. QED BY <1>3, <4>1, <4>2 DEF HonestOf
    <3>q. QED BY <3>3, <3>4
  <2> HIDE DEF s
  <2>q. QED BY <1>1, <1>6, <2>1, <2>2, <2>3 DEF HonestOf
<1>10. SameWork
  <2>1. AtYes(a)' /\ answering'[a].ask = t.ask BY <1>6, <1>7 DEF AtYes
  <2>q. QED BY <1>3, <1>6, <2>1, WorkKept
<1>11. Honest' BY <1>1, <1>6, <1>9, HonestKept
<1>12. Traced' /\ Told' /\ Drafted' BY <1>1, <1>10, RowsStay
<1>q. QED BY <1>8, <1>11, <1>12 DEF AskInv

LEMMA ApplyKeeps ==
  ASSUME AskInv, NEW a \in Approvers, NEW r \in Asking!Remedies, Asking!apply(a, r)
  PROVE  AskInv'
<1> DEFINE t == answering[a]
           i == t.ask
           s == [t EXCEPT !.pc = "yes", !.hand = {}, !.applied = [t.applied EXCEPT ![r] = "given"]]
<1>1. /\ t.pc = "give" /\ r \in t.hand
      /\ held' = held \cup {r} /\ given' = [given EXCEPT ![i] = @ \cup {r}]
      /\ UNCHANGED <<asked, row, offered, window, askFaults, drafts, cut, spoilt>>
  BY DEF Asking!apply
<1>2. answering' = [answering EXCEPT ![a] = s]
  BY DEF Asking!apply, AskInv, Asking!TypeOK, Asking!Step
<1>3. t \in Asking!Step /\ i \in Asking!Asks /\ AtYes(a) /\ HonestOf(a)
  BY <1>1, StepOf DEF AskInv, Honest, AtYes
<1>4. [t.applied EXCEPT ![r] = "given"] \in Asking!Outcomes
  BY <1>3 DEF Asking!Step, Asking!Outcomes
<1>5. /\ s \in Asking!Step /\ s.pc = "yes" /\ s.ask = i /\ s.hand = {} /\ s.todo = t.todo
      /\ s.applied = [t.applied EXCEPT ![r] = "given"]
  BY <1>3, <1>4 DEF Asking!Step
<1> HIDE DEF s
<1>6. answering' \in [Approvers -> Asking!Step] /\ answering'[a] = s /\ Answers(a)
  BY <1>2, <1>5, AnswerTyped DEF AskInv
<1>7. given' \in [Asking!Asks -> SUBSET Asking!Remedies]
      /\ \A j \in Asking!Asks : j # i => given'[j] = given[j]
  BY <1>1, <1>3 DEF AskInv, Asking!TypeOK
<1>8. Asking!TypeOK' BY <1>1, <1>6, <1>7 DEF AskInv, Asking!TypeOK
<1>9. HonestOf(a)'
  <2>1. \A x \in asked \ s.todo : s.applied[x] \in {"held", "given"}
    <3> SUFFICES ASSUME NEW x \in asked, x \notin s.todo
                 PROVE  s.applied[x] \in {"held", "given"}
      OBVIOUS
    <3>1. x \in Grants \cup {Share} /\ DOMAIN t.applied = Grants \cup {Share} BY StepOf
    <3>2. CASE x = r BY <1>5, <3>1, <3>2
    <3>3. CASE x # r
      <4>1. x \notin t.hand BY <1>1, <1>3, <3>3 DEF HonestOf
      <4>2. t.applied[x] \in {"held", "given"} BY <1>3, <1>5, <4>1 DEF HonestOf
      <4>q. QED BY <1>5, <3>1, <3>3, <4>2
    <3>q. QED BY <3>2, <3>3
  <2>q. QED BY <1>1, <1>3, <1>5, <1>6, <2>1 DEF HonestOf
<1>10. Asking!AtWork(i) /\ SameWork
  <2>1. Asking!AtWork(i) BY <1>3 DEF Asking!AtWork, AtYes
  <2>2. AtYes(a)' /\ answering'[a].ask = t.ask BY <1>5, <1>6 DEF AtYes
  <2>q. QED BY <1>3, <1>6, <2>1, <2>2, WorkKept
<1>11. Honest' BY <1>1, <1>6, <1>9, HonestKept
<1>12. Traced'
  <2> SUFFICES ASSUME NEW j \in Asking!Asks
               PROVE  /\ row[j].status = "none" => given'[j] = {}
                      /\ j \notin cut /\ row[j].status = "pending" /\ given'[j] # {}
                           => Asking!AtWork(j)
                      /\ j \notin cut /\ row[j].status \in Asking!No
                           => ~Asking!AtWork(j) /\ given'[j] = {}
    BY <1>1, <1>10 DEF Traced, SameWork
  <2>1. CASE j = i BY <1>3, <1>10, <2>1 DEF AskInv, Traced, HonestOf
  <2>2. CASE j # i BY <1>7, <2>2 DEF AskInv, Traced
  <2>q. QED BY <2>1, <2>2
<1>13. Told' /\ Drafted' BY <1>1 DEF AskInv, Told, Drafted
<1>q. QED BY <1>8, <1>11, <1>12, <1>13 DEF AskInv

LEMMA ApplyFailsKeeps ==
  ASSUME AskInv, NEW a \in Approvers, NEW r \in Asking!Remedies, Asking!applyFails(a, r)
  PROVE  AskInv'
<1> DEFINE t == answering[a]
           s == [t EXCEPT !.pc = "failed", !.applied = [t.applied EXCEPT ![r] = "failed"]]
<1>1. /\ t.pc = "give" /\ r \in t.hand
      /\ UNCHANGED <<asked, row, held, offered, window, given, drafts, cut, spoilt>>
      /\ askFaults' \in 0..MaxFaults
  <2>1. askFaults' \in 0..MaxFaults BY FaultTyped DEF Asking!applyFails, AskInv, Asking!TypeOK
  <2>q. QED BY <2>1 DEF Asking!applyFails
<1>2. answering' = [answering EXCEPT ![a] = s]
  BY DEF Asking!applyFails, AskInv, Asking!TypeOK, Asking!Step
<1>3. t \in Asking!Step /\ AtYes(a) /\ HonestOf(a)
  BY <1>1, StepOf DEF AskInv, Honest, AtYes
<1>4. [t.applied EXCEPT ![r] = "failed"] \in Asking!Outcomes
  BY <1>3 DEF Asking!Step, Asking!Outcomes
<1>5. /\ s \in Asking!Step /\ s.pc = "failed" /\ s.ask = t.ask /\ s.hand = t.hand
      /\ s.todo = t.todo /\ s.applied = [t.applied EXCEPT ![r] = "failed"]
  BY <1>3, <1>4 DEF Asking!Step
<1> HIDE DEF s
<1>6. answering' \in [Approvers -> Asking!Step] /\ answering'[a] = s /\ Answers(a)
  BY <1>2, <1>5, AnswerTyped DEF AskInv
<1>7. Asking!TypeOK' BY <1>1, <1>6 DEF AskInv, Asking!TypeOK
<1>8. HonestOf(a)'
  <2>1. \A x \in asked \ (s.todo \cup s.hand) : s.applied[x] \in {"held", "given"}
    <3> SUFFICES ASSUME NEW x \in asked, x \notin s.todo, x \notin s.hand
                 PROVE  s.applied[x] \in {"held", "given"}
      OBVIOUS
    <3>1. x \in Grants \cup {Share} /\ DOMAIN t.applied = Grants \cup {Share} BY StepOf
    <3>2. t.applied[x] \in {"held", "given"} BY <1>3, <1>5 DEF HonestOf
    <3>q. QED BY <1>1, <1>5, <3>1, <3>2
  <2>q. QED BY <1>1, <1>3, <1>5, <1>6, <2>1 DEF HonestOf
<1>9. SameWork
  <2>1. AtYes(a)' /\ answering'[a].ask = t.ask BY <1>5, <1>6 DEF AtYes
  <2>q. QED BY <1>3, <1>6, <2>1, WorkKept
<1>10. Honest' BY <1>1, <1>6, <1>8, HonestKept
<1>11. Traced' /\ Told' /\ Drafted' BY <1>1, <1>9, RowsStay
<1>q. QED BY <1>7, <1>10, <1>11 DEF AskInv

\* Somebody stops working on an ask; on the others the work is the same.
LEMMA WorkEnds ==
  ASSUME NEW a \in Approvers, AtYes(a), Answers(a), ~AtYes(a)'
  PROVE  /\ \A j \in Asking!Asks : Asking!AtWork(j)' => Asking!AtWork(j)
         /\ \A j \in Asking!Asks : j # answering[a].ask => (Asking!AtWork(j)' <=> Asking!AtWork(j))
         /\ Asking!AtWork(answering[a].ask)
BY DEF Asking!AtWork, Answers, AtYes

LEMMA RecordFailureKeeps ==
  ASSUME AskInv, NEW a \in Approvers, Asking!recordFailure(a)
  PROVE  AskInv'
<1> DEFINE i == answering[a].ask
<1>1. /\ answering[a].pc = "failed" /\ answering' = [answering EXCEPT ![a] = Asking!AtRest]
      /\ row' = [row EXCEPT ![i].outcome = answering[a].applied]
      /\ cut' = IF given[i] # {} THEN cut \cup {i} ELSE cut
      /\ spoilt' = IF row[i].status \in Asking!Yes THEN spoilt \cup {i} ELSE spoilt
      /\ UNCHANGED <<asked, held, offered, window, askFaults, given, drafts>>
  BY DEF Asking!recordFailure
<1>2. answering[a] \in Asking!Step /\ i \in Asking!Asks /\ AtYes(a)
  BY <1>1, StepOf DEF AtYes
<1>3. answering' \in [Approvers -> Asking!Step] /\ answering'[a] = Asking!AtRest /\ Answers(a)
  BY <1>1, RestTyped, AnswerTyped DEF AskInv
<1>4. ~AtYes(a)' BY <1>3, RestTyped DEF AtYes
<1>5. /\ row' \in [Asking!Asks -> Asking!Row] /\ OnlyRow(i)
      /\ \A j \in Asking!Asks : row'[j].status = row[j].status
  <2>1. row[i] \in Asking!Row BY <1>2 DEF AskInv, Asking!TypeOK
  <2>2. row' = [row EXCEPT ![i] = [row[i] EXCEPT !.outcome = answering[a].applied]]
    BY <1>1, <1>2 DEF AskInv, Asking!TypeOK
  <2>3. [row[i] EXCEPT !.outcome = answering[a].applied] \in Asking!Row
    BY <1>2, <2>1 DEF Asking!Row, Asking!Step
  <2>4. row'[i] = [row[i] EXCEPT !.outcome = answering[a].applied] /\ OnlyRow(i)
    BY <1>2, <2>2 DEF AskInv, Asking!TypeOK, OnlyRow
  <2>q. QED BY <2>1, <2>2, <2>3, <2>4 DEF AskInv, Asking!TypeOK, Asking!Row, OnlyRow
<1>6. cut \subseteq cut' /\ cut' \subseteq Asking!Asks /\ spoilt' \subseteq Asking!Asks
  BY <1>1, <1>2 DEF AskInv, Asking!TypeOK
<1>7. Asking!TypeOK' BY <1>1, <1>3, <1>5, <1>6 DEF AskInv, Asking!TypeOK
<1>8. Honest' BY <1>1, <1>3, <1>4, <1>5, HonestKept
<1>9. Traced'
  <2> SUFFICES ASSUME NEW j \in Asking!Asks
               PROVE  /\ row[j].status = "none" => given[j] = {}
                      /\ j \notin cut' /\ row[j].status = "pending" /\ given[j] # {}
                           => Asking!AtWork(j)'
                      /\ j \notin cut' /\ row[j].status \in Asking!No
                           => ~Asking!AtWork(j)' /\ given[j] = {}
    BY <1>1, <1>5 DEF Traced
  <2>1. (Asking!AtWork(j)' => Asking!AtWork(j))
        /\ (j # i => (Asking!AtWork(j)' <=> Asking!AtWork(j)))
    BY <1>2, <1>3, <1>4, WorkEnds
  <2>2. CASE j = i BY <1>1, <1>6, <2>1, <2>2 DEF AskInv, Traced
  <2>3. CASE j # i BY <1>6, <2>1, <2>3 DEF AskInv, Traced
  <2>q. QED BY <2>2, <2>3
<1>10. Told'
  <2> SUFFICES ASSUME NEW j \in Asking!Asks, j \notin spoilt', row[j].status \in Asking!Yes
               PROVE  j # i /\ j \notin spoilt
    BY <1>1, <1>5 DEF AskInv, Told, OnlyRow
  <2>q. QED BY <1>1
<1>11. Drafted' BY <1>1, <1>5 DEF AskInv, Drafted
<1>q. QED BY <1>7, <1>8, <1>9, <1>10, <1>11 DEF AskInv

LEMMA ApproveKeeps ==
  ASSUME AskInv, NEW a \in Approvers, Asking!approve(a)
  PROVE  AskInv'
<1> DEFINE i == answering[a].ask
           status == IF row[i].tied THEN "approved" ELSE "completed"
<1>1. /\ answering[a].pc = "yes" /\ answering[a].todo = {}
      /\ answering' = [answering EXCEPT ![a] = Asking!AtRest]
      /\ UNCHANGED <<asked, held, offered, window, askFaults, given, drafts, cut, spoilt>>
  BY DEF Asking!approve
<1>2. answering[a] \in Asking!Step /\ i \in Asking!Asks /\ AtYes(a) /\ HonestOf(a)
  BY <1>1, StepOf DEF AskInv, Honest, AtYes
<1>3. answering' \in [Approvers -> Asking!Step] /\ answering'[a] = Asking!AtRest /\ Answers(a)
  BY <1>1, RestTyped, AnswerTyped DEF AskInv
<1>4. ~AtYes(a)' BY <1>3, RestTyped DEF AtYes
<1>5. /\ row' \in [Asking!Asks -> Asking!Row] /\ OnlyRow(i)
      /\ \/ row' = row /\ row[i].status # "pending"
         \/ /\ row[i].status = "pending" /\ row'[i].status \in {"approved", "completed"}
            /\ row'[i].outcome = answering[a].applied
  <2>1. row[i] \in Asking!Row BY <1>2 DEF AskInv, Asking!TypeOK
  <2>2. CASE row[i].status = "pending"
    <3>1. row' = [row EXCEPT ![i] = [row[i] EXCEPT !.outcome = answering[a].applied,
                                                   !.status = status]]
      BY <1>2, <2>2 DEF Asking!approve, Asking!From, AskInv, Asking!TypeOK
    <3>2. status \in {"approved", "completed"} OBVIOUS
    <3> HIDE DEF status
    <3>3. [row[i] EXCEPT !.outcome = answering[a].applied, !.status = status] \in Asking!Row
      BY <1>2, <2>1, <3>2 DEF Asking!Row, Asking!Step, Asking!Yes
    <3>4. row'[i] = [row[i] EXCEPT !.outcome = answering[a].applied, !.status = status]
          /\ OnlyRow(i)
      BY <1>2, <3>1 DEF AskInv, Asking!TypeOK, OnlyRow
    <3>q. QED BY <2>1, <2>2, <3>1, <3>2, <3>3, <3>4 DEF AskInv, Asking!TypeOK, Asking!Row
  <2>3. CASE row[i].status # "pending"
    BY <2>3 DEF Asking!approve, Asking!From, AskInv, Asking!TypeOK, OnlyRow
  <2>q. QED BY <2>2, <2>3
<1>6. \A j \in Asking!Asks : row[j].status # "none" => row'[j].status # "none"
  BY <1>5 DEF OnlyRow
<1>7. Asking!TypeOK' BY <1>1, <1>3, <1>5 DEF AskInv, Asking!TypeOK
<1>8. Honest' BY <1>1, <1>3, <1>4, <1>6, HonestKept
<1>9. Traced'
  <2> SUFFICES ASSUME NEW j \in Asking!Asks
               PROVE  /\ row'[j].status = "none" => given[j] = {}
                      /\ j \notin cut /\ row'[j].status = "pending" /\ given[j] # {}
                           => Asking!AtWork(j)'
                      /\ j \notin cut /\ row'[j].status \in Asking!No
                           => ~Asking!AtWork(j)' /\ given[j] = {}
    BY <1>1 DEF Traced
  <2>1. (Asking!AtWork(j)' => Asking!AtWork(j))
        /\ (j # i => (Asking!AtWork(j)' <=> Asking!AtWork(j)))
    BY <1>2, <1>3, <1>4, WorkEnds
  <2>2. CASE j = i
    <3>1. {"approved", "completed"} \cap ({"none", "pending"} \cup Asking!No) = {}
      BY DEF Asking!No
    <3>q. QED BY <1>5, <2>1, <2>2, <3>1 DEF AskInv, Traced
  <2>3. CASE j # i BY <1>5, <2>1, <2>3 DEF AskInv, Traced, OnlyRow
  <2>q. QED BY <2>2, <2>3
<1>10. Told'
  <2>1. \A r \in asked : answering[a].applied[r] \in {"held", "given"}
    BY <1>1, <1>2 DEF HonestOf
  <2>q. QED BY <1>1, <1>5, <2>1 DEF AskInv, Told, OnlyRow
<1>11. Drafted'
  <2>1. row[i].status = "pending" => drafts[i] = {} BY <1>2 DEF AskInv, Drafted
  <2>q. QED BY <1>1, <1>2, <1>5, <2>1 DEF AskInv, Drafted, OnlyRow
<1>q. QED BY <1>7, <1>8, <1>9, <1>10, <1>11 DEF AskInv

------------------------------------------------------------------------------
(* The windows                                                             *)

Window == [pc : {"idle", "withdraw", "check", "take", "replay"}, ask : Asking!Asks]

LEMMA WindowTyped ==
  ASSUME AskInv, NEW w \in Windows
  PROVE  /\ window[w].ask \in Asking!Asks
         /\ [window EXCEPT ![w] = Asking!Closed] \in [Windows -> Window]
         /\ \A i \in Asking!Asks, pc \in {"idle", "withdraw", "check", "take", "replay"} :
              Asking!Opens(w, i, pc) => window' \in [Windows -> Window]
BY RestTyped DEF AskInv, Asking!TypeOK, Asking!Opens, Window

\* Only a window moves.
LEMMA WindowKeeps ==
  ASSUME AskInv, window' \in [Windows -> Window],
         UNCHANGED <<asked, row, held, offered, answering, askFaults, given, drafts, cut, spoilt>>
  PROVE  AskInv'
<1>1. Asking!TypeOK' BY DEF AskInv, Asking!TypeOK, Window
<1>2. Honest' BY HonestStays
<1>3. Traced' /\ Told' /\ Drafted' BY RowsStay, WorkStays
<1>q. QED BY <1>1, <1>2, <1>3 DEF AskInv

LEMMA WithdrawnKeeps ==
  ASSUME AskInv, NEW w \in Windows, Asking!withdrawn(w)
  PROVE  AskInv'
<1>1. /\ Asking!SaysNo(window[w].ask, "withdrawn")
      /\ window' = [window EXCEPT ![w] = Asking!Closed]
      /\ UNCHANGED <<asked, held, offered, answering, askFaults, given, drafts, spoilt>>
  BY DEF Asking!withdrawn
<1>2. "withdrawn" \in Asking!No /\ window[w].ask \in Asking!Asks /\ window' \in [Windows -> Window]
  BY <1>1, WindowTyped DEF Asking!No
<1>3. SameWork BY <1>1, WorkStays
<1>4. /\ row' \in [Asking!Asks -> Asking!Row] /\ cut' \subseteq Asking!Asks
      /\ \A j \in Asking!Asks : row[j].status # "none" => row'[j].status # "none"
      /\ Traced' /\ Told' /\ Drafted'
  BY <1>1, <1>2, <1>3, NoIsRecorded
<1>5. Asking!TypeOK' BY <1>1, <1>2, <1>4 DEF AskInv, Asking!TypeOK, Window
<1>6. Honest' BY <1>1, <1>4, HonestStays
<1>q. QED BY <1>4, <1>5, <1>6 DEF AskInv

LEMMA OpenKeeps ==
  ASSUME AskInv, NEW w \in Windows, NEW i \in Asking!Asks,
         Asking!withdraw(w, i) \/ Asking!prepareResume(w, i)
  PROVE  AskInv'
<1>1. Asking!Opens(w, i, "withdraw") \/ Asking!Opens(w, i, "check")
  BY DEF Asking!withdraw, Asking!prepareResume
<1>2. UNCHANGED <<asked, row, held, offered, answering, askFaults, given, drafts, cut, spoilt>>
  BY DEF Asking!withdraw, Asking!prepareResume
<1>q. QED BY <1>1, <1>2, WindowTyped, WindowKeeps

LEMMA CheckKeeps ==
  ASSUME AskInv, NEW w \in Windows, Asking!grantHoldsNow(w)
  PROVE  AskInv'
<1>1. Asking!Opens(w, window[w].ask, "take") \/ window' = [window EXCEPT ![w] = Asking!Closed]
  BY DEF Asking!grantHoldsNow
<1>2. UNCHANGED <<asked, row, held, offered, answering, askFaults, given, drafts, cut, spoilt>>
  BY DEF Asking!grantHoldsNow
<1>q. QED BY <1>1, <1>2, WindowTyped, WindowKeeps

LEMMA TakeKeeps ==
  ASSUME AskInv, NEW w \in Windows, Asking!take(w)
  PROVE  AskInv'
<1> DEFINE i == window[w].ask
<1>1. UNCHANGED <<asked, held, offered, answering, askFaults, given, cut, spoilt>> /\ i \in Asking!Asks
  BY WindowTyped DEF Asking!take
<1>2. CASE row[i].status = "approved"
  <2>1. /\ row' = [row EXCEPT ![i].status = "resuming"]
        /\ drafts' = [drafts EXCEPT ![i] = @ \cup {w}]
        /\ Asking!Opens(w, i, "replay")
    BY <1>2 DEF Asking!take, Asking!From, Asking!Becomes
  <2>2. /\ row' \in [Asking!Asks -> Asking!Row] /\ OnlyRow(i)
        /\ row'[i].status = "resuming" /\ row'[i].outcome = row[i].outcome
    BY <1>1, <2>1, RowTyped DEF AskInv, Asking!Yes
  <2>3. drafts[i] = {} BY <1>1, <1>2 DEF AskInv, Drafted
  <2>4. /\ drafts' \in [Asking!Asks -> SUBSET Windows] /\ drafts'[i] = {w}
        /\ \A j \in Asking!Asks : j # i => drafts'[j] = drafts[j]
    BY <1>1, <2>1, <2>3 DEF AskInv, Asking!TypeOK
  <2>5. window' \in [Windows -> Window] BY <1>1, <2>1, WindowTyped
  <2>6. Asking!TypeOK' BY <1>1, <2>2, <2>4, <2>5 DEF AskInv, Asking!TypeOK, Window
  <2>7. Honest' BY <1>1, <2>2, HonestStays DEF OnlyRow
  <2>8. Traced'
    <3>1. "resuming" \notin Asking!No BY DEF Asking!No
    <3>q. QED BY <1>1, <2>2, <3>1, WorkStays DEF AskInv, Traced, SameWork, OnlyRow
  <2>9. Told'
    <3>1. "approved" \in Asking!Yes BY DEF Asking!Yes
    <3>q. QED BY <1>1, <1>2, <2>2, <3>1 DEF AskInv, Told, OnlyRow
  <2>10. Drafted'
    <3> SUFFICES ASSUME NEW j \in Asking!Asks
                 PROVE  /\ \A u, v \in drafts'[j] : u = v
                        /\ drafts'[j] # {} => row'[j].status \in {"resuming", "completed"}
      BY DEF Drafted
    <3>1. CASE j = i BY <2>2, <2>4, <3>1
    <3>2. CASE j # i BY <2>2, <2>4, <3>2 DEF AskInv, Drafted, OnlyRow
    <3>q. QED BY <3>1, <3>2
  <2>q. QED BY <2>6, <2>7, <2>8, <2>9, <2>10 DEF AskInv
<1>3. CASE row[i].status # "approved"
  <2>1. window' = [window EXCEPT ![w] = Asking!Closed] /\ UNCHANGED <<row, drafts>>
    BY <1>3 DEF Asking!take, Asking!From
  <2>q. QED BY <1>1, <2>1, WindowTyped, WindowKeeps
<1>q. QED BY <1>2, <1>3

LEMMA CompleteKeeps ==
  ASSUME AskInv, NEW w \in Windows, Asking!completeApprovalRequest(w)
  PROVE  AskInv'
<1> DEFINE i == window[w].ask
<1>1. /\ UNCHANGED <<asked, held, offered, answering, askFaults, given, drafts, cut, spoilt>>
      /\ i \in Asking!Asks /\ window' \in [Windows -> Window]
      /\ window' = [window EXCEPT ![w] = Asking!Closed]
  BY WindowTyped DEF Asking!completeApprovalRequest
<1>2. CASE row[i].status = "resuming"
  <2>1. row' = [row EXCEPT ![i].status = "completed"]
    BY <1>2 DEF Asking!completeApprovalRequest, Asking!From, Asking!Becomes
  <2>2. /\ row' \in [Asking!Asks -> Asking!Row] /\ OnlyRow(i)
        /\ row'[i].status = "completed" /\ row'[i].outcome = row[i].outcome
    BY <1>1, <2>1, RowTyped DEF AskInv, Asking!Yes
  <2>3. Asking!TypeOK' BY <1>1, <2>2 DEF AskInv, Asking!TypeOK, Window
  <2>4. Honest' BY <1>1, <2>2, HonestStays DEF OnlyRow
  <2>5. Traced'
    <3>1. "completed" \notin Asking!No BY DEF Asking!No
    <3>q. QED BY <1>1, <2>2, <3>1, WorkStays DEF AskInv, Traced, SameWork, OnlyRow
  <2>6. Told'
    <3>1. "resuming" \in Asking!Yes BY DEF Asking!Yes
    <3>q. QED BY <1>1, <1>2, <2>2, <3>1 DEF AskInv, Told, OnlyRow
  <2>7. Drafted' BY <1>1, <2>2 DEF AskInv, Drafted, OnlyRow
  <2>q. QED BY <2>3, <2>4, <2>5, <2>6, <2>7 DEF AskInv
<1>3. CASE row[i].status # "resuming"
  <2>1. row' = row BY <1>3 DEF Asking!completeApprovalRequest, Asking!From
  <2>q. QED BY <1>1, <2>1, WindowKeeps
<1>q. QED BY <1>2, <1>3

------------------------------------------------------------------------------
(* Outside                                                                 *)

LEMMA ByHandKeeps ==
  ASSUME AskInv, NEW r \in Asking!Remedies, Asking!byHand(r)
  PROVE  AskInv'
<1>1. held' \subseteq Asking!Remedies
      /\ UNCHANGED <<asked, row, offered, answering, window, askFaults, given, drafts, cut, spoilt>>
  BY DEF Asking!byHand, AskInv, Asking!TypeOK
<1>2. Asking!TypeOK' BY <1>1 DEF AskInv, Asking!TypeOK
<1>3. Honest' BY <1>1, HonestStays
<1>4. Traced' /\ Told' /\ Drafted' BY <1>1, RowsStay, WorkStays
<1>q. QED BY <1>2, <1>3, <1>4 DEF AskInv

LEMMA CrashKeeps ==
  ASSUME AskInv, Asking!crash
  PROVE  AskInv'
<1>1. /\ askFaults' \in 0..MaxFaults
      /\ cut' = cut \cup {i \in Asking!Asks : Asking!AtWork(i) /\ given[i] # {}}
      /\ answering' = [a \in Approvers |-> Asking!AtRest]
      /\ window' = [w \in Windows |-> IF window[w].pc = "replay" THEN window[w] ELSE Asking!Closed]
      /\ UNCHANGED <<asked, row, held, offered, given, drafts, spoilt>>
  BY FaultTyped DEF Asking!crash, AskInv
<1>2. window' \in [Windows -> Window]
  BY <1>1, RestTyped DEF AskInv, Asking!TypeOK, Window
<1>3. Asking!TypeOK' BY <1>1, <1>2, RestTyped DEF AskInv, Asking!TypeOK, Window
<1>4. \A a \in Approvers : ~AtYes(a)' BY <1>1, RestTyped DEF AtYes
<1>5. Honest' BY <1>4 DEF Honest
<1>6. \A i \in Asking!Asks : ~Asking!AtWork(i)' BY <1>4 DEF Asking!AtWork, AtYes
<1>7. cut \subseteq cut' /\ \A i \in Asking!Asks : Asking!AtWork(i) /\ given[i] # {} => i \in cut'
  BY <1>1
<1>8. Traced' BY <1>1, <1>6, <1>7 DEF AskInv, Traced
<1>9. Told' /\ Drafted' BY <1>1, RowsKept
<1>q. QED BY <1>3, <1>5, <1>8, <1>9 DEF AskInv

------------------------------------------------------------------------------
(* The theorems                                                            *)

LEMMA AskSteps == AskInv /\ [Asking!Next]_Asking!vars => AskInv'
<1> SUFFICES ASSUME AskInv, [Asking!Next]_Asking!vars PROVE AskInv'
  OBVIOUS
<1>1. CASE \E i \in Asking!Asks :
             Asking!createApprovalRequest(i) \/ Asking!expires(i) \/ Asking!lapse(i)
  BY <1>1, CreateKeeps, ExpiresKeeps, LapseKeeps
<1>2. ASSUME NEW a \in Approvers,
             \/ Asking!deny(a) \/ Asking!takeOff(a) \/ Asking!recordFailure(a) \/ Asking!approve(a)
             \/ \E i \in Asking!Asks : Asking!decide(a, i)
             \/ \E r \in Asking!Remedies :
                  Asking!holds(a, r) \/ Asking!apply(a, r) \/ Asking!applyFails(a, r)
      PROVE  AskInv'
  BY <1>2, DenyKeeps, TakeOffKeeps, RecordFailureKeeps, ApproveKeeps, DecideKeeps, HoldsKeeps,
     ApplyKeeps, ApplyFailsKeeps
<1>3. ASSUME NEW w \in Windows,
             \/ Asking!withdrawn(w) \/ Asking!grantHoldsNow(w) \/ Asking!take(w)
             \/ Asking!completeApprovalRequest(w)
             \/ \E i \in Asking!Asks : Asking!withdraw(w, i) \/ Asking!prepareResume(w, i)
      PROVE  AskInv'
  BY <1>3, WithdrawnKeeps, CheckKeeps, TakeKeeps, CompleteKeeps, OpenKeeps
<1>4. CASE \E r \in Asking!Remedies : Asking!byHand(r) BY <1>4, ByHandKeeps
<1>5. CASE Asking!crash BY <1>5, CrashKeeps
<1>6. CASE UNCHANGED Asking!vars
  BY <1>6, WindowKeeps DEF Asking!vars, AskInv, Asking!TypeOK, Window
<1>q. QED BY <1>1, <1>2, <1>3, <1>4, <1>5, <1>6 DEF Asking!Next

\* The inductive invariant of the approvals: what a yes has in its hands is
\* true, what was given without an answer is in somebody's hands, and a draft
\* belongs to one window.
THEOREM AskInvariant == Asking!Spec => []AskInv
<1>q. QED BY StartInv, AskSteps, PTL DEF Asking!Spec

\* The row of an ask says what was done (decideApprovalRequest): after a yes
\* every remedy held or was applied, unless a later failure was put over it;
\* after a no nothing was, unless it met a yes or a yes had stopped halfway.
THEOREM AnswersAreTrue == Asking!Spec => []AnswerIsTrue
<1>1. AskInv => AnswerIsTrue BY DEF AskInv, Traced, Told, AnswerIsTrue, Asking!AnswerIsTrue
<1>q. QED BY <1>1, AskInvariant, PTL

LEMMA AtMostOne ==
  ASSUME NEW S, \A v, w \in S : v = w
  PROVE  Cardinality(S) <= 1
<1>1. CASE S = {} BY <1>1, FS_EmptySet
<1>2. CASE S # {}
  <2>1. PICK w \in S : TRUE BY <1>2
  <2>2. S = {w} BY <2>1
  <2>3. Cardinality({w}) = 1 BY FS_Singleton
  <2>q. QED BY <2>2, <2>3
<1>q. QED BY <1>1, <1>2

\* A draft is handed out once (prepareResume), and for a yes only, however many
\* windows of the person ask for it at once and wherever the process dies.
THEOREM DraftsHandedOnce == Asking!Spec => []DraftHandedOutOnce
<1>1. \A S : Asking!Cardinality(S) = Cardinality(S) BY DEF Asking!Cardinality, Cardinality
<1>2. AskInv => DraftHandedOutOnce
  BY <1>1, AtMostOne DEF AskInv, Drafted, DraftHandedOutOnce, Asking!DraftHandedOutOnce
<1>q. QED BY <1>2, AskInvariant, PTL

\* Beside a service job the approvals run as they would alone, so that the run
\* of both checks the properties of each.
THEOREM BothRun == AllSpec => Spec /\ Asking!Spec
<1>1. AllInit => Init /\ Asking!Init BY DEF AllInit
<1>2. [AllNext]_allVars => [Next]_vars BY DEF AllNext, allVars, aVars, vars
<1>3. [AllNext]_allVars => [Asking!Next]_Asking!vars
  BY DEF AllNext, allVars, aVars, Asking!vars
<1>4. AllSpec => AllInit /\ [][AllNext]_allVars BY DEF AllSpec
<1>q. QED BY <1>1, <1>2, <1>3, <1>4, PTL DEF Spec, Asking!Spec

\* What the run of both checks of the approvals.
THEOREM AllKeep == AllSpec => [](AnswerIsTrue /\ DraftHandedOutOnce)
<1>q. QED BY BothRun, AnswersAreTrue, DraftsHandedOnce, PTL
=============================================================================
