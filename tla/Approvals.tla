------------------------------ MODULE Approvals ------------------------------
(***************************************************************************)
(* What one person asks for and others decide (api/src/platform/           *)
(* approvals.ts): a row of approval_requests per ask, the approvers who    *)
(* answer it, and the windows of the person who finishes what was refused. *)
(* Every statement on the row, and every remedy looked at or applied, is a *)
(* step of its own.                                                        *)
(*                                                                         *)
(* All asks are for the same: a few grants (capabilities, bundles, apps)   *)
(* or the sharing of an AI connection, which is taken off the workspace    *)
(* when it is declined.  What the owner does to grants elsewhere is        *)
(* external, and the person who asks stays a member.  Notices and the      *)
(* approvers' cards are left out.                                          *)
(***************************************************************************)
EXTENDS FiniteSets, Naturals

CONSTANTS Approvers,  \* those who may answer
          Windows,    \* where the person who asked may be at work at once
          Grants,     \* the remedies an ask may name
          Share,      \* the AI connection offered, none of them
          MaxAsks,    \* bound: asks
          MaxFaults   \* bound: faults there may be, of any kind

Asks == 1..MaxAsks
Remedies == Grants \cup {Share}

VARIABLES
  asked,    \* the remedies asked for
  row,      \* [Asks -> status, expires_at passed, a draft to finish, outcome]
  held,     \* remedies that hold now
  offered,  \* the AI connection is offered to the workspace
  step,     \* [Approvers -> where an answer is]
  window,   \* [Windows -> where the finishing is]
  faults,   \* how many faults there have been
  given,    \* history: [Asks -> remedies applied for it]
  drafts,   \* history: [Asks -> the windows its draft was handed to]
  cut,      \* history: asks whose yes met a no, or stopped with something applied
  spoilt    \* history: asks with a failure put over their yes

vars == <<asked, row, held, offered, step, window, faults, given, drafts, cut, spoilt>>

Yes == {"approved", "resuming", "completed"}
No  == {"denied", "withdrawn", "expired"}
Outcomes == [Remedies -> {"none", "held", "given", "failed"}]
Nothing  == [r \in Remedies |-> "none"]
Row  == [status : {"none", "pending"} \cup Yes \cup No, lapsed : BOOLEAN, tied : BOOLEAN,
         outcome : Outcomes]
Step == [pc : {"idle", "no", "takeOff", "yes", "give", "failed"}, ask : Asks,
         applied : Outcomes, todo : SUBSET Remedies, hand : SUBSET Remedies]
AtRest == [pc |-> "idle", ask |-> 1, applied |-> Nothing, todo |-> {}, hand |-> {}]
Closed == [pc |-> "idle", ask |-> 1]

TypeOK ==
  /\ asked \in {Grants, {Share}}
  /\ row \in [Asks -> Row]
  /\ held \subseteq Remedies /\ offered \in BOOLEAN
  /\ step \in [Approvers -> Step]
  /\ window \in [Windows -> [pc : {"idle", "withdraw", "check", "take", "replay"}, ask : Asks]]
  /\ faults \in 0..MaxFaults
  /\ given \in [Asks -> SUBSET Remedies]
  /\ drafts \in [Asks -> SUBSET Windows]
  /\ cut \subseteq Asks /\ spoilt \subseteq Asks

Init ==
  /\ asked \in {Grants, {Share}}
  /\ row = [i \in Asks |-> [status |-> "none", lapsed |-> FALSE, tied |-> FALSE,
                            outcome |-> Nothing]]
  /\ held = {} /\ offered = FALSE
  /\ step = [a \in Approvers |-> AtRest]
  /\ window = [w \in Windows |-> Closed]
  /\ faults = 0
  /\ given = [i \in Asks |-> {}]
  /\ drafts = [i \in Asks |-> {}]
  /\ cut = {} /\ spoilt = {}

GoesWrong == faults < MaxFaults /\ faults' = faults + 1

AtWork(i) == \E a \in Approvers : step[a].pc \in {"yes", "give", "failed"} /\ step[a].ask = i

------------------------------------------------------------------------------
(* createApprovalRequest, askAgain                                         *)

\* One pending row at a time.  (Asking while one is pending returns it; one
\* that has expired is marked so by the answer to that, see expires.)
createApprovalRequest(i) ==
  /\ row[i].status = "none"
  /\ \A j \in Asks : row[j].status # "pending" /\ (j < i => row[j].status # "none")
  /\ \E tied \in {FALSE, asked = Grants} :
       row' = [row EXCEPT ![i] = [@ EXCEPT !.status = "pending", !.tied = tied]]
  /\ offered' = (asked = {Share})
  /\ UNCHANGED <<asked, held, step, window, faults, given, drafts, cut, spoilt>>

------------------------------------------------------------------------------
(* transition                                                              *)

\* Mutant: the row is written whatever became of it.
FromAny(i, from) == row[i].status # "none"

\* The row is still what the caller read.
From(i, from) == row[i].status = from

Becomes(i, status) == row' = [row EXCEPT ![i].status = status]

\* A no that meets a yes being carried out.
SaysNo(i, status) ==
  IF From(i, "pending")
  THEN /\ Becomes(i, status)
       /\ cut' = IF AtWork(i) THEN cut \cup {i} ELSE cut
  ELSE UNCHANGED <<row, cut>>

\* markExpired: by an answer that comes too late, or by the next list.
expires(i) ==
  /\ row[i].status = "pending" /\ row[i].lapsed
  /\ SaysNo(i, "expired")
  /\ UNCHANGED <<asked, held, offered, step, window, faults, given, drafts, spoilt>>

------------------------------------------------------------------------------
(* decideApprovalRequest                                                   *)

\* A no, or a yes that looks at every remedy.
decide(a, i) ==
  /\ step[a].pc = "idle"
  /\ row[i].status = "pending" /\ ~row[i].lapsed
  /\ \/ step' = [step EXCEPT ![a] = [AtRest EXCEPT !.pc = "no", !.ask = i]]
     \/ step' = [step EXCEPT ![a] = [AtRest EXCEPT !.pc = "yes", !.ask = i, !.todo = asked]]
  /\ UNCHANGED <<asked, row, held, offered, window, faults, given, drafts, cut, spoilt>>

deny(a) ==
  /\ step[a].pc = "no"
  /\ SaysNo(step[a].ask, "denied")
  /\ step' = [step EXCEPT ![a] = IF From(@.ask, "pending") /\ asked = {Share}
                                 THEN [@ EXCEPT !.pc = "takeOff"] ELSE AtRest]
  /\ UNCHANGED <<asked, held, offered, window, faults, given, drafts, spoilt>>

\* onDeny, whose failure is passed over.
takeOff(a) ==
  /\ step[a].pc = "takeOff"
  /\ step' = [step EXCEPT ![a] = AtRest]
  /\ \/ held' = held \ {Share} /\ offered' = FALSE /\ UNCHANGED faults
     \/ GoesWrong /\ UNCHANGED <<held, offered>>
  /\ UNCHANGED <<asked, row, window, given, drafts, cut, spoilt>>

\* The next remedy holds already, or is to be applied.
holds(a, r) ==
  /\ step[a].pc = "yes" /\ r \in step[a].todo
  /\ step' = [step EXCEPT ![a] =
       IF r \in held THEN [@ EXCEPT !.todo = step[a].todo \ {r}, !.applied[r] = "held"]
                     ELSE [@ EXCEPT !.todo = step[a].todo \ {r}, !.hand = {r}, !.pc = "give"]]
  /\ UNCHANGED <<asked, row, held, offered, window, faults, given, drafts, cut, spoilt>>

apply(a, r) ==
  /\ step[a].pc = "give" /\ r \in step[a].hand
  /\ r = Share => offered
  /\ held' = held \cup {r}
  /\ given' = [given EXCEPT ![step[a].ask] = @ \cup {r}]
  /\ step' = [step EXCEPT ![a] = [@ EXCEPT !.pc = "yes", !.hand = {}, !.applied[r] = "given"]]
  /\ UNCHANGED <<asked, row, offered, window, faults, drafts, cut, spoilt>>

\* Mutant: a remedy that fails is passed over.
PassesOver(a, r) ==
  /\ step[a].pc = "give" /\ r \in step[a].hand
  /\ \/ r = Share /\ ~offered /\ UNCHANGED faults
     \/ GoesWrong
  /\ step' = [step EXCEPT ![a] = [@ EXCEPT !.pc = "yes", !.hand = {}, !.applied[r] = "failed"]]
  /\ UNCHANGED <<asked, row, held, offered, window, given, drafts, cut, spoilt>>

\* Refused, with nothing applied.
applyFails(a, r) ==
  /\ step[a].pc = "give" /\ r \in step[a].hand
  /\ \/ r = Share /\ ~offered /\ UNCHANGED faults
     \/ GoesWrong
  /\ step' = [step EXCEPT ![a] = [@ EXCEPT !.pc = "failed", !.applied[r] = "failed"]]
  /\ UNCHANGED <<asked, row, held, offered, window, given, drafts, cut, spoilt>>

\* The failure is put on the row, whatever it has become; what was applied
\* before it stays.
recordFailure(a) ==
  /\ step[a].pc = "failed"
  /\ LET i == step[a].ask IN
     /\ row' = [row EXCEPT ![i].outcome = step[a].applied]
     /\ cut' = IF given[i] # {} THEN cut \cup {i} ELSE cut
     /\ spoilt' = IF row[i].status \in Yes THEN spoilt \cup {i} ELSE spoilt
  /\ step' = [step EXCEPT ![a] = AtRest]
  /\ UNCHANGED <<asked, held, offered, window, faults, given, drafts>>

\* Without a draft to finish the ask is done.
approve(a) ==
  /\ step[a].pc = "yes" /\ step[a].todo = {}
  /\ LET i == step[a].ask IN
     row' = IF From(i, "pending")
            THEN [row EXCEPT ![i] = [@ EXCEPT !.outcome = step[a].applied,
                                       !.status = IF row[i].tied THEN "approved" ELSE "completed"]]
            ELSE row
  /\ step' = [step EXCEPT ![a] = AtRest]
  /\ UNCHANGED <<asked, held, offered, window, faults, given, drafts, cut, spoilt>>

------------------------------------------------------------------------------
(* withdrawApprovalRequest, prepareResume, completeApprovalRequest         *)

Opens(w, i, pc) == window' = [window EXCEPT ![w] = [pc |-> pc, ask |-> i]]

withdraw(w, i) ==
  /\ window[w].pc = "idle" /\ row[i].status = "pending"
  /\ Opens(w, i, "withdraw")
  /\ UNCHANGED <<asked, row, held, offered, step, faults, given, drafts, cut, spoilt>>

withdrawn(w) ==
  /\ window[w].pc = "withdraw"
  /\ SaysNo(window[w].ask, "withdrawn")
  /\ window' = [window EXCEPT ![w] = Closed]
  /\ UNCHANGED <<asked, held, offered, step, faults, given, drafts, spoilt>>

prepareResume(w, i) ==
  /\ window[w].pc = "idle" /\ row[i].status = "approved"
  /\ Opens(w, i, "check")
  /\ UNCHANGED <<asked, row, held, offered, step, faults, given, drafts, cut, spoilt>>

\* A yes that was taken back since hands nothing out.
grantHoldsNow(w) ==
  /\ window[w].pc = "check"
  /\ IF asked \subseteq held THEN Opens(w, window[w].ask, "take")
                             ELSE window' = [window EXCEPT ![w] = Closed]
  /\ UNCHANGED <<asked, row, held, offered, step, faults, given, drafts, cut, spoilt>>

take(w) ==
  /\ window[w].pc = "take"
  /\ LET i == window[w].ask IN
     IF From(i, "approved")
     THEN /\ Becomes(i, "resuming")
          /\ drafts' = [drafts EXCEPT ![i] = @ \cup {w}]
          /\ Opens(w, i, "replay")
     ELSE window' = [window EXCEPT ![w] = Closed] /\ UNCHANGED <<row, drafts>>
  /\ UNCHANGED <<asked, held, offered, step, faults, given, cut, spoilt>>

completeApprovalRequest(w) ==
  /\ window[w].pc = "replay"
  /\ IF From(window[w].ask, "resuming") THEN Becomes(window[w].ask, "completed") ELSE UNCHANGED row
  /\ window' = [window EXCEPT ![w] = Closed]
  /\ UNCHANGED <<asked, held, offered, step, faults, given, drafts, cut, spoilt>>

------------------------------------------------------------------------------
(* Outside                                                                 *)

\* A week goes by.
lapse(i) ==
  /\ row[i].status = "pending" /\ ~row[i].lapsed
  /\ row' = [row EXCEPT ![i].lapsed = TRUE]
  /\ UNCHANGED <<asked, held, offered, step, window, faults, given, drafts, cut, spoilt>>

\* The owner gives or takes back a grant by hand.
byHand(r) ==
  /\ \/ r \in held /\ held' = held \ {r}
     \/ r \in Grants \ held /\ held' = held \cup {r}
  /\ UNCHANGED <<asked, row, offered, step, window, faults, given, drafts, cut, spoilt>>

\* The process dies.
crash ==
  /\ GoesWrong
  /\ cut' = cut \cup {i \in Asks : AtWork(i) /\ given[i] # {}}
  /\ step' = [a \in Approvers |-> AtRest]
  /\ window' = [w \in Windows |-> IF window[w].pc = "replay" THEN window[w] ELSE Closed]
  /\ UNCHANGED <<asked, row, held, offered, given, drafts, spoilt>>

Next ==
  \/ \E i \in Asks : createApprovalRequest(i) \/ expires(i) \/ lapse(i)
  \/ \E a \in Approvers :
       \/ deny(a) \/ takeOff(a) \/ recordFailure(a) \/ approve(a)
       \/ \E i \in Asks : decide(a, i)
       \/ \E r \in Remedies : holds(a, r) \/ apply(a, r) \/ applyFails(a, r)
  \/ \E w \in Windows :
       \/ withdrawn(w) \/ grantHoldsNow(w) \/ take(w) \/ completeApprovalRequest(w)
       \/ \E i \in Asks : withdraw(w, i) \/ prepareResume(w, i)
  \/ \E r \in Remedies : byHand(r)
  \/ crash

Spec == Init /\ [][Next]_vars

------------------------------------------------------------------------------
(* Properties                                                              *)

\* The answer is what was done, whoever else answers, withdraws or dies
\* meanwhile: after a yes every remedy held or was applied, unless a later
\* failure was put over it; after a no nothing was applied, unless it met a yes
\* or a yes had stopped halfway (see ../README.md).
AnswerIsTrue ==
  \A i \in Asks :
    /\ i \notin spoilt /\ row[i].status \in Yes =>
         \A r \in asked : row[i].outcome[r] \in {"held", "given"}
    /\ i \notin cut /\ row[i].status \in No => given[i] = {}

\* The draft is handed out once, for a yes only, however many windows ask.
DraftHandedOutOnce ==
  \A i \in Asks :
    /\ Cardinality(drafts[i]) <= 1
    /\ drafts[i] # {} => row[i].status \in {"resuming", "completed"}
=============================================================================
