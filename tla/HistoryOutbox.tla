---------------------------- MODULE HistoryOutbox ----------------------------
(***************************************************************************)
(* The History line of a change: the change is in the workspace's database *)
(* and its line in the server's, so a line that could be lost between the  *)
(* two leaves a trace in the workspace first, which a round finds          *)
(* (api/src/platform/activity-outbox.ts, activity-trace.ts,                *)
(* history-writes.ts).                                                     *)
(*                                                                         *)
(* A route keeps its line beside the change, in its transaction; a record's *)
(* writer leaves an intent before it writes.  The round opens a workspace  *)
(* that is marked in the server's database, or that this process remembers. *)
(*                                                                         *)
(* One workspace and one process, which may die and start again; a         *)
(* workspace has one visit at a time (it holds a lock).  Time is counted in *)
(* minutes.  The record is there to be read when an intent is recovered.   *)
(***************************************************************************)
EXTENDS Naturals

CONSTANTS Changes,    \* identities of the changes, and of their lines
          ByWriter,   \* those made through a record's writer
          MaxWrite,   \* bound: minutes a write takes to leave its row, and again to end
          MaxFaults   \* bound: how many faults there may be, of any kind

Stale == 2           \* INTENT_STALE_MS
Quiet == 1 + Stale   \* MARK_EVERY_MS + INTENT_STALE_MS

ASSUME HistoryAssumption ==
  /\ ByWriter \subseteq Changes
  /\ MaxWrite \in 0..(Stale - 1)   \* an older intent is of a write long over
  /\ MaxFaults \in Nat

VARIABLES
  pc,        \* [Changes -> where its write is]
  age,       \* [Changes -> minutes since its write began, or left its row]
  changed,   \* changes that have been made
  pending,   \* core_activity_log_pending: lines kept in the workspace
  intents,   \* core_activity_log_intents
  logged,    \* lines in activity_log
  touched,   \* activity_trace_marks: minutes since the workspace was marked
  covered,   \* no mark is newer than what a visit covered
  marked,    \* how long ago this process marked it: never, fresh, old
  waiting,   \* this process remembers the workspace
  asked,     \* a named round has been asked for
  visit,     \* the round's visit
  faults,    \* how many faults there have been
  unmarked   \* history: a mark was refused and none made since

vars == <<pc, age, changed, pending, intents, logged, touched, covered, marked, waiting,
          asked, visit, faults, unmarked>>

Writing == {"marked", "open", "log", "keep", "ending"}
Live    == {c \in Changes : pc[c] \in Writing}
NoVisit == [pc |-> "idle", batch |-> {}, hand |-> {}, mark |-> "none", left |-> FALSE]

TypeOK ==
  /\ pc \in [Changes -> Writing \cup {"idle", "gone"}]
  /\ age \in [Changes -> 0..Stale]
  /\ changed \subseteq Changes /\ logged \subseteq changed
  /\ pending \subseteq changed /\ intents \subseteq ByWriter
  /\ touched \in 0..Quiet /\ covered \in BOOLEAN
  /\ marked \in {"never", "fresh", "old"}
  /\ waiting \in BOOLEAN /\ asked \in BOOLEAN
  /\ visit \in [pc : {"idle", "open", "lines", "intents", "cover"}, batch : SUBSET Changes,
                hand : SUBSET Changes, mark : {"none", "read", "quiet"}, left : BOOLEAN]
  /\ faults \in 0..MaxFaults
  /\ unmarked \in BOOLEAN

Init ==
  /\ pc = [c \in Changes |-> "idle"]
  /\ age = [c \in Changes |-> 0]
  /\ changed = {} /\ pending = {} /\ intents = {} /\ logged = {}
  /\ touched = 0 /\ covered = TRUE
  /\ marked = "never"
  /\ waiting = FALSE /\ asked = FALSE
  /\ visit = NoVisit
  /\ faults = 0
  /\ unmarked = FALSE

GoesWrong == faults < MaxFaults /\ faults' = faults + 1

rows  == <<changed, pending, intents, logged>>
marks == <<touched, covered, marked, unmarked>>
Goes(c, where) == pc' = [pc EXCEPT ![c] = where]
Anew(c) == age' = [age EXCEPT ![c] = 0]

------------------------------------------------------------------------------
(* markTouched, noted                                                      *)

noted == waiting' = TRUE /\ asked' = TRUE

\* A mark made while a visit goes on is not the one the visit read.
Mark ==
  /\ touched' = 0 /\ covered' = FALSE
  /\ marked' = "fresh"
  /\ unmarked' = FALSE
  /\ visit' = IF visit.mark = "quiet" THEN [visit EXCEPT !.mark = "read"] ELSE visit

\* Once a minute at most; a mark the server would not take is remembered.
markForTrace(c) ==
  /\ pc[c] = "idle"
  /\ Goes(c, "marked") /\ Anew(c)
  /\ \/ marked = "fresh" /\ UNCHANGED <<marks, waiting, asked, visit, faults>>
     \/ marked # "fresh" /\ Mark /\ UNCHANGED <<waiting, asked, faults>>
     \/ /\ marked # "fresh" /\ GoesWrong
        /\ noted /\ unmarked' = TRUE
        /\ UNCHANGED <<touched, covered, marked, visit>>
  /\ UNCHANGED rows

------------------------------------------------------------------------------
(* changeWithHistory, recordHistoryWrite, log                              *)

\* The change and its line commit as one, or neither does.
commit(c) ==
  /\ c \notin ByWriter /\ pc[c] = "marked"
  /\ \/ /\ Goes(c, "log") /\ Anew(c)
        /\ changed' = changed \cup {c} /\ pending' = pending \cup {c}
     \/ Goes(c, "gone") /\ UNCHANGED <<age, changed, pending>>
  /\ UNCHANGED <<intents, logged, marks, waiting, asked, visit, faults>>

beginIntent(c) ==
  /\ c \in ByWriter /\ pc[c] = "marked"
  /\ Goes(c, "open") /\ Anew(c)
  /\ intents' = intents \cup {c}
  /\ UNCHANGED <<changed, pending, logged, marks, waiting, asked, visit, faults>>

\* The record is changed, or was as the write left it: there is nothing to say.
work(c) ==
  /\ pc[c] = "open"
  /\ \/ Goes(c, "log") /\ changed' = changed \cup {c}
     \/ Goes(c, "ending") /\ UNCHANGED changed
  /\ UNCHANGED <<age, pending, intents, logged, marks, waiting, asked, visit, faults>>

\* leaveIntent: whether the write that threw changed the record is for a round
\* to read.
workThrows(c) ==
  /\ pc[c] = "open"
  /\ Goes(c, "gone") /\ noted
  /\ changed' \in {changed, changed \cup {c}}
  /\ UNCHANGED <<age, pending, intents, logged, marks, visit, faults>>

\* insertLine: a line that is already there is left alone.
insertLine(c) ==
  /\ pc[c] = "log"
  /\ \/ Goes(c, "ending") /\ logged' = logged \cup {c} /\ UNCHANGED <<waiting, asked, faults>>
     \/ /\ GoesWrong /\ UNCHANGED logged
        /\ IF c \in ByWriter THEN Goes(c, "keep") /\ UNCHANGED <<waiting, asked>>
                             ELSE Goes(c, "gone") /\ noted
  /\ UNCHANGED <<age, changed, pending, intents, marks, visit>>

\* The refused line of a writer is kept in the workspace; refused there too,
\* the write throws and its intent stays.
keepLine(c) ==
  /\ pc[c] = "keep" /\ noted
  /\ \/ Goes(c, "ending") /\ pending' = pending \cup {c} /\ UNCHANGED faults
     \/ Goes(c, "gone") /\ GoesWrong /\ UNCHANGED pending
  /\ UNCHANGED <<age, changed, intents, logged, marks, visit>>

\* The row that stood for the line goes, or outlives it.
endWrite(c) ==
  /\ pc[c] = "ending" /\ Goes(c, "gone")
  /\ \/ /\ IF c \in ByWriter THEN intents' = intents \ {c} /\ UNCHANGED pending
                             ELSE pending' = pending \ {c} /\ UNCHANGED intents
        /\ UNCHANGED <<waiting, asked, faults>>
     \/ /\ GoesWrong /\ UNCHANGED <<pending, intents>>
        /\ IF c \in ByWriter THEN noted ELSE UNCHANGED <<waiting, asked>>
  /\ UNCHANGED <<age, changed, logged, marks, visit>>

------------------------------------------------------------------------------
(* registerTraceSweep, sendTraces                                          *)

\* A row of the batch is taken in hand with its line sent, and then removed.
Takes(c) == visit.hand = {} /\ c \in visit.batch
InHand(c) == visit' = [visit EXCEPT !.batch = visit.batch \ {c}, !.hand = {c}]
NothingTaken == visit.batch = {} /\ visit.hand = {}

Unmade == waiting /\ marked = "never"

\* A workspace marked since a visit covered it is opened once it has been
\* quiet, or when it has not been looked at for long (left to chance).  One
\* the server would not mark is marked now, unless this process has marked it
\* before.
candidates ==
  /\ visit.pc = "idle"
  /\ waiting \/ (~covered /\ touched >= Quiet)
  /\ \/ /\ Unmade
        /\ touched' = 0 /\ covered' = FALSE /\ marked' = "fresh" /\ unmarked' = FALSE
        /\ visit' = [NoVisit EXCEPT !.pc = "open"]
        /\ UNCHANGED faults
     \/ /\ IF Unmade THEN GoesWrong ELSE UNCHANGED faults
        /\ visit' = [NoVisit EXCEPT !.pc = "open",
                       !.mark = IF ~covered /\ touched >= Quiet THEN "quiet" ELSE "none"]
        /\ UNCHANGED marks
  /\ UNCHANGED <<pc, age, rows, waiting, asked>>

candidatesBusy ==
  /\ visit.pc = "idle" /\ ~covered /\ touched < Quiet
  /\ visit' = [NoVisit EXCEPT !.pc = "open", !.mark = "read"]
  /\ UNCHANGED <<pc, age, rows, marks, waiting, asked, faults>>

\* sweeps.soon: the round that names the workspace reads no mark.
namedRound ==
  /\ visit.pc = "idle" /\ asked
  /\ asked' = FALSE
  /\ visit' = [NoVisit EXCEPT !.pc = "open"]
  /\ UNCHANGED <<pc, age, rows, marks, waiting, faults>>

readLines ==
  /\ visit.pc = "open"
  /\ visit' = [visit EXCEPT !.pc = "lines", !.batch = pending]
  /\ UNCHANGED <<pc, age, rows, marks, waiting, asked, faults>>

\* A refusal ends the visit: what it read is read again by the next.
sendLine(c) ==
  /\ visit.pc = "lines" /\ Takes(c)
  /\ \/ InHand(c) /\ logged' = logged \cup {c} /\ UNCHANGED faults
     \/ GoesWrong /\ visit' = NoVisit /\ UNCHANGED logged
  /\ UNCHANGED <<pc, age, changed, pending, intents, marks, waiting, asked>>

removeLine(c) ==
  /\ visit.pc = "lines" /\ c \in visit.hand
  /\ pending' = pending \ {c}
  /\ visit' = [visit EXCEPT !.hand = {}]
  /\ UNCHANGED <<pc, age, changed, intents, logged, marks, waiting, asked, faults>>

\* Mutant: every intent is taken for one its write left behind.
ReadsAnyIntent ==
  /\ visit.pc = "lines" /\ NothingTaken
  /\ visit' = [visit EXCEPT !.pc = "intents", !.batch = intents]
  /\ UNCHANGED <<pc, age, rows, marks, waiting, asked, faults>>

readIntents ==
  /\ visit.pc = "lines" /\ NothingTaken
  /\ visit' = [visit EXCEPT !.pc = "intents", !.batch = {c \in intents : age[c] >= Stale}]
  /\ UNCHANGED <<pc, age, rows, marks, waiting, asked, faults>>

\* The record is read; one that is as it was has no line to write.
recoverIntent(c) ==
  /\ visit.pc = "intents" /\ Takes(c)
  /\ \/ InHand(c) /\ logged' = logged \cup ({c} \cap changed) /\ UNCHANGED faults
     \/ c \in changed /\ GoesWrong /\ visit' = NoVisit /\ UNCHANGED logged
  /\ UNCHANGED <<pc, age, changed, pending, intents, marks, waiting, asked>>

removeIntent(c) ==
  /\ visit.pc = "intents" /\ c \in visit.hand
  /\ intents' = intents \ {c}
  /\ visit' = [visit EXCEPT !.hand = {}]
  /\ UNCHANGED <<pc, age, changed, pending, logged, marks, waiting, asked, faults>>

anythingLeft ==
  /\ visit.pc = "intents" /\ NothingTaken
  /\ visit' = [visit EXCEPT !.pc = "cover", !.left = pending \cup intents # {}]
  /\ UNCHANGED <<pc, age, rows, marks, waiting, asked, faults>>

\* Mutant: a visit covers its mark whatever the mark's age.
CoversAnyMark == visit.mark # "none" /\ ~visit.left

\* Only when every row the mark stands for was old enough to be read.
traceCovered == visit.mark = "quiet" /\ ~visit.left

\* The mark covered is the one that was read.
endVisit ==
  /\ visit.pc = "cover"
  /\ waiting' = (waiting /\ visit.left)
  /\ covered' = (covered \/ traceCovered)
  /\ visit' = NoVisit
  /\ UNCHANGED <<pc, age, rows, touched, marked, asked, faults, unmarked>>

------------------------------------------------------------------------------
(* Outside                                                                 *)

\* A minute passes.  Ages stop where they no longer matter, and one that
\* nothing asks for any more is nought.
tick ==
  /\ \A c \in Live : age[c] < MaxWrite
  /\ age' = [c \in Changes |-> IF c \notin Live \cup intents THEN 0
                               ELSE IF age[c] < Stale THEN age[c] + 1 ELSE Stale]
  /\ touched' = IF ~covered /\ touched < Quiet THEN touched + 1 ELSE touched
  /\ marked' = IF marked = "fresh" THEN "old" ELSE marked
  /\ UNCHANGED <<pc, rows, covered, waiting, asked, visit, faults, unmarked>>

\* The process dies: its writes stop where they are, and the next one
\* remembers no workspace.
crash ==
  /\ GoesWrong
  /\ pc' = [c \in Changes |-> IF c \in Live THEN "gone" ELSE pc[c]]
  /\ marked' = "never"
  /\ waiting' = FALSE /\ asked' = FALSE
  /\ visit' = NoVisit
  /\ UNCHANGED <<age, rows, touched, covered, unmarked>>

Write(c) ==
  \/ commit(c) \/ beginIntent(c) \/ work(c) \/ workThrows(c)
  \/ insertLine(c) \/ keepLine(c) \/ endWrite(c)

Round == candidates \/ candidatesBusy \/ namedRound

Visit ==
  \/ readLines \/ readIntents \/ anythingLeft \/ endVisit
  \/ \E c \in Changes : sendLine(c) \/ removeLine(c) \/ recoverIntent(c) \/ removeIntent(c)

Next ==
  \/ \E c \in Changes : markForTrace(c) \/ Write(c)
  \/ Round \/ Visit
  \/ tick \/ crash

Spec == Init /\ [][Next]_vars

\* A request goes on until it is answered, the round comes every minute, a
\* visit goes on, and the clock does not stop.
Fairness ==
  /\ \A c \in Changes : WF_vars(Write(c))
  /\ WF_vars(candidates) /\ WF_vars(Visit)
  /\ WF_vars(tick)

FairSpec == Spec /\ Fairness

------------------------------------------------------------------------------
(* Properties                                                              *)

\* What was left in the workspace is found: a process remembers it, or it is
\* marked.  (After a refused mark nobody may: see ../README.md.)
LeftIsFound ==
  ~unmarked /\ pending \cup {c \in intents : c \notin Live} # {} => waiting \/ ~covered

\* A change is in its History in the end, whatever failed on the way.
LineArrives ==
  \A c \in Changes : c \in changed ~> c \in logged \/ unmarked

\* The rows a change leaves are what is owed to the History: the delivery of
\* its line is a durable one.
D == INSTANCE DurableDelivery WITH
       Ops <- Changes, Recipients <- {"activity_log"},
       owed <- changed \cap (pending \cup intents),
       closed <- changed \ (pending \cup intents),
       answered <- [c \in Changes |-> IF c \in logged THEN {"activity_log"} ELSE {}]

\* Every step of a write, a visit or a crash is one of a durable delivery: no
\* line is given up before the server has it.
LinesAreDelivered == D!Spec
=============================================================================
