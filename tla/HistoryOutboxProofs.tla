------------------------ MODULE HistoryOutboxProofs ------------------------
(***************************************************************************)
(* Proofs about HistoryOutbox for any changes, writers and faults.         *)
(***************************************************************************)
EXTENDS HistoryOutbox, TLAPS

\* Which rows a change has, from where its write is.
Rows ==
  \A c \in Changes :
    /\ pc[c] \in {"idle", "marked"} => c \notin changed \cup pending \cup intents
    /\ pc[c] = "open" => c \notin changed \cup pending
    /\ pc[c] \in {"log", "keep"} => c \in changed
    /\ pc[c] \in {"open", "keep"} => c \in ByWriter
    /\ pc[c] \in {"open", "log", "keep"} /\ c \in ByWriter => c \in intents
    /\ pc[c] = "ending" /\ c \in changed => c \in logged \cup (pending \cap ByWriter)

\* A change has its line in the log, or a row that stands for it.
NothingLost == changed \subseteq logged \cup pending \cup intents

\* A visit reads lines of changes made and intents of writes long over, and
\* has sent the line of the row it has in hand.
VisitReads ==
  /\ visit.pc \in {"idle", "open", "cover"} => visit.hand = {}
  /\ visit.pc = "lines" =>
       visit.batch \cup visit.hand \subseteq changed /\ visit.hand \subseteq logged
  /\ visit.pc = "intents" =>
       /\ \A c \in visit.batch \cup visit.hand : pc[c] = "gone"
       /\ visit.hand \cap changed \subseteq logged

\* A write is shorter than the age at which its intent is taken for left.
Ages == \A c \in Changes : pc[c] \in Writing => age[c] <= MaxWrite

\* A write under way has marked the workspace since it began, so a mark that
\* has been quiet for long stands for writes that are over.
Marks ==
  /\ marked = "fresh" => ~covered /\ touched = 0
  /\ visit.mark = "quiet" => touched = Quiet
  /\ ~unmarked => \A c \in Changes :
       /\ pc[c] = "marked" => touched <= age[c]
       /\ pc[c] \in Writing => touched <= age[c] + 1

\* What a covered mark stood for is gone.
CoveredIsClear ==
  ~unmarked =>
    /\ covered => pending \cup intents = {} /\ \A c \in Changes : pc[c] \notin Writing
    /\ visit.pc = "cover" /\ visit.mark = "quiet" /\ ~visit.left => pending \cup intents = {}

IInv ==
  /\ TypeOK
  /\ Rows
  /\ NothingLost
  /\ VisitReads
  /\ Ages
  /\ Marks
  /\ CoveredIsClear

Visits == [pc : {"idle", "open", "lines", "intents", "cover"}, batch : SUBSET Changes,
           hand : SUBSET Changes, mark : {"none", "read", "quiet"}, left : BOOLEAN]

LEMMA FaultsCounted ==
  ASSUME faults \in 0..MaxFaults, GoesWrong \/ faults' = faults
  PROVE  faults' \in 0..MaxFaults
  BY HistoryAssumption DEF GoesWrong

LEMMA InitHolds == Init => IInv
<1> SUFFICES ASSUME Init PROVE IInv
  OBVIOUS
<1> USE HistoryAssumption DEF Init, NoVisit
<1>1. TypeOK
  <2>1. faults \in 0..MaxFaults
    OBVIOUS
  <2>2. pc \in [Changes -> Writing \cup {"idle", "gone"}] /\ age \in [Changes -> 0..Stale]
    BY DEF TypeOK, Writing, Stale, Rows
  <2>3. /\ changed \subseteq Changes /\ logged \subseteq changed
        /\ pending \subseteq changed /\ intents \subseteq ByWriter
    BY DEF TypeOK, Rows
  <2>4. touched \in 0..Quiet
    BY DEF TypeOK, Quiet, Stale
  <2>5. covered \in BOOLEAN /\ unmarked \in BOOLEAN
    BY DEF TypeOK
  <2>6. marked \in {"never", "fresh", "old"} /\ waiting \in BOOLEAN /\ asked \in BOOLEAN
    BY DEF TypeOK
  <2>7. visit \in Visits
    BY DEF TypeOK, Visits
  <2> QED  BY <2>1, <2>2, <2>3, <2>4, <2>5, <2>6, <2>7 DEF TypeOK, Visits
<1>2. Rows
  BY DEF TypeOK, Rows, VisitReads
<1>3. NothingLost
  BY DEF TypeOK, NothingLost, Rows, VisitReads
<1>4. VisitReads
  BY DEF TypeOK, VisitReads, Rows, Writing
<1>5. Ages
  BY DEF TypeOK, Ages, Writing
<1>6. Marks
  BY DEF TypeOK, Marks, Ages, Writing, Quiet, Stale
<1>7. CoveredIsClear
  BY DEF TypeOK, CoveredIsClear, Marks, Ages, Writing, Quiet, Stale
<1> QED  BY <1>1, <1>2, <1>3, <1>4, <1>5, <1>6, <1>7 DEF IInv

LEMMA MarkForTraceKeeps ==
  ASSUME IInv, NEW c \in Changes, markForTrace(c)
  PROVE  IInv'
<1> USE HistoryAssumption DEF IInv, markForTrace, Mark, noted, Goes, Anew, rows, marks
<1>1. TypeOK'
  <2>1. faults' \in 0..MaxFaults
    BY FaultsCounted DEF TypeOK
  <2>2. (pc \in [Changes -> Writing \cup {"idle", "gone"}] /\ age \in [Changes -> 0..Stale])'
    BY DEF TypeOK, Writing, Stale, Rows
  <2>3. (/\ changed \subseteq Changes /\ logged \subseteq changed
          /\ pending \subseteq changed /\ intents \subseteq ByWriter)'
    BY DEF TypeOK, Rows
  <2>4. (touched \in 0..Quiet)'
    BY DEF TypeOK, Quiet, Stale
  <2>5. (covered \in BOOLEAN /\ unmarked \in BOOLEAN)'
    BY DEF TypeOK
  <2>6. (marked \in {"never", "fresh", "old"} /\ waiting \in BOOLEAN /\ asked \in BOOLEAN)'
    BY DEF TypeOK
  <2>7. (visit \in Visits)'
    BY DEF TypeOK, Visits
  <2> QED  BY <2>1, <2>2, <2>3, <2>4, <2>5, <2>6, <2>7 DEF TypeOK, Visits
<1>2. Rows'
  BY DEF TypeOK, Rows, VisitReads
<1>3. NothingLost'
  BY DEF TypeOK, NothingLost, Rows, VisitReads
<1>4. VisitReads'
  BY DEF TypeOK, VisitReads, Rows, Writing
<1>5. Ages'
  BY DEF TypeOK, Ages, Writing
<1>6. Marks'
  BY DEF TypeOK, Marks, Ages, Writing, Quiet, Stale
<1>7. CoveredIsClear'
  BY DEF TypeOK, CoveredIsClear, Marks, Ages, Writing, Quiet, Stale
<1> QED  BY <1>1, <1>2, <1>3, <1>4, <1>5, <1>6, <1>7

LEMMA CommitKeeps ==
  ASSUME IInv, NEW c \in Changes, commit(c)
  PROVE  IInv'
<1> USE HistoryAssumption DEF IInv, commit, Goes, Anew, marks
<1>1. TypeOK'
  BY DEF TypeOK, Writing, Quiet, Stale
<1>2. Rows'
  BY DEF TypeOK, Rows, VisitReads
<1>3. NothingLost'
  BY DEF TypeOK, NothingLost, Rows, VisitReads
<1>4. VisitReads'
  BY DEF TypeOK, VisitReads, Rows, Writing
<1>5. Ages'
  BY DEF TypeOK, Ages, Writing
<1>6. Marks'
  BY DEF TypeOK, Marks, Ages, Writing, Quiet, Stale
<1>7. CoveredIsClear'
  BY DEF TypeOK, CoveredIsClear, Marks, Ages, Writing, Quiet, Stale
<1> QED  BY <1>1, <1>2, <1>3, <1>4, <1>5, <1>6, <1>7

LEMMA BeginIntentKeeps ==
  ASSUME IInv, NEW c \in Changes, beginIntent(c)
  PROVE  IInv'
<1> USE HistoryAssumption DEF IInv, beginIntent, Goes, Anew, marks
<1>1. TypeOK'
  BY DEF TypeOK, Writing, Quiet, Stale
<1>2. Rows'
  BY DEF TypeOK, Rows, VisitReads
<1>3. NothingLost'
  BY DEF TypeOK, NothingLost, Rows, VisitReads
<1>4. VisitReads'
  BY DEF TypeOK, VisitReads, Rows, Writing
<1>5. Ages'
  BY DEF TypeOK, Ages, Writing
<1>6. Marks'
  BY DEF TypeOK, Marks, Ages, Writing, Quiet, Stale
<1>7. CoveredIsClear'
  BY DEF TypeOK, CoveredIsClear, Marks, Ages, Writing, Quiet, Stale
<1> QED  BY <1>1, <1>2, <1>3, <1>4, <1>5, <1>6, <1>7

LEMMA WorkKeeps ==
  ASSUME IInv, NEW c \in Changes, work(c)
  PROVE  IInv'
<1> USE HistoryAssumption DEF IInv, work, Goes, marks
<1>1. TypeOK'
  BY DEF TypeOK, Writing, Quiet, Stale
<1>2. Rows'
  BY DEF TypeOK, Rows, VisitReads
<1>3. NothingLost'
  BY DEF TypeOK, NothingLost, Rows, VisitReads
<1>4. VisitReads'
  BY DEF TypeOK, VisitReads, Rows, Writing
<1>5. Ages'
  BY DEF TypeOK, Ages, Writing
<1>6. Marks'
  BY DEF TypeOK, Marks, Ages, Writing, Quiet, Stale
<1>7. CoveredIsClear'
  BY DEF TypeOK, CoveredIsClear, Marks, Ages, Writing, Quiet, Stale
<1> QED  BY <1>1, <1>2, <1>3, <1>4, <1>5, <1>6, <1>7

LEMMA WorkThrowsKeeps ==
  ASSUME IInv, NEW c \in Changes, workThrows(c)
  PROVE  IInv'
<1> USE HistoryAssumption DEF IInv, workThrows, noted, Goes, marks
<1>1. TypeOK'
  BY DEF TypeOK, Writing, Quiet, Stale
<1>2. Rows'
  BY DEF TypeOK, Rows, VisitReads
<1>3. NothingLost'
  BY DEF TypeOK, NothingLost, Rows, VisitReads
<1>4. VisitReads'
  BY DEF TypeOK, VisitReads, Rows, Writing
<1>5. Ages'
  BY DEF TypeOK, Ages, Writing
<1>6. Marks'
  BY DEF TypeOK, Marks, Ages, Writing, Quiet, Stale
<1>7. CoveredIsClear'
  BY DEF TypeOK, CoveredIsClear, Marks, Ages, Writing, Quiet, Stale
<1> QED  BY <1>1, <1>2, <1>3, <1>4, <1>5, <1>6, <1>7

LEMMA InsertLineKeeps ==
  ASSUME IInv, NEW c \in Changes, insertLine(c)
  PROVE  IInv'
<1> USE HistoryAssumption DEF IInv, insertLine, noted, Goes, marks
<1>1. TypeOK'
  <2>1. faults' \in 0..MaxFaults
    BY FaultsCounted DEF TypeOK
  <2>2. (pc \in [Changes -> Writing \cup {"idle", "gone"}] /\ age \in [Changes -> 0..Stale])'
    BY DEF TypeOK, Writing, Stale, Rows
  <2>3. (/\ changed \subseteq Changes /\ logged \subseteq changed
          /\ pending \subseteq changed /\ intents \subseteq ByWriter)'
    BY DEF TypeOK, Rows
  <2>4. (touched \in 0..Quiet)'
    BY DEF TypeOK, Quiet, Stale
  <2>5. (covered \in BOOLEAN /\ unmarked \in BOOLEAN)'
    BY DEF TypeOK
  <2>6. (marked \in {"never", "fresh", "old"} /\ waiting \in BOOLEAN /\ asked \in BOOLEAN)'
    BY DEF TypeOK
  <2>7. (visit \in Visits)'
    BY DEF TypeOK, Visits
  <2> QED  BY <2>1, <2>2, <2>3, <2>4, <2>5, <2>6, <2>7 DEF TypeOK, Visits
<1>2. Rows'
  BY DEF TypeOK, Rows, VisitReads
<1>3. NothingLost'
  BY DEF TypeOK, NothingLost, Rows, VisitReads
<1>4. VisitReads'
  BY DEF TypeOK, VisitReads, Rows, Writing
<1>5. Ages'
  BY DEF TypeOK, Ages, Writing
<1>6. Marks'
  BY DEF TypeOK, Marks, Ages, Writing, Quiet, Stale
<1>7. CoveredIsClear'
  BY DEF TypeOK, CoveredIsClear, Marks, Ages, Writing, Quiet, Stale
<1> QED  BY <1>1, <1>2, <1>3, <1>4, <1>5, <1>6, <1>7

LEMMA KeepLineKeeps ==
  ASSUME IInv, NEW c \in Changes, keepLine(c)
  PROVE  IInv'
<1> USE HistoryAssumption DEF IInv, keepLine, noted, Goes, marks
<1>1. TypeOK'
  <2>1. faults' \in 0..MaxFaults
    BY FaultsCounted DEF TypeOK
  <2>2. (pc \in [Changes -> Writing \cup {"idle", "gone"}] /\ age \in [Changes -> 0..Stale])'
    BY DEF TypeOK, Writing, Stale, Rows
  <2>3. (/\ changed \subseteq Changes /\ logged \subseteq changed
          /\ pending \subseteq changed /\ intents \subseteq ByWriter)'
    BY DEF TypeOK, Rows
  <2>4. (touched \in 0..Quiet)'
    BY DEF TypeOK, Quiet, Stale
  <2>5. (covered \in BOOLEAN /\ unmarked \in BOOLEAN)'
    BY DEF TypeOK
  <2>6. (marked \in {"never", "fresh", "old"} /\ waiting \in BOOLEAN /\ asked \in BOOLEAN)'
    BY DEF TypeOK
  <2>7. (visit \in Visits)'
    BY DEF TypeOK, Visits
  <2> QED  BY <2>1, <2>2, <2>3, <2>4, <2>5, <2>6, <2>7 DEF TypeOK, Visits
<1>2. Rows'
  BY DEF TypeOK, Rows, VisitReads
<1>3. NothingLost'
  BY DEF TypeOK, NothingLost, Rows, VisitReads
<1>4. VisitReads'
  BY DEF TypeOK, VisitReads, Rows, Writing
<1>5. Ages'
  BY DEF TypeOK, Ages, Writing
<1>6. Marks'
  BY DEF TypeOK, Marks, Ages, Writing, Quiet, Stale
<1>7. CoveredIsClear'
  BY DEF TypeOK, CoveredIsClear, Marks, Ages, Writing, Quiet, Stale
<1> QED  BY <1>1, <1>2, <1>3, <1>4, <1>5, <1>6, <1>7

LEMMA EndWriteKeeps ==
  ASSUME IInv, NEW c \in Changes, endWrite(c)
  PROVE  IInv'
<1> USE HistoryAssumption DEF IInv, endWrite, noted, Goes, marks
<1>1. TypeOK'
  <2>1. faults' \in 0..MaxFaults
    BY FaultsCounted DEF TypeOK
  <2> QED  BY <2>1 DEF TypeOK, Writing, Quiet, Stale
<1>2. Rows'
  BY DEF TypeOK, Rows, VisitReads
<1>3. NothingLost'
  BY DEF TypeOK, NothingLost, Rows, VisitReads
<1>4. VisitReads'
  BY DEF TypeOK, VisitReads, Rows, Writing
<1>5. Ages'
  BY DEF TypeOK, Ages, Writing
<1>6. Marks'
  BY DEF TypeOK, Marks, Ages, Writing, Quiet, Stale
<1>7. CoveredIsClear'
  BY DEF TypeOK, CoveredIsClear, Marks, Ages, Writing, Quiet, Stale
<1> QED  BY <1>1, <1>2, <1>3, <1>4, <1>5, <1>6, <1>7

LEMMA CandidatesKeeps ==
  ASSUME IInv, candidates
  PROVE  IInv'
<1> DEFINE Opened(m) == [pc |-> "open", batch |-> {}, hand |-> {}, mark |-> m, left |-> FALSE]
<1>1. /\ UNCHANGED <<pc, age, rows, waiting, asked>>
      /\ GoesWrong \/ faults' = faults
  BY DEF candidates
<1>2. \/ /\ touched' = 0 /\ covered' = FALSE /\ marked' = "fresh" /\ unmarked' = FALSE
         /\ visit' = Opened("none")
      \/ /\ UNCHANGED marks
         /\ \E m \in {"none", "quiet"} :
              visit' = Opened(m) /\ (m = "quiet" => touched >= Quiet)
  BY DEF candidates, NoVisit
<1> USE <1>1, <1>2 DEF IInv, rows, marks
<1>3. TypeOK'
  <2>1. faults' \in 0..MaxFaults
    BY FaultsCounted DEF TypeOK
  <2>2. touched' \in 0..Quiet
    BY DEF TypeOK, Quiet, Stale
  <2>3. covered' \in BOOLEAN /\ unmarked' \in BOOLEAN
    BY DEF TypeOK
  <2>4. marked' \in {"never", "fresh", "old"}
    BY DEF TypeOK
  <2>5. \A m \in {"none", "quiet"} : Opened(m) \in Visits
    BY DEF Visits
  <2>6. visit' \in Visits
    BY <2>5
  <2> QED  BY <2>1, <2>2, <2>3, <2>4, <2>6 DEF TypeOK, Visits
<1>4. Rows'
  BY DEF Rows
<1>5. NothingLost'
  BY DEF NothingLost
<1>6. VisitReads'
  BY DEF VisitReads
<1>7. Ages'
  BY DEF Ages
<1>8. Marks'
  BY DEF TypeOK, Marks, Quiet, Stale, Writing
<1>9. CoveredIsClear'
  BY DEF TypeOK, CoveredIsClear
<1> QED  BY <1>3, <1>4, <1>5, <1>6, <1>7, <1>8, <1>9

LEMMA CandidatesBusyKeeps ==
  ASSUME IInv, candidatesBusy
  PROVE  IInv'
<1> USE HistoryAssumption DEF IInv, candidatesBusy, NoVisit, rows, marks
<1>1. TypeOK'
  BY DEF TypeOK, Writing, Quiet, Stale
<1>2. Rows'
  BY DEF TypeOK, Rows, VisitReads
<1>3. NothingLost'
  BY DEF TypeOK, NothingLost, Rows, VisitReads
<1>4. VisitReads'
  BY DEF TypeOK, VisitReads, Rows, Writing
<1>5. Ages'
  BY DEF TypeOK, Ages, Writing
<1>6. Marks'
  BY DEF TypeOK, Marks, Ages, Writing, Quiet, Stale
<1>7. CoveredIsClear'
  BY DEF TypeOK, CoveredIsClear, Marks, Ages, Writing, Quiet, Stale
<1> QED  BY <1>1, <1>2, <1>3, <1>4, <1>5, <1>6, <1>7

LEMMA NamedRoundKeeps ==
  ASSUME IInv, namedRound
  PROVE  IInv'
<1> USE HistoryAssumption DEF IInv, namedRound, NoVisit, rows, marks
<1>1. TypeOK'
  BY DEF TypeOK, Writing, Quiet, Stale
<1>2. Rows'
  BY DEF TypeOK, Rows, VisitReads
<1>3. NothingLost'
  BY DEF TypeOK, NothingLost, Rows, VisitReads
<1>4. VisitReads'
  BY DEF TypeOK, VisitReads, Rows, Writing
<1>5. Ages'
  BY DEF TypeOK, Ages, Writing
<1>6. Marks'
  BY DEF TypeOK, Marks, Ages, Writing, Quiet, Stale
<1>7. CoveredIsClear'
  BY DEF TypeOK, CoveredIsClear, Marks, Ages, Writing, Quiet, Stale
<1> QED  BY <1>1, <1>2, <1>3, <1>4, <1>5, <1>6, <1>7

LEMMA ReadLinesKeeps ==
  ASSUME IInv, readLines
  PROVE  IInv'
<1> USE HistoryAssumption DEF IInv, readLines, rows, marks
<1>1. TypeOK'
  BY DEF TypeOK, Writing, Quiet, Stale
<1>2. Rows'
  BY DEF TypeOK, Rows, VisitReads
<1>3. NothingLost'
  BY DEF TypeOK, NothingLost, Rows, VisitReads
<1>4. VisitReads'
  BY DEF TypeOK, VisitReads, Rows, Writing
<1>5. Ages'
  BY DEF TypeOK, Ages, Writing
<1>6. Marks'
  BY DEF TypeOK, Marks, Ages, Writing, Quiet, Stale
<1>7. CoveredIsClear'
  BY DEF TypeOK, CoveredIsClear, Marks, Ages, Writing, Quiet, Stale
<1> QED  BY <1>1, <1>2, <1>3, <1>4, <1>5, <1>6, <1>7

LEMMA SendLineKeeps ==
  ASSUME IInv, NEW c \in Changes, sendLine(c)
  PROVE  IInv'
<1> USE DEF IInv
<1>1. /\ visit.pc = "lines" /\ c \in visit.batch
      /\ UNCHANGED <<pc, age, changed, pending, intents, touched, covered, marked, unmarked, waiting, asked>>
      /\ GoesWrong \/ faults' = faults
  BY DEF sendLine, Takes, marks
<1>2. \/ visit' = NoVisit /\ logged' = logged
      \/ /\ logged' = logged \cup {c}
         /\ visit' = [pc |-> "lines", batch |-> visit.batch \ {c}, hand |-> {c},
                      mark |-> visit.mark, left |-> visit.left]
  BY DEF sendLine, InHand, TypeOK
<1>3. logged \subseteq logged' /\ logged' \subseteq changed'
  BY <1>1, <1>2 DEF TypeOK, VisitReads
<1> USE <1>1, <1>2, <1>3
<1>4. TypeOK'
  <2>1. faults' \in 0..MaxFaults
    BY FaultsCounted DEF TypeOK
  <2>2. NoVisit \in Visits /\ visit \in Visits
    BY DEF TypeOK, Visits, NoVisit
  <2>3. visit.batch \ {c} \in SUBSET Changes
    BY <2>2 DEF Visits
  <2>4. visit' \in Visits
    BY <2>2, <2>3 DEF Visits
  <2> HIDE <1>2
  <2> QED  BY <2>1, <2>4 DEF TypeOK, Visits
<1>5. Rows'
  BY DEF Rows
<1>6. NothingLost'
  BY DEF NothingLost
<1>7. VisitReads'
  BY DEF VisitReads, NoVisit
<1>8. Ages'
  BY DEF Ages
<1>9. Marks'
  <2>1. visit'.mark = "quiet" => visit.mark = "quiet"
    BY DEF NoVisit
  <2> HIDE <1>2
  <2> QED  BY <2>1 DEF Marks
<1>10. CoveredIsClear'
  <2>1. visit'.pc # "cover"
    BY DEF NoVisit
  <2> HIDE <1>2
  <2> QED  BY <2>1 DEF CoveredIsClear
<1> QED  BY <1>4, <1>5, <1>6, <1>7, <1>8, <1>9, <1>10

LEMMA RemoveLineKeeps ==
  ASSUME IInv, NEW c \in Changes, removeLine(c)
  PROVE  IInv'
<1> USE HistoryAssumption DEF IInv, removeLine, marks
<1>1. TypeOK'
  BY DEF TypeOK, Writing, Quiet, Stale
<1>2. Rows'
  BY DEF TypeOK, Rows, VisitReads
<1>3. NothingLost'
  BY DEF TypeOK, NothingLost, Rows, VisitReads
<1>4. VisitReads'
  BY DEF TypeOK, VisitReads, Rows, Writing
<1>5. Ages'
  BY DEF TypeOK, Ages, Writing
<1>6. Marks'
  BY DEF TypeOK, Marks, Ages, Writing, Quiet, Stale
<1>7. CoveredIsClear'
  BY DEF TypeOK, CoveredIsClear, Marks, Ages, Writing, Quiet, Stale
<1> QED  BY <1>1, <1>2, <1>3, <1>4, <1>5, <1>6, <1>7

LEMMA ReadIntentsKeeps ==
  ASSUME IInv, readIntents
  PROVE  IInv'
<1> USE HistoryAssumption DEF IInv, readIntents, NothingTaken, rows, marks
<1>1. TypeOK'
  BY DEF TypeOK, Writing, Quiet, Stale
<1>2. Rows'
  BY DEF TypeOK, Rows, VisitReads
<1>3. NothingLost'
  BY DEF TypeOK, NothingLost, Rows, VisitReads
<1>4. VisitReads'
  <2>1. ASSUME NEW c \in intents, age[c] >= Stale
        PROVE  pc[c] = "gone"
    <3>1. c \in Changes /\ age[c] \in Nat
      BY DEF TypeOK
    <3>2. pc[c] \notin Writing /\ pc[c] # "idle"
      BY <2>1, <3>1 DEF Ages, Rows, Stale
    <3> QED  BY <3>1, <3>2 DEF TypeOK
  <2>2. visit'.pc = "intents" /\ visit'.batch = {c \in intents : age[c] >= Stale} /\ visit'.hand = {}
    BY DEF TypeOK
  <2>3. UNCHANGED <<pc, changed, logged>>
    OBVIOUS
  <2> QED  BY <2>1, <2>2, <2>3 DEF VisitReads
<1>5. Ages'
  BY DEF TypeOK, Ages, Writing
<1>6. Marks'
  BY DEF TypeOK, Marks, Ages, Writing, Quiet, Stale
<1>7. CoveredIsClear'
  BY DEF TypeOK, CoveredIsClear, Marks, Ages, Writing, Quiet, Stale
<1> QED  BY <1>1, <1>2, <1>3, <1>4, <1>5, <1>6, <1>7

LEMMA RecoverIntentKeeps ==
  ASSUME IInv, NEW c \in Changes, recoverIntent(c)
  PROVE  IInv'
<1> USE DEF IInv
<1>1. /\ visit.pc = "intents" /\ c \in visit.batch
      /\ UNCHANGED <<pc, age, changed, pending, intents, touched, covered, marked, unmarked, waiting, asked>>
      /\ GoesWrong \/ faults' = faults
  BY DEF recoverIntent, Takes, marks
<1>2. \/ visit' = NoVisit /\ logged' = logged
      \/ /\ logged' = logged \cup ({c} \cap changed)
         /\ visit' = [pc |-> "intents", batch |-> visit.batch \ {c}, hand |-> {c},
                      mark |-> visit.mark, left |-> visit.left]
  BY DEF recoverIntent, InHand, TypeOK
<1>3. logged \subseteq logged' /\ logged' \subseteq changed'
  BY <1>1, <1>2 DEF TypeOK, VisitReads
<1> USE <1>1, <1>2, <1>3
<1>4. TypeOK'
  <2>1. faults' \in 0..MaxFaults
    BY FaultsCounted DEF TypeOK
  <2>2. NoVisit \in Visits /\ visit \in Visits
    BY DEF TypeOK, Visits, NoVisit
  <2>3. visit.batch \ {c} \in SUBSET Changes
    BY <2>2 DEF Visits
  <2>4. visit' \in Visits
    BY <2>2, <2>3 DEF Visits
  <2> HIDE <1>2
  <2> QED  BY <2>1, <2>4 DEF TypeOK, Visits
<1>5. Rows'
  BY DEF Rows
<1>6. NothingLost'
  BY DEF NothingLost
<1>7. VisitReads'
  BY DEF VisitReads, NoVisit
<1>8. Ages'
  BY DEF Ages
<1>9. Marks'
  <2>1. visit'.mark = "quiet" => visit.mark = "quiet"
    BY DEF NoVisit
  <2> HIDE <1>2
  <2> QED  BY <2>1 DEF Marks
<1>10. CoveredIsClear'
  <2>1. visit'.pc # "cover"
    BY DEF NoVisit
  <2> HIDE <1>2
  <2> QED  BY <2>1 DEF CoveredIsClear
<1> QED  BY <1>4, <1>5, <1>6, <1>7, <1>8, <1>9, <1>10

LEMMA RemoveIntentKeeps ==
  ASSUME IInv, NEW c \in Changes, removeIntent(c)
  PROVE  IInv'
<1> USE HistoryAssumption DEF IInv, removeIntent, marks
<1>1. TypeOK'
  BY DEF TypeOK, Writing, Quiet, Stale
<1>2. Rows'
  BY DEF TypeOK, Rows, VisitReads
<1>3. NothingLost'
  BY DEF TypeOK, NothingLost, Rows, VisitReads
<1>4. VisitReads'
  BY DEF TypeOK, VisitReads, Rows, Writing
<1>5. Ages'
  BY DEF TypeOK, Ages, Writing
<1>6. Marks'
  BY DEF TypeOK, Marks, Ages, Writing, Quiet, Stale
<1>7. CoveredIsClear'
  BY DEF TypeOK, CoveredIsClear, Marks, Ages, Writing, Quiet, Stale
<1> QED  BY <1>1, <1>2, <1>3, <1>4, <1>5, <1>6, <1>7

LEMMA AnythingLeftKeeps ==
  ASSUME IInv, anythingLeft
  PROVE  IInv'
<1> USE HistoryAssumption DEF IInv, anythingLeft, NothingTaken, rows, marks
<1>1. TypeOK'
  BY DEF TypeOK, Writing, Quiet, Stale
<1>2. Rows'
  BY DEF TypeOK, Rows, VisitReads
<1>3. NothingLost'
  BY DEF TypeOK, NothingLost, Rows, VisitReads
<1>4. VisitReads'
  BY DEF TypeOK, VisitReads, Rows, Writing
<1>5. Ages'
  BY DEF TypeOK, Ages, Writing
<1>6. Marks'
  BY DEF TypeOK, Marks, Ages, Writing, Quiet, Stale
<1>7. CoveredIsClear'
  BY DEF TypeOK, CoveredIsClear, Marks, Ages, Writing, Quiet, Stale
<1> QED  BY <1>1, <1>2, <1>3, <1>4, <1>5, <1>6, <1>7

LEMMA EndVisitKeeps ==
  ASSUME IInv, endVisit
  PROVE  IInv'
<1> USE HistoryAssumption DEF IInv, endVisit, traceCovered, NoVisit, rows
<1>1. TypeOK'
  BY DEF TypeOK, Writing, Quiet, Stale
<1>2. Rows'
  BY DEF TypeOK, Rows, VisitReads
<1>3. NothingLost'
  BY DEF TypeOK, NothingLost, Rows, VisitReads
<1>4. VisitReads'
  BY DEF TypeOK, VisitReads, Rows, Writing
<1>5. Ages'
  BY DEF TypeOK, Ages, Writing
<1>6. Marks'
  BY DEF TypeOK, Marks, Ages, Writing, Quiet, Stale
<1>7. CoveredIsClear'
  BY DEF TypeOK, CoveredIsClear, Marks, Ages, Writing, Quiet, Stale
<1> QED  BY <1>1, <1>2, <1>3, <1>4, <1>5, <1>6, <1>7

LEMMA TickKeeps ==
  ASSUME IInv, tick
  PROVE  IInv'
<1> USE HistoryAssumption DEF IInv, tick, Live, rows
<1>1. TypeOK'
  BY DEF TypeOK, Writing, Quiet, Stale
<1>2. Rows'
  BY DEF TypeOK, Rows, VisitReads
<1>3. NothingLost'
  BY DEF TypeOK, NothingLost, Rows, VisitReads
<1>4. VisitReads'
  <2>1. UNCHANGED <<pc, changed, pending, intents, logged, visit>>
    OBVIOUS
  <2> HIDE DEF tick
  <2> QED  BY <2>1 DEF VisitReads
<1>5. ASSUME NEW c \in Changes, pc[c] \in Writing
      PROVE  age[c] < MaxWrite /\ age[c] \in Nat /\ age'[c] = age[c] + 1
  BY <1>5 DEF TypeOK, Stale
<1>6. pc' = pc /\ MaxWrite \in Nat
  BY DEF Stale
<1>7. Ages'
  BY <1>5, <1>6 DEF Ages
<1>8. Marks'
  BY <1>5, <1>6 DEF TypeOK, Marks, Quiet, Stale
<1>9. CoveredIsClear'
  BY DEF TypeOK, CoveredIsClear, Marks, Ages, Writing, Quiet, Stale
<1> QED  BY <1>1, <1>2, <1>3, <1>4, <1>7, <1>8, <1>9

LEMMA CrashKeeps ==
  ASSUME IInv, crash
  PROVE  IInv'
<1> USE HistoryAssumption DEF IInv, crash, Live, NoVisit, rows
<1>1. TypeOK'
  <2>1. faults' \in 0..MaxFaults
    BY FaultsCounted DEF TypeOK
  <2> QED  BY <2>1 DEF TypeOK, Writing, Quiet, Stale
<1>2. Rows'
  BY DEF TypeOK, Rows, VisitReads
<1>3. NothingLost'
  BY DEF TypeOK, NothingLost, Rows, VisitReads
<1>4. VisitReads'
  BY DEF TypeOK, VisitReads, Rows, Writing
<1>5. Ages'
  BY DEF TypeOK, Ages, Writing
<1>6. Marks'
  BY DEF TypeOK, Marks, Ages, Writing, Quiet, Stale
<1>7. CoveredIsClear'
  BY DEF TypeOK, CoveredIsClear, Marks, Ages, Writing, Quiet, Stale
<1> QED  BY <1>1, <1>2, <1>3, <1>4, <1>5, <1>6, <1>7

LEMMA StepKeeps ==
  ASSUME IInv, [Next]_vars
  PROVE  IInv'
<1>1. CASE UNCHANGED vars
  BY <1>1 DEF vars, IInv, TypeOK, Rows, NothingLost, VisitReads, Ages, Marks, CoveredIsClear
<1>2. CASE \E c \in Changes : markForTrace(c) \/ Write(c)
  BY <1>2, MarkForTraceKeeps, CommitKeeps, BeginIntentKeeps, WorkKeeps, WorkThrowsKeeps,
     InsertLineKeeps, KeepLineKeeps, EndWriteKeeps DEF Write
<1>3. CASE Round
  BY <1>3, CandidatesKeeps, CandidatesBusyKeeps, NamedRoundKeeps DEF Round
<1>4. CASE Visit
  BY <1>4, ReadLinesKeeps, SendLineKeeps, RemoveLineKeeps, ReadIntentsKeeps, RecoverIntentKeeps,
     RemoveIntentKeeps, AnythingLeftKeeps, EndVisitKeeps DEF Visit
<1>5. CASE tick \/ crash
  BY <1>5, TickKeeps, CrashKeeps
<1> QED  BY <1>1, <1>2, <1>3, <1>4, <1>5 DEF Next

------------------------------------------------------------------------------
(* The three steps of a delivery.                                          *)

Left == pending \cup intents
Given == [c \in Changes |-> IF c \in logged THEN {"activity_log"} ELSE {}]
Delivers == D!Next \/ UNCHANGED <<changed \cap Left, changed \ Left, Given>>

LEMMA ChangeIsRecorded ==
  ASSUME NEW c \in Changes, c \notin changed,
         changed' = changed \cup {c}, Left' = Left \cup {c}, logged' = logged
  PROVE  Delivers
<1>1. {c} \in SUBSET Changes /\ {c} \cap changed = {}
  OBVIOUS
<1>2. /\ (changed \cap Left)' = (changed \cap Left) \cup {c}
      /\ (changed \ Left)' = changed \ Left
      /\ Given' = Given
  BY DEF Given
<1>3. D!Record({c})
  BY <1>1, <1>2 DEF D!Record, Left, Given
<1> QED  BY <1>1, <1>3 DEF Delivers, D!Next

LEMMA LineIsAnswered ==
  ASSUME NEW c \in Changes, c \in changed,
         changed' = changed, Left' = Left, logged' = logged \cup {c}
  PROVE  Delivers
<1>1. Given' = [Given EXCEPT ![c] = Given[c] \cup {"activity_log"}]
  BY DEF Given
<1>2. (changed \cap Left)' = changed \cap Left /\ (changed \ Left)' = changed \ Left
  OBVIOUS
<1>3. D!Answer(c, "activity_log")
  BY <1>1, <1>2 DEF D!Answer, Left, Given
<1> QED  BY <1>3 DEF Delivers, D!Next

LEMMA RowIsClosed ==
  ASSUME NEW c \in Changes, c \in changed => c \in logged,
         changed' = changed, Left' \in {Left, Left \ {c}}, logged' = logged
  PROVE  Delivers
<1>1. Given' = Given
  BY DEF Given
<1>2. CASE c \in changed \cap Left /\ Left' = Left \ {c}
  <2>1. Given[c] = {"activity_log"}
    BY <1>2 DEF Given
  <2>2. /\ (changed \cap Left)' = (changed \cap Left) \ {c}
        /\ (changed \ Left)' = (changed \ Left) \cup {c}
    BY <1>2
  <2>3. D!Close(c)
    BY <1>1, <1>2, <2>1, <2>2 DEF D!Close, Left, Given
  <2> QED  BY <2>3 DEF Delivers, D!Next
<1>3. CASE ~(c \in changed \cap Left /\ Left' = Left \ {c})
  <2>1. (changed \cap Left)' = changed \cap Left /\ (changed \ Left)' = changed \ Left
    BY <1>3
  <2> QED  BY <1>1, <2>1 DEF Delivers
<1> QED  BY <1>2, <1>3

LEMMA NothingDelivered ==
  ASSUME UNCHANGED <<changed \cap Left, changed \ Left, logged>>
  PROVE  Delivers
  BY DEF Delivers, Given

LEMMA WriteDelivers ==
  ASSUME IInv, NEW c \in Changes, Write(c)
  PROVE  Delivers
<1> USE DEF IInv
<1>1. CASE commit(c)
  <2>1. c \notin changed \cup Left
    BY <1>1 DEF commit, Rows, Left
  <2>2. CASE changed' = changed \cup {c} /\ pending' = pending \cup {c}
    BY <1>1, <2>1, <2>2, ChangeIsRecorded DEF commit, Left
  <2>3. CASE UNCHANGED <<changed, pending>>
    BY <1>1, <2>3, NothingDelivered DEF commit, Left
  <2> QED  BY <1>1, <2>2, <2>3 DEF commit
<1>2. CASE beginIntent(c)
  <2>1. c \notin changed
    BY <1>2 DEF beginIntent, Rows
  <2> QED  BY <1>2, <2>1, NothingDelivered DEF beginIntent, Left
<1>3. CASE work(c) \/ workThrows(c)
  <2>1. c \notin changed /\ c \in Left
    BY <1>3 DEF work, workThrows, Rows, Left
  <2>2. Left' = Left \cup {c} /\ Left' = Left /\ logged' = logged
    BY <1>3, <2>1 DEF work, workThrows, Left
  <2>3. CASE changed' = changed \cup {c}
    BY <2>1, <2>2, <2>3, ChangeIsRecorded
  <2>4. CASE changed' = changed
    BY <2>2, <2>4, NothingDelivered
  <2> QED  BY <1>3, <2>3, <2>4 DEF work, workThrows
<1>4. CASE insertLine(c)
  <2>1. c \in changed /\ changed' = changed /\ Left' = Left
    BY <1>4 DEF insertLine, Rows, Left
  <2>2. CASE logged' = logged \cup {c}
    BY <2>1, <2>2, LineIsAnswered
  <2>3. CASE logged' = logged
    BY <2>1, <2>3, NothingDelivered
  <2> QED  BY <1>4, <2>2, <2>3 DEF insertLine
<1>5. CASE keepLine(c)
  <2>1. c \in Left
    BY <1>5 DEF keepLine, Rows, Left
  <2>2. Left' = Left /\ changed' = changed /\ logged' = logged
    BY <1>5, <2>1 DEF keepLine, Left
  <2> QED  BY <2>2, NothingDelivered
<1>6. CASE endWrite(c)
  <2>1. changed' = changed /\ logged' = logged /\ pc[c] = "ending"
    BY <1>6 DEF endWrite
  <2>2. CASE Left' = Left
    BY <2>1, <2>2, NothingDelivered
  <2>3. CASE Left' # Left
    <3>1. c \in changed => c \in logged
      BY <1>6, <2>1, <2>3 DEF endWrite, Rows, Left, TypeOK
    <3>2. Left' \in {Left, Left \ {c}}
      BY <1>6 DEF endWrite, Left, TypeOK
    <3> QED  BY <2>1, <3>1, <3>2, RowIsClosed
  <2> QED  BY <2>2, <2>3
<1> QED  BY <1>1, <1>2, <1>3, <1>4, <1>5, <1>6 DEF Write

LEMMA VisitDelivers ==
  ASSUME IInv, NEW c \in Changes,
         sendLine(c) \/ removeLine(c) \/ recoverIntent(c) \/ removeIntent(c)
  PROVE  Delivers
<1> USE DEF IInv
<1>1. CASE sendLine(c) \/ recoverIntent(c)
  <2>1. changed' = changed /\ Left' = Left
    BY <1>1 DEF sendLine, recoverIntent, Left
  <2>2. CASE c \in changed /\ logged' = logged \cup {c}
    BY <2>1, <2>2, LineIsAnswered
  <2>3. CASE logged' = logged
    BY <2>1, <2>3, NothingDelivered
  <2>4. CASE sendLine(c)
    <3>1. c \in changed
      BY <2>4 DEF sendLine, Takes, VisitReads
    <3> QED  BY <2>2, <2>3, <2>4, <3>1 DEF sendLine
  <2>5. CASE recoverIntent(c)
    <3>1. logged' = logged \cup ({c} \cap changed) \/ logged' = logged
      BY <2>5 DEF recoverIntent
    <3> QED  BY <2>2, <2>3, <3>1
  <2> QED  BY <1>1, <2>4, <2>5
<1>2. CASE removeLine(c)
  <2>1. /\ changed' = changed /\ logged' = logged /\ c \in logged
        /\ Left' \in {Left, Left \ {c}}
    BY <1>2 DEF removeLine, VisitReads, Left
  <2> QED  BY <2>1, RowIsClosed
<1>3. CASE removeIntent(c)
  <2>1. /\ changed' = changed /\ logged' = logged
        /\ c \in changed => c \in logged
        /\ Left' \in {Left, Left \ {c}}
    BY <1>3 DEF removeIntent, VisitReads, Left
  <2> QED  BY <2>1, RowIsClosed
<1> QED  BY <1>1, <1>2, <1>3

LEMMA StepDelivers ==
  ASSUME IInv, [Next]_vars
  PROVE  Delivers
<1>1. CASE \E c \in Changes : Write(c)
  BY <1>1, WriteDelivers
<1>2. CASE \E c \in Changes : sendLine(c) \/ removeLine(c) \/ recoverIntent(c) \/ removeIntent(c)
  BY <1>2, VisitDelivers
<1>3. CASE /\ ~\E c \in Changes : Write(c)
           /\ ~\E c \in Changes : sendLine(c) \/ removeLine(c) \/ recoverIntent(c) \/ removeIntent(c)
  <2>1. UNCHANGED rows
    BY <1>3 DEF Next, Round, Visit, vars, rows, markForTrace, candidates, candidatesBusy, namedRound,
                readLines, readIntents, anythingLeft, endVisit, tick, crash
  <2> QED  BY <2>1, NothingDelivered DEF rows, Left
<1> QED  BY <1>1, <1>2, <1>3

------------------------------------------------------------------------------
\* The inductive invariant: where each write is, which rows it has, and what
\* the workspace's mark says of them agree.
THEOREM Invariant == Spec => []IInv
<1> QED  BY InitHolds, StepKeeps, PTL DEF Spec

\* Every variable keeps its type; in particular no line is logged, or kept,
\* of a change that was not made.
THEOREM TypeCorrect == Spec => []TypeOK
<1>1. IInv => TypeOK
  BY DEF IInv
<1> QED  BY Invariant, <1>1, PTL

\* Whatever was left in the workspace is found again: while no mark was
\* refused, a covered mark leaves nothing behind (traceCovered).
THEOREM WhatIsLeftIsFound == Spec => []LeftIsFound
<1>1. IInv => LeftIsFound
  BY DEF IInv, CoveredIsClear, TypeOK, LeftIsFound
<1> QED  BY Invariant, <1>1, PTL

\* The history of a change is a durable delivery: its rows go only once the
\* server has its line (changeWithHistory, sendTraces).
THEOREM DeliveryImplemented == Spec => LinesAreDelivered
<1>1. Init => D!Init
  BY DEF Init, D!Init
<1>2. IInv /\ [Next]_vars => [D!Next]_(D!ddVars)
  BY StepDelivers DEF Delivers, D!ddVars, Left, Given
<1> QED  BY <1>1, <1>2, Invariant, PTL DEF Spec, LinesAreDelivered, D!Spec
=============================================================================
