------------------------ MODULE RequestReplaysProofs ------------------------
(***************************************************************************)
(* Proofs about RequestReplays for any requests and faults.                *)
(***************************************************************************)
EXTENDS RequestReplays, FiniteSetTheorems, TLAPS

\* The type, with "one row at most" said without counting.
Types ==
  /\ pc \in [Requests -> {"idle", "claim", "look", "giveUp", "over"} \cup AtWork]
  /\ row \subseteq Row /\ \A x, y \in row : x = y
  /\ wrote \subseteq Requests
  /\ replayed \in [Requests -> Requests]
  /\ faults \in 0..MaxFaults
  /\ slow \in BOOLEAN /\ dropped \in BOOLEAN /\ taken \in BOOLEAN

\* Only a request whose handler has written, or that is over, has written.
WroteByHandler ==
  \A r \in Requests :
    /\ r \in wrote => pc[r] \in {"wrote", "failed", "over"}
    /\ pc[r] = "wrote" => r \in wrote

\* A request at work holds the key, under its own body.
WorkHoldsKey ==
  \A r \in Requests : pc[r] \in AtWork =>
    \E x \in row : x.state = "running" /\ x.by = r /\ x.other = Other(r)

\* The key stays with the request that wrote.
WroteHoldsKey == \A r \in wrote : \E x \in row : x.by = r

\* An answer under the key is that of a request that wrote.
AnswerOfAWrite == \A x \in row : x.state = "done" => x.by \in wrote

\* An answer under the key is kept with the body it is the answer to.
AnswerWithItsBody == \A x \in row : x.state = "done" => x.other = Other(x.by)

\* A row is taken from under a request at work only when one is dropped.
TakenIsDropped == taken => dropped

\* The key's row: whose it is, and what stands in it.
RowIsTrue ==
  /\ AnswerOfAWrite /\ TakenIsDropped
  /\ ~taken => WorkHoldsKey /\ AnswerWithItsBody
  /\ ~dropped => WroteHoldsKey

IInv == Types /\ WroteByHandler /\ RowIsTrue /\ AnsweredByItsWrite

LEMMA InitHolds == Init => IInv
<1> SUFFICES ASSUME Init PROVE IInv
  OBVIOUS
<1> USE DEF Init
<1>1. Types
  <2>1. faults \in 0..MaxFaults
    BY ReplaysAssumption
  <2> QED  BY <2>1 DEF Types, AtWork
<1>2. WroteByHandler
  BY DEF WroteByHandler
<1>3. RowIsTrue
  BY DEF RowIsTrue, WorkHoldsKey, WroteHoldsKey, AnswerOfAWrite, AnswerWithItsBody, TakenIsDropped,
         AtWork
<1>4. AnsweredByItsWrite
  BY DEF AnsweredByItsWrite
<1> QED  BY <1>1, <1>2, <1>3, <1>4 DEF IInv

\* The steps of a request that leave the row, the writes and the answers alone.
LEMMA QuietKeeps ==
  ASSUME IInv, NEW r \in Requests,
         send(r) \/ lookNothing(r) \/ lookRefused(r) \/ lookRunning(r)
  PROVE  IInv'
<1>1. PICK where \in {"claim", "over", "giveUp"} : Goes(r, where)
  BY DEF send, lookNothing, lookRefused, lookRunning
<1>2. UNCHANGED <<row, wrote, replayed, faults, slow, dropped, taken>> /\ pc[r] \in {"idle", "look"}
  BY DEF send, lookNothing, lookRefused, lookRunning
<1> USE <1>1, <1>2 DEF IInv, Goes
<1>3. Types'
  BY DEF Types, AtWork
<1>4. WroteByHandler'
  BY DEF Types, WroteByHandler
<1>5. RowIsTrue'
  BY DEF Types, RowIsTrue, WorkHoldsKey, WroteHoldsKey, AnswerOfAWrite, AnswerWithItsBody,
         TakenIsDropped, AtWork
<1>6. AnsweredByItsWrite'
  BY DEF AnsweredByItsWrite
<1> QED  BY <1>3, <1>4, <1>5, <1>6

LEMMA ClaimKeeps ==
  ASSUME IInv, NEW r \in Requests, claim(r)
  PROVE  IInv'
<1> USE DEF IInv, claim, Goes
<1>1. CASE row # {}
  <2> USE <1>1
  <2>1. Types'
    BY DEF Types, AtWork
  <2>2. WroteByHandler'
    BY DEF Types, WroteByHandler
  <2>3. RowIsTrue'
    BY DEF Types, RowIsTrue, WorkHoldsKey, WroteHoldsKey, AnswerOfAWrite, AnswerWithItsBody,
         TakenIsDropped, AtWork
  <2>4. AnsweredByItsWrite'
    BY DEF AnsweredByItsWrite
  <2> QED  BY <2>1, <2>2, <2>3, <2>4
<1>2. CASE row = {}
  <2> DEFINE x == [state |-> "running", other |-> Other(r), old |-> FALSE, by |-> r]
  <2> USE <1>2
  <2>1. row' = {x} /\ pc' = [pc EXCEPT ![r] = "run"] /\ x \in Row
    BY DEF Row, Other
  <2>2. Types'
    BY <2>1 DEF Types, AtWork
  <2>3. WroteByHandler'
    BY <2>1 DEF Types, WroteByHandler
  <2>4. /\ ~taken => \A q \in Requests : pc[q] \notin AtWork
        /\ ~dropped => wrote = {}
    BY DEF RowIsTrue, WroteHoldsKey, WorkHoldsKey, Types
  <2>5. RowIsTrue'
    BY <2>1, <2>4 DEF Types, RowIsTrue, WorkHoldsKey, WroteHoldsKey, AnswerOfAWrite, AnswerWithItsBody,
         TakenIsDropped, AtWork
  <2>6. AnsweredByItsWrite'
    BY DEF AnsweredByItsWrite
  <2> QED  BY <2>2, <2>3, <2>5, <2>6
<1> QED  BY <1>1, <1>2

LEMMA LookDoneKeeps ==
  ASSUME IInv, NEW r \in Requests, lookDone(r)
  PROVE  IInv'
<1> USE DEF IInv, lookDone, Goes
<1>1. PICK x \in row : /\ x.other = Other(r) /\ x.state = "done"
                       /\ replayed' = [replayed EXCEPT ![r] = x.by]
  BY DEF SameRequest
<1>2. x.by \in Requests
  BY DEF Types, Row
<1>3. Types'
  BY <1>1, <1>2 DEF Types, AtWork
<1>4. WroteByHandler'
  BY DEF Types, WroteByHandler
<1>5. RowIsTrue'
  BY DEF Types, RowIsTrue, WorkHoldsKey, WroteHoldsKey, AnswerOfAWrite, AnswerWithItsBody,
         TakenIsDropped, AtWork
<1>6. AnsweredByItsWrite'
  BY <1>1 DEF Types, RowIsTrue, AnsweredByItsWrite, AnswerOfAWrite, AnswerWithItsBody
<1> QED  BY <1>3, <1>4, <1>5, <1>6

\* A row that goes was of a request at work, or nobody at work loses by it.
LEMMA ClearsKeeps ==
  ASSUME IInv, NEW rest \in SUBSET row, Clears(rest),
         pc' \in [Requests -> {"idle", "claim", "look", "giveUp", "over"} \cup AtWork],
         \A q \in Requests : pc'[q] = pc[q] \/ (pc[q] \notin AtWork /\ pc'[q] = "claim"),
         \A q \in wrote : pc'[q] = pc[q],
         UNCHANGED <<wrote, replayed, faults, slow>>
  PROVE  IInv'
<1> USE DEF IInv, Clears
<1>1. Types'
  BY DEF Types
<1>2. WroteByHandler'
  BY DEF Types, WroteByHandler, AtWork
<1>3. /\ taken' \in BOOLEAN /\ dropped' \in BOOLEAN
      /\ ~taken' => ~taken /\ \A x \in row \ rest : pc[x.by] \notin AtWork
      /\ ~dropped' => ~dropped /\ row' = row
  BY DEF Types
<1>4. TakenIsDropped' /\ AnswerOfAWrite'
  BY DEF Types, RowIsTrue, TakenIsDropped, AnswerOfAWrite
<1>5. ~taken' => WorkHoldsKey' /\ AnswerWithItsBody'
  <2> SUFFICES ASSUME ~taken' PROVE WorkHoldsKey' /\ AnswerWithItsBody'
    OBVIOUS
  <2>1. AnswerWithItsBody'
    BY <1>3 DEF RowIsTrue, AnswerWithItsBody
  <2>2. ASSUME NEW q \in Requests, pc'[q] \in AtWork
        PROVE  \E x \in row' : x.state = "running" /\ x.by = q /\ x.other = Other(q)
    <3>1. pc[q] \in AtWork
      BY <2>2 DEF AtWork
    <3>2. PICK x \in row : x.state = "running" /\ x.by = q /\ x.other = Other(q)
      BY <1>3, <3>1 DEF RowIsTrue, WorkHoldsKey
    <3> QED  BY <1>3, <3>1, <3>2
  <2> QED  BY <2>1, <2>2 DEF WorkHoldsKey
<1>6. ~dropped' => WroteHoldsKey'
  BY <1>3 DEF RowIsTrue, WroteHoldsKey
<1>7. AnsweredByItsWrite'
  BY <1>3 DEF AnsweredByItsWrite
<1> QED  BY <1>1, <1>2, <1>4, <1>5, <1>6, <1>7 DEF RowIsTrue

LEMMA GiveUpKeeps ==
  ASSUME IInv, NEW r \in Requests, giveUp(r)
  PROVE  IInv'
<1> DEFINE rest == {x \in row : x.state # "running"}
<1>1. Clears(rest) /\ rest \in SUBSET row /\ UNCHANGED <<wrote, replayed, faults, slow>>
  BY DEF giveUp
<1>2. pc[r] = "giveUp" /\ pc' = [pc EXCEPT ![r] = "claim"]
  BY DEF giveUp, Goes
<1>3. /\ pc' \in [Requests -> {"idle", "claim", "look", "giveUp", "over"} \cup AtWork]
      /\ \A q \in Requests : pc'[q] = pc[q] \/ (pc[q] \notin AtWork /\ pc'[q] = "claim")
      /\ \A q \in wrote : pc'[q] = pc[q]
  BY <1>2 DEF IInv, Types, WroteByHandler, AtWork
<1> HIDE DEF rest
<1> QED  BY <1>1, <1>3, ClearsKeeps

LEMMA ForgetKeeps ==
  ASSUME IInv, forget
  PROVE  IInv'
<1>1. Clears({}) /\ {} \in SUBSET row /\ UNCHANGED <<pc, wrote, replayed, faults, slow>>
  BY DEF forget
<1>2. pc' \in [Requests -> {"idle", "claim", "look", "giveUp", "over"} \cup AtWork]
  BY <1>1 DEF IInv, Types
<1> QED  BY <1>1, <1>2, ClearsKeeps

LEMMA HandlerKeeps ==
  ASSUME IInv, NEW r \in Requests, handler(r)
  PROVE  IInv'
<1> USE DEF IInv
<1>1. PICK where \in {"wrote", "failed"} : pc' = [pc EXCEPT ![r] = where]
  BY DEF handler, Goes
<1>2. /\ pc[r] = "run" /\ wrote \subseteq wrote' /\ wrote' \subseteq wrote \cup {r}
      /\ where = "wrote" => r \in wrote'
      /\ UNCHANGED <<row, replayed, slow, dropped, taken>>
  BY <1>1 DEF handler, Goes, Types
<1>3. faults' \in 0..MaxFaults
  BY ReplaysAssumption DEF handler, GoesWrong, Types
<1>4. Types'
  BY <1>1, <1>2, <1>3 DEF Types, AtWork
<1>5. WroteByHandler'
  BY <1>1, <1>2 DEF Types, WroteByHandler
<1>6. ~taken => \E x \in row : x.by = r
  BY <1>2 DEF RowIsTrue, WorkHoldsKey, AtWork
<1>7. ~dropped => WroteHoldsKey'
  BY <1>2, <1>6 DEF RowIsTrue, WroteHoldsKey, TakenIsDropped
<1>8. ~taken => WorkHoldsKey'
  BY <1>1, <1>2 DEF Types, RowIsTrue, WorkHoldsKey, AtWork
<1>9. AnswerOfAWrite' /\ TakenIsDropped' /\ (~taken => AnswerWithItsBody')
  BY <1>2 DEF RowIsTrue, AnswerOfAWrite, TakenIsDropped, AnswerWithItsBody
<1>10. AnsweredByItsWrite'
  BY <1>2 DEF AnsweredByItsWrite
<1> QED  BY <1>2, <1>4, <1>5, <1>7, <1>8, <1>9, <1>10 DEF RowIsTrue

\* Until one is taken from under it, the key a request settles is its own.
LEMMA SettleKeeps ==
  ASSUME IInv, NEW r \in Requests, settle(r)
  PROVE  IInv'
<1> USE DEF IInv
<1>1. /\ pc' = [pc EXCEPT ![r] = "over"] /\ pc[r] \in {"wrote", "failed"}
      /\ UNCHANGED <<wrote, replayed, slow, taken>>
  BY DEF settle, Goes
<1> USE <1>1
<1>2. WroteByHandler'
  BY DEF Types, WroteByHandler
<1>3. AnsweredByItsWrite'
  BY DEF AnsweredByItsWrite
<1>4. ~taken => \E x \in row : row = {x} /\ x.by = r /\ x.other = Other(r)
  BY DEF RowIsTrue, WorkHoldsKey, AtWork, Types
<1>5. ~taken => WorkHoldsKey'
  <2>1. ~taken => \A q \in Requests : pc'[q] \notin AtWork
    BY <1>4 DEF RowIsTrue, WorkHoldsKey, AtWork, Types
  <2> QED  BY <2>1 DEF WorkHoldsKey
<1>6. CASE row' = row /\ dropped' = dropped /\ GoesWrong
  <2>1. Types'
    BY <1>6, ReplaysAssumption DEF Types, AtWork, GoesWrong
  <2>2. RowIsTrue'
    BY <1>5, <1>6 DEF RowIsTrue, WroteHoldsKey, AnswerOfAWrite, AnswerWithItsBody, TakenIsDropped
  <2> QED  BY <1>2, <1>3, <2>1, <2>2
<1>7. CASE /\ pc[r] = "failed" /\ row' = {} /\ faults' = faults
           /\ dropped' = (dropped \/ r \in wrote)
  <2>1. Types'
    BY <1>7 DEF Types, AtWork
  <2>2. ~dropped' => wrote = {}
    BY <1>4, <1>7 DEF RowIsTrue, TakenIsDropped, WroteHoldsKey, Types
  <2>3. RowIsTrue'
    BY <1>5, <1>7, <2>2
       DEF RowIsTrue, WroteHoldsKey, AnswerOfAWrite, AnswerWithItsBody, TakenIsDropped
  <2> QED  BY <1>2, <1>3, <2>1, <2>3
<1>8. CASE /\ pc[r] = "wrote" /\ faults' = faults /\ dropped' = dropped
           /\ \E s \in {"done", "unreplayable"} :
                row' = {[state |-> s, other |-> x.other, old |-> FALSE, by |-> r] : x \in row}
  <2>1. PICK s \in {"done", "unreplayable"} :
          row' = {[state |-> s, other |-> x.other, old |-> FALSE, by |-> r] : x \in row}
    BY <1>8
  <2>2. row' \subseteq Row
    <3>1. \A x \in row : x.other \in BOOLEAN
      BY DEF Types, Row
    <3>2. ASSUME NEW y \in row' PROVE y \in Row
      <4>1. PICK x \in row : y = [state |-> s, other |-> x.other, old |-> FALSE, by |-> r]
        BY <2>1
      <4>2. x.other \in BOOLEAN /\ s \in {"running", "done", "unreplayable"}
        BY <3>1
      <4> QED  BY <4>1, <4>2 DEF Row
    <3> QED  BY <3>2
  <2>3. Types'
    BY <1>8, <2>1, <2>2 DEF Types, AtWork
  <2>4. r \in wrote
    BY <1>8 DEF WroteByHandler
  <2>5. AnswerOfAWrite' /\ TakenIsDropped'
    BY <1>8, <2>1, <2>4 DEF RowIsTrue, AnswerOfAWrite, TakenIsDropped
  <2>6. ~taken => row' = {[state |-> s, other |-> Other(r), old |-> FALSE, by |-> r]}
    BY <1>4, <2>1
  <2>7. ~taken => AnswerWithItsBody'
    BY <2>6 DEF AnswerWithItsBody
  <2>8. ~dropped => WroteHoldsKey'
    <3> SUFFICES ASSUME ~dropped PROVE WroteHoldsKey'
      OBVIOUS
    <3>1. ~taken
      BY DEF RowIsTrue, TakenIsDropped
    <3>2. \A q \in wrote : q = r
      BY <1>4, <3>1 DEF RowIsTrue, WroteHoldsKey
    <3>3. \E x \in row' : x.by = r
      <4> DEFINE kept == [state |-> s, other |-> Other(r), old |-> FALSE, by |-> r]
      <4>1. kept \in row' /\ kept.by = r
        BY <2>6, <3>1
      <4> QED  BY <4>1
    <3> QED  BY <3>2, <3>3 DEF WroteHoldsKey
  <2> QED  BY <1>2, <1>3, <1>5, <1>8, <2>3, <2>5, <2>7, <2>8 DEF RowIsTrue
<1>9. \/ row' = row /\ dropped' = dropped /\ GoesWrong
      \/ /\ IF pc[r] = "failed" THEN row' = {}
            ELSE \E s \in {"done", "unreplayable"} :
                   row' = {[state |-> s, other |-> x.other, old |-> FALSE, by |-> r] : x \in row}
         /\ dropped' = (dropped \/ (pc[r] = "failed" /\ r \in wrote))
         /\ faults' = faults
  BY DEF settle
<1>10. dropped \in BOOLEAN
  BY DEF Types
<1>11. CASE pc[r] = "failed"
  BY <1>6, <1>7, <1>9, <1>11
<1>12. CASE pc[r] = "wrote"
  BY <1>6, <1>8, <1>9, <1>10, <1>12
<1> QED  BY <1>11, <1>12

LEMMA GrowsOldKeeps ==
  ASSUME IInv, growsOld
  PROVE  IInv'
<1> DEFINE Aged(x) == [state |-> x.state, other |-> x.other, old |-> TRUE, by |-> x.by]
<1>1. /\ row' = {Aged(x) : x \in row}
      /\ UNCHANGED <<pc, wrote, replayed, faults, dropped, taken>> /\ slow' \in BOOLEAN
  BY DEF growsOld, IInv, Types
<1>2. \A x \in row : /\ Aged(x).state = x.state /\ Aged(x).by = x.by
                     /\ Aged(x).other = x.other /\ Aged(x) \in row'
  BY <1>1
<1>3. \A y \in row' : \E x \in row : y = Aged(x)
  BY <1>1
<1>4. \A x \in row : Aged(x) \in Row
  BY DEF IInv, Types, Row
<1> HIDE DEF Aged
<1> USE <1>1 DEF IInv
<1>5. Types'
  BY <1>3, <1>4 DEF Types
<1>6. WroteByHandler'
  BY DEF WroteByHandler
<1>7. ~taken => WorkHoldsKey'
  BY <1>2 DEF RowIsTrue, WorkHoldsKey
<1>8. ~dropped => WroteHoldsKey'
  BY <1>2 DEF RowIsTrue, WroteHoldsKey
<1>9. AnswerOfAWrite' /\ TakenIsDropped'
  BY <1>2, <1>3 DEF RowIsTrue, AnswerOfAWrite, TakenIsDropped
<1>10. ~taken => AnswerWithItsBody'
  BY <1>2, <1>3 DEF RowIsTrue, AnswerWithItsBody
<1>11. AnsweredByItsWrite'
  BY DEF AnsweredByItsWrite
<1> QED  BY <1>5, <1>6, <1>7, <1>8, <1>9, <1>10, <1>11 DEF RowIsTrue

LEMMA CrashKeeps ==
  ASSUME IInv, crash
  PROVE  IInv'
<1> USE DEF IInv, crash
<1>1. Types'
  BY ReplaysAssumption DEF Types, AtWork, GoesWrong
<1>2. WroteByHandler'
  BY DEF Types, WroteByHandler
<1>3. RowIsTrue'
  BY DEF Types, RowIsTrue, WorkHoldsKey, WroteHoldsKey, AnswerOfAWrite, AnswerWithItsBody,
         TakenIsDropped, AtWork
<1>4. AnsweredByItsWrite'
  BY DEF AnsweredByItsWrite
<1> QED  BY <1>1, <1>2, <1>3, <1>4

LEMMA StepKeeps ==
  ASSUME IInv, [Next]_vars
  PROVE  IInv'
<1>1. CASE UNCHANGED vars
  BY <1>1 DEF IInv, vars, Types, WroteByHandler, RowIsTrue, WorkHoldsKey, WroteHoldsKey,
              AnswerOfAWrite, AnswerWithItsBody, TakenIsDropped, AnsweredByItsWrite
<1>2. CASE Next
  BY <1>2, QuietKeeps, ClaimKeeps, LookDoneKeeps, GiveUpKeeps, HandlerKeeps, SettleKeeps,
     GrowsOldKeeps, ForgetKeeps, CrashKeeps DEF Next
<1> QED  BY <1>1, <1>2

\* The inductive invariant: until a row goes from under it, the key is held by
\* whoever is at work, and until it is freed by whoever has written.
THEOREM Invariant == Spec => []IInv
<1> QED  BY InitHolds, StepKeeps, PTL DEF Spec

\* Every variable keeps its type; in particular the key has one row at most.
THEOREM TypeCorrect == Spec => []TypeOK
<1>1. ASSUME IInv PROVE Cardinality(row) <= 1
  <2>1. CASE row = {}
    BY <2>1, FS_EmptySet
  <2>2. CASE row # {}
    <3>1. PICK x \in row : row = {x}
      BY <1>1, <2>2 DEF IInv, Types
    <3> QED  BY <3>1, FS_Singleton
  <2> QED  BY <2>1, <2>2
<1>2. IInv => TypeOK
  BY <1>1 DEF IInv, Types, TypeOK
<1> QED  BY Invariant, <1>2, PTL

\* Of one write and its repeats one does the write, whatever crashes or fails
\* to be stored, until the key is freed (replayOrRecord, settle).
THEOREM NoRetryDoubles == Spec => []RetryNeverDoubles
<1>1. IInv => RetryNeverDoubles
  BY DEF IInv, Types, RowIsTrue, WroteHoldsKey, RetryNeverDoubles
<1> QED  BY Invariant, <1>1, PTL

\* A repeat is given the answer of a request that wrote, and of its own write
\* until a row goes from under a request at work (replayOrRecord).
THEOREM RepeatsAreAnswered == Spec => []AnsweredByItsWrite
<1>1. IInv => AnsweredByItsWrite
  BY DEF IInv
<1> QED  BY Invariant, <1>1, PTL
=============================================================================
