--------------------------- MODULE ReceiptsProofs ---------------------------
(***************************************************************************)
(* Theorems about Receipts: type correctness, one stock move per receipt,  *)
(* one told cost per line, the refinement of DurableDelivery, and what     *)
(* holds while no lock is lost or nothing fails, for any lines, workers,   *)
(* operations, recipients and number of faults.                            *)
(***************************************************************************)
EXTENDS Receipts, TLAPS

Busy == {"read", "deliver", "ack", "release"}

\* What a visit works on was queued, and so was all it still has to do.
WorkIsQueued ==
  \A w \in Workers :
    /\ \A op \in work[w].todo : row[op].state # "absent"
    /\ work[w].pc \in Busy => work[w].op \in Ops /\ row[work[w].op].state # "absent"

\* A queued receipt is about a line that was received, then or since withdrawn.
QueuedWasReceived ==
  \A op \in Ops : row[op].state # "absent" =>
    /\ row[op].line \in Lines
    /\ line[row[op].line].received \/ line[row[op].line].withdrawn

\* Nobody is asked about a line that was never received.
AskedWasReceived == \A l \in Lines : line[l].unconfirmed => line[l].received \/ line[l].withdrawn

\* Once a line's cost was queued, a question about it is about a refusal, so
\* settling it does not tell the cost again; only the heal may ask otherwise.
CostedIsAskedWhenRefused ==
  \A op \in Ops : row[op].costed =>
    /\ row[op].state # "absent"
    /\ row[op].line \notin askedAgain /\ line[row[op].line].unconfirmed => line[row[op].line].refused

\* The shelf moved for an operation only if the operation was recorded.
MovedIsApplied == \A op \in Ops : moves[op] <= (IF op \in applied THEN 1 ELSE 0)

\* Whoever a row or a visit has down as told has answered.
ToldHasAnswered ==
  /\ \A op \in Ops : row[op].told \subseteq answered[op]
  /\ \A w \in Workers : work[w].pc \in {"deliver", "ack"} => work[w].seen \subseteq answered[work[w].op]

IInv ==
  /\ TypeOK
  /\ WorkIsQueued
  /\ QueuedWasReceived
  /\ AskedWasReceived
  /\ CostedIsAskedWhenRefused
  /\ CostToldOnce
  /\ MovedIsApplied
  /\ ToldHasAnswered

------------------------------------------------------------------------------
(* The rows a request queues.                                              *)

\* Each queued row is about its own line; every other row stays as it was.
LEMMA QueuedRows ==
  ASSUME TypeOK, ReceiptsAssumption,
         NEW S \in SUBSET Lines, NEW queued \in Injection(S, Fresh),
         NEW adds \in BOOLEAN, NEW costed \in SUBSET S,
         queueReceived(queued, adds, costed)
  PROVE  \A op \in Ops :
           \/ row'[op] = row[op]
           \/ \E l \in S :
                /\ queued[l] = op
                /\ row[op].state = "absent"
                /\ row'[op] = [state |-> "pending", line |-> l, told |-> {},
                               adds |-> adds, costed |-> l \in costed]
<1> TAKE op \in Ops
<1>1. CASE op \notin Range(queued)
  BY <1>1 DEF queueReceived
<1>2. CASE op \in Range(queued)
  <2> DEFINE l == CHOOSE x \in DOMAIN queued : queued[x] = op
  <2>1. DOMAIN queued = S /\ op \in Fresh
    BY <1>2 DEF Injection, Range
  <2>2. l \in S /\ queued[l] = op
    BY <1>2, <2>1 DEF Range
  <2>3. row'[op] = [state |-> "pending", line |-> l, told |-> {}, adds |-> adds,
                    costed |-> l \in costed]
    BY <1>2 DEF queueReceived
  <2> QED BY <2>1, <2>2, <2>3 DEF Fresh
<1> QED BY <1>1, <1>2

\* Two lines never share an operation.
LEMMA QueuedApart ==
  ASSUME NEW S, NEW T, NEW queued \in Injection(S, T), NEW k \in S, NEW l \in S,
         queued[k] = queued[l]
  PROVE  k = l
BY DEF Injection, IsInjective

LEMMA QueuedType ==
  ASSUME TypeOK, ReceiptsAssumption,
         NEW S \in SUBSET Lines, NEW queued \in Injection(S, Fresh),
         NEW adds \in BOOLEAN, NEW costed \in SUBSET S,
         queueReceived(queued, adds, costed)
  PROVE  row' \in [Ops -> Row]
<1>1. ASSUME NEW op \in Ops PROVE row'[op] \in Row
  <2>1. CASE row'[op] = row[op]
    BY <2>1 DEF TypeOK
  <2>2. ASSUME NEW l \in S,
               row'[op] = [state |-> "pending", line |-> l, told |-> {},
                           adds |-> adds, costed |-> l \in costed]
        PROVE  row'[op] \in Row
    <3>1. (l \in costed) \in BOOLEAN
      OBVIOUS
    <3> QED BY <2>2, <3>1 DEF Row
  <2>3. \/ row'[op] = row[op]
        \/ \E l \in S : row'[op] = [state |-> "pending", line |-> l, told |-> {},
                                    adds |-> adds, costed |-> l \in costed]
    BY QueuedRows
  <2> QED BY <2>1, <2>2, <2>3
<1> QED BY <1>1 DEF queueReceived

\* The heal touches no row, no visit and no stock.
LEMMA HealKeeps ==
  ASSUME NEW l \in Lines, Heal(l)
  PROVE  /\ UNCHANGED <<row, shelf, gone, applied, holder, work, moves, answered, asked>>
         /\ faults \subseteq faults'
BY DEF Heal, GoesWrong, stockVars

Heals == \E l \in Lines : Heal(l)

------------------------------------------------------------------------------
(* Type correctness.                                                       *)

LEMMA InitialRecords == Idle \in Work /\ Ordered \in Line /\ Healed \in Line
BY DEF Idle, Work, PCs, Ordered, Healed, Line

LEMMA TypeInit == ASSUME ReceiptsAssumption, Init PROVE TypeOK
<1>1. line \in [Lines -> Line]
  BY InitialRecords DEF Init
<1>2. [state |-> "absent", line |-> None, told |-> {}, adds |-> FALSE, costed |-> FALSE] \in Row
  BY DEF Row
<1>3. row \in [Ops -> Row]
  BY <1>2 DEF Init
<1>4. work \in [Workers -> Work]
  BY InitialRecords DEF Init
<1> QED BY <1>1, <1>3, <1>4 DEF Init, TypeOK

\* A worker in its work has a queued operation in hand.
LEMMA InHand ==
  ASSUME WorkIsQueued, NEW w \in Workers, work[w].pc \in Busy
  PROVE  work[w].op \in Ops /\ row[work[w].op].state # "absent"
BY DEF WorkIsQueued

\* What the steps make of the worker's own record.
LEMMA WorkStep ==
  ASSUME ReceiptsAssumption, TypeOK, NEW w \in Workers, Request(w) \/ Step(w) \/ Fault(w)
  PROVE  work' \in [Workers -> Work]
<1> DEFINE me == work[w]
           Becomes(r) == work' = [work EXCEPT ![w] = r]
<1>0. me \in Work /\ work \in [Workers -> Work]
  BY DEF TypeOK
<1>1. ASSUME NEW r \in Work, Becomes(r) PROVE work' \in [Workers -> Work]
  BY <1>0, <1>1
<1> HIDE DEF me
<1>2. CASE UNCHANGED work
  BY <1>0, <1>2
<1>3. ASSUME NEW lines \in SUBSET Lines, StartFlush(w, lines) PROVE work' \in [Workers -> Work]
  <2>1. [Idle EXCEPT !.pc = "select", !.scope = lines] \in Work
    BY DEF Idle, Work, PCs
  <2> QED BY <1>1, <1>3, <2>1 DEF StartFlush
<1>4. CASE Request(w)
  <2>1. CASE Unreceive(w)
    <3>1. [Idle EXCEPT !.pc = "select", !.scope = Lines, !.unreceives = TRUE] \in Work
      BY DEF Idle, Work, PCs
    <3> QED BY <1>1, <2>1, <3>1 DEF Unreceive
  <2>2. ASSUME NEW S \in SUBSET Lines, NEW adds, NEW queued, Receive(w, S, queued, adds)
        PROVE  work' \in [Workers -> Work]
    BY <1>3, <2>2 DEF Receive
  <2>3. ASSUME NEW l \in Lines, SettleLine(w, l) PROVE work' \in [Workers -> Work]
    BY <1>3, <2>3 DEF SettleLine
  <2> QED BY <1>4, <2>1, <2>2, <2>3 DEF Request, SettleCounted, SettleAdd
<1>5. CASE Step(w)
  <2>1. CASE Select(w)
    <3>1. InScope(w) \in SUBSET Ops
      BY DEF InScope, Pending
    <3>2. [me EXCEPT !.pc = "lock", !.scope = {}, !.todo = InScope(w)] \in Work
      BY <1>0, <3>1 DEF Work, PCs
    <3> QED BY <1>1, <2>1, <3>2 DEF Select, me
  <2>2. ASSUME NEW op \in Ops, Lock(w, op) PROVE work' \in [Workers -> Work]
    <3>1. [me EXCEPT !.pc = "read", !.op = op, !.todo = me.todo \ {op}] \in Work
      BY <1>0 DEF Work, PCs
    <3> QED BY <1>1, <2>2, <3>1 DEF Lock, me
  <2>3. ASSUME NEW op \in Ops, LockHeld(w, op) PROVE work' \in [Workers -> Work]
    <3>1. [me EXCEPT !.todo = me.todo \ {op}, !.failed = TRUE] \in Work
      BY <1>0 DEF Work, PCs
    <3> QED BY <1>1, <2>3, <3>1 DEF LockHeld, Skip, me
  <2>4. CASE Read(w)
    <3>1. ASSUME NEW T \in SUBSET Recipients
          PROVE  [me EXCEPT !.pc = "deliver", !.seen = T, !.refused = FALSE] \in Work
      BY <1>0 DEF Work, PCs
    <3>2. \A op \in Pending : row[op].told \in SUBSET Recipients
      BY DEF TypeOK, Row, Pending
    <3>3. [me EXCEPT !.pc = "release"] \in Work
      BY <1>0 DEF Work, PCs
    <3> QED BY <1>1, <2>4, <3>1, <3>2, <3>3 DEF Read, me
  <2>5. ASSUME NEW r \in Recipients, NEW refused \in BOOLEAN, DeliveredTo(w, r, refused)
        PROVE  work' \in [Workers -> Work]
    <3>1. (me.refused \/ refused) \in BOOLEAN
      OBVIOUS
    <3>2. [me EXCEPT !.pc = "ack", !.seen = me.seen \cup {r}, !.refused = me.refused \/ refused] \in Work
      BY <1>0, <3>1 DEF Work, PCs
    <3> QED BY <1>1, <2>5, <3>2 DEF DeliveredTo, me
  <2>6. CASE Acknowledge(w) \/ Complete(w)
    <3>1. [me EXCEPT !.pc = "deliver"] \in Work /\ [me EXCEPT !.pc = "release"] \in Work
      BY <1>0 DEF Work, PCs
    <3> QED BY <1>1, <2>6, <3>1 DEF Acknowledge, Complete, me
  <2>7. CASE Release(w)
    <3>1. [me EXCEPT !.pc = "lock", !.op = None, !.seen = {}, !.refused = FALSE] \in Work
      BY <1>0 DEF Work, PCs
    <3> QED BY <1>1, <2>7, <3>1 DEF Release, me
  <2>8. CASE EndFlush(w)
    <3>1. [Idle EXCEPT !.pc = "clear"] \in Work
      BY DEF Idle, Work, PCs
    <3> QED BY <1>1, <2>8, <3>1, InitialRecords DEF EndFlush
  <2>9. ASSUME NEW orderAdds \in BOOLEAN, ClearReceived(w, orderAdds) PROVE work' \in [Workers -> Work]
    <3>1. ASSUME NEW T \in SUBSET Lines PROVE [Idle EXCEPT !.pc = "withdraw", !.takeBack = T] \in Work
      BY DEF Idle, Work, PCs
    <3>2. {l \in Lines : orderAdds /\ line[l].received /\ ~line[l].refused} \in SUBSET Lines
      OBVIOUS
    <3> QED BY <1>1, <2>9, <3>1, <3>2, InitialRecords DEF ClearReceived
  <2>10. ASSUME NEW l \in Lines, Withdraw(w, l) PROVE work' \in [Workers -> Work]
    <3>1. [me EXCEPT !.takeBack = me.takeBack \ {l}] \in Work
      BY <1>0 DEF Work
    <3> QED BY <1>1, <2>10, <3>1, InitialRecords DEF Withdraw, me
  <2> QED BY <1>5, <2>1, <2>2, <2>3, <2>4, <2>5, <2>6, <2>7, <2>8, <2>9, <2>10, ReceiptsAssumption
          DEF Step, Tell, RefuseStock, SkipStock, MoveStock, ReceiptsAssumption
<1>6. CASE Fault(w)
  <2>1. ASSUME NEW op \in Ops, LockUnavailable(w, op) PROVE work' \in [Workers -> Work]
    <3>1. [me EXCEPT !.todo = me.todo \ {op}, !.failed = TRUE] \in Work
      BY <1>0 DEF Work, PCs
    <3> QED BY <1>1, <2>1, <3>1 DEF LockUnavailable, Skip, me
  <2>2. CASE Throw(w)
    <3>1. [me EXCEPT !.pc = "release", !.failed = TRUE] \in Work
      BY <1>0 DEF Work, PCs
    <3> QED BY <1>1, <2>2, <3>1 DEF Throw, me
  <2>3. CASE Crash(w)
    BY <1>1, <2>3, InitialRecords DEF Crash
  <2>4. CASE LoseLock(w)
    BY <1>2, <2>4 DEF LoseLock
  <2> QED BY <1>6, <2>1, <2>2, <2>3, <2>4 DEF Fault
<1> QED BY <1>4, <1>5, <1>6

\* What they make of the two tables.
LEMMA TableStep ==
  ASSUME ReceiptsAssumption, TypeOK, WorkIsQueued, NEW w \in Workers, Request(w) \/ Step(w) \/ Fault(w)
  PROVE  row' \in [Ops -> Row] /\ line' \in [Lines -> Line]
<1> DEFINE Good == row' \in [Ops -> Row] /\ line' \in [Lines -> Line]
<1>0. row \in [Ops -> Row] /\ line \in [Lines -> Line] /\ work[w] \in Work
  BY DEF TypeOK
<1>1. CASE UNCHANGED <<row, line>>
  BY <1>0, <1>1
<1>2. ASSUME NEW x \in Line
      PROVE  [x EXCEPT !.received = TRUE] \in Line
  BY DEF Line
<1>3. CASE Request(w)
  <2>1. ASSUME NEW S \in SUBSET Lines, NEW adds \in BOOLEAN, NEW queued \in Injection(S, Fresh),
               Receive(w, S, queued, adds)
        PROVE  Good
    <3>1. row' \in [Ops -> Row]
      BY <2>1, QueuedType DEF Receive
    <3>2. line' \in [Lines -> Line]
      BY <1>0, <1>2, <2>1 DEF Receive
    <3> QED BY <3>1, <3>2
  <2>2. ASSUME NEW l \in Lines, SettleLine(w, l) PROVE line' \in [Lines -> Line]
    <3>1. [line EXCEPT ![l] = [@ EXCEPT !.unconfirmed = FALSE, !.refused = FALSE]] \in [Lines -> Line]
      BY <1>0 DEF Line
    <3> QED BY <2>2, <3>1 DEF SettleLine
  <2>3. ASSUME NEW l \in Lines, SettleCounted(w, l) PROVE Good
    BY <1>0, <2>2, <2>3 DEF SettleCounted
  <2>4. ASSUME NEW l \in Lines, NEW queued \in Injection({l}, Fresh), SettleAdd(w, l, queued)
        PROVE  Good
    <3>1. row' \in [Ops -> Row]
      <4> DEFINE costed == {x \in {l} : ~line[x].refused}
      <4>1. costed \in SUBSET {l} /\ {l} \in SUBSET Lines /\ TRUE \in BOOLEAN
        OBVIOUS
      <4>2. queueReceived(queued, TRUE, costed)
        BY <2>4 DEF SettleAdd
      <4> HIDE DEF costed
      <4> QED BY <4>1, <4>2, QueuedType
    <3> QED BY <2>2, <2>4, <3>1 DEF SettleAdd
  <2>5. CASE Unreceive(w)
    BY <1>1, <2>5 DEF Unreceive
  <2> QED BY <1>3, <2>1, <2>3, <2>4, <2>5 DEF Request
<1>4. CASE Acknowledge(w)
  <2>1. work[w].op \in Ops
    BY <1>4, InHand DEF Acknowledge, Busy
  <2>2. row' = [row EXCEPT ![work[w].op] = [row[work[w].op] EXCEPT !.told = work[w].seen]]
    BY <1>4 DEF Acknowledge
  <2>3. [row[work[w].op] EXCEPT !.told = work[w].seen] \in Row
    BY <1>0, <2>1 DEF Row, Work
  <2> QED BY <1>0, <1>4, <2>2, <2>3 DEF Acknowledge
<1>5. CASE Complete(w)
  <2> DEFINE op == work[w].op
             l == row[op].line
  <2>1. op \in Ops
    BY <1>5, InHand DEF Complete, Busy
  <2>2. [row[op] EXCEPT !.state = "done"] \in Row
    BY <1>0, <2>1 DEF Row
  <2>3. row' \in [Ops -> Row]
    BY <1>0, <1>5, <2>2 DEF Complete
  <2>4. l \in Lines => [line[l] EXCEPT !.unconfirmed = TRUE, !.refused = TRUE] \in Line
    BY <1>0 DEF Line
  <2>5. \/ line' = line
        \/ line' = [line EXCEPT ![l] = [@ EXCEPT !.unconfirmed = TRUE, !.refused = TRUE]]
    BY <1>5 DEF Complete
  <2>6. [line EXCEPT ![l] = [@ EXCEPT !.unconfirmed = TRUE, !.refused = TRUE]] \in [Lines -> Line]
    BY <1>0, <2>4 DEF Line
  <2> QED BY <1>0, <2>3, <2>5, <2>6
<1>6. ASSUME NEW orderAdds \in BOOLEAN, ClearReceived(w, orderAdds) PROVE Good
  <2>1. \A l \in Lines :
          [received |-> FALSE, withdrawn |-> TRUE, refused |-> FALSE,
           unconfirmed |-> line[l].unconfirmed /\ ~line[l].refused] \in Line
    BY DEF Line
  <2> QED BY <1>0, <1>6, <2>1 DEF ClearReceived
<1>7. CASE Step(w) /\ ~Acknowledge(w) /\ ~Complete(w) /\ ~\E b \in BOOLEAN : ClearReceived(w, b)
  BY <1>1, <1>7 DEF Step, Select, Lock, LockHeld, Skip, Read, Tell, RefuseStock, SkipStock, MoveStock,
                    DeliveredTo, Release, EndFlush, Withdraw
<1>8. CASE Fault(w)
  BY <1>1, <1>8 DEF Fault, LockUnavailable, Skip, Throw, Crash, LoseLock
<1> QED BY <1>3, <1>4, <1>5, <1>6, <1>7, <1>8

LEMMA TypeStep ==
  ASSUME ReceiptsAssumption, TypeOK, WorkIsQueued, [Next]_vars
  PROVE  TypeOK'
<1> DEFINE Others == /\ shelf' \in Nat
                     /\ gone' \in BOOLEAN
                     /\ applied' \subseteq Ops
                     /\ holder' \in [Ops -> Workers \cup {None}]
                     /\ faults' \subseteq FaultKinds
                     /\ moves' \in [Ops -> Nat]
                     /\ answered' \in [Ops -> SUBSET Recipients]
                     /\ asked' \subseteq Ops
                     /\ askedAgain' \subseteq Lines
<1>0. /\ shelf \in Nat /\ gone \in BOOLEAN /\ applied \subseteq Ops
      /\ holder \in [Ops -> Workers \cup {None}]
      /\ faults \subseteq FaultKinds /\ moves \in [Ops -> Nat]
      /\ answered \in [Ops -> SUBSET Recipients] /\ asked \subseteq Ops
      /\ askedAgain \subseteq Lines
  BY DEF TypeOK
<1>1. ASSUME NEW w \in Workers, Request(w) \/ Step(w) \/ Fault(w) PROVE TypeOK'
  <2>1. CASE Request(w)
    <3>1. UNCHANGED <<stockVars, holder, faults, history>>
      BY <2>1 DEF Request, Receive, SettleAdd, SettleCounted, SettleLine, Unreceive
    <3>2. Others
      BY <1>0, <3>1 DEF stockVars, history
    <3> QED BY <2>1, <3>2, WorkStep, TableStep DEF TypeOK
  <2>2. CASE Fault(w)
    <3>1. UNCHANGED <<stockVars, history>>
      BY <2>2 DEF Fault, LockUnavailable, Skip, Throw, Crash, LoseLock
    <3>2. holder' \in [Ops -> Workers \cup {None}]
      BY <1>0, <2>2 DEF Fault, LockUnavailable, Skip, Throw, Crash, LoseLock
    <3>3. faults' \subseteq FaultKinds
      BY <1>0, <2>2 DEF Fault, LockUnavailable, Throw, Crash, LoseLock, GoesWrong, FaultKinds
    <3>4. Others
      BY <1>0, <3>1, <3>2, <3>3 DEF stockVars, history
    <3> QED BY <2>2, <3>4, WorkStep, TableStep DEF TypeOK
  <2>3. CASE Step(w)
    <3>1. Others
      <4>1. ASSUME NEW r \in Recipients, NEW refused, DeliveredTo(w, r, refused)
            PROVE  /\ answered' \in [Ops -> SUBSET Recipients]
                   /\ UNCHANGED <<holder, faults, asked, askedAgain>>
        BY <1>0, <4>1 DEF DeliveredTo
      <4>2. CASE \/ \E r \in Recipients : Tell(w, r)
                 \/ RefuseStock(w) \/ SkipStock(w)
        BY <1>0, <4>1, <4>2 DEF Tell, RefuseStock, SkipStock, stockVars, ReceiptsAssumption
      <4>3. CASE MoveStock(w)
        <5>1. work[w].op \in Ops
          BY <4>3, InHand DEF MoveStock, Delivering, Busy
        <5>2. /\ applied' = applied \cup {work[w].op}
              /\ shelf' = shelf + 1
              /\ moves' = [moves EXCEPT ![work[w].op] = moves[work[w].op] + 1]
              /\ gone' = gone
              /\ DeliveredTo(w, Stock, FALSE)
          BY <4>3 DEF MoveStock
        <5>3. answered' \in [Ops -> SUBSET Recipients] /\ UNCHANGED <<holder, faults, asked, askedAgain>>
          BY <4>1, <5>2 DEF ReceiptsAssumption
        <5>4. moves' \in [Ops -> Nat] /\ shelf' \in Nat
          BY <1>0, <5>1, <5>2
        <5> QED BY <1>0, <5>1, <5>2, <5>3, <5>4
      <4>4. CASE Complete(w)
        <5>1. work[w].op \in Ops
          BY <4>4, InHand DEF Complete, Busy
        <5>2. asked' = asked \cup {work[w].op} \/ asked' = asked
          BY <4>4 DEF Complete
        <5>3. UNCHANGED <<stockVars, holder, faults, moves, answered, askedAgain>>
          BY <4>4 DEF Complete
        <5> QED BY <1>0, <5>1, <5>2, <5>3 DEF stockVars
      <4>5. CASE \E op \in Ops : Lock(w, op)
        BY <1>0, <4>5 DEF Lock, stockVars, history
      <4>6. CASE Release(w)
        BY <1>0, <4>6 DEF Release, stockVars, history
      <4>7. CASE \E l \in Lines : Withdraw(w, l)
        <5>1. shelf' \in Nat
          BY <1>0, <4>7 DEF Withdraw
        <5>2. faults' \subseteq FaultKinds
          BY <1>0, <4>7 DEF Withdraw, GoesWrong, FaultKinds
        <5>3. UNCHANGED <<gone, applied, holder, history>>
          BY <4>7 DEF Withdraw
        <5> QED BY <1>0, <5>1, <5>2, <5>3 DEF history
      <4>8. CASE \/ Select(w) \/ Read(w) \/ Acknowledge(w) \/ EndFlush(w)
                 \/ \E op \in Ops : LockHeld(w, op)
                 \/ \E b \in BOOLEAN : ClearReceived(w, b)
        <5>1. UNCHANGED <<stockVars, holder, faults, history>>
          BY <4>8 DEF Select, Read, Acknowledge, EndFlush, LockHeld, Skip, ClearReceived
        <5> QED BY <1>0, <5>1 DEF stockVars, history
      <4> QED BY <2>3, <4>2, <4>3, <4>4, <4>5, <4>6, <4>7, <4>8 DEF Step
    <3> QED BY <2>3, <3>1, WorkStep, TableStep DEF TypeOK
  <2> QED BY <1>1, <2>1, <2>2, <2>3
<1>2. ASSUME NEW w \in Workers, NEW due \in SUBSET Pending, Sweep(w, due) PROVE TypeOK'
  <2>1. [Idle EXCEPT !.pc = "lock", !.todo = due] \in Work
    BY DEF Idle, Work, PCs, Pending
  <2>2. work' \in [Workers -> Work]
    BY <1>2, <2>1 DEF Sweep, TypeOK
  <2> QED BY <1>2, <2>2 DEF Sweep, TypeOK, stockVars, history
<1>3. CASE SetGone
  BY <1>3 DEF SetGone, TypeOK, history
<1>4. CASE UNCHANGED vars
  BY <1>4 DEF vars, TypeOK
<1>5. ASSUME NEW l \in Lines, Heal(l) PROVE TypeOK'
  <2>1. faults' \subseteq FaultKinds /\ askedAgain' \subseteq Lines
    BY <1>0, <1>5 DEF Heal, GoesWrong, FaultKinds
  <2>2. line' \in [Lines -> Line]
    <3>1. PICK asks \in BOOLEAN : line' = [line EXCEPT ![l] = [@ EXCEPT !.received = TRUE, !.unconfirmed = asks]]
      BY <1>5 DEF Heal
    <3>2. line[l] \in Line /\ line \in [Lines -> Line]
      BY DEF TypeOK
    <3>3. [line[l] EXCEPT !.received = TRUE, !.unconfirmed = asks] \in Line
      BY <3>2 DEF Line
    <3> QED BY <3>1, <3>2, <3>3
  <2> QED BY <1>5, <2>1, <2>2, HealKeeps DEF TypeOK
<1> QED BY <1>1, <1>2, <1>3, <1>4, <1>5 DEF Next

------------------------------------------------------------------------------
(* What never changes in a queued row and a received line.                 *)

LEMMA RowsKept ==
  ASSUME ReceiptsAssumption, TypeOK, WorkIsQueued, [Next]_vars
  PROVE  \A op \in Ops : row[op].state # "absent" =>
           /\ row'[op].state # "absent"
           /\ row'[op].line = row[op].line
           /\ row'[op].costed = row[op].costed
<1> DEFINE Kept == \A op \in Ops : row[op].state # "absent" =>
                      /\ row'[op].state # "absent"
                      /\ row'[op].line = row[op].line
                      /\ row'[op].costed = row[op].costed
<1>0. row \in [Ops -> Row]
  BY DEF TypeOK
<1>1. CASE row' = row
  BY <1>1
<1>2. ASSUME NEW S, NEW queued \in Injection(S, Fresh), NEW adds, NEW costed,
             queueReceived(queued, adds, costed)
      PROVE  Kept
  <2>1. \A op \in Ops : row[op].state # "absent" => op \notin Range(queued)
    BY DEF Injection, Range, Fresh
  <2> QED BY <1>2, <2>1 DEF queueReceived
<1>3. ASSUME NEW w \in Workers, Request(w) PROVE Kept
  <2>1. CASE row' = row
    BY <1>1, <2>1
  <2>2. CASE \E S \in SUBSET Lines : \E adds \in BOOLEAN : \E queued \in Injection(S, Fresh) :
               Receive(w, S, queued, adds)
    BY <1>2, <2>2 DEF Receive
  <2>3. CASE \E l \in Lines : \E queued \in Injection({l}, Fresh) : SettleAdd(w, l, queued)
    BY <1>2, <2>3 DEF SettleAdd
  <2> QED BY <1>3, <2>1, <2>2, <2>3 DEF Request, SettleCounted, Unreceive
<1>4. ASSUME NEW w \in Workers, Acknowledge(w) \/ Complete(w) PROVE Kept
  <2> DEFINE op == work[w].op
  <2>1. op \in Ops /\ row[op].state # "absent"
    BY <1>4, InHand DEF Acknowledge, Complete, Busy
  <2>2. \/ row' = [row EXCEPT ![op] = [row[op] EXCEPT !.told = work[w].seen]]
        \/ row' = [row EXCEPT ![op] = [row[op] EXCEPT !.state = "done"]]
    BY <1>4 DEF Acknowledge, Complete
  <2> HIDE DEF op
  <2>3. row[op] \in Row
    BY <1>0, <2>1
  <2> QED BY <1>0, <2>1, <2>2, <2>3 DEF Row
<1>5. ASSUME NEW w \in Workers, Step(w) PROVE Kept
  <2>1. Acknowledge(w) \/ Complete(w) \/ row' = row
    BY <1>5 DEF Step, Select, Lock, LockHeld, Skip, Read, Tell, RefuseStock, SkipStock, MoveStock,
                DeliveredTo, Release, EndFlush, ClearReceived, Withdraw
  <2> QED BY <1>1, <1>4, <2>1
<1>6. ASSUME NEW w \in Workers, Fault(w) PROVE Kept
  BY <1>1, <1>6 DEF Fault, LockUnavailable, Skip, Throw, Crash, LoseLock
<1>7. CASE Heals \/ SetGone \/ UNCHANGED vars \/ \E w \in Workers, due \in SUBSET Pending : Sweep(w, due)
  BY <1>1, <1>7, HealKeeps DEF Heals, SetGone, vars, Sweep
<1> QED BY <1>3, <1>5, <1>6, <1>7 DEF Next, Heals

\* The lines the heal has asked about stay noted.
LEMMA AskedAgainKept == ASSUME [Next]_vars PROVE askedAgain \subseteq askedAgain'
<1>1. ASSUME NEW l \in Lines, Heal(l) PROVE askedAgain \subseteq askedAgain'
  BY <1>1 DEF Heal
<1>2. ASSUME NEW w \in Workers, Request(w) PROVE UNCHANGED askedAgain
  BY <1>2 DEF Request, Receive, SettleCounted, SettleAdd, SettleLine, Unreceive, history
<1>3. ASSUME NEW w \in Workers, Step(w) PROVE UNCHANGED askedAgain
  BY <1>3 DEF Step, Select, Lock, LockHeld, Skip, Read, Tell, RefuseStock, SkipStock, MoveStock,
     DeliveredTo, Acknowledge, Complete, Release, EndFlush, ClearReceived, Withdraw, history
<1>4. ASSUME NEW w \in Workers, Fault(w) PROVE UNCHANGED askedAgain
  BY <1>4 DEF Fault, LockUnavailable, Skip, Throw, Crash, LoseLock, history
<1>5. CASE SetGone \/ UNCHANGED vars \/ \E w \in Workers, due \in SUBSET Pending : Sweep(w, due)
  BY <1>5 DEF SetGone, vars, Sweep, history
<1> QED BY <1>1, <1>2, <1>3, <1>4, <1>5 DEF Next

\* The ways a line changes: received, settled, put to a person, taken back, healed.
LineReceived(l) ==
  /\ line'[l].received
  /\ line'[l].withdrawn = line[l].withdrawn
  /\ line'[l].unconfirmed = line[l].unconfirmed
  /\ line'[l].refused = line[l].refused

LineSettled(l) ==
  /\ line'[l].received = line[l].received
  /\ line'[l].withdrawn = line[l].withdrawn
  /\ ~line'[l].unconfirmed
  /\ ~line'[l].refused

LineAsked(l) ==
  /\ line'[l].received = line[l].received
  /\ line'[l].withdrawn = line[l].withdrawn
  /\ line'[l].unconfirmed
  /\ line'[l].refused
  /\ \E op \in Ops : row[op].state # "absent" /\ row[op].line = l

LineTakenBack(l) ==
  /\ line'[l].withdrawn
  /\ ~line'[l].refused
  /\ line'[l].unconfirmed = (line[l].unconfirmed /\ ~line[l].refused)

LineHealed(l) ==
  /\ line'[l].received
  /\ line'[l].unconfirmed => \A op \in Ops : row[op].costed /\ row[op].line = l => l \in askedAgain'

LEMMA LineStep ==
  ASSUME ReceiptsAssumption, TypeOK, WorkIsQueued, [Next]_vars
  PROVE  \A l \in Lines : \/ line'[l] = line[l]
                          \/ LineReceived(l) \/ LineSettled(l) \/ LineAsked(l) \/ LineTakenBack(l)
                          \/ LineHealed(l)
<1> DEFINE Changes == \A l \in Lines : \/ line'[l] = line[l]
                                       \/ LineReceived(l) \/ LineSettled(l) \/ LineAsked(l) \/ LineTakenBack(l)
                                       \/ LineHealed(l)
<1>0. line \in [Lines -> Line] /\ row \in [Ops -> Row]
  BY DEF TypeOK
<1>1. CASE line' = line
  BY <1>1
<1>2. ASSUME NEW w \in Workers, NEW S, NEW queued, NEW adds, Receive(w, S, queued, adds)
      PROVE  Changes
  <2>1. ASSUME NEW l \in S, l \in Lines PROVE LineReceived(l)
    <3>1. line'[l] = [line[l] EXCEPT !.received = TRUE] /\ line[l] \in Line
      BY <1>0, <1>2, <2>1 DEF Receive
    <3> QED BY <3>1 DEF LineReceived, Line
  <2>2. \A l \in Lines : l \notin S => line'[l] = line[l]
    BY <1>2 DEF Receive
  <2> QED BY <2>1, <2>2
<1>3. ASSUME NEW w \in Workers, NEW k \in Lines, SettleLine(w, k) PROVE Changes
  <2>1. line' = [line EXCEPT ![k] = [@ EXCEPT !.unconfirmed = FALSE, !.refused = FALSE]]
    BY <1>3 DEF SettleLine
  <2>2. LineSettled(k)
    BY <1>0, <2>1 DEF LineSettled, Line
  <2> QED BY <1>0, <2>1, <2>2
<1>4. ASSUME NEW w \in Workers, Complete(w) PROVE Changes
  <2> DEFINE op == work[w].op
             k == row[op].line
  <2>1. op \in Ops /\ row[op].state # "absent"
    BY <1>4, InHand DEF Complete, Busy
  <2>2. line' = line \/ line' = [line EXCEPT ![k] = [@ EXCEPT !.unconfirmed = TRUE, !.refused = TRUE]]
    BY <1>4 DEF Complete
  <2>3. CASE line' = [line EXCEPT ![k] = [@ EXCEPT !.unconfirmed = TRUE, !.refused = TRUE]]
    <3>1. k \in Lines => LineAsked(k)
      BY <1>0, <2>1, <2>3 DEF LineAsked, Line
    <3> QED BY <1>0, <2>3, <3>1
  <2> QED BY <1>1, <2>2, <2>3
<1>5. ASSUME NEW w \in Workers, NEW b \in BOOLEAN, ClearReceived(w, b) PROVE Changes
  <2>1. ASSUME NEW l \in Lines, line[l].received PROVE LineTakenBack(l)
    <3>1. line'[l] = [received |-> FALSE, withdrawn |-> TRUE, refused |-> FALSE,
                      unconfirmed |-> line[l].unconfirmed /\ ~line[l].refused]
      BY <1>5, <2>1 DEF ClearReceived
    <3> QED BY <3>1 DEF LineTakenBack
  <2>2. \A l \in Lines : ~line[l].received => line'[l] = line[l]
    BY <1>5 DEF ClearReceived
  <2> QED BY <2>1, <2>2
<1>6. ASSUME NEW w \in Workers, Request(w) PROVE Changes
  BY <1>1, <1>2, <1>3, <1>6 DEF Request, SettleAdd, SettleCounted, Unreceive
<1>7. ASSUME NEW w \in Workers, Step(w) PROVE Changes
  <2>1. Complete(w) \/ (\E b \in BOOLEAN : ClearReceived(w, b)) \/ line' = line
    BY <1>7 DEF Step, Select, Lock, LockHeld, Skip, Read, Tell, RefuseStock, SkipStock, MoveStock,
                DeliveredTo, Acknowledge, Release, EndFlush, Withdraw
  <2> QED BY <1>1, <1>4, <1>5, <2>1
<1>8. ASSUME NEW w \in Workers, Fault(w) PROVE Changes
  BY <1>1, <1>8 DEF Fault, LockUnavailable, Skip, Throw, Crash, LoseLock
<1>9. CASE SetGone \/ UNCHANGED vars \/ \E w \in Workers, due \in SUBSET Pending : Sweep(w, due)
  BY <1>1, <1>9 DEF SetGone, vars, Sweep
<1>10. ASSUME NEW k \in Lines, Heal(k) PROVE Changes
  <2>1. PICK asks \in BOOLEAN :
          /\ line' = [line EXCEPT ![k] = [@ EXCEPT !.received = TRUE, !.unconfirmed = asks]]
          /\ askedAgain' = IF asks /\ \E op \in Ops : row[op].costed /\ row[op].line = k
                           THEN askedAgain \cup {k} ELSE askedAgain
    BY <1>10 DEF Heal
  <2>2. line[k] \in Line
    BY <1>0
  <2>3. line'[k] = [line[k] EXCEPT !.received = TRUE, !.unconfirmed = asks]
    BY <1>0, <2>1
  <2>4. line'[k].received /\ line'[k].unconfirmed = asks
    BY <2>2, <2>3 DEF Line
  <2>5. LineHealed(k)
    BY <2>1, <2>4 DEF LineHealed
  <2> QED BY <1>0, <2>1, <2>5
<1> QED BY <1>6, <1>7, <1>8, <1>9, <1>10 DEF Next

\* A new row is about a line received just now, whose cost it tells if it was
\* never withdrawn, or about a line just settled, whose cost it tells if the
\* question was not about a refusal; and no two new rows are about one line.
NewRow(op, l) ==
  /\ row'[op].line = l
  /\ row'[op].state = "pending"
  /\ \/ /\ ~line[l].received /\ line'[l].received
        /\ row'[op].costed = ~line[l].withdrawn
        /\ line'[l].unconfirmed = line[l].unconfirmed
     \/ /\ line[l].unconfirmed /\ ~line'[l].unconfirmed
        /\ row'[op].costed = ~line[l].refused

Queues(op, l, costed) ==
  /\ row'[op].state = "pending"
  /\ row'[op].line = l
  /\ row'[op].costed = (l \in costed)

LEMMA NewRows ==
  ASSUME ReceiptsAssumption, TypeOK, WorkIsQueued, [Next]_vars
  PROVE  /\ \A op \in Ops : row[op].state = "absent" =>
              row'[op] = row[op] \/ \E l \in Lines : NewRow(op, l)
         /\ \A p, q \in Ops : /\ row[p].state = "absent" /\ row'[p] # row[p]
                              /\ row[q].state = "absent" /\ row'[q] # row[q]
                              /\ row'[p].line = row'[q].line
                              => p = q
<1> DEFINE New == \A op \in Ops : row[op].state = "absent" =>
                    row'[op] = row[op] \/ \E l \in Lines : NewRow(op, l)
           Apart == \A p, q \in Ops : /\ row[p].state = "absent" /\ row'[p] # row[p]
                                      /\ row[q].state = "absent" /\ row'[q] # row[q]
                                      /\ row'[p].line = row'[q].line
                                      => p = q
<1>0. line \in [Lines -> Line] /\ row \in [Ops -> Row]
  BY DEF TypeOK
<1>1. CASE \A op \in Ops : row[op].state = "absent" => row'[op] = row[op]
  BY <1>1
<1>2. ASSUME NEW S \in SUBSET Lines, NEW queued \in Injection(S, Fresh), NEW adds \in BOOLEAN,
             NEW costed \in SUBSET S, queueReceived(queued, adds, costed)
      PROVE  /\ Apart
             /\ \A op \in Ops : row[op].state = "absent" =>
                  row'[op] = row[op] \/ \E l \in S : Queues(op, l, costed)
  <2>0. \A op \in Ops :
          \/ row'[op] = row[op]
          \/ \E l \in S :
               /\ queued[l] = op
               /\ row[op].state = "absent"
               /\ row'[op] = [state |-> "pending", line |-> l, told |-> {},
                              adds |-> adds, costed |-> l \in costed]
    BY <1>2, QueuedRows
  <2>1. \A op \in Ops : \/ row'[op] = row[op]
                        \/ \E l \in S : /\ queued[l] = op
                                        /\ Queues(op, l, costed)
    <3> TAKE op \in Ops
    <3>1. CASE row'[op] = row[op]
      BY <3>1
    <3>2. ASSUME NEW l \in S, queued[l] = op,
                 row'[op] = [state |-> "pending", line |-> l, told |-> {},
                             adds |-> adds, costed |-> l \in costed]
          PROVE  queued[l] = op /\ Queues(op, l, costed)
      BY <3>2 DEF Queues
    <3> QED BY <2>0, <3>1, <3>2
  <2> QED BY <2>1 DEF Queues
<1>3. ASSUME NEW w \in Workers, NEW S \in SUBSET Lines, NEW adds \in BOOLEAN,
             NEW queued \in Injection(S, Fresh), Receive(w, S, queued, adds)
      PROVE  New /\ Apart
  <2> DEFINE costed == {l \in S : ~line[l].withdrawn}
  <2>1. costed \in SUBSET S /\ queueReceived(queued, adds, costed)
    BY <1>3 DEF Receive
  <2>2. ASSUME NEW op \in Ops, NEW l \in S, Queues(op, l, costed)
        PROVE  NewRow(op, l)
    <3>1. ~line[l].received /\ line'[l] = [line[l] EXCEPT !.received = TRUE] /\ line[l] \in Line
      BY <1>0, <1>3 DEF Receive
    <3>2. line'[l].received /\ line'[l].unconfirmed = line[l].unconfirmed
      BY <3>1 DEF Line
    <3>3. (l \in costed) = ~line[l].withdrawn
      OBVIOUS
    <3> QED BY <2>2, <3>1, <3>2, <3>3 DEF NewRow, Queues
  <2> HIDE DEF costed
  <2>3. /\ Apart
        /\ \A op \in Ops : row[op].state = "absent" =>
             row'[op] = row[op] \/ \E l \in S : Queues(op, l, costed)
    BY <1>2, <2>1
  <2> QED BY <2>2, <2>3
<1>4. ASSUME NEW w \in Workers, NEW l \in Lines, NEW queued \in Injection({l}, Fresh),
             SettleAdd(w, l, queued)
      PROVE  New /\ Apart
  <2> DEFINE costed == {x \in {l} : ~line[x].refused}
  <2>1. {l} \in SUBSET Lines /\ costed \in SUBSET {l} /\ queueReceived(queued, TRUE, costed)
    BY <1>4 DEF SettleAdd
  <2>2. ASSUME NEW op \in Ops, Queues(op, l, costed)
        PROVE  NewRow(op, l)
    <3>1. line[l].unconfirmed /\ line' = [line EXCEPT ![l] = [@ EXCEPT !.unconfirmed = FALSE, !.refused = FALSE]]
      BY <1>4 DEF SettleAdd, SettleLine
    <3>2. ~line'[l].unconfirmed
      BY <1>0, <3>1 DEF Line
    <3>3. (l \in costed) = ~line[l].refused
      OBVIOUS
    <3> QED BY <2>2, <3>1, <3>2, <3>3 DEF NewRow, Queues
  <2> HIDE DEF costed
  <2>3. /\ Apart
        /\ \A op \in Ops : row[op].state = "absent" =>
             row'[op] = row[op] \/ \E x \in {l} : Queues(op, x, costed)
    <3>1. PICK adds \in BOOLEAN : adds
      OBVIOUS
    <3>2. queueReceived(queued, adds, costed)
      BY <2>1, <3>1
    <3> QED BY <1>2, <2>1, <3>2
  <2> QED BY <2>2, <2>3
<1>5. ASSUME NEW w \in Workers, Request(w) PROVE New /\ Apart
  BY <1>1, <1>3, <1>4, <1>5 DEF Request, SettleCounted, Unreceive
<1>6. ASSUME NEW w \in Workers, Step(w) PROVE New /\ Apart
  <2>1. CASE Acknowledge(w) \/ Complete(w)
    <3>1. work[w].op \in Ops /\ row[work[w].op].state # "absent"
      BY <2>1, InHand DEF Acknowledge, Complete, Busy
    <3>2. \A op \in Ops : op # work[w].op => row'[op] = row[op]
      BY <2>1, <3>1, <1>0 DEF Acknowledge, Complete
    <3> QED BY <1>1, <3>1, <3>2
  <2>2. CASE row' = row
    BY <1>1, <2>2
  <2>3. Acknowledge(w) \/ Complete(w) \/ row' = row
    BY <1>6 DEF Step, Select, Lock, LockHeld, Skip, Read, Tell, RefuseStock, SkipStock, MoveStock,
                DeliveredTo, Release, EndFlush, ClearReceived, Withdraw
  <2> QED BY <2>1, <2>2, <2>3
<1>7. ASSUME NEW w \in Workers, Fault(w) PROVE New /\ Apart
  BY <1>1, <1>7 DEF Fault, LockUnavailable, Skip, Throw, Crash, LoseLock
<1>8. CASE Heals \/ SetGone \/ UNCHANGED vars \/ \E w \in Workers, due \in SUBSET Pending : Sweep(w, due)
  BY <1>1, <1>8, HealKeeps DEF Heals, SetGone, vars, Sweep
<1> QED BY <1>5, <1>6, <1>7, <1>8 DEF Next, Heals

------------------------------------------------------------------------------
(* The inductive invariant.                                                *)

LEMMA WorkIsQueuedStep ==
  ASSUME ReceiptsAssumption, TypeOK, WorkIsQueued, [Next]_vars
  PROVE  WorkIsQueued'
<1> DEFINE Queued(r) == /\ \A op \in r.todo : row[op].state # "absent"
                        /\ r.pc \in Busy => r.op \in Ops /\ row[r.op].state # "absent"
           AllQueued == \A x \in Workers : Queued(work'[x])
<1>0. work \in [Workers -> Work] /\ \A x \in Workers : Queued(work[x])
  BY DEF TypeOK, WorkIsQueued
<1>1. ASSUME NEW w \in Workers, NEW r, work' = [work EXCEPT ![w] = r], Queued(r)
      PROVE  AllQueued
  <2> HIDE DEF Queued
  <2> QED BY <1>0, <1>1
<1>2. Queued(Idle)
  BY DEF Idle, Busy
<1>3. ASSUME NEW w \in Workers, Request(w) \/ Step(w) \/ Fault(w) PROVE AllQueued
  <2> DEFINE me == work[w]
  <2>1. Queued(me) /\ me \in Work
    BY <1>0
  <2>2. CASE work' = work
    BY <1>0, <2>2
  <2> HIDE DEF AllQueued, me
  <2>3. CASE Request(w)
    <3>1. ASSUME NEW lines, StartFlush(w, lines) PROVE AllQueued
      <4>1. Queued([Idle EXCEPT !.pc = "select", !.scope = lines])
        BY DEF Idle, Busy
      <4> HIDE DEF Queued
      <4> QED BY <1>1, <3>1, <4>1 DEF StartFlush
    <3>2. CASE Unreceive(w)
      <4>1. Queued([Idle EXCEPT !.pc = "select", !.scope = Lines, !.unreceives = TRUE])
        BY DEF Idle, Busy
      <4> HIDE DEF Queued
      <4> QED BY <1>1, <3>2, <4>1 DEF Unreceive
    <3> QED BY <2>3, <3>1, <3>2 DEF Request, Receive, SettleAdd, SettleCounted, SettleLine
  <2>4. CASE Select(w)
    <3>1. \A op \in InScope(w) : row[op].state # "absent"
      BY DEF InScope, Pending
    <3>2. Queued([me EXCEPT !.pc = "lock", !.scope = {}, !.todo = InScope(w)])
      BY <2>1, <3>1 DEF Busy, Work
    <3> HIDE DEF Queued
    <3> QED BY <1>1, <2>4, <3>2 DEF Select, me
  <2>5. ASSUME NEW op \in Ops, Lock(w, op) PROVE AllQueued
    <3>1. op \in me.todo
      BY <2>5 DEF Lock, me
    <3>2. Queued([me EXCEPT !.pc = "read", !.op = op, !.todo = me.todo \ {op}])
      BY <2>1, <3>1 DEF Busy, Work
    <3> HIDE DEF Queued
    <3> QED BY <1>1, <2>5, <3>2 DEF Lock, me
  <2>6. ASSUME NEW op \in Ops, Skip(w, op) PROVE AllQueued
    <3>1. me.pc = "lock"
      BY <2>6 DEF Skip, me
    <3>2. Queued([me EXCEPT !.todo = me.todo \ {op}, !.failed = TRUE])
      BY <2>1, <3>1 DEF Busy, Work
    <3> HIDE DEF Queued
    <3> QED BY <1>1, <2>6, <3>2 DEF Skip, me
  <2>7. CASE Read(w)
    <3>1. me.pc = "read"
      BY <2>7 DEF Read, me
    <3>2. /\ Queued([me EXCEPT !.pc = "deliver", !.seen = row[me.op].told, !.refused = FALSE])
          /\ Queued([me EXCEPT !.pc = "release"])
      BY <2>1, <3>1 DEF Busy, Work
    <3> HIDE DEF Queued
    <3> QED BY <1>1, <2>7, <3>2 DEF Read, me
  <2>8. ASSUME NEW r, NEW refused, me.pc = "deliver", DeliveredTo(w, r, refused) PROVE AllQueued
    <3>1. Queued([me EXCEPT !.pc = "ack", !.seen = me.seen \cup {r}, !.refused = me.refused \/ refused])
      BY <2>1, <2>8 DEF Busy, Work
    <3> HIDE DEF Queued
    <3> QED BY <1>1, <2>8, <3>1 DEF DeliveredTo, me
  <2>9. CASE Acknowledge(w) \/ Complete(w) \/ Throw(w)
    <3>1. me.pc \in {"ack", "deliver"}
      BY <2>9 DEF Acknowledge, Complete, Throw, me
    <3>2. /\ Queued([me EXCEPT !.pc = "deliver"])
          /\ Queued([me EXCEPT !.pc = "release"])
          /\ Queued([me EXCEPT !.pc = "release", !.failed = TRUE])
      BY <2>1, <3>1 DEF Busy, Work
    <3> HIDE DEF Queued
    <3> QED BY <1>1, <2>9, <3>2 DEF Acknowledge, Complete, Throw, me
  <2>10. CASE Release(w)
    <3>1. Queued([me EXCEPT !.pc = "lock", !.op = None, !.seen = {}, !.refused = FALSE])
      BY <2>1 DEF Busy, Work
    <3> HIDE DEF Queued
    <3> QED BY <1>1, <2>10, <3>1 DEF Release, me
  <2>11. CASE EndFlush(w)
    <3>1. Queued([Idle EXCEPT !.pc = "clear"])
      BY DEF Idle, Busy
    <3> HIDE DEF Queued
    <3> QED BY <1>1, <1>2, <2>11, <3>1 DEF EndFlush
  <2>12. ASSUME NEW b \in BOOLEAN, ClearReceived(w, b) PROVE AllQueued
    <3>1. ASSUME NEW T PROVE Queued([Idle EXCEPT !.pc = "withdraw", !.takeBack = T])
      BY DEF Idle, Busy
    <3> HIDE DEF Queued
    <3> QED BY <1>1, <1>2, <2>12, <3>1 DEF ClearReceived
  <2>13. ASSUME NEW l \in Lines, Withdraw(w, l) PROVE AllQueued
    <3>1. me.pc = "withdraw"
      BY <2>13 DEF Withdraw, me
    <3>2. Queued([me EXCEPT !.takeBack = me.takeBack \ {l}])
      BY <2>1, <3>1 DEF Busy, Work
    <3> HIDE DEF Queued
    <3> QED BY <1>1, <1>2, <2>13, <3>2 DEF Withdraw, me
  <2>14. CASE Crash(w)
    <3> HIDE DEF Queued
    <3> QED BY <1>1, <1>2, <2>14 DEF Crash
  <2>15. CASE Step(w)
    BY <2>4, <2>5, <2>6, <2>7, <2>8, <2>9, <2>10, <2>11, <2>12, <2>13, <2>15
       DEF Step, LockHeld, Tell, RefuseStock, SkipStock, MoveStock, Delivering, me
  <2>16. CASE Fault(w)
    BY <2>2, <2>6, <2>9, <2>14, <2>16 DEF Fault, LockUnavailable, LoseLock
  <2> QED BY <1>3, <2>3, <2>15, <2>16
<1>4. ASSUME NEW w \in Workers, NEW due \in SUBSET Pending, Sweep(w, due) PROVE AllQueued
  <2>1. Queued([Idle EXCEPT !.pc = "lock", !.todo = due])
    BY DEF Idle, Busy, Pending
  <2> HIDE DEF Queued
  <2> QED BY <1>1, <1>4, <2>1 DEF Sweep
<1>5. ASSUME Heals \/ SetGone \/ UNCHANGED vars PROVE AllQueued
  BY <1>0, <1>5, HealKeeps DEF Heals, SetGone, vars
<1>6. AllQueued
  BY <1>3, <1>4, <1>5 DEF Next, Heals
<1>7. ASSUME NEW x \in Workers
      PROVE  /\ \A op \in work'[x].todo : row'[op].state # "absent"
             /\ work'[x].pc \in Busy => work'[x].op \in Ops /\ row'[work'[x].op].state # "absent"
  <2>1. work'[x] \in Work
    BY TypeStep DEF TypeOK
  <2>2. work'[x].todo \subseteq Ops
    BY <2>1 DEF Work
  <2>3. \A op \in Ops : row[op].state # "absent" => row'[op].state # "absent"
    BY RowsKept
  <2> QED BY <1>6, <2>2, <2>3
<1> QED BY <1>7 DEF WorkIsQueued

\* A line that was received stays received or is withdrawn from then on.
LEMMA QueueStep ==
  ASSUME ReceiptsAssumption, IInv, [Next]_vars
  PROVE  QueuedWasReceived' /\ AskedWasReceived' /\ CostedIsAskedWhenRefused' /\ CostToldOnce'
<1> DEFINE Was(l) == line[l].received \/ line[l].withdrawn
           Is(l)  == line'[l].received \/ line'[l].withdrawn
<1>0. TypeOK /\ WorkIsQueued /\ QueuedWasReceived /\ AskedWasReceived /\ CostedIsAskedWhenRefused /\ CostToldOnce
  BY DEF IInv
<1>1. ASSUME NEW l \in Lines, Was(l) PROVE Is(l)
  BY <1>0, <1>1, LineStep DEF LineReceived, LineSettled, LineAsked, LineTakenBack, LineHealed
<1>2. ASSUME NEW op \in Ops, row[op].state = "absent", NEW l \in Lines, NewRow(op, l)
      PROVE  Is(l)
  <2>1. CASE line'[l].received
    BY <2>1
  <2>2. CASE line[l].unconfirmed
    BY <1>0, <1>1, <2>2 DEF AskedWasReceived
  <2> QED BY <1>2, <2>1, <2>2 DEF NewRow
<1>3. ASSUME NEW op \in Ops, row[op].state # "absent"
      PROVE  /\ row'[op].state # "absent" /\ row'[op].line = row[op].line
             /\ row'[op].costed = row[op].costed
  BY <1>0, <1>3, RowsKept
<1>4. ASSUME NEW op \in Ops, row[op].state = "absent"
      PROVE  row'[op] = row[op] \/ \E l \in Lines : NewRow(op, l)
  BY <1>0, <1>4, NewRows
<1>5. QueuedWasReceived'
  <2>1. ASSUME NEW op \in Ops, row'[op].state # "absent"
        PROVE  row'[op].line \in Lines /\ Is(row'[op].line)
    <3>1. CASE row[op].state # "absent"
      BY <1>0, <1>1, <1>3, <3>1 DEF QueuedWasReceived
    <3>2. CASE row[op].state = "absent"
      BY <1>2, <1>4, <2>1, <3>2 DEF NewRow
    <3> QED BY <3>1, <3>2
  <2> QED BY <2>1 DEF QueuedWasReceived
<1>6. AskedWasReceived'
  <2>1. ASSUME NEW l \in Lines, line'[l].unconfirmed PROVE Is(l)
    <3>1. CASE line[l].unconfirmed
      BY <1>0, <1>1, <3>1 DEF AskedWasReceived
    <3>2. CASE ~line[l].unconfirmed
      <4>1. LineAsked(l) \/ LineHealed(l)
        BY <1>0, <2>1, <3>2, LineStep DEF LineReceived, LineSettled, LineTakenBack
      <4> QED BY <1>0, <1>1, <4>1 DEF LineAsked, LineHealed, QueuedWasReceived
    <3> QED BY <3>1, <3>2
  <2> QED BY <2>1 DEF AskedWasReceived
\* The question of a costed line, after the step.
<1>7. ASSUME NEW l \in Lines, line[l].unconfirmed => line[l].refused, line'[l].unconfirmed,
             l \notin askedAgain', NEW op \in Ops, row[op].costed, row[op].line = l
      PROVE  line'[l].refused
  BY <1>0, <1>7, LineStep DEF LineReceived, LineSettled, LineAsked, LineTakenBack, LineHealed
<1>10. askedAgain \subseteq askedAgain'
  BY AskedAgainKept
<1>8. CostedIsAskedWhenRefused'
  <2>1. ASSUME NEW op \in Ops, row'[op].costed
        PROVE  /\ row'[op].state # "absent"
               /\ row'[op].line \notin askedAgain' /\ line'[row'[op].line].unconfirmed
                    => line'[row'[op].line].refused
    <3>1. CASE row[op].state # "absent"
      <4>1. row[op].costed /\ row'[op].line = row[op].line /\ row'[op].state # "absent"
        BY <1>3, <2>1, <3>1
      <4>2. /\ row[op].line \in Lines
            /\ row[op].line \notin askedAgain' /\ line[row[op].line].unconfirmed
                 => line[row[op].line].refused
        BY <1>0, <1>10, <3>1, <4>1 DEF QueuedWasReceived, CostedIsAskedWhenRefused
      <4> QED BY <1>7, <4>1, <4>2
    <3>2. CASE row[op].state = "absent"
      <4>1. row'[op] # row[op]
        BY <1>0, <2>1, <3>2 DEF CostedIsAskedWhenRefused
      <4>2. PICK l \in Lines : NewRow(op, l)
        BY <1>4, <3>2, <4>1
      <4>3. row'[op].state # "absent"
        BY <4>2 DEF NewRow
      <4>4. ~line'[l].unconfirmed
        BY <1>0, <2>1, <4>2 DEF NewRow, AskedWasReceived
      <4> QED BY <4>2, <4>3, <4>4 DEF NewRow
    <3> QED BY <3>1, <3>2
  <2> QED BY <2>1 DEF CostedIsAskedWhenRefused
<1>9. CostToldOnce'
  <2>1. ASSUME NEW p \in Ops, NEW q \in Ops, row'[p].costed, row'[q].costed, row'[p].line = row'[q].line,
               row[p].state # "absent", row[q].state = "absent", row'[p].line \notin askedAgain'
        PROVE  FALSE
    <3>1. row[p].costed /\ row'[p].line = row[p].line
      BY <1>3, <2>1
    <3>2. row'[q] # row[q]
      BY <1>0, <2>1 DEF CostedIsAskedWhenRefused
    <3>3. PICK l \in Lines : NewRow(q, l)
      BY <1>4, <2>1, <3>2
    <3>4. row[p].line = l
      BY <2>1, <3>1, <3>3 DEF NewRow
    <3>5. Was(l) /\ (line[l].unconfirmed => line[l].refused)
      BY <1>0, <1>10, <2>1, <3>1, <3>4 DEF QueuedWasReceived, CostedIsAskedWhenRefused
    <3> QED BY <2>1, <3>3, <3>5 DEF NewRow
  <2>2. ASSUME NEW p \in Ops, NEW q \in Ops, row'[p].costed, row'[q].costed, row'[p].line = row'[q].line,
               row'[p].line \notin askedAgain'
        PROVE  p = q
    <3>1. CASE row[p].state # "absent" /\ row[q].state # "absent"
      BY <1>0, <1>3, <1>10, <2>2, <3>1 DEF CostToldOnce
    <3>2. CASE row[p].state = "absent" /\ row[q].state = "absent"
      <4>1. row'[p] # row[p] /\ row'[q] # row[q]
        BY <1>0, <2>2, <3>2 DEF CostedIsAskedWhenRefused
      <4> QED BY <1>0, <2>2, <3>2, <4>1, NewRows
    <3> QED BY <2>1, <2>2, <3>1, <3>2
  <2> QED BY <2>2 DEF CostToldOnce
<1> QED BY <1>5, <1>6, <1>8, <1>9

\* Only MoveStock counts a move, and it records the operation it had not found.
LEMMA MovedIsAppliedStep ==
  ASSUME ReceiptsAssumption, TypeOK, WorkIsQueued, MovedIsApplied, [Next]_vars
  PROVE  MovedIsApplied'
<1>1. ASSUME UNCHANGED <<moves, applied>> PROVE MovedIsApplied'
  BY <1>1 DEF MovedIsApplied
<1>2. ASSUME NEW w \in Workers, MoveStock(w) PROVE MovedIsApplied'
  <2> DEFINE op == work[w].op
  <2>1. op \in Ops
    BY <1>2, InHand DEF MoveStock, Delivering, Busy
  <2>2. op \notin applied /\ applied' = applied \cup {op}
    BY <1>2 DEF MoveStock, Satisfied
  <2>3. moves' = [moves EXCEPT ![op] = moves[op] + 1] /\ moves \in [Ops -> Nat]
    BY <1>2 DEF MoveStock, TypeOK
  <2>4. moves[op] = 0
    BY <2>1, <2>2, <2>3 DEF MovedIsApplied
  <2> HIDE DEF op
  <2>5. ASSUME NEW o \in Ops PROVE moves'[o] <= (IF o \in applied' THEN 1 ELSE 0)
    <3>1. CASE o = op
      BY <2>1, <2>2, <2>3, <2>4, <3>1
    <3>2. CASE o # op
      BY <2>1, <2>2, <2>3, <3>2 DEF MovedIsApplied
    <3> QED BY <3>1, <3>2
  <2> QED BY <2>5 DEF MovedIsApplied
<1>3. ASSUME NEW w \in Workers, Request(w) PROVE MovedIsApplied'
  BY <1>1, <1>3 DEF Request, Receive, SettleCounted, SettleAdd, SettleLine, Unreceive, stockVars, history
<1>4. ASSUME NEW w \in Workers, Step(w) PROVE MovedIsApplied'
  BY <1>1, <1>2, <1>4 DEF Step, Select, Lock, LockHeld, Skip, Read, Tell, RefuseStock, SkipStock,
     Acknowledge, Complete, Release, EndFlush, ClearReceived, Withdraw, stockVars, history
<1>5. ASSUME NEW w \in Workers, Fault(w) PROVE MovedIsApplied'
  BY <1>1, <1>5 DEF Fault, LockUnavailable, Skip, Throw, Crash, LoseLock, stockVars, history
<1>6. ASSUME Heals \/ SetGone \/ UNCHANGED vars \/ \E w \in Workers, due \in SUBSET Pending : Sweep(w, due)
      PROVE  MovedIsApplied'
  BY <1>1, <1>6, HealKeeps DEF Heals, SetGone, Sweep, stockVars, history, vars
<1> QED BY <1>3, <1>4, <1>5, <1>6 DEF Next, Heals

\* An answer is never forgotten, and only Tell, RefuseStock, SkipStock and
\* MoveStock add one.
LEMMA AnswersKept ==
  ASSUME ReceiptsAssumption, TypeOK, [Next]_vars
  PROVE  \A op \in Ops : answered[op] \subseteq answered'[op]
<1> DEFINE Kept == \A op \in Ops : answered[op] \subseteq answered'[op]
<1>0. answered \in [Ops -> SUBSET Recipients]
  BY DEF TypeOK
<1>1. ASSUME UNCHANGED answered PROVE Kept
  BY <1>1
<1>2. ASSUME NEW w \in Workers, NEW r, NEW refused, DeliveredTo(w, r, refused) PROVE Kept
  BY <1>0, <1>2 DEF DeliveredTo
<1>3. ASSUME NEW w \in Workers, Request(w) PROVE Kept
  BY <1>1, <1>3 DEF Request, Receive, SettleCounted, SettleAdd, SettleLine, Unreceive, history
<1>4. ASSUME NEW w \in Workers, Step(w) PROVE Kept
  BY <1>1, <1>2, <1>4 DEF Step, Select, Lock, LockHeld, Skip, Read, Tell, RefuseStock, SkipStock,
     MoveStock, Acknowledge, Complete, Release, EndFlush, ClearReceived, Withdraw, history
<1>5. ASSUME NEW w \in Workers, Fault(w) PROVE Kept
  BY <1>1, <1>5 DEF Fault, LockUnavailable, Skip, Throw, Crash, LoseLock, history
<1>6. ASSUME Heals \/ SetGone \/ UNCHANGED vars \/ \E w \in Workers, due \in SUBSET Pending : Sweep(w, due)
      PROVE  Kept
  BY <1>1, <1>6, HealKeeps DEF Heals, SetGone, Sweep, history, vars
<1> QED BY <1>3, <1>4, <1>5, <1>6 DEF Next, Heals

\* A row's list is empty or what its worker had heard, and a visit's list is
\* the row's or what it has just heard: all of them answers.
LEMMA ToldHasAnsweredStep ==
  ASSUME ReceiptsAssumption, TypeOK, WorkIsQueued, ToldHasAnswered, [Next]_vars
  PROVE  ToldHasAnswered'
<1> DEFINE Hears(r) == r.pc \in {"deliver", "ack"}
           RowsTold == \A op \in Ops : row'[op].told \subseteq answered'[op]
           Heard(r) == Hears(r) => r.seen \subseteq answered'[r.op]
           WorkTold == \A x \in Workers : Heard(work'[x])
<1>0. /\ work \in [Workers -> Work] /\ row \in [Ops -> Row] /\ answered \in [Ops -> SUBSET Recipients]
      /\ \A op \in Ops : answered[op] \subseteq answered'[op]
  BY AnswersKept DEF TypeOK
<1>1. ASSUME NEW x \in Workers PROVE Heard(work[x])
  BY <1>0, InHand DEF ToldHasAnswered, Busy
<1>2. ASSUME UNCHANGED row PROVE RowsTold
  BY <1>0, <1>2 DEF ToldHasAnswered
<1>3. ASSUME UNCHANGED work PROVE WorkTold
  BY <1>1, <1>3
<1>4. ASSUME NEW w \in Workers, NEW r, work' = [work EXCEPT ![w] = r], Heard(r)
      PROVE  WorkTold
  <2> HIDE DEF Heard
  <2> QED BY <1>0, <1>1, <1>4
<1>5. ASSUME NEW S \in SUBSET Lines, NEW queued \in Injection(S, Fresh), NEW adds \in BOOLEAN,
             NEW costed \in SUBSET S, queueReceived(queued, adds, costed)
      PROVE  RowsTold
  <2>0. \A op \in Ops :
          \/ row'[op] = row[op]
          \/ \E l \in S :
               /\ queued[l] = op
               /\ row[op].state = "absent"
               /\ row'[op] = [state |-> "pending", line |-> l, told |-> {},
                              adds |-> adds, costed |-> l \in costed]
    BY <1>5, QueuedRows
  <2>1. ASSUME NEW op \in Ops PROVE row'[op].told = row[op].told \/ row'[op].told = {}
    <3>1. ASSUME NEW l \in S,
                 row'[op] = [state |-> "pending", line |-> l, told |-> {},
                             adds |-> adds, costed |-> l \in costed]
          PROVE  row'[op].told = {}
      BY <3>1
    <3> QED BY <2>0, <3>1
  <2> QED BY <1>0, <2>1 DEF ToldHasAnswered
<1>6. ASSUME NEW w \in Workers, NEW lines, StartFlush(w, lines) PROVE WorkTold
  <2>1. Heard([Idle EXCEPT !.pc = "select", !.scope = lines])
    BY DEF Idle
  <2> HIDE DEF Heard
  <2> QED BY <1>4, <1>6, <2>1 DEF StartFlush
<1>7. ASSUME NEW w \in Workers, Request(w) PROVE RowsTold /\ WorkTold
  <2>1. ASSUME NEW S \in SUBSET Lines, NEW queued \in Injection(S, Fresh), NEW adds \in BOOLEAN,
               Receive(w, S, queued, adds)
        PROVE  RowsTold /\ WorkTold
    <3>1. {l \in S : ~line[l].withdrawn} \in SUBSET S
      OBVIOUS
    <3> QED BY <1>5, <1>6, <2>1, <3>1 DEF Receive
  <2>2. ASSUME NEW l \in Lines, NEW queued \in Injection({l}, Fresh), SettleAdd(w, l, queued)
        PROVE  RowsTold /\ WorkTold
    <3>1. PICK adds \in BOOLEAN : adds
      OBVIOUS
    <3>2. {x \in {l} : ~line[x].refused} \in SUBSET {l} /\ {l} \in SUBSET Lines
      OBVIOUS
    <3>3. queueReceived(queued, adds, {x \in {l} : ~line[x].refused})
      BY <2>2, <3>1 DEF SettleAdd
    <3>4. RowsTold
      BY <1>5, <3>2, <3>3
    <3> QED BY <1>6, <2>2, <3>4 DEF SettleAdd, SettleLine
  <2>3. ASSUME NEW l \in Lines, SettleCounted(w, l) PROVE RowsTold /\ WorkTold
    BY <1>2, <1>6, <2>3 DEF SettleCounted, SettleLine
  <2>4. ASSUME Unreceive(w) PROVE RowsTold /\ WorkTold
    <3>1. Heard([Idle EXCEPT !.pc = "select", !.scope = Lines, !.unreceives = TRUE])
      BY DEF Idle
    <3> HIDE DEF Heard
    <3> QED BY <1>2, <1>4, <2>4, <3>1 DEF Unreceive
  <2> QED BY <1>7, <2>1, <2>2, <2>3, <2>4 DEF Request
<1>8. ASSUME NEW w \in Workers, Step(w) \/ Fault(w) PROVE RowsTold /\ WorkTold
  <2> DEFINE me == work[w]
             op == me.op
  <2>0. me \in Work /\ Heard(me) /\ (me.pc \in Busy => op \in Ops)
    BY <1>0, <1>1, InHand
  <2> HIDE DEF me
  <2>1. ASSUME NEW r, ~Hears(r), work' = [work EXCEPT ![w] = r] PROVE WorkTold
    BY <1>4, <2>1
  <2>2. CASE Read(w)
    <3>1. me.pc = "read" /\ op \in Ops
      BY <2>0, <2>2 DEF Read, me, Busy
    <3>2. Heard([me EXCEPT !.pc = "deliver", !.seen = row[op].told, !.refused = FALSE])
      BY <1>0, <2>0, <3>1 DEF ToldHasAnswered, Work
    <3>3. Heard([me EXCEPT !.pc = "release"])
      BY <2>0 DEF Work
    <3> HIDE DEF Heard
    <3> QED BY <1>2, <1>4, <2>2, <3>2, <3>3 DEF Read, me
  <2>3. ASSUME NEW r \in Recipients, NEW refused, me.pc = "deliver", DeliveredTo(w, r, refused)
        PROVE  RowsTold /\ WorkTold
    <3>1. op \in Ops /\ me.seen \subseteq answered'[op]
      BY <2>0, <2>3 DEF Busy
    <3>2. answered'[op] = answered[op] \cup {r}
      BY <1>0, <2>3, <3>1 DEF DeliveredTo, me
    <3>3. Heard([me EXCEPT !.pc = "ack", !.seen = me.seen \cup {r}, !.refused = me.refused \/ refused])
      BY <2>0, <3>1, <3>2 DEF Work
    <3> HIDE DEF Heard
    <3> QED BY <1>2, <1>4, <2>3, <3>3 DEF DeliveredTo, me
  <2>4. CASE Acknowledge(w)
    <3>1. me.pc = "ack" /\ op \in Ops /\ me.seen \subseteq answered'[op]
      BY <2>0, <2>4 DEF Acknowledge, me, Busy
    <3>2. row' = [row EXCEPT ![op].told = me.seen]
      BY <2>4 DEF Acknowledge, me
    <3>3. RowsTold
      BY <1>0, <3>1, <3>2 DEF ToldHasAnswered, Row
    <3>4. Heard([me EXCEPT !.pc = "deliver"])
      BY <2>0, <3>1 DEF Work
    <3> HIDE DEF Heard
    <3> QED BY <1>4, <2>4, <3>3, <3>4 DEF Acknowledge, me
  <2>5. CASE Complete(w)
    <3>1. op \in Ops /\ row' = [row EXCEPT ![op].state = "done"]
      BY <2>0, <2>5 DEF Complete, me, Busy
    <3>2. RowsTold
      BY <1>0, <3>1 DEF ToldHasAnswered, Row
    <3>3. ~Hears([me EXCEPT !.pc = "release"])
      BY <2>0 DEF Work
    <3> HIDE DEF Hears
    <3> QED BY <2>1, <2>5, <3>2, <3>3 DEF Complete, me
  <2>6. CASE Select(w)
    <3>1. ~Hears([me EXCEPT !.pc = "lock", !.scope = {}, !.todo = InScope(w)])
      BY <2>0 DEF Work
    <3> HIDE DEF Hears
    <3> QED BY <1>2, <2>1, <2>6, <3>1 DEF Select, me
  <2>7. ASSUME NEW o \in Ops, Lock(w, o) PROVE RowsTold /\ WorkTold
    <3>1. ~Hears([me EXCEPT !.pc = "read", !.op = o, !.todo = me.todo \ {o}])
      BY <2>0 DEF Work
    <3> HIDE DEF Hears
    <3> QED BY <1>2, <2>1, <2>7, <3>1 DEF Lock, me
  <2>8. ASSUME NEW o \in Ops, Skip(w, o) PROVE RowsTold /\ WorkTold
    <3>1. ~Hears([me EXCEPT !.todo = me.todo \ {o}, !.failed = TRUE])
      BY <2>0, <2>8 DEF Skip, Work, me
    <3> HIDE DEF Hears
    <3> QED BY <1>2, <2>1, <2>8, <3>1 DEF Skip, me
  <2>9. CASE Throw(w)
    <3>1. ~Hears([me EXCEPT !.pc = "release", !.failed = TRUE])
      BY <2>0 DEF Work
    <3> HIDE DEF Hears
    <3> QED BY <1>2, <2>1, <2>9, <3>1 DEF Throw, me
  <2>10. CASE Release(w)
    <3>1. ~Hears([me EXCEPT !.pc = "lock", !.op = None, !.seen = {}, !.refused = FALSE])
      BY <2>0 DEF Work
    <3> HIDE DEF Hears
    <3> QED BY <1>2, <2>1, <2>10, <3>1 DEF Release, me
  <2>11. ASSUME NEW r, work' = [work EXCEPT ![w] = r], UNCHANGED row,
                r = Idle \/ r = [Idle EXCEPT !.pc = "clear"]
         PROVE  RowsTold /\ WorkTold
    BY <1>2, <2>1, <2>11 DEF Idle
  <2>12. CASE EndFlush(w) \/ Crash(w)
    BY <2>11, <2>12 DEF EndFlush, Crash
  <2>13. ASSUME NEW b \in BOOLEAN, ClearReceived(w, b) PROVE RowsTold /\ WorkTold
    <3>1. ASSUME NEW T PROVE ~Hears([Idle EXCEPT !.pc = "withdraw", !.takeBack = T])
      BY DEF Idle
    <3>2. ~Hears(Idle)
      BY DEF Idle
    <3> HIDE DEF Hears
    <3> QED BY <1>2, <2>1, <2>13, <3>1, <3>2 DEF ClearReceived
  <2>14. ASSUME NEW l \in Lines, Withdraw(w, l) PROVE RowsTold /\ WorkTold
    <3>1. ~Hears([me EXCEPT !.takeBack = me.takeBack \ {l}])
      BY <2>0, <2>14 DEF Withdraw, Work, me
    <3>2. ~Hears(Idle)
      BY DEF Idle
    <3> HIDE DEF Hears
    <3> QED BY <1>2, <2>1, <2>14, <3>1, <3>2 DEF Withdraw, me
  <2>15. CASE LoseLock(w)
    BY <1>2, <1>3, <2>15 DEF LoseLock
  <2>16. CASE Step(w)
    <3>1. ASSUME NEW r \in Recipients, Delivering(w, r), NEW refused, DeliveredTo(w, r, refused)
          PROVE  RowsTold /\ WorkTold
      BY <2>3, <3>1 DEF Delivering, me
    <3> QED BY <2>2, <2>4, <2>5, <2>6, <2>7, <2>8, <2>10, <2>12, <2>13, <2>14, <2>16, <3>1
         DEF Step, LockHeld, Tell, RefuseStock, SkipStock, MoveStock, ReceiptsAssumption
  <2>17. CASE Fault(w)
    BY <2>8, <2>9, <2>12, <2>15, <2>17 DEF Fault, LockUnavailable
  <2> QED BY <1>8, <2>16, <2>17
<1>9. ASSUME NEW w \in Workers, NEW due \in SUBSET Pending, Sweep(w, due) PROVE RowsTold /\ WorkTold
  <2>1. Heard([Idle EXCEPT !.pc = "lock", !.todo = due])
    BY DEF Idle
  <2> HIDE DEF Heard
  <2> QED BY <1>2, <1>4, <1>9, <2>1 DEF Sweep
<1>10. ASSUME Heals \/ SetGone \/ UNCHANGED vars PROVE RowsTold /\ WorkTold
  BY <1>2, <1>3, <1>10, HealKeeps DEF Heals, SetGone, vars
<1>11. RowsTold /\ WorkTold
  BY <1>7, <1>8, <1>9, <1>10 DEF Next, Heals
<1> QED BY <1>11 DEF ToldHasAnswered

------------------------------------------------------------------------------
(* The theorems.                                                           *)

LEMMA InitInvariant == ASSUME ReceiptsAssumption, Init PROVE IInv
<1>1. TypeOK
  BY TypeInit
<1>2. WorkIsQueued
  BY DEF Init, WorkIsQueued, Idle, Busy
<1>3. QueuedWasReceived /\ CostedIsAskedWhenRefused /\ CostToldOnce
  <2>1. \A op \in Ops : row[op].state = "absent" /\ ~row[op].costed
    BY DEF Init
  <2> QED BY <2>1 DEF QueuedWasReceived, CostedIsAskedWhenRefused, CostToldOnce
<1>4. AskedWasReceived
  <2>1. ASSUME NEW l \in Lines, line[l].unconfirmed PROVE line[l].received
    <3>1. line[l] = Healed \/ line[l] = Ordered
      BY DEF Init
    <3>2. Healed.received /\ ~Ordered.unconfirmed
      BY DEF Healed, Ordered
    <3> QED BY <2>1, <3>1, <3>2
  <2> QED BY <2>1 DEF AskedWasReceived
<1>5. MovedIsApplied
  BY DEF Init, MovedIsApplied
<1>6. ToldHasAnswered
  BY DEF Init, ToldHasAnswered, Idle
<1> QED BY <1>1, <1>2, <1>3, <1>4, <1>5, <1>6 DEF IInv

LEMMA StepInvariant == ASSUME ReceiptsAssumption, IInv, [Next]_vars PROVE IInv'
<1>1. TypeOK /\ WorkIsQueued /\ MovedIsApplied /\ ToldHasAnswered
  BY DEF IInv
<1>2. TypeOK'
  BY <1>1, TypeStep
<1>3. WorkIsQueued'
  BY <1>1, WorkIsQueuedStep
<1>4. QueuedWasReceived' /\ AskedWasReceived' /\ CostedIsAskedWhenRefused' /\ CostToldOnce'
  BY QueueStep
<1>5. MovedIsApplied'
  BY <1>1, MovedIsAppliedStep
<1>6. ToldHasAnswered'
  BY <1>1, ToldHasAnsweredStep
<1> QED BY <1>2, <1>3, <1>4, <1>5, <1>6 DEF IInv

\* The strengthening holds in every state of every receiving, whatever the
\* lines, the workers and the faults.
THEOREM Invariant == Spec => []IInv
<1>1. Init => IInv
  BY InitInvariant, ReceiptsAssumption
<1>2. IInv /\ [Next]_vars => IInv'
  BY StepInvariant, ReceiptsAssumption
<1> QED BY <1>1, <1>2, PTL DEF Spec

\* Every table and every worker's memory keeps its type.
THEOREM TypeCorrect == Spec => []TypeOK
<1>1. IInv => TypeOK
  BY DEF IInv
<1> QED BY <1>1, Invariant, PTL

\* One receipt moves the shelf at most once: the stock operation is looked up
\* and recorded in the statement that moves it (stockDeltaIn).
THEOREM StockMovesOnce == Spec => []StockOnce
<1>1. IInv => StockOnce
  BY DEF IInv, TypeOK, MovedIsApplied, StockOnce
<1> QED BY <1>1, Invariant, PTL

\* A line's cost is told by one receipt only (queueReceived).
THEOREM CostIsToldOnce == Spec => []CostToldOnce
<1>1. IInv => CostToldOnce
  BY DEF IInv
<1> QED BY <1>1, Invariant, PTL

------------------------------------------------------------------------------
(* Receipts implements DurableDelivery.                                    *)

\* Queueing rows records their operations and closes none.
LEMMA QueueingRecords ==
  ASSUME ReceiptsAssumption, TypeOK,
         NEW S \in SUBSET Lines, NEW queued \in Injection(S, Fresh),
         NEW adds \in BOOLEAN, NEW costed \in SUBSET S,
         queueReceived(queued, adds, costed), UNCHANGED answered
  PROVE  Delivery!Next
<1>1. \A op \in Ops :
        \/ row'[op] = row[op]
        \/ \E l \in S :
             /\ queued[l] = op
             /\ row[op].state = "absent"
             /\ row'[op] = [state |-> "pending", line |-> l, told |-> {},
                            adds |-> adds, costed |-> l \in costed]
  BY QueuedRows, SMTT(60)
<1>2. ASSUME NEW op \in Ops
      PROVE  \/ row'[op].state = row[op].state
             \/ row[op].state = "absent" /\ row'[op].state = "pending"
  <2>1. ASSUME NEW l \in S,
               row'[op] = [state |-> "pending", line |-> l, told |-> {},
                           adds |-> adds, costed |-> l \in costed]
        PROVE  row'[op].state = "pending"
    BY <2>1
  <2> QED BY <1>1, <2>1
<1> DEFINE R == Pending' \ Pending
<1>3. /\ R \in SUBSET Ops
      /\ R \cap (Pending \cup Done) = {}
      /\ Pending' = Pending \cup R
      /\ Done' = Done
  BY <1>2 DEF Pending, Done
<1>4. Delivery!Record(R)
  BY <1>3 DEF Delivery!Record
<1> QED BY <1>3, <1>4 DEF Delivery!Next

\* Whatever a worker hears is the answer to a recorded operation.
LEMMA HearingAnswers ==
  ASSUME ReceiptsAssumption, TypeOK, WorkIsQueued, NEW w \in Workers, work[w].pc = "deliver",
         NEW r \in Recipients, NEW refused, DeliveredTo(w, r, refused)
  PROVE  Delivery!Next
<1> DEFINE op == work[w].op
<1>1. op \in Ops /\ row[op].state # "absent" /\ row \in [Ops -> Row]
  BY InHand DEF Busy, TypeOK
<1>2. op \in Pending \cup Done
  BY <1>1 DEF Pending, Done, Row
<1>3. Pending' = Pending /\ Done' = Done /\ answered' = [answered EXCEPT ![op] = @ \cup {r}]
  BY DEF DeliveredTo, Pending, Done
<1>4. Delivery!Answer(op, r)
  BY <1>2, <1>3 DEF Delivery!Answer
<1> QED BY <1>1, <1>4 DEF Delivery!Next

\* A row is closed with every recipient heard, by one visit or by several.
LEMMA CompletingCloses ==
  ASSUME ReceiptsAssumption, TypeOK, WorkIsQueued, ToldHasAnswered, NEW w \in Workers, Complete(w)
  PROVE  Delivery!Next \/ UNCHANGED <<Pending, Done, answered>>
<1> DEFINE op == work[w].op
<1>1. work[w].pc = "deliver" /\ Recipients \subseteq work[w].seen /\ answered' = answered
      /\ row' = [row EXCEPT ![op].state = "done"]
  BY DEF Complete
<1>2. op \in Ops /\ row[op].state # "absent" /\ row \in [Ops -> Row]
  BY <1>1, InHand DEF Busy, TypeOK
<1>3. answered[op] = Recipients
  <2>1. answered[op] \subseteq Recipients
    BY <1>2 DEF TypeOK
  <2>2. work[w].seen \subseteq answered[op]
    BY <1>1 DEF ToldHasAnswered
  <2> QED BY <1>1, <2>1, <2>2
<1> HIDE DEF op
<1>4. \A o \in Ops : row'[o].state = IF o = op THEN "done" ELSE row[o].state
  BY <1>1, <1>2 DEF Row
<1>5. CASE op \in Pending
  <2>1. Pending' = Pending \ {op} /\ Done' = Done \cup {op}
    BY <1>2, <1>4, <1>5 DEF Pending, Done
  <2>2. Delivery!Close(op)
    BY <1>1, <1>3, <1>5, <2>1 DEF Delivery!Close
  <2> QED BY <1>2, <2>2 DEF Delivery!Next
<1>6. CASE op \notin Pending
  <2>1. row[op].state = "done"
    BY <1>2, <1>6 DEF Pending, Row
  <2>2. Pending' = Pending /\ Done' = Done
    BY <1>4, <2>1 DEF Pending, Done
  <2> QED BY <1>1, <2>2
<1> QED BY <1>5, <1>6

LEMMA StepDelivers ==
  ASSUME ReceiptsAssumption, IInv, [Next]_vars
  PROVE  Delivery!Next \/ UNCHANGED <<Pending, Done, answered>>
<1> DEFINE Maps == Delivery!Next \/ UNCHANGED <<Pending, Done, answered>>
<1>0. TypeOK /\ WorkIsQueued /\ ToldHasAnswered
  BY DEF IInv
<1>1. ASSUME UNCHANGED <<row, answered>> PROVE Maps
  BY <1>1 DEF Pending, Done
<1>2. ASSUME NEW w \in Workers, Request(w) PROVE Maps
  <2>1. ASSUME NEW S \in SUBSET Lines, NEW queued \in Injection(S, Fresh), NEW adds \in BOOLEAN,
               Receive(w, S, queued, adds)
        PROVE  Maps
    <3>1. {l \in S : ~line[l].withdrawn} \in SUBSET S
      OBVIOUS
    <3> QED BY <1>0, <2>1, <3>1, QueueingRecords DEF Receive, history
  <2>2. ASSUME NEW l \in Lines, NEW queued \in Injection({l}, Fresh), SettleAdd(w, l, queued)
        PROVE  Maps
    <3>1. PICK adds \in BOOLEAN : adds
      OBVIOUS
    <3>2. {x \in {l} : ~line[x].refused} \in SUBSET {l} /\ {l} \in SUBSET Lines
      OBVIOUS
    <3>3. queueReceived(queued, adds, {x \in {l} : ~line[x].refused}) /\ UNCHANGED answered
      BY <2>2, <3>1 DEF SettleAdd, SettleLine, history
    <3> QED BY <1>0, <3>2, <3>3, QueueingRecords
  <2>3. ASSUME NEW l \in Lines, SettleCounted(w, l) PROVE Maps
    BY <1>1, <2>3 DEF SettleCounted, SettleLine, history
  <2> QED BY <1>1, <1>2, <2>1, <2>2, <2>3 DEF Request, Unreceive, history
<1>3. ASSUME NEW w \in Workers, Step(w) PROVE Maps
  <2>1. ASSUME NEW r \in Recipients, Delivering(w, r), NEW refused, DeliveredTo(w, r, refused)
        PROVE  Maps
    BY <1>0, <2>1, HearingAnswers DEF Delivering
  <2>2. CASE Acknowledge(w)
    <3>1. work[w].op \in Ops /\ row \in [Ops -> Row]
      BY <1>0, <2>2, InHand DEF Acknowledge, Busy, TypeOK
    <3>2. \A o \in Ops : row'[o].state = row[o].state
      BY <2>2, <3>1 DEF Acknowledge, Row
    <3> QED BY <2>2, <3>2 DEF Acknowledge, Pending, Done, history
  <2>3. CASE Complete(w)
    BY <1>0, <2>3, CompletingCloses
  <2> QED BY <1>1, <1>3, <2>1, <2>2, <2>3
       DEF Step, Select, Lock, LockHeld, Skip, Read, Tell, RefuseStock, SkipStock, MoveStock,
           Release, EndFlush, ClearReceived, Withdraw, history, ReceiptsAssumption
<1>4. ASSUME NEW w \in Workers, Fault(w) PROVE Maps
  BY <1>1, <1>4 DEF Fault, LockUnavailable, Skip, Throw, Crash, LoseLock, history
<1>5. ASSUME Heals \/ SetGone \/ UNCHANGED vars \/ \E w \in Workers, due \in SUBSET Pending : Sweep(w, due)
      PROVE  Maps
  BY <1>1, <1>5, HealKeeps DEF Heals, SetGone, Sweep, history, vars
<1> QED BY <1>2, <1>3, <1>4, <1>5 DEF Next, Heals

\* No recipient is passed over: every receipt is recorded, answered by each
\* recipient and only then closed, whichever visits share the work
\* (flushReceipts, emit, fireBindings).
THEOREM DeliveryImplemented == Spec => ImplementsDelivery
<1>1. Init => Delivery!Init
  BY DEF Init, Delivery!Init, Pending, Done
<1>2. IInv /\ [Next]_vars => [Delivery!Next]_(Delivery!ddVars)
  BY StepDelivers, ReceiptsAssumption DEF Delivery!ddVars
<1> QED BY <1>1, <1>2, Invariant, PTL DEF Spec, ImplementsDelivery, Delivery!Spec

------------------------------------------------------------------------------
(* While no lock is lost, and while nothing fails.                         *)

\* Until a lock is lost, whoever works on a receipt holds its lock.
HeldByItsWorker ==
  "lock" \notin faults =>
    \A w \in Workers : work[w].pc \in Busy => holder[work[w].op] = w

Attending == {"deliver", "ack"}

\* Until a lock is lost, whoever delivers a receipt knows all it has told.
ToldIsSeen ==
  "lock" \notin faults =>
    \A w \in Workers : work[w].pc \in Attending => row[work[w].op].told \subseteq work[w].seen

\* What was never queued was never told, applied or asked about.
AbsentIsBare ==
  \A op \in Ops : row[op].state = "absent" => row[op].told = {} /\ op \notin applied \cup asked

\* What a visit has heard of the stock is what the shelf knows.
Agrees(w) ==
  LET op == work[w].op IN
  /\ row[op].state = "pending"
  /\ Stock \notin work[w].seen => ~work[w].refused /\ op \notin applied
  /\ work[w].refused => op \notin applied
  /\ Stock \in work[w].seen /\ row[op].adds => work[w].refused \/ op \in applied

\* A receipt nobody is delivering has been told to nobody.
Untold(op) == row[op].told = {} /\ op \notin applied

\* Until something fails, each receipt is told in one visit.
CalmVisits ==
  faults = {} =>
    /\ \A w \in Workers : work[w].pc \in Attending => Agrees(w)
    /\ \A op \in Pending :
         /\ op \notin asked
         /\ (\A w \in Workers : work[w].pc \in Attending => work[w].op # op) => Untold(op)
    /\ RefusalReachesPerson /\ RefusedPutNothing

Calm == HeldByItsWorker /\ ToldIsSeen /\ AbsentIsBare /\ CalmVisits

\* No acknowledgement is written over with fewer.
Gathers == "lock" \notin faults => \A op \in Ops : row[op].told \subseteq row'[op].told

\* A worker that is with no receipt before the step nor after it.
Apart(w) == work[w].pc \notin Busy /\ work'[w].pc \notin Busy
Alone(w) == \A v \in Workers : v # w => work'[v] = work[v]

LEMMA AtIsBusy == Attending \subseteq Busy
BY DEF Attending, Busy

LEMMA TurnsTo ==
  ASSUME TypeOK, NEW w \in Workers, NEW r, work' = [work EXCEPT ![w] = r]
  PROVE  Alone(w) /\ work'[w] = r
BY DEF TypeOK, Alone

\* Nothing that the calm is about changes.
LEMMA AsideStep ==
  ASSUME TypeOK, Calm, UNCHANGED <<row, applied, asked, holder>>, faults \subseteq faults',
         \A w \in Workers : work'[w] = work[w] \/ Apart(w)
  PROVE  Calm'
<1>1. \A w \in Workers : work'[w].pc \in Busy => work'[w] = work[w]
  BY DEF Apart
<1>2. HeldByItsWorker'
  BY <1>1 DEF Calm, HeldByItsWorker
<1>3. ToldIsSeen'
  BY <1>1, AtIsBusy DEF Calm, ToldIsSeen
<1>4. AbsentIsBare'
  BY DEF Calm, AbsentIsBare
<1>5. ASSUME faults' = {} PROVE CalmVisits'
  <2>0. faults = {}
    BY <1>5
  <2>1. ASSUME NEW w \in Workers, work'[w].pc \in Attending PROVE Agrees(w)'
    <3>1. work'[w] = work[w]
      BY <1>1, <2>1, AtIsBusy
    <3>2. Agrees(w)
      BY <2>0, <2>1, <3>1 DEF Calm, CalmVisits
    <3> QED BY <3>1, <3>2 DEF Agrees
  <2>2. \A w \in Workers : work[w].pc \in Attending => work'[w] = work[w]
    BY AtIsBusy DEF Apart
  <2>3. ASSUME NEW op \in Pending'
        PROVE  /\ op \notin asked'
               /\ (\A w \in Workers : work'[w].pc \in Attending => work'[w].op # op) => Untold(op)'
    <3>1. op \in Pending
      BY DEF Pending
    <3> QED BY <2>0, <2>2, <3>1 DEF Calm, CalmVisits, Untold
  <2>4. RefusalReachesPerson' /\ RefusedPutNothing'
    BY <2>0 DEF Calm, CalmVisits, RefusalReachesPerson, RefusedPutNothing, Done
  <2> QED BY <2>1, <2>3, <2>4 DEF CalmVisits
<1>6. CalmVisits'
  BY <1>5 DEF CalmVisits
<1> QED BY <1>2, <1>3, <1>4, <1>6 DEF Calm

\* New rows: nobody has them in hand.
LEMMA QueueingStep ==
  ASSUME ReceiptsAssumption, TypeOK, WorkIsQueued, Calm, NEW w \in Workers,
         NEW S \in SUBSET Lines, NEW queued \in Injection(S, Fresh),
         NEW adds \in BOOLEAN, NEW costed \in SUBSET S,
         queueReceived(queued, adds, costed),
         UNCHANGED <<applied, asked, holder, faults>>, Alone(w), Apart(w)
  PROVE  Calm' /\ Gathers
<1>0. \A op \in Ops :
        \/ row'[op] = row[op]
        \/ \E l \in S :
             /\ queued[l] = op
             /\ row[op].state = "absent"
             /\ row'[op] = [state |-> "pending", line |-> l, told |-> {},
                            adds |-> adds, costed |-> l \in costed]
  BY QueuedRows
<1>1. ASSUME NEW op \in Ops
      PROVE  \/ row'[op] = row[op]
             \/ row[op].state = "absent" /\ row'[op].state = "pending" /\ row'[op].told = {}
  <2>1. ASSUME NEW l \in S,
               row'[op] = [state |-> "pending", line |-> l, told |-> {},
                           adds |-> adds, costed |-> l \in costed]
        PROVE  row'[op].state = "pending" /\ row'[op].told = {}
    BY <2>1
  <2> QED BY <1>0, <2>1
<1>2. ASSUME NEW v \in Workers, work'[v].pc \in Busy
      PROVE  work'[v] = work[v] /\ work[v].op \in Ops /\ row'[work[v].op] = row[work[v].op]
  <2>1. work'[v] = work[v]
    BY <1>2 DEF Alone, Apart
  <2>2. work[v].op \in Ops /\ row[work[v].op].state # "absent"
    BY <1>2, <2>1, InHand
  <2> QED BY <1>1, <2>1, <2>2
<1>3. HeldByItsWorker'
  BY <1>2 DEF Calm, HeldByItsWorker
<1>4. ToldIsSeen'
  BY <1>2, AtIsBusy DEF Calm, ToldIsSeen
<1>5. AbsentIsBare'
  BY <1>1 DEF Calm, AbsentIsBare
<1>6. ASSUME faults' = {} PROVE CalmVisits'
  <2>1. ASSUME NEW v \in Workers, work'[v].pc \in Attending PROVE Agrees(v)'
    <3>1. work'[v] = work[v] /\ row'[work[v].op] = row[work[v].op]
      BY <1>2, <2>1, AtIsBusy
    <3>2. Agrees(v)
      BY <1>6, <2>1, <3>1 DEF Calm, CalmVisits
    <3> QED BY <3>1, <3>2 DEF Agrees
  <2>2. \A v \in Workers : work[v].pc \in Attending => work'[v] = work[v]
    BY AtIsBusy DEF Alone, Apart
  <2>3. ASSUME NEW op \in Pending'
        PROVE  /\ op \notin asked'
               /\ (\A v \in Workers : work'[v].pc \in Attending => work'[v].op # op) => Untold(op)'
    <3>1. CASE row[op].state = "absent" /\ row'[op].told = {}
      BY <3>1 DEF Calm, AbsentIsBare, Untold, Pending
    <3>2. CASE row'[op] = row[op]
      <4>1. op \in Pending
        BY <3>2 DEF Pending
      <4> QED BY <1>6, <2>2, <3>2, <4>1 DEF Calm, CalmVisits, Untold
    <3>3. op \in Ops
      BY DEF Pending
    <3> QED BY <1>1, <3>1, <3>2, <3>3
  <2>4. RefusalReachesPerson' /\ RefusedPutNothing'
    <3>1. \A op \in Done' : op \in Done /\ row'[op] = row[op]
      BY <1>1 DEF Done
    <3> QED BY <1>6, <3>1 DEF Calm, CalmVisits, RefusalReachesPerson, RefusedPutNothing
  <2> QED BY <2>1, <2>3, <2>4 DEF CalmVisits
<1>7. CalmVisits'
  BY <1>6 DEF CalmVisits
<1>8. Gathers
  BY <1>1 DEF Gathers, Calm, AbsentIsBare
<1> QED BY <1>3, <1>4, <1>5, <1>7, <1>8 DEF Calm

LEMMA LockStep ==
  ASSUME ReceiptsAssumption, TypeOK, WorkIsQueued, Calm, NEW w \in Workers, NEW op \in Ops,
         Lock(w, op)
  PROVE  Calm'
<1>1. /\ UNCHANGED <<row, applied, asked, faults>> /\ holder[op] = None
      /\ holder' = [holder EXCEPT ![op] = w]
      /\ work[w].pc = "lock"
  BY DEF Lock, stockVars, history
<1>2. Alone(w) /\ work'[w].pc = "read" /\ work'[w].op = op
  <2> DEFINE r == [work[w] EXCEPT !.pc = "read", !.op = op, !.todo = work[w].todo \ {op}]
  <2>1. work' = [work EXCEPT ![w] = r]
    BY DEF Lock
  <2>2. r.pc = "read" /\ r.op = op
    BY DEF TypeOK, Work
  <2> HIDE DEF r
  <2> QED BY <2>1, <2>2, TurnsTo
<1>3. HeldByItsWorker'
  <2>1. ASSUME NEW v \in Workers, v # w, work[v].pc \in Busy, holder[work[v].op] = v
        PROVE  holder'[work[v].op] = v
    <3>1. work[v].op # op
      BY <1>1, <2>1 DEF ReceiptsAssumption
    <3> QED BY <1>1, <2>1, <3>1
  <2>2. holder'[op] = w
    BY <1>1 DEF TypeOK
  <2> QED BY <1>1, <1>2, <2>1, <2>2 DEF Calm, HeldByItsWorker, Alone
<1>4. \A v \in Workers :
        /\ work'[v].pc \in Attending => work'[v] = work[v]
        /\ work[v].pc \in Attending => work'[v] = work[v]
  BY <1>1, <1>2 DEF Alone, Attending
<1>5. ToldIsSeen'
  BY <1>1, <1>4 DEF Calm, ToldIsSeen
<1>6. AbsentIsBare'
  BY <1>1 DEF Calm, AbsentIsBare
<1>7. ASSUME faults' = {} PROVE CalmVisits'
  <2>1. ASSUME NEW v \in Workers, work'[v].pc \in Attending PROVE Agrees(v)'
    <3>1. Agrees(v) /\ work'[v] = work[v]
      BY <1>1, <1>4, <1>7, <2>1 DEF Calm, CalmVisits
    <3> QED BY <1>1, <3>1 DEF Agrees
  <2>2. ASSUME NEW o \in Pending'
        PROVE  /\ o \notin asked'
               /\ (\A v \in Workers : work'[v].pc \in Attending => work'[v].op # o) => Untold(o)'
    <3>1. o \in Pending
      BY <1>1 DEF Pending
    <3> QED BY <1>1, <1>4, <1>7, <3>1 DEF Calm, CalmVisits, Untold
  <2>3. RefusalReachesPerson' /\ RefusedPutNothing'
    BY <1>1, <1>7 DEF Calm, CalmVisits, RefusalReachesPerson, RefusedPutNothing, Done
  <2> QED BY <2>1, <2>2, <2>3 DEF CalmVisits
<1>8. CalmVisits'
  BY <1>7 DEF CalmVisits
<1> QED BY <1>3, <1>5, <1>6, <1>8 DEF Calm

\* Two workers never have one receipt in hand, until a lock is lost.
LEMMA InOneHand ==
  ASSUME HeldByItsWorker, "lock" \notin faults, NEW v \in Workers, NEW w \in Workers,
         work[v].pc \in Busy, work[w].pc \in Busy, work[v].op = work[w].op
  PROVE  v = w
BY DEF HeldByItsWorker

\* A worker that stays with its receipt: its lock stays its own.
LEMMA HeldOn ==
  ASSUME TypeOK, Calm, NEW w \in Workers, work[w].pc \in Busy, Alone(w),
         work'[w].op = work[w].op, holder' = holder, faults \subseteq faults'
  PROVE  HeldByItsWorker'
BY DEF Calm, HeldByItsWorker, Alone

LEMMA ReadStep ==
  ASSUME ReceiptsAssumption, TypeOK, WorkIsQueued, Calm, NEW w \in Workers, Read(w)
  PROVE  Calm'
<1> DEFINE op == work[w].op
<1>1. UNCHANGED <<row, applied, asked, faults, holder>> /\ work[w].pc = "read"
  BY DEF Read, stockVars, history
<1>2. work[w] \in Work /\ work[w].pc \in Busy
  BY <1>1 DEF TypeOK, Busy
<1>3. op \in Ops /\ row[op].state # "absent"
  BY <1>2, InHand
<1>4. /\ Alone(w) /\ work'[w].op = op
      /\ \/ /\ op \in Pending /\ work'[w].pc = "deliver"
            /\ work'[w].seen = row[op].told /\ ~work'[w].refused
         \/ work'[w].pc = "release"
  <2> DEFINE r == [work[w] EXCEPT !.pc = "deliver", !.seen = row[op].told, !.refused = FALSE]
             q == [work[w] EXCEPT !.pc = "release"]
  <2>1. work' = [work EXCEPT ![w] = IF op \in Pending THEN r ELSE q]
    BY DEF Read
  <2>2. /\ r.pc = "deliver" /\ r.op = op /\ r.seen = row[op].told /\ ~r.refused
        /\ q.pc = "release" /\ q.op = op
    BY <1>2 DEF Work
  <2> HIDE DEF r, q
  <2>3. Alone(w) /\ work'[w] = IF op \in Pending THEN r ELSE q
    BY <2>1, TurnsTo
  <2> QED BY <2>2, <2>3
<1>5. HeldByItsWorker'
  BY <1>1, <1>2, <1>4, HeldOn
<1>6. ToldIsSeen'
  BY <1>1, <1>4 DEF Calm, ToldIsSeen, Alone, Attending
<1>7. AbsentIsBare'
  BY <1>1 DEF Calm, AbsentIsBare
<1>8. ASSUME faults' = {} PROVE CalmVisits'
  <2>0. faults = {} /\ "lock" \notin faults
    BY <1>1, <1>8
  <2>1. ASSUME op \in Pending PROVE Untold(op)
    <3>1. \A v \in Workers : work[v].pc \in Attending => work[v].op # op
      BY <1>1, <1>2, <2>0, AtIsBusy, InOneHand DEF Calm, Attending
    <3> QED BY <2>0, <2>1, <3>1 DEF Calm, CalmVisits
  <2>2. ASSUME NEW v \in Workers, work'[v].pc \in Attending PROVE Agrees(v)'
    <3>1. CASE v = w
      BY <1>1, <1>4, <2>1, <2>2, <3>1 DEF Agrees, Untold, Attending, Pending
    <3>2. CASE v # w
      <4>1. work'[v] = work[v] /\ Agrees(v)
        BY <1>4, <2>0, <2>2, <3>2 DEF Calm, CalmVisits, Alone
      <4> QED BY <1>1, <4>1 DEF Agrees
    <3> QED BY <3>1, <3>2
  <2>3. ASSUME NEW o \in Pending'
        PROVE  /\ o \notin asked'
               /\ (\A v \in Workers : work'[v].pc \in Attending => work'[v].op # o) => Untold(o)'
    <3>1. o \in Pending
      BY <1>1 DEF Pending
    <3>2. \A v \in Workers : work[v].pc \in Attending => work'[v] = work[v]
      BY <1>1, <1>4 DEF Alone, Attending
    <3> QED BY <1>1, <2>0, <3>1, <3>2 DEF Calm, CalmVisits, Untold
  <2>4. RefusalReachesPerson' /\ RefusedPutNothing'
    BY <1>1, <2>0 DEF Calm, CalmVisits, RefusalReachesPerson, RefusedPutNothing, Done
  <2> QED BY <2>2, <2>3, <2>4 DEF CalmVisits
<1>9. CalmVisits'
  BY <1>8 DEF CalmVisits
<1> QED BY <1>5, <1>6, <1>7, <1>9 DEF Calm

\* Telling a recipient, whatever it makes of it.
LEMMA HearStep ==
  ASSUME ReceiptsAssumption, TypeOK, WorkIsQueued, Calm, NEW w \in Workers,
         NEW r \in Recipients, NEW refused \in BOOLEAN, Delivering(w, r), DeliveredTo(w, r, refused),
         applied \subseteq applied', applied' \subseteq applied \cup {work[w].op},
         r # Stock => ~refused /\ applied' = applied,
         refused => applied' = applied,
         r = Stock /\ ~refused => work[w].op \in applied' \/ ~row[work[w].op].adds
  PROVE  Calm'
<1> DEFINE op == work[w].op
<1>1. /\ UNCHANGED <<row, asked, faults, holder>> /\ work[w].pc = "deliver"
      /\ r \notin work[w].seen
  BY DEF Delivering, DeliveredTo
<1>2. work[w] \in Work /\ work[w].pc \in Busy /\ work[w].pc \in Attending
  BY <1>1 DEF TypeOK, Busy, Attending
<1>3. op \in Ops /\ row[op].state # "absent"
  BY <1>2, InHand
<1>4. /\ Alone(w) /\ work'[w].pc = "ack" /\ work'[w].op = op
      /\ work'[w].seen = work[w].seen \cup {r}
      /\ work'[w].refused = (work[w].refused \/ refused)
  <2> DEFINE q == [work[w] EXCEPT !.pc = "ack", !.seen = work[w].seen \cup {r},
                                  !.refused = work[w].refused \/ refused]
  <2>1. work' = [work EXCEPT ![w] = q]
    BY DEF DeliveredTo
  <2>2. /\ q.pc = "ack" /\ q.op = op /\ q.seen = work[w].seen \cup {r}
        /\ q.refused = (work[w].refused \/ refused)
    BY <1>2 DEF Work
  <2> HIDE DEF q
  <2> QED BY <2>1, <2>2, TurnsTo
<1>5. HeldByItsWorker'
  BY <1>1, <1>2, <1>4, HeldOn
<1>6. ToldIsSeen'
  BY <1>1, <1>2, <1>4 DEF Calm, ToldIsSeen, Alone
<1>7. AbsentIsBare'
  BY <1>1, <1>3 DEF Calm, AbsentIsBare
<1>8. ASSUME faults' = {} PROVE CalmVisits'
  <2>0. faults = {} /\ "lock" \notin faults
    BY <1>1, <1>8
  <2>1. Agrees(w) /\ op \in Pending
    BY <1>2, <1>3, <2>0 DEF Calm, CalmVisits, Agrees, Pending
  <2>2. Agrees(w)'
    <3>1. CASE r = Stock
      <4>1. ~work[w].refused /\ op \notin applied
        BY <1>1, <2>1, <3>1 DEF Agrees
      <4> QED BY <1>1, <1>4, <2>1, <3>1, <4>1 DEF Agrees
    <3>2. CASE r # Stock
      <4>1. ~refused /\ applied' = applied
        BY <3>2
      <4>2. Stock \in work'[w].seen <=> Stock \in work[w].seen
        BY <1>4, <3>2
      <4>3. work'[w].refused <=> work[w].refused
        BY <1>2, <1>4, <4>1 DEF Work
      <4> QED BY <1>1, <1>4, <2>1, <4>1, <4>2, <4>3 DEF Agrees
    <3> QED BY <3>1, <3>2
  <2>3. ASSUME NEW v \in Workers, work'[v].pc \in Attending, v # w PROVE Agrees(v)'
    <3>1. work'[v] = work[v] /\ Agrees(v)
      BY <1>4, <2>0, <2>3 DEF Calm, CalmVisits, Alone
    <3>2. work[v].op # op
      BY <1>2, <2>0, <2>3, <3>1, AtIsBusy, InOneHand DEF Calm
    <3> QED BY <1>1, <3>1, <3>2 DEF Agrees
  <2>4. ASSUME NEW o \in Pending'
        PROVE  /\ o \notin asked'
               /\ (\A v \in Workers : work'[v].pc \in Attending => work'[v].op # o) => Untold(o)'
    <3>1. o \in Pending /\ o \notin asked
      BY <1>1, <2>0 DEF Pending, Calm, CalmVisits
    <3>2. ASSUME \A v \in Workers : work'[v].pc \in Attending => work'[v].op # o
          PROVE  Untold(o)'
      <4>1. o # op
        BY <1>4, <3>2 DEF Attending
      <4>2. \A v \in Workers : work[v].pc \in Attending => work[v].op # o
        BY <1>4, <3>2, <4>1 DEF Alone
      <4>3. Untold(o)
        BY <2>0, <3>1, <4>2 DEF Calm, CalmVisits
      <4> QED BY <1>1, <4>1, <4>3 DEF Untold
    <3> QED BY <1>1, <3>1, <3>2
  <2>5. RefusalReachesPerson' /\ RefusedPutNothing'
    <3>1. op \notin asked
      BY <2>0, <2>1 DEF Calm, CalmVisits
    <3> QED BY <1>1, <2>0, <3>1
         DEF Calm, CalmVisits, RefusalReachesPerson, RefusedPutNothing, Done
  <2> QED BY <2>2, <2>3, <2>4, <2>5 DEF CalmVisits
<1>9. CalmVisits'
  BY <1>8 DEF CalmVisits
<1> QED BY <1>5, <1>6, <1>7, <1>9 DEF Calm

LEMMA AcknowledgeStep ==
  ASSUME ReceiptsAssumption, TypeOK, WorkIsQueued, Calm, NEW w \in Workers, Acknowledge(w)
  PROVE  Calm' /\ Gathers
<1> DEFINE op == work[w].op
<1>1. /\ UNCHANGED <<applied, asked, faults, holder>> /\ work[w].pc = "ack"
      /\ row' = [row EXCEPT ![op].told = work[w].seen]
  BY DEF Acknowledge, stockVars, history
<1>2. work[w] \in Work /\ work[w].pc \in Busy /\ work[w].pc \in Attending
  BY <1>1 DEF TypeOK, Busy, Attending
<1>3. op \in Ops /\ row[op].state # "absent"
  BY <1>2, InHand
<1>4. /\ Alone(w) /\ work'[w].pc = "deliver" /\ work'[w].op = op
      /\ work'[w].seen = work[w].seen /\ work'[w].refused = work[w].refused
  <2> DEFINE q == [work[w] EXCEPT !.pc = "deliver"]
  <2>1. work' = [work EXCEPT ![w] = q]
    BY DEF Acknowledge
  <2>2. q.pc = "deliver" /\ q.op = op /\ q.seen = work[w].seen /\ q.refused = work[w].refused
    BY <1>2 DEF Work
  <2> HIDE DEF q
  <2> QED BY <2>1, <2>2, TurnsTo
<1>5. \A o \in Ops :
        /\ row'[o].state = row[o].state /\ row'[o].adds = row[o].adds
        /\ row'[o].told = IF o = op THEN work[w].seen ELSE row[o].told
  BY <1>1, <1>3 DEF TypeOK, Row
<1>6. \A v \in Workers : work'[v].pc \in Attending =>
        /\ work[v].pc \in Attending /\ work'[v].op = work[v].op
        /\ work'[v].seen = work[v].seen /\ work'[v].refused = work[v].refused
        /\ work[v].op \in Ops
  BY <1>2, <1>4, AtIsBusy, InHand DEF Alone
<1>7. HeldByItsWorker'
  BY <1>1, <1>2, <1>4, HeldOn
<1>8. ASSUME "lock" \notin faults, NEW v \in Workers, work'[v].pc \in Attending
      PROVE  row'[work'[v].op].told \subseteq work'[v].seen
  <2>1. CASE v = w
    BY <1>3, <1>4, <1>5, <2>1
  <2>2. CASE v # w
    <3>1. work[v].op # op
      BY <1>2, <1>6, <1>8, <2>2, AtIsBusy, InOneHand DEF Calm
    <3> QED BY <1>5, <1>6, <1>8, <3>1 DEF Calm, ToldIsSeen
  <2> QED BY <2>1, <2>2
<1>9. ToldIsSeen'
  BY <1>1, <1>8 DEF ToldIsSeen
<1>10. AbsentIsBare'
  BY <1>1, <1>3, <1>5 DEF Calm, AbsentIsBare
<1>11. ASSUME faults' = {} PROVE CalmVisits'
  <2>0. faults = {}
    BY <1>1, <1>11
  <2>1. ASSUME NEW v \in Workers, work'[v].pc \in Attending PROVE Agrees(v)'
    <3>1. Agrees(v)
      BY <1>6, <2>0, <2>1 DEF Calm, CalmVisits
    <3> QED BY <1>1, <1>5, <1>6, <2>1, <3>1 DEF Agrees
  <2>2. ASSUME NEW o \in Pending'
        PROVE  /\ o \notin asked'
               /\ (\A v \in Workers : work'[v].pc \in Attending => work'[v].op # o) => Untold(o)'
    <3>1. o \in Pending /\ o \in Ops
      BY <1>5 DEF Pending
    <3>2. ASSUME \A v \in Workers : work'[v].pc \in Attending => work'[v].op # o
          PROVE  Untold(o)'
      <4>1. o # op
        BY <1>4, <3>2 DEF Attending
      <4>2. \A v \in Workers : work[v].pc \in Attending => work[v].op # o
        BY <1>4, <3>2, <4>1 DEF Alone
      <4>3. Untold(o)
        BY <2>0, <3>1, <4>2 DEF Calm, CalmVisits
      <4> QED BY <1>1, <1>5, <3>1, <4>1, <4>3 DEF Untold
    <3> QED BY <1>1, <2>0, <3>1, <3>2 DEF Calm, CalmVisits
  <2>3. RefusalReachesPerson' /\ RefusedPutNothing'
    BY <1>1, <1>5, <2>0 DEF Calm, CalmVisits, RefusalReachesPerson, RefusedPutNothing, Done
  <2> QED BY <2>1, <2>2, <2>3 DEF CalmVisits
<1>12. CalmVisits'
  BY <1>11 DEF CalmVisits
<1>13. Calm'
  BY <1>7, <1>9, <1>10, <1>12 DEF Calm
<1>14. "lock" \notin faults => row[op].told \subseteq work[w].seen
  BY <1>2 DEF Calm, ToldIsSeen
<1> QED BY <1>5, <1>13, <1>14 DEF Gathers

\* The row is closed: the stock's answer is among those this visit heard.
LEMMA CompleteStep ==
  ASSUME ReceiptsAssumption, TypeOK, WorkIsQueued, Calm, NEW w \in Workers, Complete(w)
  PROVE  Calm' /\ Gathers
<1> DEFINE op == work[w].op
<1>1. /\ UNCHANGED <<applied, faults, holder>> /\ work[w].pc = "deliver"
      /\ row' = [row EXCEPT ![op].state = "done"]
      /\ asked' = IF work[w].refused THEN asked \cup {op} ELSE asked
      /\ Stock \in work[w].seen
  BY DEF Complete, stockVars, ReceiptsAssumption
<1>2. work[w] \in Work /\ work[w].pc \in Busy /\ work[w].pc \in Attending
  BY <1>1 DEF TypeOK, Busy, Attending
<1>3. op \in Ops /\ row[op].state # "absent"
  BY <1>2, InHand
<1>4. Alone(w) /\ work'[w].pc = "release" /\ work'[w].op = op
  <2> DEFINE q == [work[w] EXCEPT !.pc = "release"]
  <2>1. work' = [work EXCEPT ![w] = q]
    BY DEF Complete
  <2>2. q.pc = "release" /\ q.op = op
    BY <1>2 DEF Work
  <2> HIDE DEF q
  <2> QED BY <2>1, <2>2, TurnsTo
<1>5. \A o \in Ops :
        /\ row'[o].state = IF o = op THEN "done" ELSE row[o].state
        /\ row'[o].adds = row[o].adds /\ row'[o].told = row[o].told
  BY <1>1, <1>3 DEF TypeOK, Row
<1>6. \A v \in Workers : work'[v].pc \in Attending =>
        v # w /\ work'[v] = work[v] /\ work[v].op \in Ops
  BY <1>4, AtIsBusy, InHand DEF Alone, Attending
<1>7. HeldByItsWorker'
  BY <1>1, <1>2, <1>4, HeldOn
<1>8. ToldIsSeen'
  BY <1>1, <1>5, <1>6 DEF Calm, ToldIsSeen
<1>9. AbsentIsBare'
  BY <1>1, <1>3, <1>5 DEF Calm, AbsentIsBare
<1>10. ASSUME faults' = {} PROVE CalmVisits'
  <2>0. faults = {} /\ "lock" \notin faults
    BY <1>1, <1>10
  <2>1. Agrees(w) /\ op \in Pending
    BY <1>2, <1>3, <2>0 DEF Calm, CalmVisits, Agrees, Pending
  <2>2. ASSUME NEW v \in Workers, work'[v].pc \in Attending PROVE Agrees(v)'
    <3>1. Agrees(v)
      BY <1>6, <2>0, <2>2 DEF Calm, CalmVisits
    <3>2. work[v].op # op
      BY <1>2, <1>6, <2>0, <2>2, AtIsBusy, InOneHand DEF Calm
    <3> QED BY <1>1, <1>5, <1>6, <2>2, <3>1, <3>2 DEF Agrees
  <2>3. ASSUME NEW o \in Pending'
        PROVE  /\ o \notin asked'
               /\ (\A v \in Workers : work'[v].pc \in Attending => work'[v].op # o) => Untold(o)'
    <3>1. o \in Ops /\ o # op /\ o \in Pending
      BY <1>5 DEF Pending
    <3>2. o \notin asked'
      BY <1>1, <2>0, <3>1 DEF Calm, CalmVisits
    <3>3. ASSUME \A v \in Workers : work'[v].pc \in Attending => work'[v].op # o
          PROVE  Untold(o)'
      <4>1. \A v \in Workers : work[v].pc \in Attending => work[v].op # o
        BY <1>4, <3>1, <3>3 DEF Alone
      <4>2. Untold(o)
        BY <2>0, <3>1, <4>1 DEF Calm, CalmVisits
      <4> QED BY <1>1, <1>5, <3>1, <4>2 DEF Untold
    <3> QED BY <3>2, <3>3
  <2>4. RefusalReachesPerson'
    <3>1. ASSUME NEW o \in Done', row'[o].adds PROVE o \in (applied \cup asked)'
      <4>1. CASE o = op
        <5>1. row[op].adds
          BY <1>3, <1>5, <3>1, <4>1
        <5> QED BY <1>1, <2>1, <4>1, <5>1 DEF Agrees
      <4>2. CASE o # op
        <5>1. o \in Done /\ row[o].adds
          BY <1>5, <3>1, <4>2 DEF Done
        <5> QED BY <1>1, <2>0, <5>1 DEF Calm, CalmVisits, RefusalReachesPerson
      <4> QED BY <4>1, <4>2
    <3> QED BY <3>1 DEF RefusalReachesPerson
  <2>5. RefusedPutNothing'
    <3>1. work[w].refused => op \notin applied
      BY <2>1 DEF Agrees
    <3> QED BY <1>1, <2>0, <3>1 DEF Calm, CalmVisits, RefusedPutNothing
  <2> QED BY <2>2, <2>3, <2>4, <2>5 DEF CalmVisits
<1>11. CalmVisits'
  BY <1>10 DEF CalmVisits
<1>12. Gathers
  BY <1>5 DEF Gathers
<1> QED BY <1>7, <1>8, <1>9, <1>11, <1>12 DEF Calm

LEMMA ReleaseStep ==
  ASSUME ReceiptsAssumption, TypeOK, WorkIsQueued, Calm, NEW w \in Workers, Release(w)
  PROVE  Calm'
<1> DEFINE op == work[w].op
<1>1. /\ UNCHANGED <<row, applied, asked, faults>> /\ work[w].pc = "release"
      /\ holder' = [holder EXCEPT ![op] = IF @ = w THEN None ELSE @]
  BY DEF Release, stockVars, history
<1>2. work[w] \in Work
  BY DEF TypeOK
<1>3. Alone(w) /\ work'[w].pc = "lock"
  <2> DEFINE q == [work[w] EXCEPT !.pc = "lock", !.op = None, !.seen = {}, !.refused = FALSE]
  <2>1. work' = [work EXCEPT ![w] = q]
    BY DEF Release
  <2>2. q.pc = "lock"
    BY <1>2 DEF Work
  <2> HIDE DEF q
  <2> QED BY <2>1, <2>2, TurnsTo
<1>4. HeldByItsWorker'
  <2>1. ASSUME NEW v \in Workers, v # w, work[v].pc \in Busy, holder[work[v].op] = v
        PROVE  holder'[work[v].op] = v
    <3>1. work[v].op \in Ops
      BY <2>1, InHand
    <3> QED BY <1>1, <2>1, <3>1 DEF TypeOK
  <2> QED BY <1>1, <1>3, <2>1 DEF Calm, HeldByItsWorker, Alone, Busy
<1>5. \A v \in Workers :
        /\ work'[v].pc \in Attending => work'[v] = work[v]
        /\ work[v].pc \in Attending => work'[v] = work[v]
  BY <1>1, <1>3 DEF Alone, Attending
<1>6. ToldIsSeen'
  BY <1>1, <1>5 DEF Calm, ToldIsSeen
<1>7. AbsentIsBare'
  BY <1>1 DEF Calm, AbsentIsBare
<1>8. ASSUME faults' = {} PROVE CalmVisits'
  <2>1. ASSUME NEW v \in Workers, work'[v].pc \in Attending PROVE Agrees(v)'
    <3>1. Agrees(v) /\ work'[v] = work[v]
      BY <1>1, <1>5, <1>8, <2>1 DEF Calm, CalmVisits
    <3> QED BY <1>1, <3>1 DEF Agrees
  <2>2. ASSUME NEW o \in Pending'
        PROVE  /\ o \notin asked'
               /\ (\A v \in Workers : work'[v].pc \in Attending => work'[v].op # o) => Untold(o)'
    <3>1. o \in Pending
      BY <1>1 DEF Pending
    <3> QED BY <1>1, <1>5, <1>8, <3>1 DEF Calm, CalmVisits, Untold
  <2>3. RefusalReachesPerson' /\ RefusedPutNothing'
    BY <1>1, <1>8 DEF Calm, CalmVisits, RefusalReachesPerson, RefusedPutNothing, Done
  <2> QED BY <2>1, <2>2, <2>3 DEF CalmVisits
<1>9. CalmVisits'
  BY <1>8 DEF CalmVisits
<1> QED BY <1>4, <1>6, <1>7, <1>9 DEF Calm

\* The steps of a worker that has no receipt in hand.
LEMMA ApartStep ==
  ASSUME ReceiptsAssumption, TypeOK, NEW w \in Workers,
         \/ Request(w) \/ Select(w) \/ EndFlush(w)
         \/ \E op \in Ops : Skip(w, op)
         \/ \E b \in BOOLEAN : ClearReceived(w, b)
         \/ \E l \in Lines : Withdraw(w, l)
         \/ \E due \in SUBSET Pending : Sweep(w, due)
  PROVE  Alone(w) /\ Apart(w)
<1> DEFINE me == work[w]
<1>0. me \in Work
  BY DEF TypeOK
<1>1. ASSUME NEW r, r.pc \notin Busy, me.pc \notin Busy, work' = [work EXCEPT ![w] = r] PROVE Alone(w) /\ Apart(w)
  BY <1>1, TurnsTo DEF Apart
<1>2. Idle.pc = "idle"
  BY DEF Idle
<1> HIDE DEF me
<1>3. ASSUME NEW lines, StartFlush(w, lines), me.pc = "idle" PROVE Alone(w) /\ Apart(w)
  <2> DEFINE r == [Idle EXCEPT !.pc = "select", !.scope = lines]
  <2>1. r.pc = "select"
    BY DEF Idle
  <2>2. work' = [work EXCEPT ![w] = r]
    BY <1>3 DEF StartFlush
  <2> HIDE DEF r
  <2> QED BY <1>1, <1>3, <2>1, <2>2 DEF Busy
<1>4. CASE Unreceive(w)
  <2> DEFINE r == [Idle EXCEPT !.pc = "select", !.scope = Lines, !.unreceives = TRUE]
  <2>1. r.pc = "select"
    BY DEF Idle
  <2>2. work' = [work EXCEPT ![w] = r] /\ me.pc = "idle"
    BY <1>4 DEF Unreceive, me
  <2> HIDE DEF r
  <2> QED BY <1>1, <2>1, <2>2 DEF Busy
<1>5. CASE Request(w)
  BY <1>3, <1>4, <1>5 DEF Request, Receive, SettleAdd, SettleCounted, SettleLine, me
<1>6. CASE Select(w)
  <2> DEFINE r == [me EXCEPT !.pc = "lock", !.scope = {}, !.todo = InScope(w)]
  <2>1. r.pc = "lock"
    BY <1>0 DEF Work
  <2>2. work' = [work EXCEPT ![w] = r] /\ me.pc = "select"
    BY <1>6 DEF Select, me
  <2> HIDE DEF r
  <2> QED BY <1>1, <2>1, <2>2 DEF Busy
<1>7. CASE EndFlush(w)
  <2> DEFINE r == [Idle EXCEPT !.pc = "clear"]
  <2>1. r.pc = "clear"
    BY DEF Idle
  <2>2. (work' = [work EXCEPT ![w] = r] \/ work' = [work EXCEPT ![w] = Idle]) /\ me.pc = "lock"
    BY <1>7 DEF EndFlush, me
  <2> HIDE DEF r
  <2> QED BY <1>1, <1>2, <2>1, <2>2 DEF Busy
<1>8. ASSUME NEW op \in Ops, Skip(w, op) PROVE Alone(w) /\ Apart(w)
  <2> DEFINE r == [me EXCEPT !.todo = me.todo \ {op}, !.failed = TRUE]
  <2>1. r.pc = me.pc
    BY <1>0 DEF Work
  <2>2. work' = [work EXCEPT ![w] = r] /\ me.pc = "lock"
    BY <1>8 DEF Skip, me
  <2> HIDE DEF r
  <2> QED BY <1>1, <2>1, <2>2 DEF Busy
<1>9. ASSUME NEW b \in BOOLEAN, ClearReceived(w, b) PROVE Alone(w) /\ Apart(w)
  <2> DEFINE taken == {l \in Lines : b /\ line[l].received /\ ~line[l].refused}
             r == [Idle EXCEPT !.pc = "withdraw", !.takeBack = taken]
  <2>1. r.pc = "withdraw"
    BY DEF Idle
  <2>2. (work' = [work EXCEPT ![w] = r] \/ work' = [work EXCEPT ![w] = Idle]) /\ me.pc = "clear"
    BY <1>9 DEF ClearReceived, me
  <2> HIDE DEF r
  <2> QED BY <1>1, <1>2, <2>1, <2>2 DEF Busy
<1>10. ASSUME NEW l \in Lines, Withdraw(w, l) PROVE Alone(w) /\ Apart(w)
  <2> DEFINE r == [me EXCEPT !.takeBack = me.takeBack \ {l}]
  <2>1. r.pc = me.pc
    BY <1>0 DEF Work
  <2>2. (work' = [work EXCEPT ![w] = r] \/ work' = [work EXCEPT ![w] = Idle]) /\ me.pc = "withdraw"
    BY <1>10 DEF Withdraw, me
  <2> HIDE DEF r
  <2> QED BY <1>1, <1>2, <2>1, <2>2 DEF Busy
<1>11. ASSUME NEW due \in SUBSET Pending, Sweep(w, due) PROVE Alone(w) /\ Apart(w)
  <2> DEFINE r == [Idle EXCEPT !.pc = "lock", !.todo = due]
  <2>1. r.pc = "lock"
    BY DEF Idle
  <2>2. work' = [work EXCEPT ![w] = r] /\ me.pc = "idle"
    BY <1>11 DEF Sweep, me
  <2> HIDE DEF r
  <2> QED BY <1>1, <2>1, <2>2 DEF Busy
<1> QED BY <1>5, <1>6, <1>7, <1>8, <1>9, <1>10, <1>11

LEMMA GatherOn == ASSUME UNCHANGED row PROVE Gathers
BY DEF Gathers

LEMMA RequestCalm ==
  ASSUME ReceiptsAssumption, TypeOK, WorkIsQueued, Calm, NEW w \in Workers, Request(w)
  PROVE  Calm' /\ Gathers
<1>0. Alone(w) /\ Apart(w)
  BY ApartStep
<1>1. ASSUME NEW S \in SUBSET Lines, NEW queued \in Injection(S, Fresh), NEW adds \in BOOLEAN,
             Receive(w, S, queued, adds)
      PROVE  Calm' /\ Gathers
  <2>1. {l \in S : ~line[l].withdrawn} \in SUBSET S
    OBVIOUS
  <2> QED BY <1>0, <1>1, <2>1, QueueingStep DEF Receive, stockVars, history
<1>2. ASSUME NEW l \in Lines, NEW queued \in Injection({l}, Fresh), SettleAdd(w, l, queued)
      PROVE  Calm' /\ Gathers
  <2>1. PICK adds \in BOOLEAN : adds
    OBVIOUS
  <2>2. {x \in {l} : ~line[x].refused} \in SUBSET {l} /\ {l} \in SUBSET Lines
    OBVIOUS
  <2>3. queueReceived(queued, adds, {x \in {l} : ~line[x].refused})
        /\ UNCHANGED <<applied, asked, holder, faults>>
    BY <1>2, <2>1 DEF SettleAdd, SettleLine, stockVars, history
  <2> QED BY <1>0, <2>2, <2>3, QueueingStep
<1>3. ASSUME UNCHANGED <<row, applied, asked, holder, faults>> PROVE Calm' /\ Gathers
  BY <1>0, <1>3, AsideStep, GatherOn DEF Alone
<1> QED BY <1>1, <1>2, <1>3
     DEF Request, SettleCounted, SettleLine, Unreceive, stockVars, history

LEMMA HearCalm ==
  ASSUME ReceiptsAssumption, TypeOK, WorkIsQueued, Calm, NEW w \in Workers,
         (\E r \in Recipients : Tell(w, r)) \/ RefuseStock(w) \/ SkipStock(w) \/ MoveStock(w)
  PROVE  Calm' /\ Gathers
<1>0. Stock \in Recipients
  BY DEF ReceiptsAssumption
<1>1. UNCHANGED row
  BY DEF Tell, RefuseStock, SkipStock, MoveStock, DeliveredTo
<1>2. ASSUME NEW r \in Recipients, Tell(w, r) PROVE Calm'
  BY <1>2, HearStep DEF Tell, stockVars
<1>3. ASSUME RefuseStock(w) PROVE Calm'
  BY <1>0, <1>3, HearStep DEF RefuseStock, stockVars
<1>4. ASSUME SkipStock(w) PROVE Calm'
  BY <1>0, <1>4, HearStep DEF SkipStock, Satisfied, stockVars
<1>5. ASSUME MoveStock(w) PROVE Calm'
  BY <1>0, <1>5, HearStep DEF MoveStock
<1> QED BY <1>1, <1>2, <1>3, <1>4, <1>5, GatherOn

\* A failure: the work it ends is not calm any more.
LEMMA FaultCalm ==
  ASSUME ReceiptsAssumption, TypeOK, WorkIsQueued, Calm, NEW w \in Workers, Fault(w)
  PROVE  Calm' /\ Gathers
<1>1. ASSUME NEW op \in Ops, LockUnavailable(w, op) PROVE Calm'
  <2>1. Alone(w) /\ Apart(w)
    BY <1>1, ApartStep DEF LockUnavailable
  <2> QED BY <1>1, <2>1, AsideStep
       DEF LockUnavailable, Skip, GoesWrong, Alone, stockVars, history
<1>2. ASSUME Throw(w) PROVE Calm'
  <2> DEFINE q == [work[w] EXCEPT !.pc = "release", !.failed = TRUE]
  <2>1. work[w] \in Work /\ work[w].pc \in Busy
    BY <1>2 DEF Throw, TypeOK, Busy
  <2>2. q.pc = "release" /\ q.op = work[w].op
    BY <2>1 DEF Work
  <2>3. work' = [work EXCEPT ![w] = q] /\ faults' = faults \cup {"throw"}
        /\ UNCHANGED <<row, applied, asked, holder>>
    BY <1>2 DEF Throw, GoesWrong, stockVars, history
  <2> HIDE DEF q
  <2>4. Alone(w) /\ work'[w].pc = "release" /\ work'[w].op = work[w].op
    BY <2>2, <2>3, TurnsTo
  <2>5. HeldByItsWorker'
    BY <2>1, <2>3, <2>4, HeldOn
  <2>6. ToldIsSeen'
    BY <2>3, <2>4 DEF Calm, ToldIsSeen, Alone, Attending
  <2>7. AbsentIsBare' /\ CalmVisits'
    BY <2>3 DEF Calm, AbsentIsBare, CalmVisits
  <2> QED BY <2>5, <2>6, <2>7 DEF Calm
<1>3. ASSUME Crash(w) PROVE Calm'
  <2>1. /\ faults' = faults \cup {"crash"} /\ UNCHANGED <<row, applied, asked>>
        /\ work' = [work EXCEPT ![w] = Idle]
        /\ holder' = [op \in Ops |-> IF holder[op] = w THEN None ELSE holder[op]]
    BY <1>3 DEF Crash, GoesWrong, stockVars, history
  <2>2. Alone(w) /\ work'[w].pc = "idle"
    <3>1. Idle.pc = "idle"
      BY DEF Idle
    <3> QED BY <2>1, <3>1, TurnsTo
  <2>3. HeldByItsWorker'
    <3>1. ASSUME NEW v \in Workers, v # w, work[v].pc \in Busy, holder[work[v].op] = v
          PROVE  holder'[work[v].op] = v
      BY <2>1, <3>1, InHand
    <3> QED BY <2>1, <2>2, <3>1 DEF Calm, HeldByItsWorker, Alone, Busy
  <2>4. ToldIsSeen'
    BY <2>1, <2>2 DEF Calm, ToldIsSeen, Alone, Attending
  <2>5. AbsentIsBare' /\ CalmVisits'
    BY <2>1 DEF Calm, AbsentIsBare, CalmVisits
  <2> QED BY <2>3, <2>4, <2>5 DEF Calm
<1>4. ASSUME LoseLock(w) PROVE Calm'
  <2>1. faults' = faults \cup {"lock"} /\ UNCHANGED <<row, applied, asked, work>>
    BY <1>4 DEF LoseLock, GoesWrong, stockVars, history
  <2> QED BY <2>1 DEF Calm, HeldByItsWorker, ToldIsSeen, AbsentIsBare, CalmVisits
<1>5. UNCHANGED row
  BY DEF Fault, LockUnavailable, Skip, Throw, Crash, LoseLock
<1> QED BY <1>1, <1>2, <1>3, <1>4, <1>5, GatherOn DEF Fault

LEMMA NextCalm ==
  ASSUME ReceiptsAssumption, TypeOK, WorkIsQueued, Calm, [Next]_vars
  PROVE  Calm' /\ Gathers
<1>1. ASSUME NEW w \in Workers, Step(w) PROVE Calm' /\ Gathers
  <2>1. ASSUME Alone(w), Apart(w), UNCHANGED <<row, applied, asked, holder>>, faults \subseteq faults'
        PROVE  Calm' /\ Gathers
    BY <2>1, AsideStep, GatherOn DEF Alone
  <2>2. CASE Select(w) \/ EndFlush(w)
    BY <2>1, <2>2, ApartStep DEF Select, EndFlush, stockVars, history
  <2>3. ASSUME NEW op \in Ops, Lock(w, op) \/ LockHeld(w, op) PROVE Calm' /\ Gathers
    <3>1. CASE Lock(w, op)
      BY <3>1, LockStep, GatherOn DEF Lock
    <3>2. CASE LockHeld(w, op)
      BY <2>1, <3>2, ApartStep DEF LockHeld, Skip, stockVars, history
    <3> QED BY <2>3, <3>1, <3>2
  <2>4. CASE Read(w)
    BY <2>4, ReadStep, GatherOn DEF Read
  <2>5. CASE Release(w)
    BY <2>5, ReleaseStep, GatherOn DEF Release
  <2>6. ASSUME NEW b \in BOOLEAN, ClearReceived(w, b) PROVE Calm' /\ Gathers
    BY <2>1, <2>6, ApartStep DEF ClearReceived, stockVars, history
  <2>7. ASSUME NEW l \in Lines, Withdraw(w, l) PROVE Calm' /\ Gathers
    BY <2>1, <2>7, ApartStep DEF Withdraw, GoesWrong, history
  <2> QED BY <1>1, <2>2, <2>3, <2>4, <2>5, <2>6, <2>7, HearCalm, AcknowledgeStep, CompleteStep
       DEF Step
<1>2. ASSUME NEW w \in Workers, NEW due \in SUBSET Pending, Sweep(w, due) PROVE Calm' /\ Gathers
  <2>1. Alone(w) /\ Apart(w)
    BY <1>2, ApartStep
  <2> QED BY <1>2, <2>1, AsideStep, GatherOn DEF Sweep, Alone, stockVars, history
<1>3. CASE Heals \/ SetGone \/ UNCHANGED vars
  BY <1>3, AsideStep, GatherOn, HealKeeps DEF Heals, SetGone, vars, history
<1> QED BY <1>1, <1>2, <1>3, RequestCalm, FaultCalm DEF Next, Heals

LEMMA CalmAlways == Spec => [](IInv /\ Calm)
<1>1. Init => Calm
  <2> SUFFICES ASSUME Init PROVE Calm
    OBVIOUS
  <2>1. \A w \in Workers : work[w].pc = "idle"
    BY DEF Init, Idle
  <2>2. \A op \in Ops : row[op].state = "absent" /\ row[op].told = {} /\ ~row[op].adds
    BY DEF Init
  <2>3. HeldByItsWorker /\ ToldIsSeen /\ AbsentIsBare
    BY <2>1, <2>2 DEF Init, HeldByItsWorker, ToldIsSeen, AbsentIsBare, Busy, Attending
  <2>4. CalmVisits
    BY <2>1, <2>2 DEF Init, CalmVisits, Attending, Pending, Done, RefusalReachesPerson,
       RefusedPutNothing
  <2> QED BY <2>3, <2>4 DEF Calm
<1>2. IInv /\ Calm /\ [Next]_vars => Calm'
  BY NextCalm, ReceiptsAssumption DEF IInv
<1> QED BY <1>1, <1>2, Invariant, PTL DEF Spec

\* As long as nothing throws, dies or loses its lock, every refusal reaches a
\* person and is about stock that was not added (flushReceipts).
THEOREM CalmRefusalsReachPeople == Spec => []CalmRefusals
<1>1. Calm => CalmRefusals
  BY DEF Calm, CalmVisits, CalmRefusals, Undisturbed
<1> QED BY <1>1, CalmAlways, PTL

\* While no lock is lost, whatever else fails, no acknowledgement of a row is
\* written over with fewer: a receipt has one visit at a time, which started
\* from the row's own list (exclusive.run, flushReceipts).
THEOREM AcknowledgementsStay == Spec => AcknowledgedStays
<1>1. IInv /\ Calm /\ [Next]_vars =>
        ["lock" \notin faults => \A op \in Ops : row[op].told \subseteq row'[op].told]_vars
  BY NextCalm, ReceiptsAssumption DEF IInv, Gathers
<1> QED BY <1>1, CalmAlways, PTL DEF Spec, AcknowledgedStays

=============================================================================
