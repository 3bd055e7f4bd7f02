------------------------------ MODULE Receipts ------------------------------
(***************************************************************************)
(* Receiving the lines of one order: the receive outbox of the purchases   *)
(* module (modules/purchases/src/receive.ts), its durable delivery through *)
(* the event bus and the wires (api/src/platform/events.ts, wires.ts), the *)
(* try-lock each delivery runs under (api/src/platform/exclusive.ts), and  *)
(* the inventory stock write that answers it                               *)
(* (modules/inventory/src/api/action-handlers.ts).                         *)
(*                                                                         *)
(* A worker is one request or sweep visit in one api process.  Every       *)
(* action is one database statement or transaction, or one call whose      *)
(* result is awaited; workers interleave between any two of them.  Every   *)
(* line is one unit of the same part.                                      *)
(***************************************************************************)
EXTENDS Integers, FiniteSets, Functions

CONSTANTS Lines,        \* lines of the order, each naming the part
          OldLines,     \* those made before the arrival heal's date
          HealedLines,  \* those of them its first visit stamped and flagged
          Workers,      \* requests and sweep visits, each in its own process
          Ops,          \* operation ids (crypto.randomUUID), bounded
          Recipients,   \* the wires bound to purchases.order_item.received
          Stock,        \* the one that runs inventory:adjust-stock
          None,
          MaxFaults     \* how many kinds of fault may happen, each once

FaultKinds == {"throw", "crash", "lock"}

ASSUME ReceiptsAssumption ==
  /\ HealedLines \subseteq OldLines /\ OldLines \subseteq Lines
  /\ Stock \in Recipients
  /\ None \notin Lines \cup Workers \cup Ops
  /\ MaxFaults \in Nat

VARIABLES
  line,      \* purchases_order_items
  row,       \* purchases_receive_outbox
  shelf,     \* inventory_parts.qty of the part
  gone,      \* the part's disposition: marked gone, or deleted
  applied,   \* inventory_stock_operations of the part
  holder,    \* who holds the lock purchases:receipt:<org>:<op>
  work,      \* what each worker holds in memory
  faults,    \* the kinds of fault there have been
  moves,     \* history: how often each operation moved the shelf
  answered,  \* history: recipients that answered each operation
  asked,     \* history: operations whose refusal was put to a person
  askedAgain \* history: lines the heal asks about though their cost had been told

vars == <<line, row, shelf, gone, applied, holder, work, faults, moves, answered, asked, askedAgain>>
stockVars == <<shelf, gone, applied>>
history == <<moves, answered, asked, askedAgain>>

PCs == {"idle", "select", "lock", "read", "deliver", "ack", "release", "clear", "withdraw"}

Line == [received : BOOLEAN, unconfirmed : BOOLEAN, refused : BOOLEAN, withdrawn : BOOLEAN]
Row  == [state : {"absent", "pending", "done"}, line : Lines \cup {None},
         told : SUBSET Recipients, adds : BOOLEAN, costed : BOOLEAN]
Work == [pc : PCs, scope : SUBSET Lines, todo : SUBSET Ops, op : Ops \cup {None},
         seen : SUBSET Recipients, refused : BOOLEAN, failed : BOOLEAN,
         unreceives : BOOLEAN, takeBack : SUBSET Lines]

Ordered == [received |-> FALSE, unconfirmed |-> FALSE, refused |-> FALSE, withdrawn |-> FALSE]
Healed  == [Ordered EXCEPT !.received = TRUE, !.unconfirmed = TRUE]

Idle == [pc |-> "idle", scope |-> {}, todo |-> {}, op |-> None, seen |-> {},
         refused |-> FALSE, failed |-> FALSE, unreceives |-> FALSE, takeBack |-> {}]

TypeOK ==
  /\ line \in [Lines -> Line]
  /\ row \in [Ops -> Row]
  /\ shelf \in Nat
  /\ gone \in BOOLEAN
  /\ applied \subseteq Ops
  /\ holder \in [Ops -> Workers \cup {None}]
  /\ work \in [Workers -> Work]
  /\ faults \subseteq FaultKinds
  /\ moves \in [Ops -> Nat]
  /\ answered \in [Ops -> SUBSET Recipients]
  /\ asked \subseteq Ops
  /\ askedAgain \subseteq Lines

Init ==
  /\ line = [l \in Lines |-> IF l \in HealedLines THEN Healed ELSE Ordered]
  /\ row = [op \in Ops |-> [state |-> "absent", line |-> None, told |-> {},
                            adds |-> FALSE, costed |-> FALSE]]
  /\ shelf = 0
  /\ gone = FALSE
  /\ applied = {}
  /\ holder = [op \in Ops |-> None]
  /\ work = [w \in Workers |-> Idle]
  /\ faults = {}
  /\ moves = [op \in Ops |-> 0]
  /\ answered = [op \in Ops |-> {}]
  /\ asked = {}
  /\ askedAgain = {}

Pending == {op \in Ops : row[op].state = "pending"}
Done    == {op \in Ops : row[op].state = "done"}
Fresh   == {op \in Ops : row[op].state = "absent"}

GoesWrong(kind) ==
  /\ kind \notin faults
  /\ Cardinality(faults) < MaxFaults
  /\ faults' = faults \cup {kind}

------------------------------------------------------------------------------
(* Requests: each commits its own transaction, then flushes a scope.       *)

\* The queued row of each line: a line received once before, or refused
\* after telling its spend, is not costed again.
queueReceived(queued, adds, costed) ==
  row' = [op \in Ops |->
            IF op \in Range(queued)
            THEN LET l == CHOOSE x \in DOMAIN queued : queued[x] = op
                 IN [state |-> "pending", line |-> l, told |-> {}, adds |-> adds,
                     costed |-> l \in costed]
            ELSE row[op]]

StartFlush(w, lines) == work' = [work EXCEPT ![w] = [Idle EXCEPT !.pc = "select", !.scope = lines]]

\* receiveOrderLines stamps every unreceived line and flushes the order,
\* receiveOrderLine stamps one line and flushes it.
Receive(w, S, queued, adds) ==
  /\ work[w].pc = "idle"
  /\ S # {}
  /\ \A l \in S : ~line[l].received
  /\ queued \in Injection(S, Fresh)
  /\ line' = [l \in Lines |-> IF l \in S THEN [line[l] EXCEPT !.received = TRUE] ELSE line[l]]
  /\ queueReceived(queued, adds, {l \in S : ~line[l].withdrawn})
  /\ \/ S = {l \in Lines : ~line[l].received} /\ StartFlush(w, Lines)
     \/ Cardinality(S) = 1 /\ StartFlush(w, S)
  /\ UNCHANGED <<stockVars, holder, faults, history>>

\* settleUnconfirmedLine clears the question in the statement that reads it.
SettleLine(w, l) ==
  /\ work[w].pc = "idle"
  /\ line[l].unconfirmed
  /\ line' = [line EXCEPT ![l] = [@ EXCEPT !.unconfirmed = FALSE, !.refused = FALSE]]
  /\ StartFlush(w, {l})
  /\ UNCHANGED <<stockVars, holder, faults, history>>

\* Mutant: the settled line's spend is told again.
SettleAddTellsAgain(w, l, queued) ==
  /\ SettleLine(w, l)
  /\ queueReceived(queued, TRUE, {l})

SettleAdd(w, l, queued) ==
  /\ SettleLine(w, l)
  /\ queueReceived(queued, TRUE, {x \in {l} : ~line[x].refused})

SettleCounted(w, l) == SettleLine(w, l) /\ UNCHANGED row

\* A shipping notice takes the whole order's receive back, after a flush.
Unreceive(w) ==
  /\ work[w].pc = "idle"
  /\ work' = [work EXCEPT ![w] = [Idle EXCEPT !.pc = "select", !.scope = Lines, !.unreceives = TRUE]]
  /\ UNCHANGED <<line, row, stockVars, holder, faults, history>>

\* The retry sweep takes the rows whose backoff has run out.
Sweep(w, due) ==
  /\ work[w].pc = "idle"
  /\ due \subseteq Pending /\ due # {}
  /\ work' = [work EXCEPT ![w] = [Idle EXCEPT !.pc = "lock", !.todo = due]]
  /\ UNCHANGED <<line, row, stockVars, holder, faults, history>>

------------------------------------------------------------------------------
(* flushReceipts: the rows of the scope, one by one, each under its lock.  *)

InScope(w) == {op \in Pending : row[op].line \in work[w].scope}

Select(w) ==
  /\ work[w].pc = "select"
  /\ work' = [work EXCEPT ![w] = [@ EXCEPT !.pc = "lock", !.scope = {}, !.todo = InScope(w)]]
  /\ UNCHANGED <<line, row, stockVars, holder, faults, history>>

\* Mutant: nobody asks whether the lock is taken.
LockAnyway(w, op) ==
  /\ work[w].pc = "lock"
  /\ op \in work[w].todo
  /\ holder' = [holder EXCEPT ![op] = w]
  /\ work' = [work EXCEPT ![w] = [@ EXCEPT !.pc = "read", !.op = op, !.todo = work[w].todo \ {op}]]
  /\ UNCHANGED <<line, row, stockVars, faults, history>>

Lock(w, op) ==
  /\ work[w].pc = "lock"
  /\ op \in work[w].todo
  /\ holder[op] = None
  /\ holder' = [holder EXCEPT ![op] = w]
  /\ work' = [work EXCEPT ![w] = [@ EXCEPT !.pc = "read", !.op = op, !.todo = work[w].todo \ {op}]]
  /\ UNCHANGED <<line, row, stockVars, faults, history>>

\* exclusive.run answered ran: false.
Skip(w, op) ==
  /\ work[w].pc = "lock"
  /\ op \in work[w].todo
  /\ work' = [work EXCEPT ![w] = [@ EXCEPT !.todo = work[w].todo \ {op}, !.failed = TRUE]]
  /\ UNCHANGED <<line, row, stockVars, holder, history>>

LockHeld(w, op)        == Skip(w, op) /\ holder[op] # None /\ UNCHANGED faults
LockUnavailable(w, op) == Skip(w, op) /\ GoesWrong("lock")

\* Mutant: the visit does not start from the recipients already told.
ReadFromScratch(w) ==
  LET op == work[w].op IN
  /\ work[w].pc = "read"
  /\ work' = [work EXCEPT ![w] = IF op \in Pending
                                 THEN [@ EXCEPT !.pc = "deliver", !.seen = {}, !.refused = FALSE]
                                 ELSE [@ EXCEPT !.pc = "release"]]
  /\ UNCHANGED <<line, row, stockVars, holder, faults, history>>

\* Under the lock the row is read again: done meanwhile, nothing is delivered.
Read(w) ==
  LET op == work[w].op IN
  /\ work[w].pc = "read"
  /\ work' = [work EXCEPT ![w] = IF op \in Pending
                                 THEN [@ EXCEPT !.pc = "deliver", !.seen = row[op].told, !.refused = FALSE]
                                 ELSE [@ EXCEPT !.pc = "release"]]
  /\ UNCHANGED <<line, row, stockVars, holder, faults, history>>

\* fireBindings: a recipient already acknowledged is passed over.
Delivering(w, r) ==
  /\ work[w].pc = "deliver"
  /\ r \in Recipients \ work[w].seen

DeliveredTo(w, r, refused) ==
  /\ work' = [work EXCEPT ![w] = [@ EXCEPT !.pc = "ack", !.seen = work[w].seen \cup {r},
                                          !.refused = work[w].refused \/ refused]]
  /\ answered' = [answered EXCEPT ![work[w].op] = @ \cup {r}]
  /\ UNCHANGED <<line, row, holder, faults, asked, askedAgain>>

Tell(w, r) ==
  /\ Delivering(w, r)
  /\ r # Stock
  /\ DeliveredTo(w, r, FALSE)
  /\ UNCHANGED <<stockVars, moves>>

\* withBatchesIn refuses a part that is gone before stockDeltaIn looks the
\* operation up.
RefusesForGood(op) == row[op].adds /\ gone

RefuseStock(w) ==
  /\ Delivering(w, Stock)
  /\ RefusesForGood(work[w].op)
  /\ DeliveredTo(w, Stock, TRUE)
  /\ UNCHANGED <<stockVars, moves>>

\* Mutant: the operation is not looked up.
SatisfiedWithoutLookup(op) == ~row[op].adds

\* Nothing to do: no stock was asked for, or the operation was applied before.
Satisfied(op) == ~row[op].adds \/ op \in applied

SkipStock(w) ==
  /\ Delivering(w, Stock)
  /\ ~RefusesForGood(work[w].op)
  /\ Satisfied(work[w].op)
  /\ DeliveredTo(w, Stock, FALSE)
  /\ UNCHANGED <<stockVars, moves>>

MoveStock(w) ==
  LET op == work[w].op IN
  /\ Delivering(w, Stock)
  /\ ~RefusesForGood(op)
  /\ ~Satisfied(op)
  /\ applied' = applied \cup {op}
  /\ shelf' = shelf + 1
  /\ moves' = [moves EXCEPT ![op] = @ + 1]
  /\ DeliveredTo(w, Stock, FALSE)
  /\ UNCHANGED gone

\* The acknowledgement writes the worker's own list over the row's.
Acknowledge(w) ==
  /\ work[w].pc = "ack"
  /\ row' = [row EXCEPT ![work[w].op].told = work[w].seen]
  /\ work' = [work EXCEPT ![w] = [@ EXCEPT !.pc = "deliver"]]
  /\ UNCHANGED <<line, stockVars, holder, faults, history>>

\* Mutant: one answered recipient is enough.
CompleteAfterOne(w) ==
  LET op == work[w].op IN
  /\ work[w].pc = "deliver"
  /\ work[w].seen # {}
  /\ row' = [row EXCEPT ![op].state = "done"]
  /\ line' = line
  /\ asked' = asked
  /\ work' = [work EXCEPT ![w] = [@ EXCEPT !.pc = "release"]]
  /\ UNCHANGED <<stockVars, holder, faults, moves, answered, askedAgain>>

\* emit returned: the row is closed, with the refusals this visit heard.
Complete(w) ==
  LET op == work[w].op IN
  /\ work[w].pc = "deliver"
  /\ Recipients \subseteq work[w].seen
  /\ row' = [row EXCEPT ![op].state = "done"]
  /\ line' = IF work[w].refused
             THEN [line EXCEPT ![row[op].line] = [@ EXCEPT !.unconfirmed = TRUE, !.refused = TRUE]]
             ELSE line
  /\ asked' = IF work[w].refused THEN asked \cup {op} ELSE asked
  /\ work' = [work EXCEPT ![w] = [@ EXCEPT !.pc = "release"]]
  /\ UNCHANGED <<stockVars, holder, faults, moves, answered, askedAgain>>

\* Any awaited call of the delivery may throw, the recipient's write done or
\* not; the catch saves the failure and the row keeps its place in the outbox.
Throw(w) ==
  /\ work[w].pc \in {"deliver", "ack"}
  /\ GoesWrong("throw")
  /\ work' = [work EXCEPT ![w] = [@ EXCEPT !.pc = "release", !.failed = TRUE]]
  /\ UNCHANGED <<line, row, stockVars, holder, history>>

\* Mutant: the lock stays behind.
ReleaseNothing(w) ==
  /\ work[w].pc = "release"
  /\ work' = [work EXCEPT ![w] = [@ EXCEPT !.pc = "lock", !.op = None, !.seen = {}, !.refused = FALSE]]
  /\ UNCHANGED <<line, row, stockVars, holder, faults, history>>

Release(w) ==
  LET op == work[w].op IN
  /\ work[w].pc = "release"
  /\ holder' = [holder EXCEPT ![op] = IF @ = w THEN None ELSE @]
  /\ work' = [work EXCEPT ![w] = [@ EXCEPT !.pc = "lock", !.op = None, !.seen = {}, !.refused = FALSE]]
  /\ UNCHANGED <<line, row, stockVars, faults, history>>

\* ReceiptPending ends the request, so a failed flush takes nothing back.
EndFlush(w) ==
  /\ work[w].pc = "lock"
  /\ work[w].todo = {}
  /\ work' = [work EXCEPT ![w] = IF @.unreceives /\ ~@.failed THEN [Idle EXCEPT !.pc = "clear"] ELSE Idle]
  /\ UNCHANGED <<line, row, stockVars, holder, faults, history>>

------------------------------------------------------------------------------
(* unreceiveOrderLines, after its flush.                                   *)

ClearReceived(w, orderAdds) ==
  /\ work[w].pc = "clear"
  /\ line' = [l \in Lines |->
                IF line[l].received
                THEN [received |-> FALSE, withdrawn |-> TRUE, refused |-> FALSE,
                      unconfirmed |-> line[l].unconfirmed /\ ~line[l].refused]
                ELSE line[l]]
  /\ LET taken == {l \in Lines : orderAdds /\ line[l].received /\ ~line[l].refused}
     IN  work' = [work EXCEPT ![w] = IF taken = {} THEN Idle
                                     ELSE [Idle EXCEPT !.pc = "withdraw", !.takeBack = taken]]
  /\ UNCHANGED <<row, stockVars, holder, faults, history>>

\* Mutant: a withdrawal with no floor.
WithdrawBelowZero(w, l) ==
  /\ work[w].pc = "withdraw"
  /\ l \in work[w].takeBack
  /\ shelf' = shelf - 1
  /\ work' = [work EXCEPT ![w] = IF @.takeBack = {l} THEN Idle
                                 ELSE [@ EXCEPT !.takeBack = work[w].takeBack \ {l}]]
  /\ UNCHANGED <<line, row, gone, applied, holder, faults, history>>

\* A plain event: the stock floor may refuse it, and a throw is only logged.
Withdraw(w, l) ==
  /\ work[w].pc = "withdraw"
  /\ l \in work[w].takeBack
  /\ \/ shelf' = (IF gone \/ shelf = 0 THEN shelf ELSE shelf - 1) /\ UNCHANGED faults
     \/ GoesWrong("throw") /\ UNCHANGED shelf
  /\ work' = [work EXCEPT ![w] = IF @.takeBack = {l} THEN Idle
                                 ELSE [@ EXCEPT !.takeBack = work[w].takeBack \ {l}]]
  /\ UNCHANGED <<line, row, gone, applied, holder, history>>

------------------------------------------------------------------------------
(* What happens around them.                                               *)

\* The process dies: its memory is lost and its session's locks are freed.
Crash(w) ==
  /\ work[w].pc # "idle"
  /\ GoesWrong("crash")
  /\ work' = [work EXCEPT ![w] = Idle]
  /\ holder' = [op \in Ops |-> IF holder[op] = w THEN None ELSE holder[op]]
  /\ UNCHANGED <<line, row, stockVars, history>>

\* The lock's connection drops; the work it guarded goes on.
LoseLock(w) ==
  /\ \E op \in Ops : holder[op] = w
  /\ GoesWrong("lock")
  /\ holder' = [op \in Ops |-> IF holder[op] = w THEN None ELSE holder[op]]
  /\ UNCHANGED <<line, row, stockVars, work, history>>

\* A later visit of the arrival heal, at a boot: whoever took the arrival had
\* died before the line was stamped.  The heal stamps it, and asks about it or
\* does not.
Heal(l) ==
  /\ l \in OldLines /\ ~line[l].received
  /\ GoesWrong("crash")
  /\ \E asks \in BOOLEAN :
       /\ line' = [line EXCEPT ![l] = [@ EXCEPT !.received = TRUE, !.unconfirmed = asks]]
       /\ askedAgain' = IF asks /\ \E op \in Ops : row[op].costed /\ row[op].line = l
                        THEN askedAgain \cup {l} ELSE askedAgain
  /\ UNCHANGED <<row, stockVars, holder, work, moves, answered, asked>>

\* A person marks the part gone, or brings it back.
SetGone ==
  /\ gone' = ~gone
  /\ UNCHANGED <<line, row, shelf, applied, holder, work, faults, history>>

Request(w) ==
  \/ \E S \in SUBSET Lines : \E adds \in BOOLEAN : \E queued \in Injection(S, Fresh) :
       Receive(w, S, queued, adds)
  \/ \E l \in Lines : SettleCounted(w, l) \/ \E queued \in Injection({l}, Fresh) : SettleAdd(w, l, queued)
  \/ Unreceive(w)

Step(w) ==
  \/ Select(w)
  \/ \E op \in Ops : Lock(w, op) \/ LockHeld(w, op)
  \/ Read(w)
  \/ \E r \in Recipients : Tell(w, r)
  \/ RefuseStock(w) \/ SkipStock(w) \/ MoveStock(w)
  \/ Acknowledge(w) \/ Complete(w) \/ Release(w) \/ EndFlush(w)
  \/ \E orderAdds \in BOOLEAN : ClearReceived(w, orderAdds)
  \/ \E l \in Lines : Withdraw(w, l)

Fault(w) ==
  \/ \E op \in Ops : LockUnavailable(w, op)
  \/ Throw(w) \/ Crash(w) \/ LoseLock(w)

Next ==
  \/ SetGone
  \/ \E l \in Lines : Heal(l)
  \/ \E w \in Workers : Request(w) \/ Step(w) \/ Fault(w) \/ \E due \in SUBSET Pending : Sweep(w, due)

\* A worker that has started goes on, and every pending row falls due to the
\* retry sweep again and again (registerReceiptRetries, every minute).
Fairness ==
  /\ \A w \in Workers : WF_vars(Step(w))
  /\ \A op \in Ops : SF_vars(\E w \in Workers : \E due \in SUBSET Pending : op \in due /\ Sweep(w, due))

Spec == Init /\ [][Next]_vars
FairSpec == Spec /\ Fairness

------------------------------------------------------------------------------
(* Properties.                                                             *)

\* One receipt moves the shelf at most once, whatever is retried, however
\* many workers deliver it after a lock is lost, and wherever they die: the
\* promise of inventory_stock_operations (stockDeltaIn).
StockOnce == \A op \in Ops : moves[op] <= 1

\* A line's cost is told by one receipt only, across taking the receive back,
\* receiving it again and a person adding its stock later (queueReceived), unless
\* the heal asks about a line that was received before (see ../README.md).
CostToldOnce ==
  \A p, q \in Ops :
    row[p].costed /\ row[q].costed /\ row[p].line = row[q].line /\ row[p].line \notin askedAgain
      => p = q

\* A receipt is closed only when every recipient has answered it, the
\* acknowledgements of all visits taken together (flushReceipts and emit).
Delivery == INSTANCE DurableDelivery WITH owed <- Pending, closed <- Done
ImplementsDelivery == Delivery!Spec

Undisturbed == faults = {}

\* Stock a refused receipt did not add is a question to a person: a closed
\* receipt moved the shelf or was put to somebody (flushReceipts).
RefusalReachesPerson == \A op \in Done : row[op].adds => op \in applied \cup asked

\* A receipt put to a person as refused put nothing on the shelf, so adding
\* its stock later adds it once (receive.ts, migration 0019).
RefusedPutNothing == asked \cap applied = {}

\* As long as nothing throws, dies or loses its lock, every refusal reaches
\* a person and is about stock that was not added.
CalmRefusals == Undisturbed => RefusalReachesPerson /\ RefusedPutNothing

\* While no lock is lost, a delivery is one worker's: the acknowledgements a
\* row has gathered are never written over with fewer.
AcknowledgedStays ==
  [][ "lock" \notin faults => \A op \in Ops : row[op].told \subseteq row'[op].told]_vars

\* The retry sweep closes every receipt in the end.
EveryReceiptCloses == \A op \in Ops : row[op].state = "pending" ~> row[op].state = "done"
=============================================================================
