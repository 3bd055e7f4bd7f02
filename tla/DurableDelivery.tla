-------------------------- MODULE DurableDelivery --------------------------
(***************************************************************************)
(* What a durable event delivery promises, without saying how: an event    *)
(* recorded together with the change it reports is answered by every       *)
(* recipient before it is closed, and it is closed in the end.  The        *)
(* receipts of the purchases module (Receipts.tla) and the lines of the    *)
(* History (HistoryOutbox.tla) implement it.                               *)
(***************************************************************************)
CONSTANTS Ops,          \* identities of recorded events
          Recipients    \* who must answer an event

VARIABLES owed,         \* recorded and not closed yet
          closed,       \* never delivered again
          answered      \* [Ops -> SUBSET Recipients]: who has answered so far

ddVars == <<owed, closed, answered>>

DeliveryTypeOK ==
  /\ owed \subseteq Ops
  /\ closed \subseteq Ops
  /\ answered \in [Ops -> SUBSET Recipients]

Init ==
  /\ owed = {}
  /\ closed = {}
  /\ answered = [op \in Ops |-> {}]

\* The change and its events commit together.
Record(S) ==
  /\ S \cap (owed \cup closed) = {}
  /\ owed' = owed \cup S
  /\ UNCHANGED <<closed, answered>>

Answer(op, r) ==
  /\ op \in owed \cup closed
  /\ answered' = [answered EXCEPT ![op] = @ \cup {r}]
  /\ UNCHANGED <<owed, closed>>

Close(op) ==
  /\ op \in owed
  /\ answered[op] = Recipients
  /\ owed' = owed \ {op}
  /\ closed' = closed \cup {op}
  /\ UNCHANGED answered

Next ==
  \/ \E S \in SUBSET Ops : Record(S)
  \/ \E op \in Ops : Close(op) \/ \E r \in Recipients : Answer(op, r)

Spec == Init /\ [][Next]_ddVars

\* Nobody is passed over: a closed event was answered by every recipient.
ClosedMeansAnswered == \A op \in closed : answered[op] = Recipients
=============================================================================
