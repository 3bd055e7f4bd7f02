---------------------------- MODULE RequestReplays ----------------------------
(***************************************************************************)
(* Requests that carry one Idempotency-Key of one person                   *)
(* (api/src/platform/request-replays.ts): a write and its repeats, and     *)
(* whatever else was sent under its key.  The key's row in request_replays *)
(* says who is at it; every statement on the row is a step of its own.     *)
(* The handlers are external: one does its write and answers, or fails on  *)
(* the server, as a rule with nothing written.  Time is left to chance.    *)
(***************************************************************************)
EXTENDS FiniteSets, Naturals

CONSTANTS Requests,    \* requests sent with the key
          Others,      \* those of them with another body
          MaxFaults    \* bound: how many faults there may be, of any kind

ASSUME ReplaysAssumption == Others \subseteq Requests /\ MaxFaults \in Nat

VARIABLES
  pc,       \* [Requests -> where it is]
  row,      \* the key's row, as a set of at most one
  wrote,    \* requests whose handler did its write
  replayed, \* [Requests -> the request whose answer it was given, or itself]
  faults,   \* how many faults there have been
  slow,     \* history: a claim grew old while its request was still at work
  dropped,  \* history: a claim was given up, a row forgotten, or the key freed
            \* by a request that had written and failed
  taken     \* history: a row went from under a request still at work

vars == <<pc, row, wrote, replayed, faults, slow, dropped, taken>>

Other(r) == r \in Others
AtWork == {"run", "wrote", "failed"}
Row == [state : {"running", "done", "unreplayable"}, other : BOOLEAN, old : BOOLEAN,
        by : Requests]

TypeOK ==
  /\ pc \in [Requests -> {"idle", "claim", "look", "giveUp", "over"} \cup AtWork]
  /\ row \subseteq Row /\ Cardinality(row) <= 1
  /\ wrote \subseteq Requests
  /\ replayed \in [Requests -> Requests]
  /\ faults \in 0..MaxFaults
  /\ slow \in BOOLEAN /\ dropped \in BOOLEAN /\ taken \in BOOLEAN

Init ==
  /\ pc = [r \in Requests |-> "idle"]
  /\ row = {}
  /\ wrote = {}
  /\ replayed = [r \in Requests |-> r]
  /\ faults = 0
  /\ slow = FALSE /\ dropped = FALSE /\ taken = FALSE

GoesWrong == faults < MaxFaults /\ faults' = faults + 1
Goes(r, where) == pc' = [pc EXCEPT ![r] = where]

\* The row goes, perhaps from under the request it is of.
Clears(rest) ==
  /\ row' = rest
  /\ dropped' = (dropped \/ rest # row)
  /\ taken' = (taken \/ \E x \in row \ rest : pc[x.by] \in AtWork)

send(r) ==
  /\ pc[r] = "idle" /\ Goes(r, "claim")
  /\ UNCHANGED <<row, wrote, replayed, faults, slow, dropped, taken>>

\* Mutant: the insert takes over the row that is there.
ClaimsAnyRow(r) ==
  /\ pc[r] = "claim" /\ Goes(r, "run")
  /\ row' = {[state |-> "running", other |-> Other(r), old |-> FALSE, by |-> r]}
  /\ UNCHANGED <<wrote, replayed, faults, slow, dropped, taken>>

\* insert ... on conflict do nothing: whoever's row it is goes to the handler.
claim(r) ==
  /\ pc[r] = "claim"
  /\ \/ /\ row = {} /\ Goes(r, "run")
        /\ row' = {[state |-> "running", other |-> Other(r), old |-> FALSE, by |-> r]}
     \/ row # {} /\ Goes(r, "look") /\ UNCHANGED row
  /\ UNCHANGED <<wrote, replayed, faults, slow, dropped, taken>>

\* The row has gone meanwhile: it is claimed again.
lookNothing(r) ==
  /\ pc[r] = "look" /\ row = {} /\ Goes(r, "claim")
  /\ UNCHANGED <<row, wrote, replayed, faults, slow, dropped, taken>>

\* Mutant: the body is not looked at.
AnyBody(r, x) == TRUE

SameRequest(r, x) == x.other = Other(r)

\* Refused (another body), told it was done, or told it is still being done.
lookRefused(r) ==
  /\ pc[r] = "look" /\ Goes(r, "over")
  /\ \E x \in row : ~SameRequest(r, x) \/ x.state = "unreplayable" \/ (x.state = "running" /\ ~x.old)
  /\ UNCHANGED <<row, wrote, replayed, faults, slow, dropped, taken>>

lookDone(r) ==
  /\ pc[r] = "look" /\ Goes(r, "over")
  /\ \E x \in row : /\ SameRequest(r, x) /\ x.state = "done"
                    /\ replayed' = [replayed EXCEPT ![r] = x.by]
  /\ UNCHANGED <<row, wrote, faults, slow, dropped, taken>>

\* Still being done: waited for, or given up when it has been for too long.
lookRunning(r) ==
  /\ pc[r] = "look"
  /\ \E x \in row : /\ SameRequest(r, x) /\ x.state = "running"
                    /\ Goes(r, IF x.old THEN "giveUp" ELSE "claim")
  /\ UNCHANGED <<row, wrote, replayed, faults, slow, dropped, taken>>

\* A claim is deleted, though it need not be the one that was read.
giveUp(r) ==
  /\ pc[r] = "giveUp" /\ Goes(r, "claim")
  /\ Clears({x \in row : x.state # "running"})
  /\ UNCHANGED <<wrote, replayed, faults, slow>>

\* It may fail on the server after it has written.
handler(r) ==
  /\ pc[r] = "run"
  /\ \/ Goes(r, "wrote") /\ wrote' = wrote \cup {r} /\ UNCHANGED faults
     \/ Goes(r, "failed") /\ UNCHANGED <<wrote, faults>>
     \/ Goes(r, "failed") /\ wrote' = wrote \cup {r} /\ GoesWrong
  /\ UNCHANGED <<row, replayed, slow, dropped, taken>>

\* The answer goes under the key, whoever holds it now; a failure frees it.
\* The statement may fail: the row stays as it was.
settle(r) ==
  /\ pc[r] \in {"wrote", "failed"} /\ Goes(r, "over")
  /\ \/ /\ IF pc[r] = "failed" THEN row' = {}
           ELSE \E s \in {"done", "unreplayable"} :
                  row' = {[state |-> s, other |-> x.other, old |-> FALSE, by |-> r] : x \in row}
        /\ dropped' = (dropped \/ (pc[r] = "failed" /\ r \in wrote))
        /\ UNCHANGED faults
     \/ GoesWrong /\ UNCHANGED <<row, dropped>>
  /\ UNCHANGED <<wrote, replayed, slow, taken>>

------------------------------------------------------------------------------
\* Five minutes go by.
growsOld ==
  /\ \E x \in row : x.state = "running" /\ ~x.old
  /\ row' = {[state |-> x.state, other |-> x.other, old |-> TRUE, by |-> x.by] : x \in row}
  /\ slow' = (slow \/ \E x \in row : pc[x.by] \in AtWork)
  /\ UNCHANGED <<pc, wrote, replayed, faults, dropped, taken>>

\* A day goes by, which is longer: the sweep forgets the row.
forget ==
  /\ row # {} /\ \A x \in row : x.state = "running" => x.old
  /\ Clears({})
  /\ UNCHANGED <<pc, wrote, replayed, faults, slow>>

\* The process dies: nobody answers for what it had in hand.
crash ==
  /\ GoesWrong
  /\ pc' = [r \in Requests |-> IF pc[r] = "idle" THEN "idle" ELSE "over"]
  /\ UNCHANGED <<row, wrote, replayed, slow, dropped, taken>>

Next ==
  \/ \E r \in Requests :
       \/ send(r) \/ claim(r) \/ lookNothing(r) \/ lookRefused(r) \/ lookDone(r)
       \/ lookRunning(r) \/ giveUp(r) \/ handler(r) \/ settle(r)
  \/ growsOld \/ forget \/ crash

Spec == Init /\ [][Next]_vars

------------------------------------------------------------------------------
(* Properties                                                              *)

\* A retry never doubles: of the requests that are one write and its repeats,
\* one does the write, until a claim is given up, the row forgotten, or a
\* write answered as a failure.
RetryNeverDoubles ==
  ~dropped => \A q, r \in wrote : Other(q) = Other(r) => q = r

\* A repeat is only ever told done what a request has done; and that request
\* had its own body, whatever is given up, forgotten or crashes, until a claim
\* is taken from under a request at work: its answer may go under the next row.
AnsweredByItsWrite ==
  \A r \in Requests : replayed[r] # r =>
    /\ replayed[r] \in wrote
    /\ ~taken => Other(replayed[r]) = Other(r)

\* One still running is waited for: two are at work only when one of them has
\* been for too long.
RunningIsWaitedFor ==
  ~slow => \A q, r \in Requests : pc[q] \in AtWork /\ pc[r] \in AtWork => q = r
=============================================================================
