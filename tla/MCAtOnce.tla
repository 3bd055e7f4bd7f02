------------------------------ MODULE MCAtOnce ------------------------------
(***************************************************************************)
(* The four parts of the api that decide what happens when the same is     *)
(* asked for several times at once.  They share no state: in a behaviour   *)
(* one of them moves and the others have not begun.                        *)
(***************************************************************************)
EXTENDS RequestReplays

CONSTANTS
  Loads, Drops,    \* SharedMisses
  Calls,           \* CoalescedRuns
  Callers, Limits  \* SweepGate

\* How many workspaces may be held open is a count.
ASSUME LimitsAssumption == Limits \subseteq Nat

VARIABLES
  load, loading, done, lapsed, stamp, epoch, drops, stale, crossed,
  run, after, joined, running, queued, sees, runCut,
  place, active, waiting, limit, most, gateCut

Misses == INSTANCE SharedMisses
Runs   == INSTANCE CoalescedRuns WITH cut <- runCut
Gate   == INSTANCE SweepGate WITH pc <- place, cut <- gateCut

mVars == <<load, loading, done, lapsed, stamp, epoch, drops, stale, crossed>>
rVars == <<run, after, joined, running, queued, sees, runCut>>
gVars == <<place, active, waiting, limit, most, gateCut>>
allVars == <<vars, mVars, rVars, gVars>>

AllInit == Init /\ Misses!Init /\ Runs!Init /\ Gate!Init

\* The others move beside a gate that stands open for as many as it may be.
Beside == Gate!Init /\ \A l \in Limits : l <= limit

AllNext ==
  \/ Next         /\ Misses!Init /\ Runs!Init /\ Beside   /\ UNCHANGED <<mVars, rVars, gVars>>
  \/ Misses!Next  /\ Init /\ Runs!Init /\ Beside          /\ UNCHANGED <<vars, rVars, gVars>>
  \/ Runs!Next    /\ Init /\ Misses!Init /\ Beside        /\ UNCHANGED <<vars, mVars, gVars>>
  \/ Gate!Next    /\ Init /\ Misses!Init /\ Runs!Init        /\ UNCHANGED <<vars, mVars, rVars>>

AllSpec == AllInit /\ [][AllNext]_allVars /\ Runs!Fairness /\ Gate!Fairness

InvalidationStands == Misses!InvalidationStands
MissesAreShared == Misses!MissesAreShared
SeenByItsRun == Runs!SeenByItsRun
OneRunPerKey == Runs!OneRunPerKey
EveryCallReturns == Runs!EveryCallReturns
GateHolds == Gate!GateHolds
EveryWaiterPasses == Gate!EveryWaiterPasses
=============================================================================
