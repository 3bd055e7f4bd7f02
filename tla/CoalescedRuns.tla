---------------------------- MODULE CoalescedRuns ----------------------------
(***************************************************************************)
(* One key of a coalesced function (api/src/lib/per-key-coalesce.ts): a    *)
(* call starts a run, or joins the one run that is to follow the run under *)
(* way.  A run is named after the call that asked for it.  Between the end *)
(* of a run and the start of the one that waited for it other promises'    *)
(* callbacks run, and may call.                                            *)
(***************************************************************************)
CONSTANTS Calls    \* calls there may be

VARIABLES
  run,     \* [Calls -> what the run it asked for is doing]
  after,   \* [Calls -> the run that one waits for]
  joined,  \* [Calls -> the runs it returns with, at most one; none before it]
  running, \* the run the key has, as a set of at most one
  queued,  \* the run that waits for it, as a set of at most one
  sees,    \* history: [Calls -> the calls made before its run started]
  cut      \* history: a run started between two that follow one another

vars == <<run, after, joined, running, queued, sees, cut>>

TypeOK ==
  /\ run \in [Calls -> {"none", "waiting", "going", "over"}]
  /\ after \in [Calls -> Calls]
  /\ joined \in [Calls -> SUBSET Calls]
  /\ running \subseteq Calls /\ queued \subseteq Calls
  /\ sees \in [Calls -> SUBSET Calls]
  /\ cut \in BOOLEAN

Init ==
  /\ run = [c \in Calls |-> "none"]
  /\ after = [c \in Calls |-> c]
  /\ joined = [c \in Calls |-> {}]
  /\ running = {} /\ queued = {}
  /\ sees = [c \in Calls |-> {}]
  /\ cut = FALSE

Made == {c \in Calls : joined[c] # {}}
Going == {c \in Calls : run[c] = "going"}

\* Mutant: a call starts a run whether the key has one or not.
StartsAnyway(c) ==
  /\ c \notin Made
  /\ run' = [run EXCEPT ![c] = "going"]
  /\ running' = {c}
  /\ joined' = [joined EXCEPT ![c] = {c}]
  /\ sees' = [sees EXCEPT ![c] = Made \cup {c}]
  /\ cut' = (cut \/ queued # {})
  /\ UNCHANGED <<after, queued>>

callStarts(c) ==
  /\ c \notin Made /\ running = {}
  /\ run' = [run EXCEPT ![c] = "going"]
  /\ running' = {c}
  /\ joined' = [joined EXCEPT ![c] = {c}]
  /\ sees' = [sees EXCEPT ![c] = Made \cup {c}]
  /\ cut' = (cut \/ queued # {})
  /\ UNCHANGED <<after, queued>>

\* Mutant: a call made during a run joins it.
JoinsTheRun(c) ==
  /\ c \notin Made /\ running # {}
  /\ joined' = [joined EXCEPT ![c] = running]
  /\ UNCHANGED <<run, after, running, queued, sees, cut>>

\* Mutant: the run that is queued waits for itself.
WaitsForItself(c) ==
  /\ c \notin Made /\ running # {} /\ queued = {}
  /\ run' = [run EXCEPT ![c] = "waiting"]
  /\ queued' = {c}
  /\ joined' = [joined EXCEPT ![c] = {c}]
  /\ UNCHANGED <<after, running, sees, cut>>

callQueues(c) ==
  /\ c \notin Made /\ running # {} /\ queued = {}
  /\ run' = [run EXCEPT ![c] = "waiting"]
  /\ \E r \in running : after' = [after EXCEPT ![c] = r]
  /\ queued' = {c}
  /\ joined' = [joined EXCEPT ![c] = {c}]
  /\ UNCHANGED <<running, sees, cut>>

callJoins(c) ==
  /\ c \notin Made /\ running # {} /\ queued # {}
  /\ joined' = [joined EXCEPT ![c] = queued]
  /\ UNCHANGED <<run, after, running, queued, sees, cut>>

\* Ends well or not.  The key has no run then, whoever's it was.
ends(c) ==
  /\ c \in Going
  /\ run' = [run EXCEPT ![c] = "over"]
  /\ running' = {}
  /\ UNCHANGED <<after, joined, queued, sees, cut>>

followsOn(c) ==
  /\ run[c] = "waiting" /\ run[after[c]] = "over"
  /\ queued' = {}
  /\ run' = [run EXCEPT ![c] = "going"]
  /\ running' = {c}
  /\ sees' = [sees EXCEPT ![c] = Made]
  /\ UNCHANGED <<after, joined, cut>>

Next ==
  \E c \in Calls :
    callStarts(c) \/ callQueues(c) \/ callJoins(c) \/ ends(c) \/ followsOn(c)

Spec == Init /\ [][Next]_vars

\* A run ends, and a promise that is settled calls back.
Fairness == \A c \in Calls : WF_vars(ends(c) \/ followsOn(c))

FairSpec == Spec /\ Fairness

------------------------------------------------------------------------------
(* Properties                                                              *)

\* A call returns with a run that started after it: what it changed before
\* calling is seen by that run.
SeenByItsRun == \A c \in Made : \A r \in joined[c] : run[r] \in {"going", "over"} => c \in sees[r]

\* Every call returns.
EveryCallReturns == \A c \in Calls : c \in Made ~> \E r \in joined[c] : run[r] = "over"

\* One run at a time, unless a call came between a run and the one to follow
\* it (see ../README.md).
OneRunPerKey == ~cut => \A q, r \in Going : q = r
=============================================================================
