----------------------------- MODULE AtOnceProofs -----------------------------
(***************************************************************************)
(* Proofs about the parts of MCAtOnce.tla: the misses that are shared, the  *)
(* runs that are coalesced and the gate of the sweeps, each for any number  *)
(* of callers.                                                              *)
(***************************************************************************)
EXTENDS MCAtOnce, Sequences, FiniteSetTheorems, TLAPS

------------------------------------------------------------------------------
(* SharedMisses                                                            *)

\* What the variables of the cache hold.
MissTypes ==
  /\ load \in [Loads -> [pc : {"none", "going", "over"}, startedAt : Nat]]
  /\ loading \subseteq Loads /\ done \subseteq Loads
  /\ stamp \in Nat /\ epoch \in Nat

\* The shared load is one, and a load under way that is not shared is stale.
SharedIsFresh ==
  /\ \A k, l \in loading : k = l
  /\ Misses!Going \ stale \subseteq loading

\* A load that has not begun is not stale.
StaleHaveBegun == \A l \in stale : load[l].pc # "none"

\* The generation never falls below the one a load started at, and has passed
\* it when the load is stale.
GenerationsGrow ==
  \A l \in Misses!Going :
    load[l].startedAt <= Misses!gen /\ (l \in stale => load[l].startedAt < Misses!gen)

MissInv ==
  /\ MissTypes
  /\ SharedIsFresh
  /\ StaleHaveBegun
  /\ ~crossed => GenerationsGrow
  /\ Misses!InvalidationStands

LEMMA MissInit == Misses!Init => MissInv
  BY DEF Misses!Init, MissInv, MissTypes, SharedIsFresh, StaleHaveBegun, GenerationsGrow,
         Misses!InvalidationStands, Misses!Going

LEMMA getKeeps ==
  ASSUME MissInv, NEW l \in Loads, Misses!get(l)
  PROVE  MissInv'
<1> USE DEF MissInv, Misses!get
<1>1. Misses!gen \in Nat /\ Misses!gen' = Misses!gen
  BY DEF MissTypes, Misses!gen
<1>2. load' = [load EXCEPT ![l] = [pc |-> "going", startedAt |-> Misses!gen]] /\ l \notin stale
  BY DEF StaleHaveBegun
<1>3. MissTypes'
  BY <1>1, <1>2 DEF MissTypes
<1>4. Misses!Going' = Misses!Going \cup {l}
  BY <1>2 DEF MissTypes, Misses!Going
<1>5. SharedIsFresh'
  BY <1>4 DEF SharedIsFresh
<1>6. StaleHaveBegun'
  BY <1>2 DEF MissTypes, StaleHaveBegun
<1>7. ~crossed' => GenerationsGrow'
  BY <1>1, <1>2, <1>4 DEF MissTypes, GenerationsGrow
<1>8. Misses!InvalidationStands'
  BY DEF Misses!InvalidationStands
<1> QED  BY <1>3, <1>5, <1>6, <1>7, <1>8

\* What is kept was read at the generation of now, so it is not stale.
LEMMA LoadEnds ==
  ASSUME MissInv, NEW l \in Loads, Misses!resolved(l) \/ Misses!rejected(l)
  PROVE  MissInv'
<1> USE DEF MissInv
<1>1. /\ l \in Misses!Going /\ load' = [load EXCEPT ![l].pc = "over"]
      /\ loading' = loading \ {l}
      /\ UNCHANGED <<stamp, epoch, stale, crossed>>
      /\ done' = done \/ (Misses!Kept(l) /\ done' = {l})
  BY DEF Misses!resolved, Misses!rejected, Misses!StillShared
<1>2. MissTypes'
  BY <1>1 DEF MissTypes
<1>3. Misses!Going' = Misses!Going \ {l} /\ \A k \in Misses!Going' : load'[k] = load[k]
  BY <1>1 DEF MissTypes, Misses!Going
<1>4. SharedIsFresh'
  BY <1>1, <1>3 DEF SharedIsFresh
<1>5. StaleHaveBegun'
  BY <1>1 DEF MissTypes, StaleHaveBegun, Misses!Going
<1>6. Misses!gen' = Misses!gen /\ Misses!gen \in Nat
  BY <1>1 DEF Misses!gen, MissTypes
<1>7. ~crossed' => GenerationsGrow'
  BY <1>1, <1>3, <1>6 DEF GenerationsGrow
<1>8. ~crossed /\ Misses!Kept(l) => l \notin stale
  <2>1. load[l].startedAt \in Nat
    BY DEF MissTypes
  <2> QED  BY <1>1, <1>6, <2>1 DEF GenerationsGrow, Misses!Kept
<1>9. Misses!InvalidationStands'
  BY <1>1, <1>8 DEF Misses!InvalidationStands
<1> QED  BY <1>2, <1>4, <1>5, <1>7, <1>9

\* An invalidation makes every load stale, and moves the generation on unless
\* every load under way was stale before it.
LEMMA InvalidationKeeps ==
  ASSUME MissInv, Misses!delete \/ Misses!forgetPrefix \/ Misses!clear
  PROVE  MissInv'
<1> USE DEF MissInv
<1>1. /\ done' = {} /\ loading' = {} /\ load' = load
      /\ stale' = {l \in Loads : load[l].pc # "none"}
  BY DEF Misses!delete, Misses!forgetPrefix, Misses!clear, Misses!Invalidates
<1>2. stamp' \in Nat /\ epoch' \in Nat
  BY DEF MissTypes, Misses!delete, Misses!forgetPrefix, Misses!clear, Misses!Seen
<1>3. MissTypes'
  BY <1>1, <1>2 DEF MissTypes
<1>4. Misses!Going' = Misses!Going /\ Misses!Going \subseteq stale'
  BY <1>1 DEF Misses!Going
<1>5. SharedIsFresh'
  BY <1>1, <1>4 DEF SharedIsFresh
<1>6. StaleHaveBegun'
  BY <1>1 DEF StaleHaveBegun
<1>7. ASSUME ~crossed', NEW l \in Misses!Going
      PROVE  load[l].startedAt < Misses!gen'
  <2>1. ~crossed
    BY <1>7 DEF Misses!delete, Misses!forgetPrefix, Misses!clear
  <2>2. load[l].startedAt <= Misses!gen /\ (l \in stale => load[l].startedAt < Misses!gen)
    BY <1>7, <2>1 DEF GenerationsGrow
  <2>3. load[l].startedAt \in Nat /\ Misses!gen \in Nat /\ stamp \in Nat /\ epoch \in Nat
    BY <1>7 DEF MissTypes, Misses!Going, Misses!gen
  <2>4. CASE Misses!delete
    BY <2>2, <2>3, <2>4 DEF Misses!delete, Misses!gen
  <2>5. CASE Misses!forgetPrefix
    <3>1. l \in stale \/ loading # {}
      BY <1>7 DEF SharedIsFresh
    <3>2. loading # {} => Misses!gen' > Misses!gen
      BY <2>3, <2>5 DEF Misses!forgetPrefix, Misses!Seen, Misses!gen
    <3>3. Misses!gen' >= Misses!gen /\ Misses!gen' \in Nat
      BY <2>3, <2>5 DEF Misses!forgetPrefix, Misses!Seen, Misses!gen
    <3> QED  BY <2>2, <2>3, <3>1, <3>2, <3>3
  <2>6. CASE Misses!clear
    <3>1. ~(stamp > 0 /\ Misses!Going # {})
      BY <1>7, <2>6, Zenon DEF Misses!clear
    <3>2. stamp = 0
      BY <1>7, <2>3, <3>1
    <3> QED  BY <2>2, <2>3, <2>6, <3>2 DEF Misses!clear, Misses!gen
  <2> QED  BY <2>4, <2>5, <2>6
<1>10. Misses!gen' \in Nat
  <2>1. \A a, b \in Nat : a + b \in Nat
    OBVIOUS
  <2> QED  BY <1>2, <2>1 DEF Misses!gen
<1>8. ~crossed' => GenerationsGrow'
  <2> SUFFICES ASSUME ~crossed', NEW l \in Misses!Going
               PROVE  load'[l].startedAt <= Misses!gen' /\ load'[l].startedAt < Misses!gen'
    BY <1>4 DEF GenerationsGrow
  <2>1. load[l].startedAt < Misses!gen'
    BY <1>7
  <2>3. load[l].startedAt \in Nat
    BY DEF MissTypes, Misses!Going
  <2> QED  BY <1>1, <1>10, <2>1, <2>3
<1>9. Misses!InvalidationStands'
  BY <1>1 DEF Misses!InvalidationStands
<1> QED  BY <1>3, <1>5, <1>6, <1>8, <1>9

LEMMA MissStep ==
  ASSUME MissInv, [Misses!Next]_Misses!vars
  PROVE  MissInv'
<1>1. CASE UNCHANGED Misses!vars \/ Misses!lapse
  BY <1>1 DEF Misses!vars, Misses!lapse, MissInv, MissTypes, SharedIsFresh, StaleHaveBegun,
              GenerationsGrow, Misses!gen, Misses!InvalidationStands, Misses!Going
<1>2. CASE Misses!Next /\ ~Misses!lapse
  BY <1>2, getKeeps, LoadEnds, InvalidationKeeps DEF Misses!Next
<1> QED  BY <1>1, <1>2

\* The inductive invariant: the generation of the key says which of the loads
\* under way were overtaken by an invalidation.
THEOREM MissInvariant == Misses!Spec => []MissInv
<1> QED  BY MissInit, MissStep, PTL DEF Misses!Spec

\* No answer read before an invalidation is kept after it, until a clear
\* follows a delete under a load (get, delete, clear).
THEOREM InvalidationsStand == Misses!Spec => []InvalidationStands
<1>1. MissInv => InvalidationStands
  BY DEF InvalidationStands, MissInv
<1> QED  BY MissInvariant, <1>1, PTL

\* Of the loads that no invalidation has overtaken one is under way (get).
THEOREM OneLoadPerMiss == Misses!Spec => []MissesAreShared
<1>1. MissInv => MissesAreShared
  BY DEF MissesAreShared, MissInv, SharedIsFresh, Misses!MissesAreShared
<1> QED  BY MissInvariant, <1>1, PTL

------------------------------------------------------------------------------
(* CoalescedRuns                                                           *)

\* What the variables of the runs hold.
RunTypes ==
  /\ run \in [Calls -> {"none", "waiting", "going", "over"}]
  /\ after \in [Calls -> Calls]
  /\ joined \in [Calls -> SUBSET Calls]
  /\ running \subseteq Calls /\ queued \subseteq Calls
  /\ sees \in [Calls -> SUBSET Calls]
  /\ runCut \in BOOLEAN

\* A call that was not made asked for no run; one run waits at most, and it is
\* the one calls may join.
RunQueue ==
  /\ \A c \in Calls : c \notin Runs!Made => run[c] = "none"
  /\ \A c \in Calls : run[c] = "waiting" <=> c \in queued
  /\ \A p, q \in queued : p = q

\* Until a run comes between two, the key's run is the one under way, and the
\* one that waits, waits for it.
RunsInTurn ==
  /\ \A p, q \in running : p = q
  /\ ~runCut => Runs!Going = running /\ \A c \in queued : running \subseteq {after[c]}

RunInv ==
  /\ RunTypes
  /\ RunQueue
  /\ RunsInTurn
  /\ Runs!SeenByItsRun

LEMMA RunInit == Runs!Init => RunInv
  BY DEF Runs!Init, RunInv, RunTypes, RunQueue, RunsInTurn, Runs!SeenByItsRun, Runs!Made, Runs!Going

LEMMA callStartsKeeps ==
  ASSUME RunInv, NEW c \in Calls, Runs!callStarts(c)
  PROVE  RunInv'
<1> USE DEF RunInv, Runs!callStarts
<1>1. run[c] = "none"
  BY DEF RunQueue
<1>2. RunTypes'
  BY DEF RunTypes, Runs!Made
<1>3. Runs!Made' = Runs!Made \cup {c} /\ Runs!Going' = Runs!Going \cup {c}
  BY DEF RunTypes, Runs!Made, Runs!Going
<1>4. RunQueue'
  BY <1>1, <1>3 DEF RunTypes, RunQueue
<1>5. RunsInTurn'
  BY <1>3 DEF RunsInTurn, RunTypes
<1>6. Runs!SeenByItsRun'
  BY <1>1, <1>3 DEF Runs!SeenByItsRun, RunTypes, Runs!Made
<1> QED  BY <1>2, <1>4, <1>5, <1>6

LEMMA callQueuesKeeps ==
  ASSUME RunInv, NEW c \in Calls, Runs!callQueues(c)
  PROVE  RunInv'
<1> USE DEF RunInv, Runs!callQueues
<1>1. run[c] = "none"
  BY DEF RunQueue
<1>2. RunTypes'
  BY DEF RunTypes
<1>3. Runs!Made' = Runs!Made \cup {c} /\ Runs!Going' = Runs!Going
  BY <1>1 DEF RunTypes, Runs!Made, Runs!Going
<1>4. RunQueue'
  BY <1>1, <1>3 DEF RunTypes, RunQueue
<1>5. RunsInTurn'
  BY <1>3 DEF RunsInTurn, RunTypes
<1>6. Runs!SeenByItsRun'
  BY <1>1, <1>3 DEF Runs!SeenByItsRun, RunTypes, Runs!Made
<1> QED  BY <1>2, <1>4, <1>5, <1>6

LEMMA callJoinsKeeps ==
  ASSUME RunInv, NEW c \in Calls, Runs!callJoins(c)
  PROVE  RunInv'
<1> USE DEF RunInv, Runs!callJoins
<1>1. RunTypes'
  BY DEF RunTypes
<1>2. Runs!Made' = Runs!Made \cup {c} /\ Runs!Going' = Runs!Going
  BY DEF RunTypes, Runs!Made, Runs!Going
<1>3. RunQueue'
  BY <1>2 DEF RunTypes, RunQueue
<1>4. RunsInTurn'
  BY <1>2 DEF RunsInTurn, RunTypes
<1>5. Runs!SeenByItsRun'
  BY <1>2 DEF Runs!SeenByItsRun, RunTypes, Runs!Made, RunQueue
<1> QED  BY <1>1, <1>3, <1>4, <1>5

LEMMA endsKeeps ==
  ASSUME RunInv, NEW c \in Calls, Runs!ends(c)
  PROVE  RunInv'
<1> USE DEF RunInv, Runs!ends
<1>1. run[c] = "going"
  BY DEF Runs!Going
<1>2. RunTypes'
  BY DEF RunTypes
<1>3. Runs!Made' = Runs!Made /\ Runs!Going' = Runs!Going \ {c}
  BY DEF RunTypes, Runs!Made, Runs!Going
<1>4. RunQueue'
  BY <1>1, <1>3 DEF RunTypes, RunQueue
<1>5. RunsInTurn'
  BY <1>3 DEF RunsInTurn, RunTypes
<1>6. Runs!SeenByItsRun'
  BY <1>1, <1>3 DEF Runs!SeenByItsRun, RunTypes
<1> QED  BY <1>2, <1>4, <1>5, <1>6

\* It waited for the run under way, which is over: there is no other.
LEMMA followsOnKeeps ==
  ASSUME RunInv, NEW c \in Calls, Runs!followsOn(c)
  PROVE  RunInv'
<1> USE DEF RunInv, Runs!followsOn
<1>1. queued = {c}
  BY DEF RunQueue
<1>2. RunTypes'
  BY DEF RunTypes, Runs!Made
<1>3. Runs!Made' = Runs!Made /\ Runs!Going' = Runs!Going \cup {c}
  BY DEF RunTypes, Runs!Made, Runs!Going
<1>4. RunQueue'
  BY <1>1, <1>3 DEF RunTypes, RunQueue
<1>5. ~runCut => Runs!Going = {}
  BY <1>1 DEF RunsInTurn, RunTypes, Runs!Going
<1>6. RunsInTurn'
  BY <1>3, <1>5 DEF RunsInTurn, RunTypes
<1>7. Runs!SeenByItsRun'
  BY <1>3 DEF Runs!SeenByItsRun, RunTypes
<1> QED  BY <1>2, <1>4, <1>6, <1>7

LEMMA RunStep ==
  ASSUME RunInv, [Runs!Next]_Runs!vars
  PROVE  RunInv'
<1>1. CASE UNCHANGED Runs!vars
  BY <1>1 DEF Runs!vars, RunInv, RunTypes, RunQueue, RunsInTurn, Runs!SeenByItsRun,
              Runs!Made, Runs!Going
<1>2. CASE Runs!Next
  BY <1>2, callStartsKeeps, callQueuesKeeps, callJoinsKeeps, endsKeeps, followsOnKeeps DEF Runs!Next
<1> QED  BY <1>1, <1>2

\* The inductive invariant: one run waits at most, and for the one under way.
THEOREM RunInvariant == Runs!Spec => []RunInv
<1> QED  BY RunInit, RunStep, PTL DEF Runs!Spec

\* A call returns with a run that started after it, even when runs cross
\* (perKeyCoalesced).
THEOREM CallsAreSeen == Runs!Spec => []SeenByItsRun
<1>1. RunInv => SeenByItsRun
  BY DEF SeenByItsRun, RunInv
<1> QED  BY RunInvariant, <1>1, PTL

\* One run at a time, until a call comes between a run and the one that waits
\* for it (perKeyCoalesced).
THEOREM RunsTakeTurns == Runs!Spec => []OneRunPerKey
<1>1. RunInv => OneRunPerKey
  BY DEF OneRunPerKey, RunInv, RunsInTurn, Runs!OneRunPerKey
<1> QED  BY RunInvariant, <1>1, PTL

------------------------------------------------------------------------------
(* SweepGate                                                               *)

\* What the gate's variables hold; a limit is a count.
GateTypes ==
  /\ place \in [Callers -> {"idle", "waiting", "woken", "in", "gone"}]
  /\ active \in Nat
  /\ waiting \in Seq(Callers)
  /\ limit \in Nat /\ most \in Nat /\ limit <= most
  /\ gateCut \in BOOLEAN

\* Whoever is in the line waits, and is in it once.
Line ==
  \A i \in 1..Len(waiting) :
    /\ place[waiting[i]] = "waiting"
    /\ \A j \in 1..Len(waiting) : waiting[i] = waiting[j] => i = j

Counted == IsFiniteSet(Gate!In) /\ IsFiniteSet(Gate!Uncounted)

GateInv == GateTypes /\ Line /\ Counted /\ Gate!GateHolds

\* The first n in line.
First(n) == {waiting[i] : i \in 1..n}

LEMMA FirstAreFew ==
  ASSUME GateTypes, NEW n \in Nat, n <= Len(waiting)
  PROVE  IsFiniteSet(First(n)) /\ Cardinality(First(n)) <= n /\ Cardinality(First(n)) \in Nat
<1> DEFINE f == [i \in 1..n |-> waiting[i]]
<1>1. f \in Surjection(1..n, First(n))
  BY DEF First, Surjection
<1>2. IsFiniteSet(1..n) /\ Cardinality(1..n) = n
  <2>1. 1 \in Int /\ n \in Int OBVIOUS
  <2>2. IsFiniteSet(1..n) /\ Cardinality(1..n) = IF 1 > n THEN 0 ELSE n - 1 + 1
    BY <2>1, FS_Interval
  <2> QED  BY <2>2
<1> HIDE DEF f
<1>3. IsFiniteSet(First(n)) /\ Cardinality(First(n)) <= Cardinality(1..n)
  BY <1>1, <1>2, FS_Surjection
<1> QED  BY <1>2, <1>3, FS_CardinalityType

\* A set that grows by another grows by no more than that one has.
LEMMA UnionBound ==
  ASSUME NEW S, NEW T, IsFiniteSet(S), IsFiniteSet(T)
  PROVE  /\ IsFiniteSet(S \cup T)
         /\ Cardinality(S \cup T) <= Cardinality(S) + Cardinality(T)
         /\ Cardinality(S \cup T) \in Nat /\ Cardinality(S) \in Nat /\ Cardinality(T) \in Nat
<1>1. /\ IsFiniteSet(S \cup T)
      /\ Cardinality(S \cup T) = Cardinality(S) + Cardinality(T) - Cardinality(S \cap T)
  BY FS_Union
<1>2. IsFiniteSet(S \cap T)
  BY FS_Intersection
<1> QED  BY <1>1, <1>2, FS_CardinalityType

\* The gate's own module counts as this one does.
LEMMA SameCount == \A S : Gate!Cardinality(S) = Cardinality(S)
  BY DEF Gate!Cardinality, Cardinality

LEMMA GateInit == Gate!Init => GateInv
<1> SUFFICES ASSUME Gate!Init PROVE GateInv
  OBVIOUS
<1>1. GateTypes /\ Line
  <2>1. waiting = <<>> /\ active = 0 /\ limit \in Nat /\ most = limit /\ gateCut = FALSE
        /\ place \in [Callers -> {"idle", "waiting", "woken", "in", "gone"}]
    BY LimitsAssumption DEF Gate!Init, LimitsAssumption
  <2>2. waiting \in Seq(Callers) /\ 1..Len(waiting) = {}
    BY <2>1
  <2>3. active \in Nat /\ most \in Nat /\ limit <= most
    BY <2>1
  <2>4. gateCut \in BOOLEAN
    BY <2>1
  <2>5. GateTypes
    BY <2>1, <2>2, <2>3, <2>4, Zenon DEF GateTypes
  <2>6. Line
    BY <2>2 DEF Line
  <2> QED  BY <2>5, <2>6
<1>2. Gate!In = {} /\ Gate!Uncounted = {}
  BY DEF Gate!Init, Gate!In, Gate!Uncounted
<1>3. Cardinality(Gate!In) = 0 /\ Cardinality(Gate!Uncounted) = 0 /\ Counted
  BY <1>2, FS_EmptySet DEF Counted
<1>4. active = 0 /\ most \in Nat
  BY <1>1 DEF Gate!Init, GateTypes
<1>5. Gate!GateHolds
  BY <1>3, <1>4, SameCount DEF Gate!GateHolds
<1> QED  BY <1>1, <1>3, <1>5 DEF GateInv

\* What the gate counts, as numbers.
LEMMA Numbers ==
  ASSUME GateInv
  PROVE  /\ active \in Nat /\ limit \in Nat /\ most \in Nat /\ limit <= most
         /\ Cardinality(Gate!Uncounted) \in Nat /\ active = Cardinality(Gate!In)
         /\ ~gateCut => active + Cardinality(Gate!Uncounted) <= most
BY FS_CardinalityType, SameCount DEF GateInv, GateTypes, Counted, Gate!GateHolds

\* One passes: at once, or as one let through that counts itself now.
LEMMA passKeeps ==
  ASSUME GateInv, NEW c \in Callers, Gate!pass(c)
  PROVE  GateInv'
<1> USE DEF GateInv, Gate!pass
<1>1. GateTypes' /\ Line'
  BY DEF GateTypes, Line
<1>2. Gate!In' = Gate!In \cup {c} /\ c \notin Gate!In /\ Gate!Uncounted' = Gate!Uncounted
  BY DEF GateTypes, Gate!In, Gate!Uncounted
<1>3. IsFiniteSet(Gate!In') /\ Cardinality(Gate!In') = Cardinality(Gate!In) + 1
  BY <1>2, FS_AddElement DEF Counted
<1>4. ~gateCut' => Cardinality(Gate!Uncounted) = 0
  BY FS_EmptySet
<1>5. Gate!GateHolds'
  BY <1>2, <1>3, <1>4, Numbers, SameCount DEF Gate!GateHolds
<1> QED  BY <1>1, <1>2, <1>3, <1>5 DEF Counted

LEMMA awaitKeeps ==
  ASSUME GateInv, NEW c \in Callers, Gate!await(c)
  PROVE  GateInv'
<1> USE DEF GateInv, Gate!await
<1>1. waiting' \in Seq(Callers) /\ Len(waiting') = Len(waiting) + 1 /\ Len(waiting) \in Nat
      /\ waiting'[Len(waiting) + 1] = c
      /\ \A i \in 1..Len(waiting) : waiting'[i] = waiting[i] /\ waiting[i] \in Callers
  BY DEF GateTypes
<1>2. GateTypes'
  BY <1>1 DEF GateTypes
<1>3. Line'
  <2>1. place'[c] = "waiting" /\ \A d \in Callers : place[d] = "waiting" => place'[d] = "waiting"
    BY DEF GateTypes
  <2>2. \A i \in 1..Len(waiting) : waiting[i] # c
    BY DEF Line
  <2> QED  BY <1>1, <2>1, <2>2 DEF Line
<1>4. Gate!In' = Gate!In /\ Gate!Uncounted' = Gate!Uncounted
  BY DEF GateTypes, Gate!In, Gate!Uncounted
<1> QED  BY <1>2, <1>3, <1>4 DEF Counted, Gate!GateHolds

LEMMA letThroughKeeps ==
  ASSUME GateInv, NEW c \in Callers, Gate!letThrough(c)
  PROVE  GateInv'
<1> USE DEF GateInv, Gate!letThrough
<1>1. GateTypes' /\ Line'
  BY DEF GateTypes, Line
<1>2. /\ Gate!In' = Gate!In \cup {c} /\ c \notin Gate!In
      /\ Gate!Uncounted' = Gate!Uncounted \ {c} /\ c \in Gate!Uncounted
  BY DEF GateTypes, Gate!In, Gate!Uncounted
<1>3. IsFiniteSet(Gate!In') /\ Cardinality(Gate!In') = Cardinality(Gate!In) + 1
  BY <1>2, FS_AddElement DEF Counted
<1>4. IsFiniteSet(Gate!Uncounted') /\ Cardinality(Gate!Uncounted') = Cardinality(Gate!Uncounted) - 1
  BY <1>2, FS_RemoveElement DEF Counted
<1>5. Gate!GateHolds'
  BY <1>3, <1>4, Numbers, SameCount DEF Gate!GateHolds
<1> QED  BY <1>1, <1>3, <1>4, <1>5 DEF Counted

\* The first n in line are woken, and leave it.
LEMMA WakesKeeps ==
  ASSUME GateTypes, Line, NEW n \in Nat, n <= Len(waiting),
         place' \in [Callers -> {"idle", "waiting", "woken", "in", "gone"}],
         \A d \in Callers : d \notin First(n) /\ place[d] = "waiting" => place'[d] = "waiting",
         waiting' = SubSeq(waiting, n + 1, Len(waiting))
  PROVE  waiting' \in Seq(Callers) /\ Line'
<1>1. /\ waiting' \in Seq(Callers) /\ Len(waiting) \in Nat /\ Len(waiting') = Len(waiting) - n
      /\ \A i \in 1..Len(waiting') : waiting'[i] = waiting[i + n]
  BY DEF GateTypes
<1>2. ASSUME NEW i \in 1..Len(waiting')
      PROVE  place'[waiting'[i]] = "waiting"
             /\ \A j \in 1..Len(waiting') : waiting'[i] = waiting'[j] => i = j
  <2>1. i + n \in 1..Len(waiting) /\ i + n > n /\ waiting'[i] = waiting[i + n]
    BY <1>1
  <2>2. place[waiting[i + n]] = "waiting" /\ waiting[i + n] \in Callers
    BY <2>1 DEF Line, GateTypes
  <2>3. waiting[i + n] \notin First(n)
    <3> SUFFICES ASSUME NEW k \in 1..n, waiting[i + n] = waiting[k] PROVE FALSE
      BY DEF First
    <3>1. k \in 1..Len(waiting) /\ k # i + n
      BY <1>1, <2>1
    <3> QED  BY <2>1, <3>1 DEF Line
  <2>4. ASSUME NEW j \in 1..Len(waiting'), waiting'[i] = waiting'[j] PROVE i = j
    <3>1. j + n \in 1..Len(waiting) /\ waiting'[j] = waiting[j + n]
      BY <1>1
    <3>2. i + n = j + n
      BY <2>1, <2>4, <3>1 DEF Line
    <3> QED  BY <1>1, <3>2
  <2> QED  BY <2>1, <2>2, <2>3, <2>4
<1> QED  BY <1>1, <1>2 DEF Line

LEMMA releaseKeeps ==
  ASSUME GateInv, NEW c \in Callers, Gate!release(c)
  PROVE  GateInv'
<1> USE DEF GateInv
<1> DEFINE n == Gate!FirstInLine
<1>1. n \in {0, 1} /\ n <= Len(waiting) /\ Len(waiting) \in Nat
  BY DEF Gate!FirstInLine, GateTypes
<1>2. /\ place[c] = "in" /\ UNCHANGED <<limit, most, gateCut>>
      /\ active' = IF active > 0 THEN active - 1 ELSE 0
      /\ waiting' = SubSeq(waiting, n + 1, Len(waiting))
  BY DEF Gate!release
<1>3. \A d \in Callers : place'[d] = IF d \in First(n) THEN "woken"
                                     ELSE IF d = c THEN "gone" ELSE place[d]
  BY DEF Gate!release, Gate!Wake, First, GateTypes
<1>4. place' \in [Callers -> {"idle", "waiting", "woken", "in", "gone"}]
  <2>1. place' = [d \in Callers |-> place'[d]]
    BY DEF Gate!release, Gate!Wake
  <2> QED  BY <1>3, <2>1 DEF GateTypes
<1>5. waiting' \in Seq(Callers) /\ Line'
  <2>1. \A d \in Callers : d \notin First(n) /\ place[d] = "waiting" => place'[d] = "waiting"
    BY <1>2, <1>3
  <2> HIDE DEF n
  <2> QED  BY <1>1, <1>2, <1>4, <2>1, WakesKeeps
<1> HIDE DEF n
<1>6. \A d \in First(n) : d \in Callers /\ place[d] = "waiting"
  BY <1>1 DEF First, Line, GateTypes
<1>7. Gate!In' = Gate!In \ {c} /\ c \in Gate!In
      /\ Gate!Uncounted' = Gate!Uncounted \cup First(n)
  BY <1>2, <1>3, <1>6 DEF Gate!In, Gate!Uncounted
<1>8. IsFiniteSet(Gate!In') /\ Cardinality(Gate!In') = Cardinality(Gate!In) - 1
  BY <1>7, FS_RemoveElement DEF Counted
<1>9. active # 0
  BY <1>7, FS_EmptySet, Numbers DEF Counted
<1>10. /\ IsFiniteSet(Gate!Uncounted') /\ Cardinality(Gate!Uncounted') \in Nat
       /\ Cardinality(Gate!Uncounted') <= Cardinality(Gate!Uncounted) + 1
  <2>1. IsFiniteSet(First(n)) /\ Cardinality(First(n)) <= n /\ Cardinality(First(n)) \in Nat
    BY <1>1, FirstAreFew
  <2>2. /\ IsFiniteSet(Gate!Uncounted')
        /\ Cardinality(Gate!Uncounted') <= Cardinality(Gate!Uncounted) + Cardinality(First(n))
        /\ Cardinality(Gate!Uncounted') \in Nat /\ Cardinality(Gate!Uncounted) \in Nat
    BY <1>7, <2>1, UnionBound DEF Counted
  <2> QED  BY <1>1, <2>1, <2>2
<1>11. GateTypes'
  BY <1>2, <1>4, <1>5 DEF GateTypes
<1>12. Gate!GateHolds'
  BY <1>2, <1>8, <1>9, <1>10, Numbers, SameCount DEF Gate!GateHolds
<1> QED  BY <1>5, <1>8, <1>10, <1>11, <1>12 DEF Counted

\* A raised limit gives away what it adds, and no more than is free.
LEMMA setLimitKeeps ==
  ASSUME GateInv, NEW l \in Limits, Gate!setLimit(l)
  PROVE  GateInv'
<1> USE DEF GateInv
<1> DEFINE free == Gate!Free(l)
           n == IF free < Len(waiting) THEN free ELSE Len(waiting)
<1>1. /\ limit' = l /\ most' = (IF l > most THEN l ELSE most) /\ UNCHANGED active
      /\ place' = Gate!Wake(place, n)
      /\ waiting' = SubSeq(waiting, n + 1, Len(waiting))
      /\ gateCut' = (gateCut \/ (n > 0 /\ Gate!Uncounted # {}))
  BY DEF Gate!setLimit
<1>2. l \in Nat
  BY LimitsAssumption DEF LimitsAssumption
<1>3. free \in Nat /\ (l > active => active + free = l) /\ (~(l > active) => free = 0)
  BY <1>2, Numbers DEF Gate!Free
<1>4. n \in Nat /\ n <= Len(waiting) /\ n <= free
  BY <1>3 DEF GateTypes
<1> HIDE DEF n, free
<1>5. \A d \in Callers : place'[d] = IF d \in First(n) THEN "woken" ELSE place[d]
  BY <1>1 DEF Gate!Wake, First
<1>6. place' \in [Callers -> {"idle", "waiting", "woken", "in", "gone"}]
  <2>1. place' = [d \in Callers |-> place'[d]]
    BY <1>1 DEF Gate!Wake
  <2> QED  BY <1>5, <2>1 DEF GateTypes
<1>7. waiting' \in Seq(Callers) /\ Line'
  <2>1. \A d \in Callers : d \notin First(n) /\ place[d] = "waiting" => place'[d] = "waiting"
    BY <1>5
  <2> QED  BY <1>1, <1>4, <1>6, <2>1, WakesKeeps
<1>8. \A d \in First(n) : d \in Callers /\ place[d] = "waiting"
  BY <1>4 DEF First, Line, GateTypes
<1>9. Gate!In' = Gate!In /\ Gate!Uncounted' = Gate!Uncounted \cup First(n)
  BY <1>5, <1>8 DEF Gate!In, Gate!Uncounted
<1>10. IsFiniteSet(First(n)) /\ Cardinality(First(n)) <= n /\ Cardinality(First(n)) \in Nat
  BY <1>4, FirstAreFew
<1>11. Counted'
  BY <1>9, <1>10, UnionBound DEF Counted
<1>12. GateTypes'
  BY <1>1, <1>2, <1>6, <1>7 DEF GateTypes
<1>13. ~gateCut' => active' + Cardinality(Gate!Uncounted') <= most'
  <2> SUFFICES ASSUME ~gateCut' PROVE active + Cardinality(Gate!Uncounted') <= most'
    BY <1>1
  <2>1. ~gateCut /\ (n > 0 => Gate!Uncounted = {})
    BY <1>1
  <2>2. CASE n > 0
    <3>1. Gate!Uncounted' = First(n)
      BY <1>9, <2>1, <2>2
    <3>2. active <= most
      BY <2>1, Numbers
    <3> QED  BY <1>1, <1>2, <1>3, <1>4, <1>10, <2>2, <3>1, <3>2, Numbers
  <2>3. CASE n = 0
    <3>1. Gate!Uncounted' = Gate!Uncounted
      BY <1>9, <2>3 DEF First
    <3>2. active + Cardinality(Gate!Uncounted) <= most
      BY <2>1, Numbers, SameCount DEF Gate!GateHolds
    <3> QED  BY <1>1, <1>2, <3>1, <3>2, Numbers
  <2> QED  BY <1>4, <2>2, <2>3
<1>14. Gate!GateHolds'
  BY <1>1, <1>9, <1>13, Numbers, SameCount DEF Gate!GateHolds
<1> QED  BY <1>7, <1>11, <1>12, <1>14

LEMMA GateStep ==
  ASSUME GateInv, [Gate!Next]_Gate!vars
  PROVE  GateInv'
<1>1. CASE UNCHANGED Gate!vars
  BY <1>1 DEF Gate!vars, GateInv, GateTypes, Line, Counted, Gate!GateHolds, Gate!In, Gate!Uncounted
<1>2. CASE Gate!Next
  BY <1>2, passKeeps, awaitKeeps, letThroughKeeps, releaseKeeps, setLimitKeeps DEF Gate!Next
<1> QED  BY <1>1, <1>2

\* The inductive invariant: whoever stands in the line waits, and is in it once.
THEOREM GateInvariant == Gate!Spec => []GateInv
<1> QED  BY GateInit, GateStep, PTL DEF Gate!Spec

\* The gate counts those who are through, and with those it has let through
\* they are no more than its limit ever was, until it gives a place away while
\* one is not counted yet (runWithSweepGate, setSweepConcurrency).
THEOREM GateIsKept == Gate!Spec => []GateHolds
<1>1. GateInv => GateHolds
  BY DEF GateInv, GateHolds
<1> QED  BY GateInvariant, <1>1, PTL

------------------------------------------------------------------------------
(* All of them                                                             *)

\* Each part runs in the composition as it does alone.
THEOREM PartsRun == AllSpec => Misses!Spec /\ Runs!Spec /\ Gate!Spec
<1>1. AllInit => Misses!Init /\ Runs!Init /\ Gate!Init
  BY DEF AllInit
<1>2. [AllNext]_allVars => [Misses!Next]_Misses!vars
  BY DEF AllNext, allVars, mVars, Misses!vars
<1>3. [AllNext]_allVars => [Runs!Next]_Runs!vars
  BY DEF AllNext, allVars, rVars, Runs!vars
<1>4. [AllNext]_allVars => [Gate!Next]_Gate!vars
  BY DEF AllNext, allVars, gVars, Gate!vars
<1>5. AllSpec => AllInit /\ [][AllNext]_allVars
  BY DEF AllSpec
<1> QED  BY <1>1, <1>2, <1>3, <1>4, <1>5, PTL DEF Misses!Spec, Runs!Spec, Gate!Spec

\* What each part keeps is kept in the composition that the run checks.
THEOREM AtOnceKeeps ==
  AllSpec => [](InvalidationStands /\ MissesAreShared /\ SeenByItsRun /\ OneRunPerKey /\ GateHolds)
<1> QED
  BY PartsRun, InvalidationsStand, OneLoadPerMiss, CallsAreSeen, RunsTakeTurns, GateIsKept, PTL
=============================================================================
