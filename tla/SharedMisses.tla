----------------------------- MODULE SharedMisses -----------------------------
(***************************************************************************)
(* One key of a short-lived cache whose misses are shared                  *)
(* (api/src/lib/ttl-cache.ts): an ask that misses starts a load, and those *)
(* that come meanwhile wait for it.  The data is external: a change of it  *)
(* is followed by an invalidation of the key (delete), of the keys of its  *)
(* workspace (forgetPrefix) or of the whole cache (clear).                 *)
(***************************************************************************)
EXTENDS Naturals

CONSTANTS Loads,   \* loads there may be, one after another or at once
          Drops    \* bound: invalidations

VARIABLES
  load,    \* [Loads -> what it is doing, and the generation it started at]
  loading, \* the load whose promise is shared, as a set of at most one
  done,    \* the load whose answer is kept, as a set of at most one
  lapsed,  \* that answer is older than the cache keeps one
  stamp,   \* deletes of the key since the last clear
  epoch,   \* clears
  drops,   \* invalidations so far
  stale,   \* history: loads that started before the last invalidation
  crossed  \* history: a clear came after a delete, while a load went on

vars == <<load, loading, done, lapsed, stamp, epoch, drops, stale, crossed>>

TypeOK ==
  /\ load \in [Loads -> [pc : {"none", "going", "over"}, startedAt : 0..2 * Drops]]
  /\ loading \subseteq Loads /\ done \subseteq Loads
  /\ stamp \in 0..2 * Drops /\ epoch \in 0..Drops /\ drops \in 0..Drops
  /\ stale \subseteq Loads
  /\ lapsed \in BOOLEAN /\ crossed \in BOOLEAN

Init ==
  /\ load = [l \in Loads |-> [pc |-> "none", startedAt |-> 0]]
  /\ loading = {} /\ done = {}
  /\ stamp = 0 /\ epoch = 0 /\ drops = 0
  /\ stale = {}
  /\ lapsed = FALSE /\ crossed = FALSE

gen == epoch + stamp
Going == {l \in Loads : load[l].pc = "going"}

\* A miss that shares no load starts one.
get(l) ==
  /\ load[l].pc = "none"
  /\ done = {} \/ lapsed
  /\ loading = {}
  /\ load' = [load EXCEPT ![l] = [pc |-> "going", startedAt |-> gen]]
  /\ loading' = {l}
  /\ UNCHANGED <<done, lapsed, stamp, epoch, drops, stale, crossed>>

\* Mutant: what was read is kept, whatever was dropped meanwhile.
KeptAnyway(l) == TRUE

\* Kept unless the key was dropped since the load started.
Kept(l) == load[l].startedAt = gen

\* Mutant: a load that ends is taken for the one that is shared.
NoneShared(l) == {}

StillShared(l) == loading \ {l}

resolved(l) ==
  /\ l \in Going
  /\ load' = [load EXCEPT ![l].pc = "over"]
  /\ loading' = StillShared(l)
  /\ IF Kept(l) THEN done' = {l} /\ lapsed' = FALSE ELSE UNCHANGED <<done, lapsed>>
  /\ UNCHANGED <<stamp, epoch, drops, stale, crossed>>

rejected(l) ==
  /\ l \in Going
  /\ load' = [load EXCEPT ![l].pc = "over"]
  /\ loading' = StillShared(l)
  /\ UNCHANGED <<done, lapsed, stamp, epoch, drops, stale, crossed>>

\* The answer stays where it is until another takes its place.
lapse ==
  /\ done # {} /\ ~lapsed /\ lapsed' = TRUE
  /\ UNCHANGED <<load, loading, done, stamp, epoch, drops, stale, crossed>>

\* What was read before now is out of date.
Invalidates ==
  /\ drops < Drops /\ drops' = drops + 1
  /\ done' = {} /\ lapsed' = FALSE /\ loading' = {}
  /\ stale' = {l \in Loads : load[l].pc # "none"}
  /\ UNCHANGED load

delete ==
  /\ Invalidates
  /\ stamp' = stamp + 1
  /\ UNCHANGED <<epoch, crossed>>

Seen(keys) == IF keys = {} THEN 0 ELSE 1

\* A key is deleted where it is seen: among the answers, and among the loads.
forgetPrefix ==
  /\ Invalidates
  /\ stamp' = stamp + Seen(done) + Seen(loading)
  /\ UNCHANGED <<epoch, crossed>>

clear ==
  /\ Invalidates
  /\ stamp' = 0
  /\ epoch' = epoch + 1
  /\ crossed' = (crossed \/ (stamp > 0 /\ Going # {}))

Next ==
  \/ \E l \in Loads : get(l) \/ resolved(l) \/ rejected(l)
  \/ lapse \/ delete \/ forgetPrefix \/ clear

Spec == Init /\ [][Next]_vars

------------------------------------------------------------------------------
(* Properties                                                              *)

\* An invalidation is never undone by a read that started before it, unless a
\* clear has brought the generation back (see ../README.md).
InvalidationStands == ~crossed => done \cap stale = {}

\* Misses are shared: of the loads whose data is not out of date, one is under
\* way at a time.
MissesAreShared == \A k, l \in Going \ stale : k = l
=============================================================================
