-------------------------- MODULE MCExclusiveLock --------------------------
(* Small instances of ExclusiveLock for TLC: two callers in one process and *)
(* one in another.                                                          *)
EXTENDS ExclusiveLock, TLC

CONSTANTS p1, p2, c1, c2, c3

TwoInOne == c1 :> p1 @@ c2 :> p1 @@ c3 :> p2

Interchangeable == Permutations(Sessions) \cup Permutations({c1, c2}) \cup Permutations(Names)
=============================================================================
