----------------------------- MODULE MCJobQueue -----------------------------
(* Small instances of JobQueue for TLC.                                     *)
EXTENDS JobQueue, TLC

Interchangeable == Permutations(Jobs) \cup Permutations(Ticks)
=============================================================================
