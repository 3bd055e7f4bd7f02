----------------------------- MODULE MCReceipts -----------------------------
(* Small instances of Receipts for TLC.                                     *)
EXTENDS Receipts, TLC

Interchangeable == Permutations(Workers) \cup Permutations(Ops)
=============================================================================
