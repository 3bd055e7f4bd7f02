---------------------------- MODULE MCServiceJobs ----------------------------
(***************************************************************************)
(* Two things a person is asked to say yes to: a service job and, of       *)
(* another person's, an approval.  They share no state: in a behaviour one *)
(* of them moves and the other has not begun.                              *)
(***************************************************************************)
EXTENDS ServiceJobs, TLC

CONSTANTS
  Approvers, Windows, Grants, Share, MaxAsks   \* Approvals

\* Somebody may ask.
ASSUME AsksAssumption == MaxAsks \in Nat \ {0}

VARIABLES asked, row, held, offered, answering, window, askFaults, given, drafts, cut, spoilt

AnyService == [acts |-> FALSE, pinned |-> FALSE]
Physical   == [acts |-> TRUE, pinned |-> FALSE]
Either     == {AnyService, Physical}

Asking == INSTANCE Approvals WITH step <- answering, faults <- askFaults

aVars == <<asked, row, held, offered, answering, window, askFaults, given, drafts, cut, spoilt>>
allVars == <<vars, aVars>>

AllInit == Init /\ Asking!Init

\* What the other is to be is settled, so that it is not counted twice.
AllNext ==
  \/ asked = Grants    /\ Asking!Init /\ Next        /\ UNCHANGED aVars
  \/ kind = AnyService /\ Init        /\ Asking!Next /\ UNCHANGED vars

AllSpec == AllInit /\ [][AllNext]_allVars

AnswerIsTrue == Asking!AnswerIsTrue
DraftHandedOutOnce == Asking!DraftHandedOutOnce

Interchangeable == Permutations(Workers) \cup Permutations(Approvers)
=============================================================================
