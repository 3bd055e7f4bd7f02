------------------------------ MODULE MCRounds ------------------------------
(***************************************************************************)
(* Two parts of the api that a periodic round brings to an end: the lines  *)
(* of the History, and the jobs the supervisor looks after (with one poll  *)
(* under way at a time).  They share no state: in a behaviour one of them  *)
(* moves and the other has not begun.                                      *)
(***************************************************************************)
EXTENDS HistoryOutbox

CONSTANTS
  NRoutes, BuiltIn, Workers, MaxHandoffs, MaxErrors, FallThroughs, MaxNews, JobFaults

VARIABLES job, kind, files, svc, polls, step, door, person, sup, watched, news, jobFaults, doubled, lost

Jobs == INSTANCE ServiceJobs WITH
          Kinds <- {[acts |-> FALSE, pinned |-> FALSE]},
          MaxFaults <- JobFaults, faults <- jobFaults

jobVars == <<job, kind, files, svc, polls, step, door, person, sup, watched, news, jobFaults, doubled, lost>>
allVars == <<vars, jobVars>>

AllInit == Init /\ Jobs!Init

AllNext ==
  \/ Jobs!Init /\ Next      /\ UNCHANGED jobVars
  \/ Init      /\ Jobs!Next /\ UNCHANGED vars

AllSpec == AllInit /\ [][AllNext]_allVars /\ Fairness /\ Jobs!Fairness

WatchedJobEnds == Jobs!WatchedJobEnds
=============================================================================
