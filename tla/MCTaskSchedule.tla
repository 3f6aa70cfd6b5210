---------------------------- MODULE MCTaskSchedule ----------------------------
(* Instances of TaskSchedule for TLC. *)
EXTENDS TaskSchedule, TLC

Task(option, at, days, active) ==
  [option |-> option, at |-> at, days |-> days, active |-> active]

\* A task for the first day only, one for every day, and one that is inactive, by an
\* active that is neither 0 nor 1.
MCInfos ==
  {Task("open", 1, {0}, 1), Task("close", 0, Days, 1), Task("open", 1, {0}, 2)}

MCFactory == [i \in Ids |-> IF i = 1 THEN <<Task("close", 0, Days, 1)>> ELSE <<>>]

MCInitTasks == {[i \in Ids |-> IF i = 1 THEN <<Task("open", 1, {0}, 1)>> ELSE <<>>]}

Symmetry == Permutations(Requests) \cup Permutations(Addrs)
=============================================================================
