----------------------------- MODULE MCRecords -----------------------------
(***************************************************************************)
(* Instances of the records of a run and of the goal scheduler.            *)
(***************************************************************************)
EXTENDS RunRecords, GoalScheduler

(* Results for two goals, the first a Loop.                                *)
ResultGoals == <<"g1", "g2">>

(* A daily Loop, and the instances of a template in two buckets.           *)
GoalFiles == <<"daily", "i1", "i2">>
BucketInstances == <<"i1", "i2">>
=============================================================================
