---------------------------- MODULE WorkflowPath ----------------------------
(***************************************************************************)
(* What the stored record of a graph workflow run promises, whatever       *)
(* processes work on it: it changes as if one interpreter walked the       *)
(* graph.  The cursor moves along one connection at a time, never along an *)
(* exhausted one; only the step under the cursor completes; a gated step   *)
(* completes only on an approval that was given and used for it; a run     *)
(* that is done stays done.                                                *)
(***************************************************************************)
EXTENDS Integers

CONSTANTS Step, End, StartAt, Edges, Gated

VARIABLES status, cur, completed, counts, approval

vars == <<status, cur, completed, counts, approval>>

Init ==
  /\ status = "absent" /\ cur = End /\ completed = {}
  /\ \A e \in DOMAIN counts : counts[e] = 0
  /\ approval = [step |-> End, status |-> "none"]

\* Where the run is: a run that has not been stored yet is at its first step.
Cursor == IF cur = End THEN StartAt ELSE cur

MayRun(s) == s \in Gated => approval = [step |-> s, status |-> "consumed"]

\* The step under the cursor is completed, or it is passed over.
PerformOrSkip ==
  /\ \/ MayRun(Cursor) /\ completed' = completed \cup {Cursor}
     \/ completed' = completed
  /\ UNCHANGED approval

\* The run is resumed, restarted or stopped where it is.
Stay ==
  /\ status # "done"
  /\ status' \in {"running", "blocked", "failed"}
  /\ cur' = Cursor
  /\ PerformOrSkip
  /\ UNCHANGED counts

\* A process that read the record before an approval was given blocks the run
\* and writes the request back over the approval.
Withdraw ==
  /\ status = "running" /\ approval.status = "approved"
  /\ status' = "blocked" /\ approval' = [approval EXCEPT !.status = "pending"]
  /\ UNCHANGED <<cur, completed, counts>>

Move ==
  /\ status # "done"
  /\ PerformOrSkip
  /\ \E i \in DOMAIN Edges[Cursor] :
       LET edge == Edges[Cursor][i]
           loop == <<Cursor, edge.to>>
       IN /\ IF edge.max = 0 THEN UNCHANGED counts
             ELSE /\ counts[loop] < edge.max
                  /\ counts' = [counts EXCEPT ![loop] = @ + 1]
          /\ IF edge.to # End THEN cur' = edge.to /\ status' = "running"
             ELSE \/ cur' = End /\ status' = "done"
                  \/ cur' = Cursor /\ status' \in {"failed", "blocked"}

\* A step with no connection is the last one.
Complete ==
  /\ status # "done" /\ DOMAIN Edges[Cursor] = {}
  /\ PerformOrSkip
  /\ cur' = End /\ status' = "done"
  /\ UNCHANGED counts

Ask ==
  /\ status # "done" /\ Cursor \in Gated
  /\ status' = "waiting-approval" /\ cur' = Cursor
  /\ approval' = [step |-> Cursor, status |-> "pending"]
  /\ UNCHANGED <<completed, counts>>

Grant ==
  /\ status = "waiting-approval" /\ approval.status = "pending"
  /\ status' = "running" /\ approval' = [approval EXCEPT !.status = "approved"]
  /\ UNCHANGED <<cur, completed, counts>>

Use ==
  /\ status # "done" /\ approval = [step |-> Cursor, status |-> "approved"]
  /\ status' = "running" /\ cur' = Cursor
  /\ approval' = [approval EXCEPT !.status = "consumed"]
  /\ UNCHANGED <<completed, counts>>

Next == Stay \/ Withdraw \/ Move \/ Complete \/ Ask \/ Grant \/ Use

Spec == Init /\ [][Next]_vars
=============================================================================
