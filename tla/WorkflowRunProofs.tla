------------------------- MODULE WorkflowRunProofs -------------------------
(***************************************************************************)
(* Theorems about WorkflowRun for any number of runners, any step graph    *)
(* and any bounds: its types and what it keeps, then that the writes of    *)
(* all processes together are one walk of the graph (WorkflowRun           *)
(* implements WorkflowPath), with which every report agrees.               *)
(***************************************************************************)
EXTENDS WorkflowRun, FiniteSetTheorems, TLAPS

-----------------------------------------------------------------------------
(* The operators on records keep records.                                  *)

\* A connection of the graph has the type of one, and a bounded connection is
\* one whose traversals the record counts.
LEMMA EdgeType ==
  ASSUME NEW s \in Step, NEW i \in DOMAIN Edges[s]
  PROVE  /\ Edges[s][i] \in Edge
         /\ Edges[s][i].max # 0 => <<s, Edges[s][i].to>> \in LoopEdge
<1>1. Edges[s] \in Seq(Edge)
  BY StepAssumption
<1>2. Edges[s][i] \in Edge
  BY <1>1
<1>3. Edges[s][i].to \in Target /\ Edges[s][i].max \in Nat
  BY <1>2 DEF Edge
<1>4. ASSUME Edges[s][i].max # 0 PROVE <<s, Edges[s][i].to>> \in LoopEdge
  BY <1>3, <1>4 DEF LoopEdge
<1> QED
  BY <1>2, <1>4

\* The record of a run that was never stored is a record.
LEMMA NoRecordType == NoRecord \in Record
<1>1. NoFacts \in [Step -> Result]
  BY DEF NoFacts, Result
<1>2. [e \in LoopEdge |-> 0] \in Counts
  BY DEF Counts
<1>3. [s \in Step |-> "none"] \in [Step -> StepStatus]
  BY DEF StepStatus
<1>4. 0 \in 0 .. MaxDefinitions
  BY BoundAssumption
<1>5. [context |-> [step |-> End, hash |-> 0, facts |-> NoFacts], status |-> "none"]
        \in Approval
  BY <1>1, <1>4 DEF Approval, Context, Target
<1> QED
  BY <1>1, <1>2, <1>3, <1>4, <1>5 DEF NoRecord, Record, Status, Target

\* What initialWorkflowState builds from a stored record is a running record
\* with a current step and the stored progress.
LEMMA InitialStateType ==
  ASSUME NEW w \in Record, NEW h \in 0 .. MaxDefinitions
  PROVE  /\ InitialState(w, h) \in Record
         /\ InitialState(w, h).status = "running"
         /\ InitialState(w, h).cur \in Step
         /\ InitialState(w, h).completed = w.completed
         /\ InitialState(w, h).counts = w.counts
         /\ InitialState(w, h).approval = w.approval
  BY StepAssumption DEF InitialState, Record, Status, Target

LEMMA ContextOfType == ASSUME NEW w \in Record PROVE ContextOf(w) \in Context
  BY DEF ContextOf, Record, Context

\* Asking for an approval changes only the status and the approval.
LEMMA RequireApprovalType ==
  ASSUME NEW w \in Record
  PROVE  /\ RequireApproval(w) \in Record
         /\ RequireApproval(w).status \in {"running", "waiting-approval"}
         /\ RequireApproval(w).cur = w.cur
         /\ RequireApproval(w).completed = w.completed
         /\ RequireApproval(w).counts = w.counts
         /\ RequireApproval(w).approval.status # "approved"
         /\ RequireApproval(w).status = "running" =>
              /\ w.approval = [context |-> ContextOf(w), status |-> "approved"]
              /\ RequireApproval(w).approval.status = "consumed"
              /\ ContextOf(RequireApproval(w)) = ContextOf(w)
<1>1. ContextOf(w) \in Context
  BY ContextOfType
<1>2. [w.approval EXCEPT !.status = "consumed"] \in Approval
  BY DEF Record, Approval
<1>3. [context |-> ContextOf(w), status |-> "pending"] \in Approval
  BY <1>1 DEF Approval
<1> DEFINE used == [w.approval EXCEPT !.status = "consumed"]
           asked == [context |-> ContextOf(w), status |-> "pending"]
<1>4. CASE w.approval = [context |-> ContextOf(w), status |-> "approved"]
  <2>1. RequireApproval(w) = [w EXCEPT !.status = "running", !.approval = used]
    BY <1>4 DEF RequireApproval, Record
  <2>2. used \in Approval /\ used.status = "consumed"
    BY <1>2, <1>4
  <2> HIDE DEF used
  <2>3. RequireApproval(w) \in Record /\ RequireApproval(w).approval = used
    BY <2>1, <2>2 DEF Record, Status
  <2>4. /\ RequireApproval(w).status = "running" /\ RequireApproval(w).cur = w.cur
        /\ RequireApproval(w).completed = w.completed /\ RequireApproval(w).counts = w.counts
        /\ RequireApproval(w).hash = w.hash /\ RequireApproval(w).facts = w.facts
    BY <2>1 DEF Record
  <2>5. ContextOf(RequireApproval(w)) = ContextOf(w)
    BY <2>4 DEF ContextOf
  <2>6. RequireApproval(w).approval.status = "consumed"
    BY <2>2, <2>3
  <2>7. RequireApproval(w).status \in {"running", "waiting-approval"}
    BY <2>4
  <2> HIDE DEF used, asked
  <2> QED
    BY ONLY <1>4, <2>3, <2>4, <2>5, <2>6, <2>7
<1>5. CASE w.approval # [context |-> ContextOf(w), status |-> "approved"]
  <2>1. RequireApproval(w) = [w EXCEPT !.status = "waiting-approval", !.approval = asked]
    BY <1>5 DEF RequireApproval, Record
  <2>2. asked \in Approval /\ asked.status = "pending"
    BY <1>3
  <2> HIDE DEF asked
  <2>3. RequireApproval(w) \in Record /\ RequireApproval(w).approval = asked
    BY <2>1, <2>2 DEF Record, Status
  <2>4. /\ RequireApproval(w).status = "waiting-approval" /\ RequireApproval(w).cur = w.cur
        /\ RequireApproval(w).completed = w.completed /\ RequireApproval(w).counts = w.counts
    BY <2>1 DEF Record
  <2> QED
    BY <2>2, <2>3, <2>4
<1> QED
  BY <1>4, <1>5

LEMMA BeginStepType ==
  ASSUME NEW w \in Record
  PROVE  /\ BeginStep(w) \in Record
         /\ BeginStep(w).status = w.status
         /\ BeginStep(w).cur = w.cur
         /\ BeginStep(w).completed = w.completed
         /\ BeginStep(w).counts = w.counts
         /\ BeginStep(w).approval = w.approval
<1>1. [w.steps EXCEPT ![w.cur] = "running"] \in [Step -> StepStatus]
  BY DEF Record, StepStatus
<1> QED
  BY <1>1 DEF BeginStep, Record

\* A finished step is added to the completed ones; no count changes.
LEMMA FinishStepType ==
  ASSUME NEW w \in Record, NEW o \in Outcome, w.cur \in Step
  PROVE  /\ FinishStep(w, o) \in Record
         /\ FinishStep(w, o).status = w.status
         /\ FinishStep(w, o).cur = w.cur
         /\ w.completed \subseteq FinishStep(w, o).completed
         /\ FinishStep(w, o).counts = w.counts
         /\ FinishStep(w, o).approval = w.approval
<1> DEFINE ended == IF o.exit = 0 THEN "completed"
                    ELSE IF o.result = "blocked" THEN "blocked" ELSE "failed"
           fact == IF o.result = "none" THEN w.facts[w.cur] ELSE o.result
<1>1. [w.steps EXCEPT ![w.cur] = ended] \in [Step -> StepStatus]
  BY DEF Record, StepStatus
<1>2. o.result \in Result
  BY StepAssumption DEF Outcomes
<1>3. fact \in Result
  BY <1>2 DEF Record
<1>4. [w.facts EXCEPT ![w.cur] = fact] \in [Step -> Result]
  BY <1>3 DEF Record
<1>5. FinishStep(w, o) = [w EXCEPT !.steps = [w.steps EXCEPT ![w.cur] = ended],
                                   !.facts = [w.facts EXCEPT ![w.cur] = fact],
                                   !.completed = w.completed \cup {w.cur}]
  BY DEF FinishStep, Record
<1>6. w.completed \cup {w.cur} \in SUBSET Step
  BY DEF Record
<1> DEFINE steps == [w.steps EXCEPT ![w.cur] = ended]
           facts == [w.facts EXCEPT ![w.cur] = fact]
<1> HIDE DEF steps, facts
<1>7. [w EXCEPT !.steps = steps, !.facts = facts,
                !.completed = w.completed \cup {w.cur}] \in Record
  BY <1>1, <1>4, <1>6 DEF Record, steps, facts
<1> QED
  BY <1>5, <1>7 DEF Record, steps, facts

\* Following a connection raises its count, if it has one, and no other.
LEMMA CountedType ==
  ASSUME NEW w \in Record, NEW s \in Step, NEW i \in DOMAIN Edges[s],
         ~Exhausted(s, i, w.counts)
  PROVE  /\ Counted(w, s, i) \in Record
         /\ Counted(w, s, i).status = w.status
         /\ Counted(w, s, i).cur = w.cur
         /\ Counted(w, s, i).completed = w.completed
         /\ Counted(w, s, i).approval = w.approval
         /\ \A e \in LoopEdge : w.counts[e] <= Counted(w, s, i).counts[e]
         /\ WithinLimits(w.counts) => WithinLimits(Counted(w, s, i).counts)
<1> DEFINE loop == <<s, Edges[s][i].to>>
<1>1. CASE Edges[s][i].max = 0
  BY <1>1 DEF Counted, Record, Counts
<1>2. CASE Edges[s][i].max # 0
  <2>1. loop \in LoopEdge
    BY <1>2, EdgeType
  <2>2. w.counts \in [LoopEdge -> Nat]
    BY DEF Record, Counts
  <2>3. [w.counts EXCEPT ![loop] = @ + 1] \in Counts
    BY <2>1, <2>2 DEF Counts
  <2>4. Counted(w, s, i) = [w EXCEPT !.counts = [w.counts EXCEPT ![loop] = @ + 1]]
    BY <1>2 DEF Counted, Record
  <2>5. \A e \in LoopEdge : w.counts[e] <= [w.counts EXCEPT ![loop] = @ + 1][e]
    BY <2>1, <2>2
  <2>6. ASSUME WithinLimits(w.counts) PROVE WithinLimits([w.counts EXCEPT ![loop] = @ + 1])
    <3> SUFFICES ASSUME NEW e \in LoopEdge
                 PROVE  \E j \in DOMAIN Edges[e[1]] :
                          /\ Edges[e[1]][j].to = e[2]
                          /\ Edges[e[1]][j].max > 0
                          /\ [w.counts EXCEPT ![loop] = @ + 1][e] <= Edges[e[1]][j].max
      BY DEF WithinLimits
    <3>1. CASE e = loop
      <4>1. Edges[s][i].max \in Nat
        BY EdgeType DEF Edge
      <4>2. w.counts[loop] < Edges[s][i].max /\ w.counts[loop] \in Nat
        BY <1>2, <2>1, <2>2, <4>1 DEF Exhausted
      <4>3. [w.counts EXCEPT ![loop] = @ + 1][loop] <= Edges[s][i].max
        BY <2>1, <2>2, <4>1, <4>2
      <4> QED
        BY <1>2, <3>1, <4>1, <4>3
    <3>2. CASE e # loop
      BY <2>2, <2>6, <3>2 DEF WithinLimits
    <3> QED
      BY <3>1, <3>2
  <2> HIDE DEF loop
  <2> QED
    BY <2>3, <2>4, <2>5, <2>6 DEF Record
<1> QED
  BY <1>1, <1>2

-----------------------------------------------------------------------------
(* What a write of a runner is.  Every action that checkpoints is one, and *)
(* the invariants and the action properties only need to know this much.   *)

Grows(w, x) ==
  w.completed \subseteq x.completed /\ \A e \in LoopEdge : w.counts[e] <= x.counts[e]

\* What a process makes of the state it had: it grows, its counts stay within
\* the limits, and it approves nothing by itself.
Keeps(w, x) ==
  /\ Grows(w, x)
  /\ WithinLimits(w.counts) => WithinLimits(x.counts)
  /\ x.approval.status = "approved" => x.approval = w.approval

Writes(r) ==
  \E w \in Record, label \in Interpreting \cup {"report", "row", "notify", "release"} :
    /\ Save(r, w) /\ To(r, label)
    /\ Keeps(st[r], w)
    /\ label \in Interpreting => w.cur \in Step /\ w.status = "running"
    /\ pc[r] \notin {"idle", "acquired", "release"}
    /\ db.status = "done" => w = db
    /\ w.approval.status = "approved" => unspent' = unspent
    /\ (label = "bind" /\ w.cur \in Gated) =>
         w.approval.status = "consumed" /\ ContextOf(w) \in unspent'

RestTyped ==
  /\ index' \in {"none", "running", "waiting", "success", "failed"}
  /\ executed' \in [Runner -> Nat]
  /\ code' \in [Runner -> {0, 1}]
  /\ execs' \subseteq [key : Key, visit : Nat]
  /\ unspent' \subseteq Context

\* Growth is reflexive and passes over a state that keeps progress.
LEMMA GrowsRefl == ASSUME NEW w \in Record PROVE Grows(w, w)
  BY DEF Grows, Record, Counts

LEMMA KeepsRefl == ASSUME NEW w \in Record PROVE Keeps(w, w)
  BY GrowsRefl DEF Keeps

LEMMA GrowsTrans ==
  ASSUME NEW w \in Record, NEW x \in Record, NEW y \in Record, Grows(w, x), Grows(x, y)
  PROVE  Grows(w, y)
<1>1. w.completed \subseteq y.completed
  BY DEF Grows
<1>2. ASSUME NEW e \in LoopEdge PROVE w.counts[e] <= y.counts[e]
  <2>1. w.counts[e] \in Nat /\ x.counts[e] \in Nat /\ y.counts[e] \in Nat
    BY DEF Record, Counts
  <2>2. w.counts[e] <= x.counts[e] /\ x.counts[e] <= y.counts[e]
    BY DEF Grows
  <2> QED
    BY <2>1, <2>2
<1> QED
  BY <1>1, <1>2 DEF Grows

\* A write with typed surroundings keeps the whole invariant.
LEMMA WritesKeepInv ==
  ASSUME Inv, NEW r \in Runner, Writes(r), RestTyped
  PROVE  Inv'
<1> PICK w \in Record, label \in Interpreting \cup {"report", "row", "notify", "release"} :
      /\ Save(r, w) /\ To(r, label)
      /\ Keeps(st[r], w)
      /\ label \in Interpreting => w.cur \in Step /\ w.status = "running"
      /\ pc[r] \notin {"idle", "acquired", "release"}
      /\ db.status = "done" => w = db
      /\ w.approval.status = "approved" => unspent' = unspent
      /\ (label = "bind" /\ w.cur \in Gated) =>
           w.approval.status = "consumed" /\ ContextOf(w) \in unspent'
  BY DEF Writes
<1>1. label \in PC
  BY DEF PC, Interpreting
<1>2. lease' = [owner |-> r, live |-> TRUE] /\ db' = w
  BY DEF Save, Inv, TypeOK
<1>3. st' = [st EXCEPT ![r] = w] /\ pc' = [pc EXCEPT ![r] = label]
  BY DEF Save, To
<1>4. TypeOK'
  <2>1. visit' \in Nat
    BY DEF Save, Inv, TypeOK
  <2>2. /\ notified' = notified /\ definition' = definition /\ version' = version
        /\ dispatched' = dispatched /\ faults' = faults /\ grants' = grants
    BY DEF Save, boundVars
  <2> QED
    BY <1>1, <1>2, <1>3, <2>1, <2>2 DEF Inv, TypeOK, RestTyped
<1>5. AtAStep'
  BY <1>3 DEF Inv, TypeOK, AtAStep, Interpreting
<1>6. OwnerIsCurrent'
  <2> SUFFICES ASSUME NEW q \in Runner, lease'.owner = q
               PROVE  /\ db'.completed \subseteq st'[q].completed
                      /\ \A e \in LoopEdge : db'.counts[e] <= st'[q].counts[e]
                      /\ db'.status = "done" => st'[q] = db' /\ pc'[q] \notin Interpreting
    BY DEF OwnerIsCurrent
  <2>1. q = r /\ st'[q] = w /\ pc'[q] = label
    BY <1>2, <1>3 DEF Inv, TypeOK
  <2>2. Grows(w, w)
    BY GrowsRefl
  <2> QED
    BY <1>2, <2>1, <2>2 DEF Grows
<1>7. lease.owner = r /\ w.counts = db'.counts
  BY <1>2 DEF Save
<1>8. CountsAreBounded' /\ LoopsAreBounded'
  <2>1. WithinLimits(w.counts)
    BY DEF Keeps, Inv, CountsAreBounded
  <2> QED
    BY <1>2, <1>3, <2>1 DEF Inv, TypeOK, CountsAreBounded, LoopsAreBounded
<1>9. ApprovalsAreUnspent'
  <2>1. w.approval.status = "approved" => w.approval.context \in unspent'
    BY <1>7 DEF Keeps, Inv, ApprovalsAreUnspent
  <2> SUFFICES ASSUME NEW q \in Runner, lease'.owner = q
               PROVE  /\ st'[q].approval.status = "approved" => st'[q].approval.context \in unspent'
                      /\ (pc'[q] = "bind" /\ st'[q].cur \in Gated) =>
                           /\ st'[q].approval.status = "consumed"
                           /\ ContextOf(st'[q]) \in unspent'
    BY <1>2, <2>1 DEF ApprovalsAreUnspent, ContextOf
  <2>2. q = r /\ st'[q] = w /\ pc'[q] = label
    BY <1>2, <1>3 DEF Inv, TypeOK
  <2> QED
    BY <2>1, <2>2
<1> QED
  BY <1>4, <1>5, <1>6, <1>8, <1>9 DEF Inv

\* A write changes the stored record only forward, and not at all when done.
LEMMA WritesGoForward ==
  ASSUME Inv, NEW r \in Runner, Writes(r)
  PROVE  Grows(db, db') /\ (db.status = "done" => db' = db)
<1> PICK w \in Record, label \in Interpreting \cup {"report", "row", "notify", "release"} :
      /\ Save(r, w) /\ Keeps(st[r], w)
      /\ pc[r] \notin {"idle", "acquired", "release"}
      /\ db.status = "done" => w = db
  BY DEF Writes
<1>1. db' = w /\ lease.owner = r /\ Grows(st[r], w)
  BY DEF Save, Keeps
<1>2. Grows(db, st[r])
  BY <1>1 DEF Inv, OwnerIsCurrent, Grows
<1>3. db \in Record /\ st[r] \in Record
  BY DEF Inv, TypeOK
<1> QED
  BY <1>1, <1>2, <1>3, GrowsTrans

-----------------------------------------------------------------------------
(* Every checkpointing action writes, in the sense above.                  *)

\* The owner never interprets a run that is stored as done.
LEMMA InterpretedIsNotDone ==
  ASSUME Inv, NEW r \in Runner, pc[r] \in Interpreting, lease.owner = r
  PROVE  db.status # "done"
  BY DEF Inv, OwnerIsCurrent, Interpreting

\* Returning from the workflow with a record that keeps progress is a write.
LEMMA ReturnWrites ==
  ASSUME Inv, NEW r \in Runner, NEW w \in Record, NEW c \in {0, 1},
         NEW label \in {"report", "row"},
         pc[r] \notin {"idle", "acquired", "release"},
         Return(r, w, c, label), executed' \in [Runner -> Nat],
         Keeps(st[r], w), lease.owner = r => db.status # "done"
  PROVE  Writes(r) /\ RestTyped
<1>1. Save(r, w) /\ To(r, label) /\ unspent' = unspent
  BY DEF Return
<1>2. Writes(r)
  BY <1>1 DEF Writes, Save, Interpreting
<1>3. RestTyped
  BY DEF Return, RestTyped, Inv, TypeOK
<1> QED
  BY <1>2, <1>3

\* So is going round the loop with a running record at a step.
LEMMA ContinueWrites ==
  ASSUME Inv, NEW r \in Runner, NEW w \in Record,
         pc[r] \in Interpreting,
         Continue(r, w), executed' \in [Runner -> Nat],
         Keeps(st[r], w), w.cur \in Step, w.status = "running"
  PROVE  Writes(r) /\ RestTyped
<1>1. Save(r, w) /\ To(r, "loop") /\ lease.owner = r /\ unspent' = unspent
  BY DEF Continue, Save
<1>2. db.status # "done"
  BY <1>1, InterpretedIsNotDone
<1>3. Writes(r)
  BY <1>1, <1>2 DEF Writes, Interpreting
<1>4. RestTyped
  BY DEF Continue, RestTyped, Inv, TypeOK
<1> QED
  BY <1>3, <1>4

\* Ending the run after a step keeps the progress the step made.
LEMMA TerminateWrites ==
  ASSUME Inv, NEW r \in Runner, NEW w \in Record, NEW result, NEW exit \in {0, 1},
         pc[r] \in Interpreting,
         Terminate(r, w, result, exit), executed' \in [Runner -> Nat],
         Keeps(st[r], w)
  PROVE  Writes(r) /\ RestTyped
<1>1. lease.owner = r => db.status # "done"
  BY InterpretedIsNotDone
<1>2. pc[r] \notin {"idle", "acquired", "release"}
  BY DEF Interpreting
<1>3. CASE result \in {"fail", "blocked"}
  <2> DEFINE x == [w EXCEPT !.status = IF result = "fail" THEN "failed" ELSE "blocked"]
  <2>1. Return(r, x, 1, "report")
    BY <1>3 DEF Terminate
  <2>2. x \in Record /\ Keeps(st[r], x)
    BY DEF Record, Status, Grows, Keeps
  <2> HIDE DEF x
  <2> QED
    BY <1>1, <1>2, <2>1, <2>2, ReturnWrites
<1>4. CASE result \notin {"fail", "blocked"}
  <2> DEFINE x == [w EXCEPT !.status = "done", !.cur = End]
  <2>1. Return(r, x, exit, "report")
    BY <1>4 DEF Terminate
  <2>2. x \in Record /\ Keeps(st[r], x)
    BY DEF Record, Status, Target, Grows, Keeps
  <2> HIDE DEF x
  <2> QED
    BY <1>1, <1>2, <2>1, <2>2, ReturnWrites
<1> QED
  BY <1>3, <1>4

\* Whatever connection a step's result selects, the step's progress is kept.
LEMMA AdvanceWrites ==
  ASSUME Inv, NEW r \in Runner, NEW w \in Record, NEW result, NEW exit \in {0, 1},
         pc[r] \in Interpreting, w.cur \in Step, w.status = "running",
         Advance(r, w, result, exit), executed' \in [Runner -> Nat],
         st[r] \in Record, Keeps(st[r], w)
  PROVE  Writes(r) /\ RestTyped
<1>1. lease.owner = r => db.status # "done"
  BY InterpretedIsNotDone
<1>2. pc[r] \notin {"idle", "acquired", "release"}
  BY DEF Interpreting
<1> DEFINE blocked == [w EXCEPT !.status = "blocked"]
<1>3. CASE Return(r, blocked, 1, "report")
  <2>1. blocked \in Record /\ Keeps(st[r], blocked)
    BY DEF Record, Status, Grows, Keeps
  <2> HIDE DEF blocked
  <2> QED
    BY <1>1, <1>2, <1>3, <2>1, ReturnWrites
<1>4. CASE Terminate(r, w, result, exit)
  BY <1>4, TerminateWrites
<1>5. ASSUME NEW i \in DOMAIN Edges[w.cur], Selected(w.cur, i, result, w.counts),
             IF Edges[w.cur][i].to = End
             THEN Terminate(r, Counted(w, w.cur, i), result, exit)
             ELSE Continue(r, [Counted(w, w.cur, i) EXCEPT !.cur = Edges[w.cur][i].to,
                                                           !.status = "running"])
      PROVE  Writes(r) /\ RestTyped
  <2> DEFINE x == Counted(w, w.cur, i)
             y == [x EXCEPT !.cur = Edges[w.cur][i].to, !.status = "running"]
  <2>1. /\ x \in Record /\ Grows(w, x) /\ x.approval = w.approval
        /\ WithinLimits(w.counts) => WithinLimits(x.counts)
    BY <1>5, CountedType DEF Grows, Selected
  <2>2. Keeps(st[r], x)
    <3>1. Grows(st[r], x)
      BY <2>1, GrowsTrans DEF Keeps
    <3> QED
      BY <2>1, <3>1 DEF Keeps
  <2>3. CASE Edges[w.cur][i].to = End
    BY <1>5, <2>1, <2>2, <2>3, TerminateWrites
  <2>4. CASE Edges[w.cur][i].to # End
    <3>1. Edges[w.cur][i].to \in Step
      BY <2>4, EdgeType DEF Edge, Target
    <3>2. Continue(r, y)
      BY <1>5, <2>4
    <3> HIDE DEF x
    <3>3. /\ y \in Record /\ y.cur \in Step /\ y.status = "running"
          /\ Keeps(st[r], y)
      BY <2>1, <2>2, <3>1 DEF Record, Status, Target, Grows, Keeps
    <3> HIDE DEF y
    <3> QED
      BY <3>2, <3>3, ContinueWrites
  <2> QED
    BY <2>3, <2>4
<1> QED
  BY <1>3, <1>4, <1>5 DEF Advance

-----------------------------------------------------------------------------
(* The actions: the checkpointing ones write; the others leave the stored  *)
(* record alone, except the dashboard's approval.                          *)

Checkpoints(r) ==
  \/ RejectDefinition(r) \/ OverLimit(r) \/ Skip(r) \/ AskApproval(r)
  \/ ConsumeApproval(r) \/ Proceed(r) \/ BindFails(r) \/ Launch(r)
  \/ (\E o \in Outcome : Finish(r, o)) \/ FinalWrite(r)

LEMMA CheckpointsWrite ==
  ASSUME Inv, NEW r \in Runner, Checkpoints(r)
  PROVE  Writes(r) /\ RestTyped
<1>1. st[r] \in Record /\ version[r] \in 0 .. MaxDefinitions /\ executed[r] \in Nat
  BY DEF Inv, TypeOK
<1>2. pc[r] \in Interpreting => st[r].cur \in Step /\ st[r].status = "running"
  BY DEF Inv, AtAStep
<1>3. pc[r] \in Interpreting /\ lease.owner = r => db.status # "done"
  BY InterpretedIsNotDone
<1>4. CountStep(r) => executed' \in [Runner -> Nat]
  BY <1>1 DEF CountStep, Inv, TypeOK
<1>5. UNCHANGED executed => executed' \in [Runner -> Nat]
  BY DEF Inv, TypeOK
<1>6. Keeps(st[r], st[r])
  BY <1>1, KeepsRefl
<1>7. CASE RejectDefinition(r)
  <2> DEFINE x == InitialState(st[r], version[r])
             y == [x EXCEPT !.status = "blocked"]
  <2>1. x \in Record /\ Keeps(st[r], x)
    BY <1>1, <1>6, InitialStateType DEF Grows, Keeps
  <2>2. pc[r] = "indexed" /\ st[r].status # "done" /\ Return(r, y, 1, "row") /\ UNCHANGED executed
    BY <1>7 DEF RejectDefinition
  <2> HIDE DEF x
  <2>3. y \in Record /\ Keeps(st[r], y)
    BY <2>1 DEF Record, Status, Grows, Keeps
  <2>4. lease.owner = r => db.status # "done"
    BY <2>2 DEF Inv, OwnerIsCurrent
  <2> HIDE DEF y
  <2> QED
    BY <1>5, <2>2, <2>3, <2>4, ReturnWrites
<1>8. CASE OverLimit(r)
  <2> DEFINE y == [st[r] EXCEPT !.status = "blocked"]
  <2>1. y \in Record /\ Keeps(st[r], y)
    BY <1>1, <1>6 DEF Record, Status, Grows, Keeps
  <2>2. pc[r] = "loop" /\ Return(r, y, 1, "report") /\ UNCHANGED executed
    BY <1>8 DEF OverLimit
  <2> HIDE DEF y
  <2> QED
    BY <1>3, <1>5, <2>1, <2>2, ReturnWrites DEF Interpreting
<1>9. CASE Skip(r)
  <2>1. pc[r] = "loop" /\ Advance(r, st[r], "skipped", 0) /\ CountStep(r)
    BY <1>9 DEF Skip, InLoop
  <2> QED
    BY <1>1, <1>2, <1>4, <1>6, <2>1, AdvanceWrites DEF Interpreting
<1>10. CASE AskApproval(r)
  <2> DEFINE w == RequireApproval(st[r])
  <2>1. w \in Record /\ Keeps(st[r], w)
    BY <1>1, <1>6, RequireApprovalType DEF Grows, Keeps
  <2>2. pc[r] = "loop" /\ Return(r, w, 0, "report") /\ CountStep(r)
    BY <1>10 DEF AskApproval, InLoop
  <2> HIDE DEF w
  <2> QED
    BY <1>3, <1>4, <2>1, <2>2, ReturnWrites DEF Interpreting
<1>11. CASE ConsumeApproval(r)
  <2> DEFINE w == RequireApproval(st[r])
  <2>1. /\ w \in Record /\ Keeps(st[r], w) /\ w.cur = st[r].cur
        /\ w.status = "running" =>
             /\ st[r].approval = [context |-> ContextOf(st[r]), status |-> "approved"]
             /\ w.approval.status = "consumed" /\ ContextOf(w) = ContextOf(st[r])
    BY <1>1, <1>6, RequireApprovalType DEF Grows, Keeps
  <2>2. /\ pc[r] = "loop" /\ w.status = "running" /\ Save(r, w) /\ To(r, "bind")
        /\ CountStep(r) /\ UNCHANGED <<index, code, execs, unspent>>
    BY <1>11 DEF ConsumeApproval, InLoop
  <2> HIDE DEF w
  <2>3. unspent' = unspent /\ lease.owner = r
    BY <2>2 DEF Save
  <2>4. ContextOf(w) \in unspent'
    BY <2>1, <2>2, <2>3 DEF Inv, ApprovalsAreUnspent
  <2>5. Writes(r)
    BY <1>2, <1>3, <2>1, <2>2, <2>3, <2>4 DEF Writes, Interpreting
  <2> QED
    BY <1>4, <2>2, <2>5 DEF RestTyped, Inv, TypeOK
<1>12. CASE Proceed(r)
  <2>1. /\ pc[r] = "loop" /\ Save(r, st[r]) /\ To(r, "bind") /\ st[r].cur \notin Gated
        /\ CountStep(r) /\ UNCHANGED <<index, code, execs, unspent>>
    BY <1>12 DEF Proceed, InLoop
  <2>2. Writes(r)
    BY <1>1, <1>2, <1>3, <1>6, <2>1 DEF Writes, Save, Interpreting
  <2> QED
    BY <1>4, <2>1, <2>2 DEF RestTyped, Inv, TypeOK
<1>13. CASE BindFails(r)
  <2> DEFINE y == [st[r] EXCEPT !.status = "blocked", !.steps[st[r].cur] = "blocked"]
             steps == [st[r].steps EXCEPT ![st[r].cur] = "blocked"]
  <2>1. steps \in [Step -> StepStatus]
    BY <1>1 DEF Record, StepStatus
  <2>2. y = [st[r] EXCEPT !.status = "blocked", !.steps = steps]
    BY <1>1 DEF Record
  <2> HIDE DEF steps
  <2>3. y \in Record /\ Keeps(st[r], y)
    BY <1>1, <1>6, <2>1, <2>2 DEF Record, Status, Grows, Keeps
  <2>4. pc[r] = "bind" /\ Return(r, y, 1, "report") /\ UNCHANGED executed
    BY <1>13 DEF BindFails
  <2> HIDE DEF y
  <2> QED
    BY <1>3, <1>5, <2>3, <2>4, ReturnWrites DEF Interpreting
<1>14. CASE Launch(r)
  <2> DEFINE w == BeginStep(st[r])
  <2>1. /\ w \in Record /\ Keeps(st[r], w) /\ w.cur = st[r].cur /\ w.status = st[r].status
        /\ w.approval = st[r].approval
    BY <1>1, <1>6, BeginStepType DEF Grows, Keeps
  <2>2. pc[r] = "bind" /\ Save(r, w) /\ To(r, "exec") /\ UNCHANGED <<index, executed, code>>
    BY <1>14 DEF Launch
  <2> HIDE DEF w
  <2>6. w.approval.status = "approved" => unspent' = unspent
    BY <1>14, <2>1, <2>2 DEF Launch, Save, Inv, ApprovalsAreUnspent
  <2>7. db.status # "done" /\ w.cur \in Step /\ w.status = "running"
    BY <1>2, <1>3, <2>1, <2>2 DEF Save, Interpreting
  <2>3. Writes(r)
    BY <2>1, <2>2, <2>6, <2>7 DEF Writes, Interpreting
  <2>4. ExecutionKey(st[r]) \in Key
    BY <1>1, <1>2, <2>2 DEF ExecutionKey, Key, Record, Interpreting
  <2>5. execs' \subseteq [key : Key, visit : Nat] /\ unspent' \subseteq Context
    BY <1>14, <2>4 DEF Launch, Inv, TypeOK
  <2> QED
    BY <1>5, <2>2, <2>3, <2>5 DEF RestTyped, Inv, TypeOK
<1>15. ASSUME NEW o \in Outcome, Finish(r, o) PROVE Writes(r) /\ RestTyped
  <2> DEFINE w == FinishStep(st[r], o)
             y == [w EXCEPT !.status = IF o.result = "blocked" THEN "blocked" ELSE "failed"]
  <2>1. pc[r] = "exec" /\ UNCHANGED executed
    BY <1>15 DEF Finish
  <2>2. st[r].cur \in Step /\ st[r].status = "running"
    BY <1>2, <2>1 DEF Interpreting
  <2>3. w \in Record /\ w.cur \in Step /\ w.status = "running" /\ Keeps(st[r], w)
    BY <1>1, <1>6, <2>2, FinishStepType DEF Grows, Keeps
  <2>4. Return(r, y, 1, "report") \/ Advance(r, w, o.result, o.exit)
    BY <1>15 DEF Finish
  <2> HIDE DEF w
  <2>5. CASE Return(r, y, 1, "report")
    <3>1. y \in Record /\ Keeps(st[r], y)
      BY <2>3 DEF Record, Status, Grows, Keeps
    <3> HIDE DEF y
    <3> QED
      BY <1>3, <1>5, <2>1, <2>5, <3>1, ReturnWrites DEF Interpreting
  <2>6. CASE Advance(r, w, o.result, o.exit)
    <3>1. o.exit \in {0, 1}
      BY StepAssumption DEF Outcomes
    <3> QED
      BY <1>1, <1>5, <2>1, <2>3, <2>6, <3>1, AdvanceWrites DEF Interpreting
  <2> QED
    BY <2>4, <2>5, <2>6
<1>16. CASE FinalWrite(r)
  <2>1. /\ pc[r] = "final" /\ Save(r, st[r]) /\ UNCHANGED <<index, executed, code, execs, unspent>>
        /\ \E label \in {"release", "notify"} : To(r, label)
    BY <1>16 DEF FinalWrite
  <2>2. db.status = "done" => st[r] = db
    BY <2>1 DEF Save, Inv, OwnerIsCurrent
  <2>3. Writes(r)
    BY <1>1, <1>6, <2>1, <2>2 DEF Writes, Interpreting
  <2> QED
    BY <1>5, <2>1, <2>3 DEF RestTyped, Inv, TypeOK
<1> QED
  BY <1>7, <1>8, <1>9, <1>10, <1>11, <1>12, <1>13, <1>14, <1>15, <1>16 DEF Checkpoints

Quiet(r) ==
  \/ Acquire(r) \/ RefuseBusy(r) \/ Read(r) \/ IndexRunning(r) \/ Receipt(r) \/ Enter(r)
  \/ PublishReport(r) \/ IndexResult(r) \/ Notify(r) \/ IndexFailed(r) \/ Release(r)
  \/ LeaseLost(r) \/ CallFails(r) \/ Crash(r)

\* A run that was never stored followed no connection.
LEMMA NoRecordWithinLimits == WithinLimits(NoRecord.counts)
<1> SUFFICES ASSUME NEW e \in LoopEdge
             PROVE  \E i \in DOMAIN Edges[e[1]] :
                      /\ Edges[e[1]][i].to = e[2]
                      /\ Edges[e[1]][i].max > 0
                      /\ NoRecord.counts[e] <= Edges[e[1]][i].max
  BY DEF WithinLimits
<1>1. NoRecord.counts[e] = 0
  BY DEF NoRecord
<1>2. PICK i \in DOMAIN Edges[e[1]] : Edges[e[1]][i].to = e[2] /\ Edges[e[1]][i].max > 0
  BY DEF LoopEdge
<1>3. Edges[e[1]][i].max \in Nat
  BY EdgeType DEF LoopEdge, Edge
<1> QED
  BY <1>1, <1>2, <1>3

\* A process that only moves between the points outside the loop, with the
\* lease as it is or given back, keeps the invariant.
LEMMA MovesKeepInv ==
  ASSUME Inv, NEW r \in Runner, NEW label \in PC \ Interpreting,
         pc[r] \notin {"idle", "acquired", "release"} \/ label \in {"idle", "acquired", "release"},
         To(r, label), TypeOK',
         UNCHANGED <<db, unspent>>,
         st' = st \/ (label = "idle" /\ st'[r] = NoRecord),
         \A q \in Runner : q # r => st'[q] = st[q],
         lease'.owner \in {lease.owner, NoOne}
  PROVE  Inv'
<1>1. pc' = [pc EXCEPT ![r] = label] /\ pc \in [Runner -> PC]
  BY DEF To, Inv, TypeOK
<1>2. AtAStep'
  BY <1>1 DEF Inv, AtAStep, Interpreting
<1>3. OwnerIsCurrent'
  BY <1>1, RunnerAssumption DEF Inv, OwnerIsCurrent, Interpreting
<1>4. CountsAreBounded' /\ LoopsAreBounded'
  BY NoRecordWithinLimits DEF Inv, CountsAreBounded, LoopsAreBounded
<1>5. ApprovalsAreUnspent'
  BY <1>1, RunnerAssumption DEF Inv, ApprovalsAreUnspent, Interpreting, ContextOf
<1> QED
  BY <1>2, <1>3, <1>4, <1>5 DEF Inv

\* Nothing the invariant speaks of changes.
LEMMA SameKeepsInv ==
  ASSUME Inv, TypeOK', UNCHANGED <<db, pc, st, unspent>>, lease'.owner = lease.owner
  PROVE  Inv'
  BY DEF Inv, AtAStep, OwnerIsCurrent, CountsAreBounded, LoopsAreBounded, WithinLimits,
         ApprovalsAreUnspent, ContextOf, Interpreting

LEMMA FaultType == ASSUME Inv, Fault PROVE faults' \in Nat
  BY DEF Fault, Inv, TypeOK

LEMMA QuietKeepsInv ==
  ASSUME Inv, NEW r \in Runner, Quiet(r)
  PROVE  Inv' /\ db' = db
<1>1. CASE Acquire(r)
  <2>1. lease' = [owner |-> r, live |-> TRUE] /\ pc' = [pc EXCEPT ![r] = "acquired"] /\ pc[r] = "idle"
    BY <1>1 DEF Acquire, To
  <2>2. UNCHANGED <<db, st>>
    BY <1>1 DEF Acquire
  <2>3. TypeOK'
    <3>1. "acquired" \in PC
      BY DEF PC
    <3>2. version' \in [Runner -> 0 .. MaxDefinitions]
      BY <1>1 DEF Acquire, Inv, TypeOK
    <3> QED
      BY <1>1, <2>1, <3>1, <3>2 DEF Acquire, historyVars, Inv, TypeOK
  <2>4. AtAStep'
    BY <2>1, <2>2 DEF Inv, TypeOK, AtAStep, Interpreting
  <2>5. OwnerIsCurrent'
    BY <2>1, <2>2 DEF Inv, TypeOK, OwnerIsCurrent
  <2>6. CountsAreBounded' /\ LoopsAreBounded'
    BY <2>2 DEF Inv, CountsAreBounded, LoopsAreBounded
  <2>7. ApprovalsAreUnspent'
    BY <1>1, <2>1, <2>2 DEF Acquire, historyVars, Inv, TypeOK, ApprovalsAreUnspent
  <2> QED
    BY <2>2, <2>3, <2>4, <2>5, <2>6, <2>7 DEF Inv
<1>2. CASE RefuseBusy(r)
  <2>1. UNCHANGED <<db, lease, pc, st, unspent>>
    BY <1>2 DEF RefuseBusy, runnerVars, historyVars
  <2>2. TypeOK'
    BY <1>2 DEF RefuseBusy, runnerVars, historyVars, Inv, TypeOK
  <2> QED
    BY <2>1, <2>2, SameKeepsInv
<1>3. CASE Read(r)
  <2>1. st' = [st EXCEPT ![r] = db] /\ pc' = [pc EXCEPT ![r] = "read"]
    BY <1>3 DEF Read, To
  <2>2. UNCHANGED <<db, lease>>
    BY <1>3 DEF Read
  <2>3. TypeOK'
    <3>1. "read" \in PC
      BY DEF PC
    <3>2. st' \in [Runner -> Record] /\ pc' \in [Runner -> PC]
      BY <2>1, <3>1 DEF Inv, TypeOK
    <3> QED
      BY <1>3, <3>2 DEF Read, boundVars, historyVars, Inv, TypeOK
  <2>4. AtAStep'
    BY <2>1 DEF Inv, TypeOK, AtAStep, Interpreting
  <2>5. OwnerIsCurrent'
    <3>1. db \in Record /\ Grows(db, db)
      BY GrowsRefl DEF Inv, TypeOK
    <3> QED
      BY <2>1, <2>2, <3>1 DEF Inv, TypeOK, OwnerIsCurrent, Grows, Interpreting
  <2>6. CountsAreBounded' /\ LoopsAreBounded'
    BY <2>1, <2>2 DEF Inv, TypeOK, CountsAreBounded, LoopsAreBounded
  <2>7. ApprovalsAreUnspent'
    BY <1>3, <2>1, <2>2 DEF Read, historyVars, Inv, TypeOK, ApprovalsAreUnspent, ContextOf
  <2> QED
    BY <2>2, <2>3, <2>4, <2>5, <2>6, <2>7 DEF Inv
<1>4. CASE Enter(r)
  <2> DEFINE w == InitialState(st[r], version[r])
  <2>1. st' = [st EXCEPT ![r] = w] /\ pc' = [pc EXCEPT ![r] = "loop"]
    BY <1>4 DEF Enter, To
  <2>2. UNCHANGED <<db, lease>> /\ pc[r] = "indexed" /\ st[r].status # "done"
    BY <1>4 DEF Enter
  <2>3. /\ w \in Record /\ w.status = "running" /\ w.cur \in Step
        /\ w.completed = st[r].completed /\ w.counts = st[r].counts
        /\ w.approval = st[r].approval
    BY InitialStateType DEF Inv, TypeOK
  <2> HIDE DEF w
  <2>4. TypeOK'
    <3>1. "loop" \in PC
      BY DEF PC
    <3>2. st' \in [Runner -> Record] /\ pc' \in [Runner -> PC]
      BY <2>1, <2>3, <3>1 DEF Inv, TypeOK
    <3> QED
      BY <1>4, <3>2 DEF Enter, boundVars, historyVars, Inv, TypeOK
  <2>5. AtAStep'
    BY <2>1, <2>3 DEF Inv, TypeOK, AtAStep, Interpreting
  <2>6. OwnerIsCurrent'
    BY <2>1, <2>2, <2>3 DEF Inv, TypeOK, OwnerIsCurrent
  <2>7. CountsAreBounded' /\ LoopsAreBounded'
    BY <2>1, <2>2, <2>3 DEF Inv, TypeOK, CountsAreBounded, LoopsAreBounded
  <2>8. ApprovalsAreUnspent'
    BY <1>4, <2>1, <2>2, <2>3
    DEF Enter, historyVars, Inv, TypeOK, ApprovalsAreUnspent, ContextOf
  <2> QED
    BY <2>2, <2>4, <2>5, <2>6, <2>7, <2>8 DEF Inv
<1>5. CASE IndexRunning(r)
  <2>1. TypeOK'
    BY <1>5, FaultType DEF IndexRunning, To, Upsert, historyVars, Inv, TypeOK, PC
  <2> QED
    BY <1>5, <2>1, MovesKeepInv DEF IndexRunning, historyVars, PC, Interpreting
<1>6. CASE Receipt(r)
  <2>1. TypeOK'
    BY <1>6 DEF Receipt, To, boundVars, historyVars, Inv, TypeOK, PC
  <2> QED
    BY <1>6, <2>1, MovesKeepInv DEF Receipt, historyVars, PC, Interpreting
<1>7. CASE PublishReport(r)
  <2>1. TypeOK'
    BY <1>7 DEF PublishReport, To, boundVars, historyVars, Inv, TypeOK, PC
  <2> QED
    BY <1>7, <2>1, MovesKeepInv DEF PublishReport, historyVars, PC, Interpreting
<1>8. CASE IndexResult(r)
  <2>1. TypeOK'
    BY <1>8, FaultType DEF IndexResult, To, Upsert, historyVars, Inv, TypeOK, PC
  <2> QED
    BY <1>8, <2>1, MovesKeepInv DEF IndexResult, historyVars, PC, Interpreting
<1>9. CASE Notify(r)
  <2>1. TypeOK'
    BY <1>9 DEF Notify, To, boundVars, historyVars, Inv, TypeOK, PC
  <2> QED
    BY <1>9, <2>1, MovesKeepInv DEF Notify, historyVars, PC, Interpreting
<1>10. CASE IndexFailed(r)
  <2>1. TypeOK'
    BY <1>10, FaultType DEF IndexFailed, To, Upsert, historyVars, Inv, TypeOK, PC
  <2> QED
    BY <1>10, <2>1, MovesKeepInv DEF IndexFailed, historyVars, PC, Interpreting
<1>11. ASSUME Forget(r),
              lease' \in {lease, [owner |-> NoOne, live |-> FALSE]},
              (UNCHANGED boundVars) \/ (Fault /\ UNCHANGED <<dispatched, grants>>)
       PROVE  Inv' /\ db' = db
  <2>1. "idle" \in PC \ Interpreting /\ To(r, "idle")
    BY <1>11 DEF PC, Interpreting, Forget
  <2>2. faults' \in Nat /\ dispatched' \in Nat /\ grants' \in Nat
    BY <1>11, FaultType DEF boundVars, Inv, TypeOK
  <2>3. TypeOK'
    <3>1. lease' \in [owner : Runner \cup {NoOne}, live : BOOLEAN]
      <4>1. [owner |-> NoOne, live |-> FALSE] \in [owner : Runner \cup {NoOne}, live : BOOLEAN]
        OBVIOUS
      <4> QED
        BY <1>11, <4>1 DEF Inv, TypeOK
    <3>2. st' \in [Runner -> Record]
      BY <1>11, NoRecordType DEF Forget, Inv, TypeOK
    <3>3. version' \in [Runner -> 0 .. MaxDefinitions]
      BY <1>11, BoundAssumption DEF Forget, Inv, TypeOK
    <3>4. /\ pc' \in [Runner -> PC] /\ executed' \in [Runner -> Nat]
          /\ code' \in [Runner -> {0, 1}]
      BY <1>11, <2>1 DEF Forget, To, Inv, TypeOK
    <3> QED
      BY <1>11, <2>2, <3>1, <3>2, <3>3, <3>4 DEF Forget, historyVars, Inv, TypeOK
  <2>4. lease'.owner \in {lease.owner, NoOne}
    BY <1>11
  <2>5. \A q \in Runner : q # r => st'[q] = st[q]
    BY <1>11 DEF Forget, Inv, TypeOK
  <2>6. UNCHANGED <<db, unspent>> /\ st'[r] = NoRecord
    BY <1>11 DEF Forget, historyVars, Inv, TypeOK
  <2> QED
    BY <2>1, <2>3, <2>4, <2>5, <2>6, MovesKeepInv
<1>12. CASE Release(r)
  BY <1>11, <1>12 DEF Release, boundVars
<1>13. CASE Crash(r)
  BY <1>11, <1>13 DEF Crash
<1>14. ASSUME Throw(r), (UNCHANGED boundVars) \/ (Fault /\ UNCHANGED <<dispatched, grants>>)
       PROVE  Inv' /\ db' = db
  <2>1. pc[r] \in Inside \cup Around /\ UNCHANGED <<db, st, lease, unspent>>
    BY <1>14 DEF Throw, historyVars
  <2>2. PICK label \in {"thrown", "release"} :
          To(r, label) /\ (label = "release" <=> pc[r] \notin Inside)
    BY <1>14 DEF Throw
  <2>3. faults' \in Nat /\ dispatched' \in Nat /\ grants' \in Nat
    BY <1>14, FaultType DEF boundVars, Inv, TypeOK
  <2>4. TypeOK'
    BY <1>14, <2>2, <2>3 DEF Throw, To, historyVars, Inv, TypeOK, PC
  <2>5. label \in {"idle", "acquired", "release"} \/ pc[r] \notin {"idle", "acquired", "release"}
    BY <2>1, <2>2 DEF Inside
  <2> QED
    BY <2>1, <2>2, <2>4, <2>5, MovesKeepInv DEF PC, Interpreting
<1>15. CASE LeaseLost(r)
  BY <1>14, <1>15 DEF LeaseLost, boundVars
<1>16. CASE CallFails(r)
  BY <1>14, <1>16 DEF CallFails
<1> QED
  BY <1>1, <1>2, <1>3, <1>4, <1>5, <1>6, <1>7, <1>8, <1>9, <1>10, <1>12, <1>13, <1>15, <1>16
  DEF Quiet

\* The steps that are not a runner's.
LEMMA EnvironmentKeepsInv ==
  ASSUME Inv, Approve \/ PublishDefinition \/ Expire
  PROVE  Inv' /\ Grows(db, db') /\ (db.status = "done" => db' = db)
<1>1. db \in Record /\ Grows(db, db)
  BY GrowsRefl DEF Inv, TypeOK
<1>2. CASE Approve
  <2> DEFINE x == [db EXCEPT !.status = "running", !.approval.status = "approved"]
             given == [db.approval EXCEPT !.status = "approved"]
  <2>1. given \in Approval
    BY <1>1 DEF Record, Approval
  <2>2. x = [db EXCEPT !.status = "running", !.approval = given]
    BY <1>1 DEF Record
  <2> HIDE DEF given
  <2>3. /\ x \in Record /\ x.status = "running" /\ x.completed = db.completed
        /\ x.counts = db.counts /\ x.approval.context = db.approval.context
    <3>1. given.context = db.approval.context
      BY DEF given
    <3> QED
      BY <1>1, <2>1, <2>2, <3>1 DEF Record, Status
  <2>4. db' = x /\ db.status = "waiting-approval"
    BY <1>2 DEF Approve
  <2> HIDE DEF x
  <2>5. UNCHANGED <<lease, pc, st>>
    BY <1>2 DEF Approve, runnerVars
  <2>6. TypeOK'
    <3>1. db.approval.context \in Context
      BY <1>1 DEF Record, Approval
    <3>2. unspent' \subseteq Context /\ grants' \in Nat
      BY <1>2, <3>1 DEF Approve, Inv, TypeOK
    <3>3. /\ UNCHANGED <<lease, index, notified, definition, pc, st, version, executed, code,
                       dispatched, faults, visit, execs>>
      BY <1>2 DEF Approve, runnerVars
    <3>4. db' \in Record
      BY <2>3, <2>4
    <3>5. lease' = lease /\ pc' = pc /\ st' = st /\ version' = version
      BY <3>3
    <3> HIDE DEF x
    <3> QED
      BY <3>2, <3>3, <3>4, <3>5 DEF Inv, TypeOK
  <2>7. AtAStep' /\ OwnerIsCurrent'
    BY <1>1, <2>3, <2>4, <2>5 DEF Inv, AtAStep, OwnerIsCurrent, Interpreting
  <2>8. CountsAreBounded' /\ LoopsAreBounded'
    BY <2>3, <2>4, <2>5 DEF Inv, CountsAreBounded, LoopsAreBounded
  <2>9. ApprovalsAreUnspent'
    <3>1. unspent' = unspent \cup {db.approval.context}
      BY <1>2 DEF Approve
    <3> QED
      BY <2>3, <2>4, <2>5, <3>1 DEF Inv, ApprovalsAreUnspent, ContextOf
  <2> QED
    BY <1>1, <2>3, <2>4, <2>6, <2>7, <2>8, <2>9 DEF Inv, Grows
<1>3. CASE PublishDefinition
  <2>1. TypeOK'
    BY <1>3, BoundAssumption
    DEF PublishDefinition, runnerVars, boundVars, historyVars, Inv, TypeOK
  <2> QED
    BY <1>1, <1>3, <2>1, SameKeepsInv DEF PublishDefinition, runnerVars, historyVars
<1>4. CASE Expire
  <2>1. lease' \in [owner : Runner \cup {NoOne}, live : BOOLEAN] /\ lease'.owner = lease.owner
    BY <1>4 DEF Expire, Inv, TypeOK
  <2>2. TypeOK'
    BY <1>4, <2>1 DEF Expire, runnerVars, boundVars, historyVars, Inv, TypeOK
  <2> QED
    BY <1>1, <1>4, <2>1, <2>2, SameKeepsInv DEF Expire, runnerVars, historyVars
<1> QED
  BY <1>2, <1>3, <1>4

\* One step of the specification: the invariant is kept, and the stored record
\* goes forward only and is final once done.
LEMMA NextStep ==
  ASSUME Inv, [Next]_vars
  PROVE  Inv' /\ Grows(db, db') /\ (db.status = "done" => db' = db)
<1>1. db \in Record /\ Grows(db, db)
  BY GrowsRefl DEF Inv, TypeOK
<1>2. ASSUME NEW r \in Runner, Checkpoints(r)
      PROVE  Inv' /\ Grows(db, db') /\ (db.status = "done" => db' = db)
  BY <1>2, CheckpointsWrite, WritesKeepInv, WritesGoForward
<1>3. ASSUME NEW r \in Runner, Quiet(r)
      PROVE  Inv' /\ Grows(db, db') /\ (db.status = "done" => db' = db)
  BY <1>1, <1>3, QuietKeepsInv
<1>4. CASE UNCHANGED vars
  <2>1. UNCHANGED <<db, lease, pc, st, unspent>>
    BY <1>4 DEF vars, runnerVars, historyVars
  <2>2. TypeOK'
    BY <1>4 DEF vars, runnerVars, boundVars, historyVars, Inv, TypeOK
  <2> QED
    BY <1>1, <2>1, <2>2, SameKeepsInv
<1>5. CASE Next
  BY <1>2, <1>3, <1>5, EnvironmentKeepsInv DEF Next, Work, Checkpoints, Quiet
<1> QED
  BY <1>4, <1>5

LEMMA InitInv == ASSUME Init PROVE Inv
<1>1. TypeOK
  BY NoRecordType, BoundAssumption DEF Init, TypeOK, PC
<1>2. AtAStep /\ OwnerIsCurrent
  BY RunnerAssumption DEF Init, AtAStep, OwnerIsCurrent, Interpreting
<1>3. CountsAreBounded /\ LoopsAreBounded
  BY NoRecordWithinLimits DEF Init, CountsAreBounded, LoopsAreBounded
<1>4. ApprovalsAreUnspent
  BY RunnerAssumption DEF Init, ApprovalsAreUnspent, NoRecord
<1> QED
  BY <1>1, <1>2, <1>3, <1>4 DEF Inv

-----------------------------------------------------------------------------
(* The theorems.                                                           *)

\* In every reachable state, for any runners, graph and bounds, the variables
\* have their types, a process in the loop is at a step, and the owner of the
\* lease (runJob) knows everything that is stored.
THEOREM Invariance == Spec => []Inv
<1>1. Init => Inv
  BY InitInv
<1>2. Inv /\ [Next]_vars => Inv'
  BY NextStep
<1> QED
  BY <1>1, <1>2, PTL DEF Spec

\* The type invariant that the runs check.
THEOREM TypeCorrect == Spec => []TypeOK
<1>1. Inv => TypeOK
  BY DEF Inv
<1> QED
  BY <1>1, Invariance, PTL

\* The invariant behind the lease: its owner is never behind the record.
THEOREM OwnerCurrent == Spec => []OwnerIsCurrent
<1>1. Inv => OwnerIsCurrent
  BY DEF Inv
<1> QED
  BY <1>1, Invariance, PTL

\* runCapabilityWorkflow's receipt is final: no process, late or re-dispatched,
\* and no approval ever changes the record of a run that is done.
THEOREM DoneStaysDone == Spec => DoneIsFinal
<1>1. Inv /\ [Next]_vars => [db.status = "done" => db' = db]_vars
  BY NextStep
<1> QED
  BY <1>1, Invariance, PTL DEF Spec, DoneIsFinal

\* Checkpoints carry the whole state and compare nothing, and still no write
\* ever takes back a completed step or a traversal that was counted.
THEOREM ProgressStays == Spec => ProgressIsKept
<1>1. Inv /\ [Next]_vars =>
        [ /\ db.completed \subseteq db'.completed
          /\ \A e \in LoopEdge : db.counts[e] <= db'.counts[e] ]_vars
  BY NextStep DEF Grows
<1> QED
  BY <1>1, Invariance, PTL DEF Spec, ProgressIsKept

\* maxIterations bounds the traversals of a connection over all the processes
\* that ever work on the run, resumed or not.
THEOREM LoopsStayBounded == Spec => []LoopsAreBounded
<1>1. Inv => LoopsAreBounded
  BY DEF Inv
<1> QED
  BY <1>1, Invariance, PTL

\* A process starts a capability in no other step than Launch.
LEMMA OnlyLaunchExecutes ==
  ASSUME Inv, Next, NEW r \in Runner, pc[r] = "bind", pc'[r] = "exec"
  PROVE  Launch(r)
<1>1. pc \in [Runner -> PC]
  BY DEF Inv, TypeOK
<1>2. ~UNCHANGED pc
  OBVIOUS
<1>3. PICK q \in Runner : Acquire(q) \/ RefuseBusy(q) \/ Work(q) \/ CallFails(q) \/ Crash(q)
  BY <1>2 DEF Next, Approve, PublishDefinition, Expire, runnerVars
<1>4. ASSUME NEW label \in PC, To(q, label)
      PROVE  q = r /\ label = "exec"
  BY <1>1, <1>4 DEF To
<1>5. ASSUME NEW w, NEW result, NEW exit, Advance(q, w, result, exit) PROVE FALSE
  <2>1. To(q, "report") \/ To(q, "loop")
    BY <1>5 DEF Advance, Terminate, Return, Continue
  <2> QED
    BY <1>4, <2>1 DEF PC
<1>6. ASSUME NEW o \in Outcome, Finish(q, o) PROVE FALSE
  <2>1. To(q, "report") \/ Advance(q, FinishStep(st[q], o), o.result, o.exit)
    BY <1>6 DEF Finish, Return
  <2> QED
    BY <1>4, <1>5, <2>1 DEF PC
<1>7. ~Skip(q)
  BY <1>5 DEF Skip
<1>8. ~(RefuseBusy(q))
  BY <1>2 DEF RefuseBusy, runnerVars
<1>9. ~(Acquire(q) \/ Read(q) \/ IndexRunning(q) \/ Receipt(q) \/ Enter(q))
  BY <1>4 DEF Acquire, Read, IndexRunning, Receipt, Enter, PC
<1>10. ~(RejectDefinition(q) \/ OverLimit(q) \/ AskApproval(q) \/ BindFails(q))
  BY <1>4 DEF RejectDefinition, OverLimit, AskApproval, BindFails, Return, PC
<1>11. ~(ConsumeApproval(q) \/ Proceed(q))
  BY <1>4 DEF ConsumeApproval, Proceed, PC
<1>12. ~(PublishReport(q) \/ IndexResult(q) \/ FinalWrite(q) \/ Notify(q) \/ IndexFailed(q))
  BY <1>4 DEF PublishReport, IndexResult, FinalWrite, Notify, IndexFailed, PC
<1>13. ~(Release(q) \/ LeaseLost(q) \/ CallFails(q) \/ Crash(q))
  BY <1>4 DEF Release, LeaseLost, CallFails, Crash, Forget, Throw, PC
<1>14. Launch(q) /\ To(q, "exec")
  BY <1>3, <1>6, <1>7, <1>8, <1>9, <1>10, <1>11, <1>12, <1>13 DEF Work, Launch
<1> QED
  BY <1>4, <1>14 DEF PC

\* requireWorkflowStepApproval: whoever launches a gated step does it with an
\* approval of this step, definition and facts that no launch has used, however
\* processes crashed, resumed or lost the lease in between.
THEOREM ApprovedLaunches == Spec => LaunchesAreApproved
<1>1. ASSUME Inv, Next, NEW r \in Runner, pc[r] = "bind", pc'[r] = "exec", st[r].cur \in Gated
      PROVE  ContextOf(st[r]) \in unspent
  <2>1. lease.owner = r
    BY <1>1, OnlyLaunchExecutes DEF Launch, Save
  <2> QED
    BY <1>1, <2>1 DEF Inv, ApprovalsAreUnspent
<1>2. Inv /\ [Next]_vars =>
        [ \A r \in Runner :
            (pc[r] = "bind" /\ pc'[r] = "exec" /\ st[r].cur \in Gated)
              => ContextOf(st[r]) \in unspent ]_vars
  BY <1>1
<1> QED
  BY <1>2, Invariance, PTL DEF Spec, LaunchesAreApproved

-----------------------------------------------------------------------------
Cursor(w) == IF w.cur = End THEN StartAt ELSE w.cur

\* A record that asks for the approval of its current step.
Asks(w) ==
  /\ w.status = "waiting-approval" /\ w.cur \in Gated /\ ShouldRun(w.cur, w.facts)
  /\ w.approval.status = "pending" /\ w.approval.context.step = w.cur

\* What a stored record looks like.  Only the step under the cursor shows as
\* running, and it is one that runs.
Shape(w) ==
  /\ w.status = "waiting-approval" => Asks(w)
  /\ w.cur = End <=> w.status \in {"absent", "done"}
  /\ \A s \in Step : w.steps[s] = "running" => s = w.cur /\ ShouldRun(s, w.facts)
  /\ w.status \in {"done", "failed"} => \A s \in Step : w.steps[s] # "running"

\* A process that read the record holds what is stored, except that the request
\* it holds may have been granted since.
Granted(w) ==
  /\ w.approval = [db.approval EXCEPT !.status = "pending"]
  /\ db.status = "running" /\ db.approval.status = "approved"
  /\ db.approval.context.step = db.cur /\ db.cur \in Gated /\ ShouldRun(db.cur, db.facts)

SameProgress(w, x) ==
  /\ w.completed = x.completed /\ w.counts = x.counts
  /\ w.facts = x.facts /\ w.steps = x.steps

Holding == {"read", "indexed", "report", "row", "final"}

Follows(r) ==
  /\ pc[r] \in Holding =>
       /\ SameProgress(st[r], db) /\ st[r].cur = db.cur
       /\ \/ st[r].approval = db.approval /\ st[r].status = db.status
          \/ Granted(st[r]) /\ st[r].status = "waiting-approval"
  /\ pc[r] = "loop" =>
       /\ SameProgress(st[r], db) /\ st[r].cur = Cursor(db)
       /\ st[r].approval = db.approval \/ Granted(st[r])
  /\ pc[r] \in {"bind", "exec"} =>
       /\ SameProgress(st[r], db) /\ st[r].cur = db.cur
       /\ st[r].approval = db.approval /\ db.status = "running"
       /\ ShouldRun(st[r].cur, st[r].facts)
       /\ st[r].cur \in Gated =>
            st[r].approval.status = "consumed" /\ st[r].approval.context.step = st[r].cur

OwnerFollows == \A r \in Runner : lease.owner = r => Follows(r)

\* What a process will report: success only of a run that is done.
Reporting == {"report", "row", "final", "notify"}

ReportsAreTrue ==
  /\ \A r \in Runner :
       /\ st[r].status = "done" => db.status = "done"
       /\ pc[r] \in Reporting /\ code[r] = 0 => st[r].status \in {"waiting-approval", "done"}
       /\ pc[r] = "notify" => st[r].status # "waiting-approval"
  /\ SuccessIsDone

\* The places of the steps in the file.
Place == CHOOSE place \in [Step -> 1 .. Cardinality(Step)] :
  \A s \in Step : \A i \in DOMAIN Edges[s] :
    (Edges[s][i].to \in Step /\ Edges[s][i].max = 0) => place[s] < place[Edges[s][i].to]

\* The walk has left this key behind.
Passed(key, w) ==
  /\ \A e \in LoopEdge : key.counts[e] <= w.counts[e]
  /\ key.counts # w.counts \/ w.cur = End \/ Place[key.step] < Place[w.cur]

VisitsAreKeyed ==
  /\ db.status = "absent" => execs = {}
  /\ \A x \in execs :
       /\ x.visit <= visit
       /\ x.visit = visit => x.key = [step |-> db.cur, counts |-> db.counts]
       /\ x.visit < visit => Passed(x.key, db)
  /\ KeyPerVisit

PathInv == Inv /\ Shape(db) /\ OwnerFollows /\ ReportsAreTrue /\ VisitsAreKeyed
-----------------------------------------------------------------------------
(* One write, as the walk sees it: v is what is stored, w what is written. *)

Performed(v, w) ==
  /\ w.approval = v.approval
  /\ \/ w.completed = v.completed
     \/ /\ w.completed = v.completed \cup {Cursor(v)}
        /\ Cursor(v) \in Gated =>
             v.approval.context.step = Cursor(v) /\ v.approval.status = "consumed"

Stays(v, w) ==
  /\ v.status # "done" /\ w.status \in {"running", "blocked", "failed"}
  /\ w.cur = Cursor(v) /\ Performed(v, w) /\ w.counts = v.counts

Withdraws(v, w) ==
  /\ v.status = "running" /\ v.approval.status = "approved"
  /\ w.status = "blocked" /\ w.approval = [v.approval EXCEPT !.status = "pending"]
  /\ w.cur = v.cur /\ w.completed = v.completed /\ w.counts = v.counts

MovesAlong(v, w, i) ==
  LET edge == Edges[Cursor(v)][i]
      loop == <<Cursor(v), edge.to>>
  IN /\ IF edge.max = 0 THEN w.counts = v.counts
        ELSE v.counts[loop] < edge.max /\ w.counts = [v.counts EXCEPT ![loop] = @ + 1]
     /\ IF edge.to # End THEN w.cur = edge.to /\ w.status = "running"
        ELSE \/ w.cur = End /\ w.status = "done"
             \/ w.cur = Cursor(v) /\ w.status \in {"failed", "blocked"}

Moves(v, w) ==
  /\ v.status # "done" /\ Performed(v, w)
  /\ \E i \in DOMAIN Edges[Cursor(v)] : MovesAlong(v, w, i)

Completes(v, w) ==
  /\ v.status # "done" /\ DOMAIN Edges[Cursor(v)] = {} /\ Performed(v, w)
  /\ w.cur = End /\ w.status = "done" /\ w.counts = v.counts

AsksFor(v, w) ==
  /\ v.status # "done" /\ Cursor(v) \in Gated
  /\ w.status = "waiting-approval" /\ w.cur = Cursor(v)
  /\ w.approval.context.step = Cursor(v) /\ w.approval.status = "pending"
  /\ w.completed = v.completed /\ w.counts = v.counts

Grants(v, w) ==
  /\ v.status = "waiting-approval" /\ v.approval.status = "pending"
  /\ w.status = "running" /\ w.approval = [v.approval EXCEPT !.status = "approved"]
  /\ w.cur = v.cur /\ w.completed = v.completed /\ w.counts = v.counts

Uses(v, w) ==
  /\ v.status # "done" /\ v.approval.context.step = Cursor(v) /\ v.approval.status = "approved"
  /\ w.status = "running" /\ w.cur = Cursor(v)
  /\ w.approval = [v.approval EXCEPT !.status = "consumed"]
  /\ w.completed = v.completed /\ w.counts = v.counts

Rests(v, w) ==
  /\ w.status = v.status /\ w.cur = v.cur /\ w.completed = v.completed
  /\ w.counts = v.counts /\ w.approval = v.approval

Legal(v, w) ==
  \/ Stays(v, w) \/ Withdraws(v, w) \/ Moves(v, w) \/ Completes(v, w)
  \/ AsksFor(v, w) \/ Grants(v, w) \/ Uses(v, w) \/ Rests(v, w)

\* A legal write is a step of the walk, or none.
LEMMA LegalIsAStep ==
  ASSUME db \in Record, db' \in Record, Legal(db, db')
  PROVE  [Path!Next]_(Path!vars)
<1> DEFINE shown(w) == [step |-> w.approval.context.step, status |-> w.approval.status]
<1>1. /\ db.approval \in Approval /\ db'.approval \in Approval
  BY DEF Record
<1>2. Path!Cursor = Cursor(db)
  BY DEF Path!Cursor, Cursor
<1>3. ASSUME NEW state \in {"pending", "approved", "consumed"},
             db'.approval = [db.approval EXCEPT !.status = state]
      PROVE  shown(db)' = [shown(db) EXCEPT !.status = state]
  BY <1>1, <1>3 DEF Approval
<1>4. db'.approval = db.approval => shown(db)' = shown(db)
  OBVIOUS
<1>5. Performed(db, db') => Path!PerformOrSkip
  BY <1>2, <1>4 DEF Performed, Path!PerformOrSkip, Path!MayRun
<1>6. CASE Stays(db, db')
  BY <1>2, <1>5, <1>6 DEF Stays, Path!Stay, Path!Next
<1>7. CASE Withdraws(db, db')
  BY <1>3, <1>7 DEF Withdraws, Path!Withdraw, Path!Next
<1>8. CASE Moves(db, db')
  BY <1>2, <1>5, <1>8 DEF Moves, MovesAlong, Path!Move, Path!Next
<1>9. CASE Completes(db, db')
  BY <1>2, <1>5, <1>9 DEF Completes, Path!Complete, Path!Next
<1>10. CASE AsksFor(db, db')
  BY <1>2, <1>10 DEF AsksFor, Path!Ask, Path!Next
<1>11. CASE Grants(db, db')
  BY <1>3, <1>11 DEF Grants, Path!Grant, Path!Next
<1>12. CASE Uses(db, db')
  BY <1>2, <1>3, <1>12 DEF Uses, Path!Use, Path!Next
<1>13. CASE Rests(db, db')
  BY <1>13 DEF Rests, Path!vars
<1> QED
  BY <1>6, <1>7, <1>8, <1>9, <1>10, <1>11, <1>12, <1>13 DEF Legal

-----------------------------------------------------------------------------
(* What the operators on records do to the steps, the facts and the        *)
(* approval.                                                               *)

\* Starting from a stored record keeps its progress and its cursor.
LEMMA InitialStateKeeps ==
  ASSUME NEW w \in Record, NEW h \in 0 .. MaxDefinitions
  PROVE  SameProgress(InitialState(w, h), w) /\ InitialState(w, h).cur = Cursor(w)
  BY DEF InitialState, Record, SameProgress, Cursor

\* Asking for an approval keeps the progress; the approval that is used, or the
\* request that is made, is for the current step.
LEMMA RequireApprovalKeeps ==
  ASSUME NEW w \in Record
  PROVE  /\ SameProgress(RequireApproval(w), w)
         /\ RequireApproval(w).status = "running" =>
              /\ w.approval.context.step = w.cur /\ w.approval.status = "approved"
              /\ RequireApproval(w).approval = [w.approval EXCEPT !.status = "consumed"]
         /\ RequireApproval(w).status = "waiting-approval" =>
              /\ RequireApproval(w).approval.status = "pending"
              /\ RequireApproval(w).approval.context.step = w.cur
<1> DEFINE asked == [context |-> ContextOf(w), status |-> "pending"]
<1>1. ContextOf(w).step = w.cur
  BY DEF ContextOf
<1>2. CASE w.approval = [context |-> ContextOf(w), status |-> "approved"]
  <2> DEFINE used == [w.approval EXCEPT !.status = "consumed"]
  <2>1. RequireApproval(w) = [w EXCEPT !.status = "running", !.approval = used]
    BY <1>2 DEF RequireApproval, Record
  <2>2. w.approval.context.step = w.cur /\ w.approval.status = "approved"
    BY <1>1, <1>2
  <2> HIDE DEF used
  <2>3. RequireApproval(w).approval = used /\ RequireApproval(w).status = "running"
    BY <2>1 DEF Record
  <2>4. SameProgress(RequireApproval(w), w)
    BY <2>1 DEF Record, SameProgress
  <2> QED
    BY <2>2, <2>3, <2>4 DEF used
<1>3. CASE w.approval # [context |-> ContextOf(w), status |-> "approved"]
  <2>1. RequireApproval(w) = [w EXCEPT !.status = "waiting-approval", !.approval = asked]
    BY <1>3 DEF RequireApproval, Record
  <2>2. asked.status = "pending" /\ asked.context.step = w.cur
    BY <1>1
  <2> HIDE DEF asked
  <2>3. /\ RequireApproval(w).approval = asked
        /\ RequireApproval(w).status = "waiting-approval" /\ SameProgress(RequireApproval(w), w)
    BY <2>1 DEF Record, SameProgress
  <2> QED
    BY <2>2, <2>3
<1> QED
  BY <1>2, <1>3

\* Beginning a step shows no other step as running.
LEMMA BeginStepKeeps ==
  ASSUME NEW w \in Record
  PROVE  /\ BeginStep(w).facts = w.facts
         /\ \A s \in Step : BeginStep(w).steps[s] = "running" => s = w.cur \/ w.steps[s] = "running"
<1> DEFINE steps == [w.steps EXCEPT ![w.cur] = "running"]
<1>1. BeginStep(w) = [w EXCEPT !.steps = steps]
  BY DEF BeginStep, Record
<1>2. \A s \in Step : steps[s] = "running" => s = w.cur \/ w.steps[s] = "running"
  BY DEF Record
<1> HIDE DEF steps
<1> QED
  BY <1>1, <1>2 DEF Record

\* Finishing the current step completes it and leaves no step running.
LEMMA FinishStepEnds ==
  ASSUME NEW w \in Record, NEW o \in Outcome, w.cur \in Step,
         \A s \in Step : w.steps[s] = "running" => s = w.cur
  PROVE  /\ FinishStep(w, o).completed = w.completed \cup {w.cur}
         /\ \A s \in Step : FinishStep(w, o).steps[s] # "running"
<1> DEFINE ended == IF o.exit = 0 THEN "completed"
                    ELSE IF o.result = "blocked" THEN "blocked" ELSE "failed"
           steps == [w.steps EXCEPT ![w.cur] = ended]
           facts == [w.facts EXCEPT ![w.cur] = IF o.result = "none" THEN @ ELSE o.result]
<1>1. FinishStep(w, o) = [w EXCEPT !.steps = steps, !.facts = facts,
                                   !.completed = w.completed \cup {w.cur}]
  BY DEF FinishStep, Record
<1>2. \A s \in Step : steps[s] # "running"
  BY DEF Record
<1> HIDE DEF steps, facts
<1> QED
  BY <1>1, <1>2 DEF Record

\* What following connection i does to the counts.
LEMMA CountedMoves ==
  ASSUME NEW w \in Record, NEW s \in Step, NEW i \in DOMAIN Edges[s], ~Exhausted(s, i, w.counts)
  PROVE  /\ Counted(w, s, i).steps = w.steps /\ Counted(w, s, i).facts = w.facts
         /\ IF Edges[s][i].max = 0 THEN Counted(w, s, i).counts = w.counts
            ELSE /\ w.counts[<<s, Edges[s][i].to>>] < Edges[s][i].max
                 /\ Counted(w, s, i).counts = [w.counts EXCEPT ![<<s, Edges[s][i].to>>] = @ + 1]
<1> DEFINE loop == <<s, Edges[s][i].to>>
           counts == [w.counts EXCEPT ![loop] = @ + 1]
<1>1. CASE Edges[s][i].max = 0
  BY <1>1 DEF Counted
<1>2. CASE Edges[s][i].max # 0
  <2>1. Edges[s][i].max \in Nat /\ loop \in LoopEdge
    BY <1>2, EdgeType DEF Edge
  <2>2. w.counts[loop] \in Nat
    BY <2>1 DEF Record, Counts
  <2>3. w.counts[loop] < Edges[s][i].max
    BY <1>2, <2>1, <2>2 DEF Exhausted
  <2>4. Counted(w, s, i) = [w EXCEPT !.counts = counts]
    BY <1>2 DEF Counted, Record
  <2> HIDE DEF counts
  <2>5. /\ Counted(w, s, i).counts = counts /\ Counted(w, s, i).steps = w.steps
        /\ Counted(w, s, i).facts = w.facts
    BY <2>4 DEF Record
  <2> QED
    BY <1>2, <2>3, <2>5 DEF counts
<1> QED
  BY <1>1, <1>2

-----------------------------------------------------------------------------
(* Every checkpoint is a legal write.                                      *)

LaunchedHere ==
  execs' = execs \cup {[key |-> [step |-> db.cur, counts |-> db.counts], visit |-> visit]}

Walks(r) ==
  \E w \in Record, label \in PC \ {"read", "indexed"} :
    /\ Save(r, w) /\ To(r, label)
    /\ Legal(db, w) /\ Shape(w)
    /\ w.status = "absent" => db.status = "absent" /\ execs' = execs
    /\ label \in {"bind", "exec"} =>
         /\ w.status = "running" /\ ShouldRun(w.cur, w.facts)
         /\ w.cur \in Gated => w.approval.status = "consumed" /\ w.approval.context.step = w.cur
    /\ label \in Interpreting => w.cur \in Step
    /\ label \in Reporting /\ code'[r] = 0 => w.status \in {"waiting-approval", "done"}
    /\ label = "notify" => w.status # "waiting-approval"
    /\ execs' = execs \/ (LaunchedHere /\ w.cur = db.cur /\ w.counts = db.counts)
    /\ \A q \in Runner \ {r} : code'[q] = code[q]
    /\ index' = index

\* Returning with a legal write is a write of the walk.
LEMMA ReturnWalks ==
  ASSUME Inv, NEW r \in Runner, NEW w \in Record, NEW c \in {0, 1}, NEW label \in {"report", "row"},
         Return(r, w, c, label), Legal(db, w), Shape(w), w.status # "absent",
         c = 0 => w.status \in {"waiting-approval", "done"}
  PROVE  Walks(r)
<1>1. Save(r, w) /\ To(r, label) /\ UNCHANGED <<index, execs>>
  BY DEF Return
<1>2. code' = [code EXCEPT ![r] = c] /\ code \in [Runner -> {0, 1}]
  BY DEF Return, Inv, TypeOK
<1>3. code'[r] = c /\ \A q \in Runner \ {r} : code'[q] = code[q]
  BY <1>2
<1> QED
  BY <1>1, <1>3 DEF Walks, PC, Interpreting

\* The state after the current step ended: w is to be written somewhere on.
Ended(w) ==
  /\ w.cur \in Step /\ w.cur = Cursor(db) /\ w.counts = db.counts /\ w.status = "running"
  /\ Performed(db, w) /\ db.status # "done"
  /\ \A s \in Step : w.steps[s] # "running"

\* After its step the run stops where it is.
LEMMA StoppingWalks ==
  ASSUME Inv, NEW r \in Runner, NEW w \in Record, Ended(w), NEW status \in {"blocked", "failed"},
         Return(r, [w EXCEPT !.status = status], 1, "report")
  PROVE  Walks(r)
<1> DEFINE x == [w EXCEPT !.status = status]
<1>1. x \in Record /\ x.status = status /\ SameProgress(x, w) /\ x.cur = w.cur /\ x.approval = w.approval
  BY DEF Record, Status, SameProgress
<1>2. Return(r, x, 1, "report")
  OBVIOUS
<1> HIDE DEF x
<1>3. Legal(db, x)
  BY <1>1 DEF Ended, Legal, Stays, Performed, SameProgress
<1>4. Shape(x)
  BY <1>1, StepAssumption DEF Ended, Shape, SameProgress
<1> QED
  BY <1>1, <1>2, <1>3, <1>4, ReturnWalks

\* Following connection i, or having none, to the end of the graph.
LEMMA TerminateWalks ==
  ASSUME Inv, NEW r \in Runner, NEW w \in Record, NEW x \in Record, NEW result, NEW exit \in {0, 1},
         Ended(w), x.cur = w.cur, x.status = w.status, x.completed = w.completed,
         x.approval = w.approval, x.steps = w.steps, x.facts = w.facts,
         \/ x.counts = w.counts /\ DOMAIN Edges[w.cur] = {}
         \/ \E i \in DOMAIN Edges[w.cur] :
              /\ Edges[w.cur][i].to = End
              /\ IF Edges[w.cur][i].max = 0 THEN x.counts = w.counts
                 ELSE /\ w.counts[<<w.cur, End>>] < Edges[w.cur][i].max
                      /\ x.counts = [w.counts EXCEPT ![<<w.cur, End>>] = @ + 1],
         Terminate(r, x, result, exit)
  PROVE  Walks(r)
<1> DEFINE Leads(i) ==
             /\ Edges[w.cur][i].to = End
             /\ IF Edges[w.cur][i].max = 0 THEN x.counts = w.counts
                ELSE /\ w.counts[<<w.cur, End>>] < Edges[w.cur][i].max
                     /\ x.counts = [w.counts EXCEPT ![<<w.cur, End>>] = @ + 1]
<1>1. CASE result \in {"fail", "blocked"}
  <2> DEFINE y == [x EXCEPT !.status = IF result = "fail" THEN "failed" ELSE "blocked"]
  <2>1. /\ y \in Record /\ y.status \in {"failed", "blocked"} /\ SameProgress(y, x) /\ y.cur = x.cur
        /\ y.approval = x.approval
    BY DEF Record, Status, SameProgress
  <2>2. Return(r, y, 1, "report")
    BY <1>1 DEF Terminate
  <2> HIDE DEF y
  <2>3. Performed(db, y)
    BY <2>1 DEF Ended, Performed, SameProgress
  <2>4. Legal(db, y)
    <3>1. CASE x.counts = w.counts
      BY <2>1, <2>3, <3>1 DEF Ended, Legal, Stays, SameProgress
    <3>2. ASSUME NEW i \in DOMAIN Edges[w.cur], Leads(i) PROVE Legal(db, y)
      <4>1. MovesAlong(db, y, i)
        BY <2>1, <3>2 DEF Ended, MovesAlong, SameProgress
      <4> QED
        BY <2>3, <4>1 DEF Ended, Legal, Moves
    <3> QED
      BY <3>1, <3>2
  <2>5. Shape(y)
    BY <2>1, StepAssumption DEF Ended, Shape, SameProgress
  <2> QED
    BY <2>1, <2>2, <2>4, <2>5, ReturnWalks
<1>2. CASE result \notin {"fail", "blocked"}
  <2> DEFINE y == [x EXCEPT !.status = "done", !.cur = End]
  <2>1. /\ y \in Record /\ y.status = "done" /\ SameProgress(y, x) /\ y.cur = End
        /\ y.approval = x.approval
    BY DEF Record, Status, Target, SameProgress
  <2>2. Return(r, y, exit, "report")
    BY <1>2 DEF Terminate
  <2> HIDE DEF y
  <2>3. Performed(db, y)
    BY <2>1 DEF Ended, Performed, SameProgress
  <2>4. Legal(db, y)
    <3>1. CASE x.counts = w.counts /\ DOMAIN Edges[w.cur] = {}
      BY <2>1, <2>3, <3>1 DEF Ended, Legal, Completes, SameProgress
    <3>2. ASSUME NEW i \in DOMAIN Edges[w.cur], Leads(i) PROVE Legal(db, y)
      <4>1. MovesAlong(db, y, i)
        BY <2>1, <3>2 DEF Ended, MovesAlong, SameProgress
      <4> QED
        BY <2>3, <4>1 DEF Ended, Legal, Moves
    <3> QED
      BY <3>1, <3>2
  <2>5. Shape(y)
    BY <2>1, StepAssumption DEF Ended, Shape, SameProgress
  <2> QED
    BY <2>1, <2>2, <2>4, <2>5, ReturnWalks
<1> QED
  BY <1>1, <1>2

\* After its step the run goes where the selected connection leads.
LEMMA AdvanceWalks ==
  ASSUME Inv, NEW r \in Runner, NEW w \in Record, NEW result, NEW exit \in {0, 1},
         Ended(w), Advance(r, w, result, exit)
  PROVE  Walks(r)
<1>1. CASE Return(r, [w EXCEPT !.status = "blocked"], 1, "report")
  BY <1>1, StoppingWalks
<1>2. CASE DOMAIN Edges[w.cur] = {} /\ Terminate(r, w, result, exit)
  BY <1>2, TerminateWalks
<1>3. ASSUME NEW i \in DOMAIN Edges[w.cur], Selected(w.cur, i, result, w.counts),
             IF Edges[w.cur][i].to = End
             THEN Terminate(r, Counted(w, w.cur, i), result, exit)
             ELSE Continue(r, [Counted(w, w.cur, i) EXCEPT !.cur = Edges[w.cur][i].to,
                                                           !.status = "running"])
      PROVE  Walks(r)
  <2> DEFINE x == Counted(w, w.cur, i)
             y == [x EXCEPT !.cur = Edges[w.cur][i].to, !.status = "running"]
  <2>1. w.cur \in Step /\ ~Exhausted(w.cur, i, w.counts)
    BY <1>3 DEF Ended, Selected
  <2>2. /\ x \in Record /\ x.status = w.status /\ x.cur = w.cur /\ x.completed = w.completed
        /\ x.approval = w.approval
    BY <2>1, CountedType
  <2>3. /\ x.steps = w.steps /\ x.facts = w.facts
        /\ IF Edges[w.cur][i].max = 0 THEN x.counts = w.counts
           ELSE /\ w.counts[<<w.cur, Edges[w.cur][i].to>>] < Edges[w.cur][i].max
                /\ x.counts = [w.counts EXCEPT ![<<w.cur, Edges[w.cur][i].to>>] = @ + 1]
    BY <2>1, CountedMoves
  <2>4. CASE Edges[w.cur][i].to = End
    <3>1. Terminate(r, x, result, exit)
      BY <1>3, <2>4
    <3> HIDE DEF x
    <3> QED
      BY <2>2, <2>3, <2>4, <3>1, TerminateWalks
  <2>5. CASE Edges[w.cur][i].to # End
    <3>1. Edges[w.cur][i].to \in Step
      BY <2>1, <2>5, EdgeType DEF Edge, Target
    <3>2. Continue(r, y)
      BY <1>3, <2>5
    <3> HIDE DEF x
    <3>3. /\ y \in Record /\ y.cur = Edges[w.cur][i].to /\ y.status = "running"
          /\ SameProgress(y, x) /\ y.approval = w.approval
      BY <2>2, <3>1 DEF Record, Status, Target, SameProgress
    <3> HIDE DEF y
    <3>4. Performed(db, y)
      BY <2>2, <3>3 DEF Ended, Performed, SameProgress
    <3>5. Legal(db, y)
      <4>1. MovesAlong(db, y, i)
        BY <2>3, <2>5, <3>3 DEF Ended, MovesAlong, SameProgress
      <4> QED
        BY <3>4, <4>1 DEF Ended, Legal, Moves
    <3>6. Shape(y)
      BY <2>3, <2>5, <3>3 DEF Ended, Shape, SameProgress
    <3>7. Save(r, y) /\ To(r, "loop") /\ UNCHANGED <<index, code, execs>>
      BY <3>2 DEF Continue
    <3> QED
      BY <3>1, <3>3, <3>5, <3>6, <3>7 DEF Walks, PC, Reporting
  <2> QED
    BY <2>4, <2>5
<1> QED
  BY <1>1, <1>2, <1>3 DEF Advance

\* A record with the steps that are stored, at the stored cursor.
LEMMA ShapeIsKept ==
  ASSUME Shape(db), NEW w \in Record, w.cur \in Step, w.cur = Cursor(db), SameProgress(w, db),
         w.status \in {"running", "blocked"} \/ Asks(w)
  PROVE  Shape(w)
<1>1. \A s \in Step : db.steps[s] = "running" => s = w.cur /\ ShouldRun(s, db.facts)
  BY StepAssumption DEF Shape, Cursor
<1>2. w.status \in {"running", "blocked", "waiting-approval"}
  BY DEF Asks
<1> QED
  BY <1>1, <1>2, StepAssumption DEF Shape, SameProgress

\* What the owner knows when it is in the loop, or about to enter it.
AtCursor(w) ==
  /\ w \in Record /\ w.cur \in Step /\ w.cur = Cursor(db) /\ SameProgress(w, db)
  /\ db.status # "done"
  /\ w.approval = db.approval \/ Granted(w)

\* In the loop the owner is where the stored record is.
LEMMA LoopIsAtCursor ==
  ASSUME PathInv, NEW r \in Runner, lease.owner = r, pc[r] \in Interpreting
  PROVE  AtCursor(st[r]) /\ st[r].status = "running"
<1>1. st[r] \in Record /\ db \in Record
  BY DEF PathInv, Inv, TypeOK
<1>2. st[r].cur \in Step /\ st[r].status = "running"
  BY DEF PathInv, Inv, AtAStep
<1>3. db.status # "done"
  BY InterpretedIsNotDone DEF PathInv
<1> QED
  BY <1>1, <1>2, <1>3, StepAssumption DEF PathInv, OwnerFollows, Follows, AtCursor, Interpreting, Cursor

\* A request that was granted behind the owner's back is for a step that runs.
LEMMA GrantedRuns ==
  ASSUME NEW w, AtCursor(w), Granted(w)
  PROVE  /\ w.cur = db.cur /\ w.cur \in Gated /\ ShouldRun(w.cur, w.facts)
         /\ w.approval.status = "pending" /\ w.approval.context.step = w.cur
<1>1. db.cur \in Step /\ db.cur # End
  BY StepAssumption DEF Granted
<1>2. w.cur = db.cur /\ w.facts = db.facts
  BY <1>1 DEF AtCursor, Cursor, SameProgress
<1>3. w.approval.context = db.approval.context /\ w.approval.status = "pending"
  <2>1. w.approval \in Approval
    BY DEF AtCursor, Record
  <2> QED
    BY <2>1 DEF Granted, Approval
<1> QED
  BY <1>2, <1>3 DEF Granted

\* The owner stops the run where it is, with the approval it holds.
LEMMA BlockingWalks ==
  ASSUME Inv, Shape(db), NEW r \in Runner, NEW w, AtCursor(w), NEW label \in {"report", "row"},
         Return(r, [w EXCEPT !.status = "blocked"], 1, label)
  PROVE  Walks(r)
<1> DEFINE x == [w EXCEPT !.status = "blocked"]
<1>1. /\ x \in Record /\ x.status = "blocked" /\ SameProgress(x, db) /\ x.cur = w.cur
      /\ x.approval = w.approval
  BY DEF AtCursor, Record, Status, SameProgress
<1>2. Return(r, x, 1, label)
  OBVIOUS
<1> HIDE DEF x
<1>3. Legal(db, x)
  <2>1. CASE w.approval = db.approval
    BY <1>1, <2>1 DEF AtCursor, Legal, Stays, Performed, SameProgress
  <2>2. CASE Granted(w)
    BY <1>1, <2>2, GrantedRuns DEF Granted, Legal, Withdraws, SameProgress
  <2> QED
    BY <2>1, <2>2 DEF AtCursor
<1>4. Shape(x)
  BY <1>1, ShapeIsKept DEF AtCursor
<1> QED
  BY <1>1, <1>2, <1>3, <1>4, ReturnWalks

\* A rejected definition stops the run where it is.
LEMMA RejectDefinitionWalks ==
  ASSUME PathInv, NEW r \in Runner, RejectDefinition(r)
  PROVE  Walks(r)
<1> DEFINE w == InitialState(st[r], version[r])
<1>1. pc[r] = "indexed" /\ st[r].status # "done" /\ Return(r, [w EXCEPT !.status = "blocked"], 1, "row")
  BY DEF RejectDefinition
<1>2. lease.owner = r
  BY <1>1 DEF Return, Save
<1>3. st[r] \in Record /\ version[r] \in 0 .. MaxDefinitions
  BY DEF PathInv, Inv, TypeOK
<1>4. /\ w \in Record /\ w.cur \in Step /\ w.approval = st[r].approval
      /\ SameProgress(w, st[r]) /\ w.cur = Cursor(st[r])
  BY <1>3, InitialStateType, InitialStateKeeps
<1> HIDE DEF w
<1>5. /\ SameProgress(st[r], db) /\ st[r].cur = db.cur
      /\ \/ st[r].approval = db.approval /\ st[r].status = db.status
         \/ Granted(st[r])
  BY <1>1, <1>2 DEF PathInv, OwnerFollows, Follows, Holding
<1>6. w.cur = Cursor(db) /\ SameProgress(w, db)
  BY <1>4, <1>5 DEF Cursor, SameProgress
<1>7. db.status # "done" /\ (w.approval = db.approval \/ Granted(w))
  BY <1>1, <1>4, <1>5 DEF Granted
<1> QED
  BY <1>1, <1>4, <1>6, <1>7, BlockingWalks DEF AtCursor, PathInv

\* Passing a step over is a move, or the end of the run.
LEMMA SkipWalks ==
  ASSUME PathInv, NEW r \in Runner, lease.owner = r, Skip(r)
  PROVE  Walks(r)
<1>1. /\ pc[r] = "loop" /\ ~ShouldRun(st[r].cur, st[r].facts)
      /\ Advance(r, st[r], "skipped", 0)
  BY DEF Skip, InLoop
<1>2. AtCursor(st[r]) /\ st[r].status = "running"
  BY <1>1, LoopIsAtCursor DEF Interpreting
<1>3. st[r].approval = db.approval
  BY <1>1, <1>2, GrantedRuns DEF AtCursor
<1>4. \A s \in Step : db.steps[s] # "running"
  BY <1>1, <1>2, StepAssumption DEF PathInv, Shape, AtCursor, Cursor, SameProgress
<1>5. Ended(st[r])
  BY <1>2, <1>3, <1>4 DEF AtCursor, Ended, Performed, SameProgress
<1>6. st[r] \in Record
  BY <1>2 DEF AtCursor
<1> QED
  BY <1>1, <1>5, <1>6, AdvanceWalks DEF PathInv

\* A gated step asks.
LEMMA AskApprovalWalks ==
  ASSUME PathInv, NEW r \in Runner, lease.owner = r, AskApproval(r)
  PROVE  Walks(r)
<1> DEFINE w == RequireApproval(st[r])
<1>1. /\ pc[r] = "loop" /\ ShouldRun(st[r].cur, st[r].facts) /\ st[r].cur \in Gated
      /\ w.status = "waiting-approval" /\ Return(r, w, 0, "report")
  BY DEF AskApproval, InLoop
<1>2. AtCursor(st[r])
  BY <1>1, LoopIsAtCursor DEF Interpreting
<1>3. /\ w \in Record /\ w.cur = st[r].cur /\ SameProgress(w, st[r])
      /\ w.approval.status = "pending" /\ w.approval.context.step = w.cur
  <2>1. st[r] \in Record
    BY <1>2 DEF AtCursor
  <2>2. w \in Record /\ w.cur = st[r].cur
    BY <2>1, RequireApprovalType
  <2>3. /\ SameProgress(w, st[r])
        /\ w.approval.status = "pending" /\ w.approval.context.step = st[r].cur
    BY <1>1, <2>1, RequireApprovalKeeps
  <2> QED
    BY <2>2, <2>3
<1> HIDE DEF w
<1>4. w.cur = Cursor(db) /\ w.cur \in Step /\ SameProgress(w, db)
  BY <1>2, <1>3 DEF AtCursor, SameProgress
<1>5. Legal(db, w)
  BY <1>1, <1>2, <1>3, <1>4 DEF AtCursor, Legal, AsksFor, SameProgress
<1>6. Asks(w)
  BY <1>1, <1>3 DEF Asks, SameProgress
<1>7. Shape(w)
  BY <1>3, <1>4, <1>6, ShapeIsKept DEF PathInv
<1> QED
  BY <1>1, <1>3, <1>5, <1>7, ReturnWalks DEF PathInv

\* A gated step uses the approval that is stored, not one it remembers.
LEMMA ConsumeApprovalWalks ==
  ASSUME PathInv, NEW r \in Runner, lease.owner = r, ConsumeApproval(r)
  PROVE  Walks(r)
<1> DEFINE w == RequireApproval(st[r])
<1>1. /\ pc[r] = "loop" /\ ShouldRun(st[r].cur, st[r].facts) /\ st[r].cur \in Gated
      /\ w.status = "running" /\ Save(r, w) /\ To(r, "bind") /\ UNCHANGED <<index, code, execs>>
  BY DEF ConsumeApproval, InLoop
<1>2. AtCursor(st[r])
  BY <1>1, LoopIsAtCursor DEF Interpreting
<1>3. /\ w \in Record /\ w.cur = st[r].cur /\ SameProgress(w, st[r])
      /\ st[r].approval.context.step = st[r].cur /\ st[r].approval.status = "approved"
      /\ w.approval = [st[r].approval EXCEPT !.status = "consumed"]
  BY <1>1, <1>2, RequireApprovalType, RequireApprovalKeeps DEF AtCursor
<1> HIDE DEF w
<1>4. st[r].approval = db.approval
  BY <1>2, <1>3, GrantedRuns DEF AtCursor
<1>5. w.cur = Cursor(db) /\ w.cur \in Step /\ SameProgress(w, db)
  BY <1>2, <1>3 DEF AtCursor, SameProgress
<1>6. w.approval.status = "consumed" /\ w.approval.context.step = w.cur
  <2>1. st[r].approval \in Approval
    BY <1>2 DEF AtCursor, Record
  <2> QED
    BY <1>3, <2>1 DEF Approval
<1>7. Legal(db, w)
  BY <1>1, <1>2, <1>3, <1>4, <1>5 DEF AtCursor, Legal, Uses, SameProgress
<1>8. Shape(w)
  BY <1>1, <1>3, <1>5, ShapeIsKept DEF PathInv
<1>9. ShouldRun(w.cur, w.facts)
  BY <1>1, <1>3 DEF SameProgress
<1> QED
  BY <1>1, <1>3, <1>5, <1>6, <1>7, <1>8, <1>9 DEF Walks, PC, Reporting

\* A step that is not gated starts where the run is.
LEMMA ProceedWalks ==
  ASSUME PathInv, NEW r \in Runner, lease.owner = r, Proceed(r)
  PROVE  Walks(r)
<1>1. /\ pc[r] = "loop" /\ ShouldRun(st[r].cur, st[r].facts) /\ st[r].cur \notin Gated
      /\ Save(r, st[r]) /\ To(r, "bind") /\ UNCHANGED <<index, code, execs>>
  BY DEF Proceed, InLoop
<1>2. AtCursor(st[r]) /\ st[r].status = "running" /\ st[r] \in Record
  BY <1>1, LoopIsAtCursor DEF Interpreting, AtCursor
<1>3. st[r].approval = db.approval
  BY <1>1, <1>2, GrantedRuns DEF AtCursor
<1>4. Legal(db, st[r])
  BY <1>2, <1>3 DEF AtCursor, Legal, Stays, Performed, SameProgress
<1>5. Shape(st[r])
  BY <1>2, ShapeIsKept DEF PathInv, AtCursor
<1> QED
  BY <1>1, <1>2, <1>4, <1>5 DEF Walks, PC, Reporting, AtCursor

\* What the owner knows when it runs a step.
LEMMA RunningOwner ==
  ASSUME PathInv, NEW r \in Runner, lease.owner = r, pc[r] \in {"bind", "exec"}
  PROVE  /\ AtCursor(st[r]) /\ st[r].status = "running" /\ st[r].cur = db.cur
         /\ st[r].approval = db.approval /\ ShouldRun(st[r].cur, st[r].facts)
         /\ st[r].cur \in Gated =>
              st[r].approval.status = "consumed" /\ st[r].approval.context.step = st[r].cur
         /\ \A s \in Step : st[r].steps[s] = "running" => s = st[r].cur
<1>1. AtCursor(st[r]) /\ st[r].status = "running"
  BY LoopIsAtCursor DEF Interpreting
<1>2. SameProgress(st[r], db) /\ st[r].cur = db.cur
  BY DEF PathInv, OwnerFollows, Follows
<1> QED
  BY <1>1, <1>2 DEF PathInv, OwnerFollows, Follows, Shape, SameProgress

\* A step whose inputs cannot be bound stops the run where it is.
LEMMA BindFailsWalks ==
  ASSUME PathInv, NEW r \in Runner, lease.owner = r, BindFails(r)
  PROVE  Walks(r)
<1> DEFINE steps == [st[r].steps EXCEPT ![st[r].cur] = "blocked"]
           y == [st[r] EXCEPT !.status = "blocked", !.steps = steps]
<1>1. pc[r] = "bind"
  BY DEF BindFails
<1>2. /\ AtCursor(st[r]) /\ st[r].cur = db.cur /\ st[r].approval = db.approval
      /\ \A s \in Step : st[r].steps[s] = "running" => s = st[r].cur
  BY <1>1, RunningOwner
<1>3. st[r] \in Record
  BY <1>2 DEF AtCursor
<1>4. steps \in [Step -> StepStatus] /\ \A s \in Step : steps[s] # "running"
  BY <1>2, <1>3 DEF Record, StepStatus
<1>5. Return(r, y, 1, "report")
  BY <1>3 DEF BindFails, Record
<1> HIDE DEF steps
<1>6. /\ y \in Record /\ y.status = "blocked" /\ y.cur = st[r].cur /\ y.steps = steps
      /\ y.completed = st[r].completed /\ y.counts = st[r].counts /\ y.approval = st[r].approval
  BY <1>3, <1>4 DEF Record, Status
<1> HIDE DEF y
<1>7. Legal(db, y)
  BY <1>2, <1>6 DEF AtCursor, Legal, Stays, Performed, SameProgress
<1>8. Shape(y)
  BY <1>2, <1>4, <1>6, StepAssumption DEF AtCursor, Shape
<1> QED
  BY <1>5, <1>6, <1>7, <1>8, ReturnWalks DEF PathInv

\* A launch leaves the run where it is, under the key of the visit.
LEMMA LaunchWalks ==
  ASSUME PathInv, NEW r \in Runner, lease.owner = r, Launch(r)
  PROVE  Walks(r)
<1> DEFINE w == BeginStep(st[r])
<1>1. /\ pc[r] = "bind" /\ Save(r, w) /\ To(r, "exec") /\ UNCHANGED <<index, code>>
      /\ execs' = execs \cup {[key |-> ExecutionKey(st[r]), visit |-> visit]}
  BY DEF Launch
<1>2. /\ AtCursor(st[r]) /\ st[r].status = "running" /\ st[r].cur = db.cur
      /\ st[r].approval = db.approval /\ ShouldRun(st[r].cur, st[r].facts)
      /\ st[r].cur \in Gated =>
           st[r].approval.status = "consumed" /\ st[r].approval.context.step = st[r].cur
      /\ \A s \in Step : st[r].steps[s] = "running" => s = st[r].cur
  BY <1>1, RunningOwner
<1>3. st[r] \in Record /\ st[r].counts = db.counts
  BY <1>2 DEF AtCursor, SameProgress
<1>4. /\ w \in Record /\ w.status = "running" /\ w.cur = db.cur /\ w.cur \in Step
      /\ w.completed = db.completed /\ w.counts = db.counts /\ w.approval = db.approval
      /\ ShouldRun(w.cur, w.facts)
      /\ \A s \in Step : w.steps[s] = "running" => s = w.cur
  BY <1>2, <1>3, BeginStepType, BeginStepKeeps DEF AtCursor, SameProgress
<1> HIDE DEF w
<1>5. Legal(db, w)
  BY <1>2, <1>4 DEF AtCursor, Legal, Stays, Performed
<1>6. Shape(w)
  BY <1>4, StepAssumption DEF Shape
<1>7. LaunchedHere
  BY <1>1, <1>2, <1>3 DEF LaunchedHere, ExecutionKey
<1> QED
  BY <1>1, <1>2, <1>4, <1>5, <1>6, <1>7 DEF Walks, PC, Reporting

\* A finished step completes the current step, and stops or moves on.
LEMMA FinishWalks ==
  ASSUME PathInv, NEW r \in Runner, lease.owner = r, NEW o \in Outcome, Finish(r, o)
  PROVE  Walks(r)
<1> DEFINE w == FinishStep(st[r], o)
           status == IF o.result = "blocked" THEN "blocked" ELSE "failed"
<1>1. pc[r] = "exec" /\ (Return(r, [w EXCEPT !.status = status], 1, "report")
                           \/ Advance(r, w, o.result, o.exit))
  BY DEF Finish
<1>2. /\ AtCursor(st[r]) /\ st[r].status = "running" /\ st[r].cur = db.cur
      /\ st[r].approval = db.approval
      /\ st[r].cur \in Gated =>
           st[r].approval.status = "consumed" /\ st[r].approval.context.step = st[r].cur
      /\ \A s \in Step : st[r].steps[s] = "running" => s = st[r].cur
  BY <1>1, RunningOwner
<1>3. st[r] \in Record /\ st[r].cur \in Step
  BY <1>2 DEF AtCursor
<1>4. /\ w \in Record /\ w.status = "running" /\ w.cur = st[r].cur /\ w.counts = st[r].counts
      /\ w.approval = st[r].approval /\ w.completed = st[r].completed \cup {st[r].cur}
      /\ \A s \in Step : w.steps[s] # "running"
  BY <1>2, <1>3, FinishStepType, FinishStepEnds
<1> HIDE DEF w
<1>5. Ended(w)
  BY <1>2, <1>4 DEF AtCursor, Ended, Performed, SameProgress
<1>6. status \in {"blocked", "failed"} /\ o.exit \in {0, 1}
  BY StepAssumption DEF Outcomes
<1> HIDE DEF status
<1> QED
  BY <1>1, <1>4, <1>5, <1>6, StoppingWalks, AdvanceWalks DEF PathInv

\* The last write of a process changes nothing, or takes back to a request an
\* approval given since.
LEMMA FinalWriteWalks ==
  ASSUME PathInv, NEW r \in Runner, lease.owner = r, FinalWrite(r)
  PROVE  Walks(r)
<1> DEFINE label == IF st[r].status = "waiting-approval" THEN "release" ELSE "notify"
<1>1. /\ pc[r] = "final" /\ Save(r, st[r]) /\ To(r, label) /\ UNCHANGED <<index, code, execs>>
  BY DEF FinalWrite
<1>2. st[r] \in Record /\ (code[r] = 0 => st[r].status \in {"waiting-approval", "done"})
  BY <1>1 DEF PathInv, Inv, TypeOK, ReportsAreTrue, Reporting
<1>3. /\ SameProgress(st[r], db) /\ st[r].cur = db.cur
      /\ \/ st[r].approval = db.approval /\ st[r].status = db.status
         \/ Granted(st[r]) /\ st[r].status = "waiting-approval"
  BY <1>1 DEF PathInv, OwnerFollows, Follows, Holding
<1>4. Legal(db, st[r]) /\ Shape(st[r]) /\ (st[r].status = "absent" => db.status = "absent")
  <2>1. CASE st[r].approval = db.approval /\ st[r].status = db.status
    BY <1>3, <2>1 DEF Legal, Rests, PathInv, Shape, Asks, SameProgress
  <2>2. CASE Granted(st[r]) /\ st[r].status = "waiting-approval"
    <3>1. st[r].cur \in Step /\ db.cur # End
      BY <1>3, <2>2, StepAssumption DEF Granted
    <3>2. AtCursor(st[r])
      BY <1>2, <1>3, <2>2, <3>1 DEF AtCursor, Cursor, Granted
    <3>3. Asks(st[r])
      BY <2>2, <3>2, GrantedRuns DEF Asks
    <3>4. Legal(db, st[r])
      BY <2>2, <3>2, GrantedRuns DEF AtCursor, Legal, AsksFor, SameProgress
    <3> QED
      BY <2>2, <3>2, <3>3, <3>4, ShapeIsKept DEF AtCursor, PathInv
  <2> QED
    BY <1>3, <2>1, <2>2
<1>5. label \in {"release", "notify"} /\ (label = "notify" => st[r].status # "waiting-approval")
  OBVIOUS
<1> HIDE DEF label
<1> QED
  BY <1>1, <1>2, <1>4, <1>5 DEF Walks, PC, Reporting, Interpreting

\* Whatever a process checkpoints is a legal write.
LEMMA CheckpointsWalk ==
  ASSUME PathInv, NEW r \in Runner, Checkpoints(r)
  PROVE  Walks(r)
<1>1. lease.owner = r
  BY CheckpointsWrite DEF PathInv, Writes, Save
<1>2. CASE OverLimit(r)
  <2>1. pc[r] = "loop" /\ Return(r, [st[r] EXCEPT !.status = "blocked"], 1, "report")
    BY <1>2 DEF OverLimit
  <2>2. AtCursor(st[r])
    BY <1>1, <2>1, LoopIsAtCursor DEF Interpreting
  <2> QED
    BY <2>1, <2>2, BlockingWalks DEF PathInv
<1> QED
  BY <1>1, <1>2, RejectDefinitionWalks, SkipWalks, AskApprovalWalks, ConsumeApprovalWalks,
     ProceedWalks, BindFailsWalks, LaunchWalks, FinishWalks, FinalWriteWalks DEF Checkpoints

-----------------------------------------------------------------------------
(* A write keeps the invariant.                                            *)

\* Connections without maxIterations lead to later places.
LEMMA PlaceType ==
  /\ \A s \in Step : Place[s] \in Int
  /\ \A s \in Step : \A i \in DOMAIN Edges[s] :
       (Edges[s][i].to \in Step /\ Edges[s][i].max = 0) => Place[s] < Place[Edges[s][i].to]
<1>1. /\ Place \in [Step -> 1 .. Cardinality(Step)]
      /\ \A s \in Step : \A i \in DOMAIN Edges[s] :
           (Edges[s][i].to \in Step /\ Edges[s][i].max = 0) => Place[s] < Place[Edges[s][i].to]
  BY LoopAssumption DEF Place
<1>2. Cardinality(Step) \in Nat
  BY LoopAssumption, FS_CardinalityType
<1> QED
  BY <1>1, <1>2

\* A write that moves the cursor or counts a traversal leaves the visit behind.
LEMMA MovesOn ==
  ASSUME db \in Record, NEW w \in Record, db.cur \in Step, Legal(db, w),
         w.cur # db.cur \/ w.counts # db.counts
  PROVE  /\ \A e \in LoopEdge : db.counts[e] <= w.counts[e]
         /\ db.counts # w.counts \/ w.cur = End \/ Place[db.cur] < Place[w.cur]
<1>1. db.cur # End /\ Cursor(db) = db.cur
  BY StepAssumption DEF Cursor
<1>2. db.counts \in [LoopEdge -> Nat]
  BY DEF Record, Counts
<1>3. Moves(db, w) \/ Completes(db, w)
  BY <1>1 DEF Legal, Stays, Withdraws, AsksFor, Grants, Uses, Rests
<1>4. CASE Completes(db, w)
  BY <1>2, <1>4 DEF Completes
<1>5. ASSUME NEW i \in DOMAIN Edges[db.cur], MovesAlong(db, w, i)
      PROVE  /\ \A e \in LoopEdge : db.counts[e] <= w.counts[e]
             /\ db.counts # w.counts \/ w.cur = End \/ Place[db.cur] < Place[w.cur]
  <2> DEFINE loop == <<db.cur, Edges[db.cur][i].to>>
  <2>1. Edges[db.cur][i] \in Edge /\ (Edges[db.cur][i].max # 0 => loop \in LoopEdge)
    BY EdgeType
  <2>2. CASE Edges[db.cur][i].max = 0
    <3>1. w.counts = db.counts
      BY <1>1, <1>5, <2>2 DEF MovesAlong
    <3>2. w.cur # db.cur
      BY <3>1
    <3>3. w.cur = End \/ (w.cur = Edges[db.cur][i].to /\ w.cur \in Step)
      BY <1>1, <1>5, <2>1, <3>2 DEF MovesAlong, Edge, Target
    <3> QED
      BY <1>2, <2>2, <3>1, <3>3, PlaceType
  <2>3. CASE Edges[db.cur][i].max # 0
    <3>1. w.counts = [db.counts EXCEPT ![loop] = @ + 1] /\ loop \in LoopEdge
      BY <1>1, <1>5, <2>1, <2>3 DEF MovesAlong
    <3>2. w.counts[loop] = db.counts[loop] + 1 /\ db.counts[loop] \in Nat
      BY <1>2, <3>1
    <3>3. \A e \in LoopEdge : db.counts[e] <= w.counts[e]
      BY <1>2, <3>1
    <3> HIDE DEF loop
    <3> QED
      BY <3>2, <3>3
  <2> QED
    BY <2>2, <2>3
<1> QED
  BY <1>1, <1>3, <1>4, <1>5 DEF Moves

\* What was left behind stays behind.
LEMMA PassedStays ==
  ASSUME db \in Record, NEW w \in Record, db.cur \in Step, NEW key \in Key,
         key = [step |-> db.cur, counts |-> db.counts] \/ Passed(key, db),
         \A e \in LoopEdge : db.counts[e] <= w.counts[e],
         db.counts # w.counts \/ w.cur = End \/ Place[db.cur] < Place[w.cur]
  PROVE  Passed(key, w)
<1>1. /\ db.counts \in [LoopEdge -> Nat] /\ w.counts \in [LoopEdge -> Nat]
      /\ key.counts \in [LoopEdge -> Nat] /\ key.step \in Step /\ db.cur # End
      /\ w.cur \in Step \cup {End}
  BY StepAssumption DEF Record, Counts, Key, Target
<1>2. \A e \in LoopEdge : key.counts[e] <= db.counts[e]
  BY <1>1 DEF Passed
<1>3. \A e \in LoopEdge : key.counts[e] <= w.counts[e]
  <2> SUFFICES ASSUME NEW e \in LoopEdge PROVE key.counts[e] <= w.counts[e]
    OBVIOUS
  <2>1. key.counts[e] \in Nat /\ db.counts[e] \in Nat /\ w.counts[e] \in Nat
    BY <1>1
  <2> QED
    BY <1>2, <2>1
<1>4. CASE db.counts # w.counts
  <2>1. ASSUME key.counts = w.counts PROVE FALSE
    <3>1. \A e \in LoopEdge : w.counts[e] <= db.counts[e]
      BY <1>2, <2>1
    <3>2. \A e \in LoopEdge : w.counts[e] = db.counts[e]
      <4> SUFFICES ASSUME NEW e \in LoopEdge PROVE w.counts[e] = db.counts[e]
        OBVIOUS
      <4>1. w.counts[e] \in Nat /\ db.counts[e] \in Nat
        BY <1>1
      <4> QED
        BY <3>1, <4>1
    <3>3. w.counts = db.counts
      BY <1>1, <3>2
    <3> QED
      BY <1>4, <3>3
  <2> QED
    BY <1>3, <2>1 DEF Passed
<1>5. CASE w.cur = End
  BY <1>3, <1>5 DEF Passed
<1>6. CASE db.counts = w.counts /\ w.cur # End
  <2>1. Place[db.cur] < Place[w.cur] /\ w.cur \in Step
    BY <1>1, <1>6
  <2>2. Place[key.step] \in Int /\ Place[db.cur] \in Int /\ Place[w.cur] \in Int
    BY <1>1, <2>1, PlaceType
  <2>3. key.counts # db.counts \/ key.step = db.cur \/ Place[key.step] < Place[db.cur]
    BY <1>1 DEF Passed
  <2> QED
    BY <1>3, <1>6, <2>1, <2>2, <2>3 DEF Passed
<1> QED
  BY <1>4, <1>5, <1>6

\* No key of a visit that was left is the current one.
LEMMA CurrentIsNew ==
  ASSUME NEW key \in Key, Passed(key, db)
  PROVE  key # [step |-> db.cur, counts |-> db.counts]
<1>1. key.step \in Step /\ Place[key.step] \in Int
  BY PlaceType DEF Key
<1> QED
  BY <1>1, StepAssumption DEF Passed

\* A write keeps the keys of the visits apart.
LEMMA WalksKeepVisits ==
  ASSUME PathInv, NEW r \in Runner, Walks(r), Inv', db.status = "done" => db' = db
  PROVE  VisitsAreKeyed'
<1> PICK w \in Record, label \in PC \ {"read", "indexed"} :
      /\ Save(r, w) /\ Legal(db, w)
      /\ w.status = "absent" => db.status = "absent" /\ execs' = execs
      /\ execs' = execs \/ (LaunchedHere /\ w.cur = db.cur /\ w.counts = db.counts)
  BY DEF Walks
<1>1. /\ db' = w
      /\ visit' = IF w.cur # db.cur \/ w.counts # db.counts THEN visit + 1 ELSE visit
  BY DEF Save
<1>2. db \in Record /\ visit \in Nat /\ execs \subseteq [key : Key, visit : Nat]
  BY DEF PathInv, Inv, TypeOK
<1>3. execs' \subseteq [key : Key, visit : Nat]
  BY DEF Inv, TypeOK
<1>4. VisitsAreKeyed /\ Shape(db)
  BY DEF PathInv
<1>5. db'.status = "absent" => execs' = {}
  BY <1>1, <1>4 DEF VisitsAreKeyed
<1>6. CASE w.cur = db.cur /\ w.counts = db.counts
  <2> DEFINE new == [key |-> [step |-> db.cur, counts |-> db.counts], visit |-> visit]
  <2>1. visit' = visit /\ execs' \subseteq execs \cup {new}
    BY <1>1, <1>6 DEF LaunchedHere
  <2>2. new.visit = visit /\ new.key = [step |-> db.cur, counts |-> db.counts]
    OBVIOUS
  <2> HIDE DEF new
  <2>3. ASSUME NEW x \in execs'
        PROVE  /\ x.visit <= visit
               /\ x.visit = visit => x.key = [step |-> db.cur, counts |-> db.counts]
               /\ x.visit < visit => Passed(x.key, db)
    BY <1>2, <1>4, <2>1, <2>2 DEF VisitsAreKeyed
  <2>4. ASSUME NEW key, Passed(key, db) PROVE Passed(key, w)
    BY <1>6, <2>4 DEF Passed
  <2>5. ASSUME NEW a \in execs' PROVE (a.key = new.key) <=> (a.visit = new.visit)
    <3>1. a.key \in Key /\ a.visit \in Nat
      BY <1>3
    <3>2. a.visit = visit \/ a.visit < visit
      BY <1>2, <2>3, <3>1
    <3> QED
      BY <1>2, <2>2, <2>3, <3>1, <3>2, CurrentIsNew
  <2>6. KeyPerVisit'
    <3> SUFFICES ASSUME NEW a \in execs', NEW b \in execs'
                 PROVE  (a.key = b.key) <=> (a.visit = b.visit)
      BY DEF KeyPerVisit
    <3>1. CASE a \in execs /\ b \in execs
      BY <1>4, <3>1 DEF VisitsAreKeyed, KeyPerVisit
    <3>2. CASE b = new
      BY <2>5, <3>2
    <3>3. CASE a = new
      BY <2>5, <3>3
    <3> QED
      BY <2>1, <3>1, <3>2, <3>3
  <2>7. \A x \in execs' :
          /\ x.visit <= visit'
          /\ x.visit = visit' => x.key = [step |-> w.cur, counts |-> w.counts]
          /\ x.visit < visit' => Passed(x.key, w)
    BY <1>6, <2>1, <2>3, <2>4
  <2> QED
    BY <1>1, <1>5, <2>6, <2>7 DEF VisitsAreKeyed, Passed
<1>7. CASE w.cur # db.cur \/ w.counts # db.counts
  <2>1. visit' = visit + 1 /\ execs' = execs
    BY <1>1, <1>7
  <2>2. ASSUME NEW x \in execs PROVE x.visit < visit' /\ Passed(x.key, w)
    <3>1. x.key \in Key /\ x.visit \in Nat /\ x.visit <= visit
      BY <1>2, <1>4 DEF VisitsAreKeyed
    <3>2. db.status \notin {"absent", "done"}
      BY <1>1, <1>4, <1>7 DEF VisitsAreKeyed
    <3>3. db.cur \in Step
      BY <1>2, <1>4, <3>2 DEF Shape, Record, Target
    <3>4. x.key = [step |-> db.cur, counts |-> db.counts] \/ Passed(x.key, db)
      BY <1>2, <1>4, <3>1 DEF VisitsAreKeyed
    <3> QED
      BY <1>2, <1>7, <2>1, <3>1, <3>3, <3>4, MovesOn, PassedStays
  <2>3. KeyPerVisit'
    BY <1>4, <2>1 DEF VisitsAreKeyed, KeyPerVisit
  <2>4. \A x \in execs' :
          /\ x.visit <= visit'
          /\ x.visit = visit' => x.key = [step |-> w.cur, counts |-> w.counts]
          /\ x.visit < visit' => Passed(x.key, w)
    BY <1>2, <2>1, <2>2
  <2> QED
    BY <1>1, <1>5, <2>3, <2>4 DEF VisitsAreKeyed, Passed
<1> QED
  BY <1>6, <1>7

\* A write keeps the whole invariant.
LEMMA WalksKeepPathInv ==
  ASSUME PathInv, NEW r \in Runner, Walks(r), Inv', db.status = "done" => db' = db
  PROVE  PathInv'
<1> PICK w \in Record, label \in PC \ {"read", "indexed"} :
      /\ Save(r, w) /\ To(r, label) /\ Shape(w)
      /\ label \in {"bind", "exec"} =>
           /\ w.status = "running" /\ ShouldRun(w.cur, w.facts)
           /\ w.cur \in Gated => w.approval.status = "consumed" /\ w.approval.context.step = w.cur
      /\ label \in Interpreting => w.cur \in Step
      /\ label \in Reporting /\ code'[r] = 0 => w.status \in {"waiting-approval", "done"}
      /\ label = "notify" => w.status # "waiting-approval"
      /\ \A q \in Runner \ {r} : code'[q] = code[q]
      /\ index' = index
  BY DEF Walks
<1>1. db' = w /\ st' = [st EXCEPT ![r] = w] /\ lease'.owner = r /\ notified' = notified
  BY DEF Save, PathInv, Inv, TypeOK
<1>2. pc' = [pc EXCEPT ![r] = label] /\ pc \in [Runner -> PC] /\ st \in [Runner -> Record]
  BY DEF To, PathInv, Inv, TypeOK
<1>3. /\ st'[r] = w /\ pc'[r] = label
      /\ \A q \in Runner \ {r} : st'[q] = st[q] /\ pc'[q] = pc[q]
  BY <1>1, <1>2
<1>4. Shape(db)'
  BY <1>1 DEF Shape, Asks
<1>5. OwnerFollows'
  <2>1. SameProgress(w, w) /\ (label \in Interpreting => w.cur = Cursor(w))
    BY StepAssumption DEF SameProgress, Cursor
  <2>2. \A q \in Runner : lease'.owner = q => q = r
    BY <1>1
  <2> QED
    BY <1>1, <1>3, <2>1, <2>2
    DEF OwnerFollows, Follows, Holding, Interpreting, SameProgress, Cursor, ShouldRun
<1>6. ReportsAreTrue'
  <2>1. ASSUME NEW q \in Runner
        PROVE  /\ st'[q].status = "done" => db'.status = "done"
               /\ pc'[q] \in Reporting /\ code'[q] = 0 => st'[q].status \in {"waiting-approval", "done"}
               /\ pc'[q] = "notify" => st'[q].status # "waiting-approval"
    <3>1. CASE q = r
      BY <1>1, <1>3, <3>1
    <3>2. CASE q # r
      BY <1>3, <3>2 DEF PathInv, ReportsAreTrue
    <3> QED
      BY <3>1, <3>2
  <2>2. SuccessIsDone'
    BY <1>1 DEF PathInv, ReportsAreTrue, SuccessIsDone
  <2> QED
    BY <2>1, <2>2 DEF ReportsAreTrue
<1> QED
  BY <1>4, <1>5, <1>6, WalksKeepVisits DEF PathInv

-----------------------------------------------------------------------------
(* The steps that write nothing, and the environment.                      *)

\* Only the surroundings of the record change.
LEMMA RecordStands ==
  ASSUME PathInv, UNCHANGED <<db, visit, execs>>
  PROVE  Shape(db)' /\ VisitsAreKeyed'
  BY DEF PathInv, Shape, Asks, VisitsAreKeyed, Passed, KeyPerVisit

\* A process that moves on outside the loop, with the lease as it is or given
\* back, still tells the truth.
LEMMA MovesKeepPath ==
  ASSUME PathInv, Inv', NEW r \in Runner, NEW label \in PC \ Interpreting,
         To(r, label), UNCHANGED <<db, visit, execs>>,
         lease'.owner \in {lease.owner, NoOne},
         \A q \in Runner \ {r} : st'[q] = st[q] /\ code'[q] = code[q],
         st'[r] = st[r] \/ (label = "idle" /\ st'[r] = NoRecord),
         label \in Holding => pc[r] \in Holding,
         label \in Reporting /\ code'[r] = 0 => st[r].status \in {"waiting-approval", "done"},
         label = "notify" => st[r].status # "waiting-approval",
         SuccessIsDone'
  PROVE  PathInv'
<1>1. pc'[r] = label /\ \A q \in Runner \ {r} : pc'[q] = pc[q]
  BY DEF To, PathInv, Inv, TypeOK
<1>2. OwnerFollows'
  <2> SUFFICES ASSUME NEW q \in Runner, lease'.owner = q
               PROVE  Follows(q)'
    BY DEF OwnerFollows
  <2>1. lease.owner = q
    BY RunnerAssumption
  <2>2. CASE q # r
    BY <1>1, <2>1, <2>2 DEF PathInv, OwnerFollows, Follows, SameProgress, Granted, Cursor
  <2>3. CASE q = r /\ st'[r] = st[r]
    BY <1>1, <2>1, <2>3 DEF PathInv, OwnerFollows, Follows, SameProgress, Granted, Interpreting
  <2>4. CASE q = r /\ label = "idle"
    BY <1>1, <2>4 DEF Follows, Holding
  <2> QED
    BY <2>2, <2>3, <2>4
<1>3. ReportsAreTrue'
  BY <1>1 DEF PathInv, ReportsAreTrue, Reporting, NoRecord
<1> QED
  BY <1>2, <1>3, RecordStands DEF PathInv

\* Nothing that the invariant speaks of changes.
LEMMA SameKeepsPath ==
  ASSUME PathInv, Inv', UNCHANGED <<db, visit, execs, pc, st, code, index, notified>>,
         lease'.owner = lease.owner
  PROVE  PathInv'
<1>1. OwnerFollows' /\ ReportsAreTrue'
  BY DEF PathInv, OwnerFollows, Follows, SameProgress, Granted, Cursor, ReportsAreTrue, SuccessIsDone
<1> QED
  BY <1>1, RecordStands DEF PathInv

\* What becomes of the owner's knowledge when a process starts, reads or enters
\* the loop.
LEMMA StartingKeepsPath ==
  ASSUME PathInv, Inv', NEW r \in Runner, Acquire(r) \/ Read(r) \/ Enter(r)
  PROVE  PathInv'
<1>1. /\ pc \in [Runner -> PC] /\ st \in [Runner -> Record] /\ db \in Record
      /\ version \in [Runner -> 0 .. MaxDefinitions]
  BY DEF PathInv, Inv, TypeOK
<1>2. UNCHANGED <<db, visit, execs, index, notified, code>>
  BY DEF Acquire, Read, Enter, historyVars
<1>3. SuccessIsDone'
  BY <1>2 DEF PathInv, ReportsAreTrue, SuccessIsDone
<1>4. \A q \in Runner \ {r} : st'[q] = st[q] /\ pc'[q] = pc[q]
  BY <1>1 DEF Acquire, Read, Enter, To
<1>5. CASE Acquire(r)
  <2>1. pc'[r] = "acquired" /\ lease'.owner = r /\ st' = st
    BY <1>1, <1>5 DEF Acquire, To
  <2>2. OwnerFollows'
    BY <2>1 DEF OwnerFollows, Follows, Holding
  <2>3. ReportsAreTrue'
    BY <1>2, <1>3, <1>4, <2>1 DEF PathInv, ReportsAreTrue, Reporting
  <2> QED
    BY <1>2, <2>2, <2>3, RecordStands DEF PathInv
<1>6. CASE Read(r)
  <2>1. pc'[r] = "read" /\ lease' = lease /\ st'[r] = db
    BY <1>1, <1>6 DEF Read, To
  <2>2. OwnerFollows'
    <3>1. Follows(r)'
      BY <1>2, <2>1 DEF Follows, SameProgress
    <3> QED
      BY <1>2, <1>4, <2>1, <3>1
      DEF PathInv, OwnerFollows, Follows, SameProgress, Granted, Cursor
  <2>3. ReportsAreTrue'
    BY <1>2, <1>3, <1>4, <2>1 DEF PathInv, ReportsAreTrue, Reporting
  <2> QED
    BY <1>2, <2>2, <2>3, RecordStands DEF PathInv
<1>7. CASE Enter(r)
  <2> DEFINE w == InitialState(st[r], version[r])
  <2>1. pc'[r] = "loop" /\ pc[r] = "indexed" /\ lease' = lease /\ st'[r] = w
    BY <1>1, <1>7 DEF Enter, To
  <2>2. /\ w.status = "running" /\ w.approval = st[r].approval
        /\ SameProgress(w, st[r]) /\ w.cur = Cursor(st[r])
    BY <1>1, InitialStateType, InitialStateKeeps
  <2> HIDE DEF w
  <2>3. OwnerFollows'
    <3>1. ASSUME lease.owner = r PROVE Follows(r)'
      <4>1. /\ SameProgress(st[r], db) /\ st[r].cur = db.cur
            /\ st[r].approval = db.approval \/ Granted(st[r])
        BY <2>1, <3>1 DEF PathInv, OwnerFollows, Follows, Holding
      <4>2. /\ SameProgress(w, db) /\ w.cur = Cursor(db)
            /\ w.approval = db.approval \/ Granted(w)
        BY <2>2, <4>1 DEF SameProgress, Cursor, Granted
      <4> QED
        BY <1>2, <2>1, <4>2 DEF Follows, Holding, SameProgress, Cursor, Granted
    <3> QED
      BY <1>2, <1>4, <2>1, <3>1
      DEF PathInv, OwnerFollows, Follows, SameProgress, Granted, Cursor
  <2>4. ReportsAreTrue'
    BY <1>2, <1>3, <1>4, <2>1, <2>2 DEF PathInv, ReportsAreTrue, Reporting
  <2> QED
    BY <1>2, <2>3, <2>4, RecordStands DEF PathInv
<1> QED
  BY <1>5, <1>6, <1>7

\* The steps of a process that write nothing.
LEMMA QuietKeepsPath ==
  ASSUME PathInv, Inv', NEW r \in Runner, Quiet(r)
  PROVE  PathInv'
<1>1. /\ pc \in [Runner -> PC] /\ st \in [Runner -> Record] /\ code \in [Runner -> {0, 1}]
  BY DEF PathInv, Inv, TypeOK
<1>2. /\ pc[r] \in Reporting /\ code[r] = 0 => st[r].status \in {"waiting-approval", "done"}
      /\ pc[r] = "notify" => st[r].status # "waiting-approval"
      /\ st[r].status = "done" => db.status = "done"
      /\ SuccessIsDone
  BY DEF PathInv, ReportsAreTrue
<1>3. CASE RefuseBusy(r)
  BY <1>3, SameKeepsPath DEF RefuseBusy, runnerVars, historyVars
<1>4. CASE IndexRunning(r)
  BY <1>2, <1>4, MovesKeepPath
  DEF IndexRunning, Upsert, historyVars, PC, Interpreting, Holding, Reporting, SuccessIsDone
<1>5. CASE Receipt(r)
  <2>1. \A q \in Runner \ {r} : code'[q] = code[q]
    BY <1>1, <1>5 DEF Receipt
  <2> QED
    BY <1>2, <1>5, <2>1, MovesKeepPath
    DEF Receipt, historyVars, PC, Interpreting, Holding, Reporting, SuccessIsDone
<1>6. CASE PublishReport(r)
  BY <1>2, <1>6, MovesKeepPath
  DEF PublishReport, historyVars, PC, Interpreting, Holding, Reporting, SuccessIsDone
<1>7. CASE IndexResult(r)
  <2>1. SuccessIsDone'
    BY <1>2, <1>7 DEF IndexResult, Upsert, Reporting, SuccessIsDone
  <2> QED
    BY <1>2, <1>7, <2>1, MovesKeepPath
    DEF IndexResult, historyVars, PC, Interpreting, Holding, Reporting
<1>8. CASE Notify(r)
  <2>1. SuccessIsDone'
    BY <1>2, <1>8 DEF Notify, Reporting, SuccessIsDone
  <2> QED
    BY <1>8, <2>1, MovesKeepPath
    DEF Notify, historyVars, PC, Interpreting, Holding, Reporting
<1>9. CASE IndexFailed(r)
  BY <1>2, <1>9, MovesKeepPath
  DEF IndexFailed, Upsert, historyVars, PC, Interpreting, Holding, Reporting, SuccessIsDone
<1>10. ASSUME Forget(r), lease'.owner \in {lease.owner, NoOne} PROVE PathInv'
  <2>1. /\ st'[r] = NoRecord
        /\ \A q \in Runner \ {r} : st'[q] = st[q] /\ code'[q] = code[q]
    BY <1>1, <1>10 DEF Forget
  <2>2. UNCHANGED <<db, visit, execs, index, notified>> /\ To(r, "idle")
    BY <1>10 DEF Forget, historyVars
  <2> QED
    BY <1>2, <1>10, <2>1, <2>2, MovesKeepPath
    DEF PC, Interpreting, Holding, Reporting, SuccessIsDone
<1>11. CASE Release(r)
  BY <1>10, <1>11 DEF Release
<1>12. CASE Crash(r)
  BY <1>10, <1>12 DEF Crash
<1>13. ASSUME Throw(r) PROVE PathInv'
  <2>1. UNCHANGED <<db, visit, execs, index, notified, lease, st, code>>
    BY <1>13 DEF Throw, historyVars
  <2>2. PICK label \in {"thrown", "release"} : To(r, label)
    BY <1>13 DEF Throw
  <2> QED
    BY <1>2, <2>1, <2>2, MovesKeepPath
    DEF PC, Interpreting, Holding, Reporting, SuccessIsDone
<1>14. CASE LeaseLost(r) \/ CallFails(r)
  BY <1>13, <1>14 DEF LeaseLost, CallFails
<1> QED
  BY <1>3, <1>4, <1>5, <1>6, <1>7, <1>8, <1>9, <1>11, <1>12, <1>14, StartingKeepsPath DEF Quiet

\* An approval: what the owner holds is still the request that was granted.
LEMMA ApproveKeepsPath ==
  ASSUME PathInv, Inv', Approve
  PROVE  PathInv' /\ Legal(db, db')
<1> DEFINE given == [db.approval EXCEPT !.status = "approved"]
<1>1. db \in Record /\ db.approval \in Approval
  BY DEF PathInv, Inv, TypeOK, Record
<1>2. /\ db.status = "waiting-approval" /\ db.approval.status = "pending"
      /\ UNCHANGED <<lease, pc, st, code, index, notified, visit, execs>>
  BY DEF Approve, runnerVars
<1>3. /\ db' = [db EXCEPT !.status = "running", !.approval = given]
  BY <1>1 DEF Approve, Record
<1>4. /\ given.status = "approved" /\ given.context = db.approval.context
      /\ db.approval = [given EXCEPT !.status = "pending"]
  BY <1>1, <1>2 DEF Approval
<1> HIDE DEF given
<1>5. /\ db'.status = "running" /\ db'.approval = given /\ db'.cur = db.cur
      /\ SameProgress(db', db)
  BY <1>1, <1>3 DEF Record, SameProgress
<1>6. Asks(db) /\ db.cur \in Step
  BY <1>2, StepAssumption DEF PathInv, Shape, Asks
<1>7. Shape(db)'
  BY <1>2, <1>5, <1>6, StepAssumption DEF PathInv, Shape, SameProgress
<1>8. OwnerFollows'
  <2>1. ASSUME NEW w, w.approval = db.approval PROVE Granted(w)'
    BY <1>4, <1>5, <1>6, <2>1 DEF Granted, Asks, SameProgress
  <2>2. ASSUME NEW r \in Runner, lease.owner = r PROVE Follows(r)'
    <3>1. Follows(r) /\ ~Granted(st[r])
      BY <1>2, <2>2 DEF PathInv, OwnerFollows, Granted
    <3>2. pc'[r] = pc[r] /\ st'[r] = st[r] /\ Cursor(db') = Cursor(db)
      BY <1>2, <1>5 DEF Cursor
    <3>3. st[r].approval = db.approval => Granted(st[r])'
      BY <1>2, <2>1
    <3>4. CASE pc[r] \in Holding
      BY <1>2, <1>5, <3>1, <3>2, <3>3, <3>4 DEF Follows, Holding, SameProgress
    <3>5. CASE pc[r] = "loop"
      BY <1>2, <1>5, <3>1, <3>2, <3>3, <3>5 DEF Follows, Holding, SameProgress
    <3>6. CASE pc[r] \notin Holding \cup {"loop"}
      BY <1>2, <3>1, <3>2, <3>6 DEF Follows
    <3> QED
      BY <3>4, <3>5, <3>6
  <2> QED
    BY <1>2, <2>2 DEF OwnerFollows
<1>9. ReportsAreTrue'
  BY <1>2 DEF PathInv, ReportsAreTrue, SuccessIsDone
<1>10. VisitsAreKeyed'
  BY <1>2, <1>5 DEF PathInv, VisitsAreKeyed, Passed, KeyPerVisit, SameProgress
<1>11. Legal(db, db')
  BY <1>2, <1>5 DEF Legal, Grants, SameProgress, given
<1> QED
  BY <1>7, <1>8, <1>9, <1>10, <1>11 DEF PathInv

\* One step of the specification, and what it is in the walk.
LEMMA PathStep ==
  ASSUME PathInv, [Next]_vars
  PROVE  PathInv' /\ (Legal(db, db') \/ db' = db)
<1>1. Inv' /\ (db.status = "done" => db' = db)
  BY NextStep DEF PathInv
<1>2. ASSUME NEW r \in Runner, Checkpoints(r) PROVE PathInv' /\ Legal(db, db')
  BY <1>1, <1>2, CheckpointsWalk, WalksKeepPathInv DEF Walks, Save
<1>3. ASSUME NEW r \in Runner, Quiet(r) PROVE PathInv' /\ db' = db
  BY <1>1, <1>3, QuietKeepsPath, QuietKeepsInv DEF PathInv
<1>4. CASE Approve
  BY <1>1, <1>4, ApproveKeepsPath
<1>5. CASE PublishDefinition \/ Expire \/ UNCHANGED vars
  <2>1. /\ UNCHANGED <<db, visit, execs, pc, st, code, index, notified>>
        /\ lease'.owner = lease.owner
    BY <1>5 DEF PublishDefinition, Expire, vars, runnerVars, historyVars, PathInv, Inv, TypeOK
  <2> QED
    BY <1>1, <2>1, SameKeepsPath
<1> QED
  BY <1>2, <1>3, <1>4, <1>5 DEF Next, Work, Checkpoints, Quiet

\* The first state.
LEMMA InitPath == ASSUME Init PROVE PathInv /\ Path!Init
<1>1. db = NoRecord /\ lease.owner = NoOne /\ execs = {} /\ visit = 0
  BY DEF Init
<1>2. Shape(db)
  BY <1>1 DEF Shape, NoRecord
<1>3. OwnerFollows
  BY <1>1, RunnerAssumption DEF OwnerFollows
<1>4. ReportsAreTrue
  BY DEF Init, ReportsAreTrue, Reporting, NoRecord, SuccessIsDone
<1>5. VisitsAreKeyed
  BY <1>1 DEF VisitsAreKeyed, KeyPerVisit
<1>6. Path!Init
  BY <1>1 DEF Path!Init, NoRecord
<1> QED
  BY <1>2, <1>3, <1>4, <1>5, <1>6, InitInv DEF PathInv

-----------------------------------------------------------------------------
(* The theorems.                                                           *)

\* In every reachable state, for any runners, graph and bounds: what the owner
\* of the lease holds differs from what is stored at most by an approval given
\* since, success is reported only of a run that is done, and the key of a
\* launch (workflowExecutionKey) names the visit it was made in.
THEOREM PathInvariance == Spec => []PathInv
<1>1. Init => PathInv
  BY InitPath
<1>2. PathInv /\ [Next]_vars => PathInv'
  BY PathStep
<1> QED
  BY <1>1, <1>2, PTL DEF Spec

\* commitAndPush tells a repair from a retry by the key of the execution, and
\* runJob reports success and ends the entries of the steps: keys name visits,
\* success is reported only of a run stored as done, and a run that ended shows
\* no step as running, for any number of processes that crash, resume and lose
\* their lease.
THEOREM ToldAsRan == Spec => []ToldAsItRan
<1>1. PathInv => ToldAsItRan
  BY DEF PathInv, Shape, ReportsAreTrue, VisitsAreKeyed, ToldAsItRan, ReportsAgree,
         EndedShowsNoRunningStep
<1> QED
  BY <1>1, PathInvariance, PTL

\* saveWorkflowRun writes the whole state and compares nothing; still the
\* writes of all processes together are one walk of the graph, by the rules of
\* runGraphCapabilityWorkflow.
THEOREM ImplementsWalk == Spec => WalksTheGraph
<1>1. Init => Path!Init
  BY InitPath
<1>2. PathInv /\ [Next]_vars => [Path!Next]_(Path!vars)
  <2> SUFFICES ASSUME PathInv, [Next]_vars PROVE [Path!Next]_(Path!vars)
    OBVIOUS
  <2>1. PathInv' /\ (Legal(db, db') \/ db' = db)
    BY PathStep
  <2>2. db \in Record /\ db' \in Record
    BY <2>1 DEF PathInv, Inv, TypeOK
  <2>3. CASE Legal(db, db')
    BY <2>2, <2>3, LegalIsAStep
  <2>4. CASE db' = db
    BY <2>4 DEF Path!vars
  <2> QED
    BY <2>1, <2>3, <2>4
<1> QED
  BY <1>1, <1>2, PathInvariance, PTL DEF Spec, WalksTheGraph, Path!Spec
=============================================================================
