----------------------------- MODULE RunRecords -----------------------------
(***************************************************************************)
(* What a run leaves for its readers: the events of its goals in the run   *)
(* log (goal/runLog.ts), the rows of the run index (runIndex.ts) and the   *)
(* goals' reports (goal/report.ts), written by a tick of goal-manager      *)
(* (scripts/commitGoalState.ts) or after a capability                      *)
(* (scripts/applyCapabilityReports.ts).                                    *)
(***************************************************************************)
EXTENDS Naturals, Sequences, FiniteSets

CONSTANTS
  RecordGoals,     \* the goals a capability's results are about, in order
  GoalTargetLoops, \* those of them that are Loops with a goal as target
  Reportable,      \* those whose name may be the name of a report
  RecordStarts,    \* what started the process: an event, "actor" alone or "nothing"
  RecordFaults,    \* what may fail: "goal", "log", "index", "report", "killed"
  MaxRecordFaults  \* bound: failing calls in a run

VARIABLES
  recordRun,  \* the run: [kind, at, i, f, start, exit, wanted, thrown]; f counts a flush
  staged,     \* goal -> events kept for the log
  runLog,     \* events in the log, in order: [goal, event]
  indexRow,   \* "job" or goal -> its row
  stagedRow,  \* goal -> its row to finalise
  goalReport, \* goal -> its report
  recordFaults

recordVars == <<recordRun, staged, runLog, indexRow, stagedRow, goalReport, recordFaults>>

Goal == {RecordGoals[i] : i \in DOMAIN RecordGoals}
\* groupGoalEvidence is a map: every goal once.
ASSUME RecordsAssumption ==
  /\ RecordGoals \in Seq(Goal) \ {<<>>} /\ "job" \notin Goal
  /\ \A i, j \in DOMAIN RecordGoals : RecordGoals[i] = RecordGoals[j] => i = j

NoRow == [status |-> "none", mode |-> "none", waits |-> FALSE]
NoGoalReport == [event |-> "none", next |-> "none", mode |-> "none"]
NoRecordRun == [kind |-> "none", at |-> "ended", i |-> 1, f |-> 1, start |-> "nothing", exit |-> 0, wanted |-> FALSE, thrown |-> FALSE]
LoggedEvent(name, status, decision) == [name |-> name, status |-> status, decision |-> decision]

\* triggerContext, triggerMode of the index and dispatchMode of the log.
TriggerOf(start) ==
  CASE start = "nothing" -> "none" [] start = "actor" -> "local"
    [] start = "workflow_dispatch" -> "manual-workflow-dispatch" [] OTHER -> start
TriggerMode(kind) ==
  CASE kind = "none" -> "none" [] kind = "schedule" -> "scheduled" [] kind = "manual-workflow-dispatch" -> "manual"
    [] kind = "local" -> "local" [] OTHER -> "event"
DispatchMode(kind) ==
  CASE kind = "schedule" -> "automated" [] kind = "manual-workflow-dispatch" -> "manual"
    [] kind = "none" -> "local" [] OTHER -> "event-driven"

\* dispatchContext: only events that dispatch have one.
ContextMode(e) ==
  IF e.status \in {"dispatch", "dispatchWorkflow"} THEN DispatchMode(TriggerOf(recordRun.start)) ELSE "none"

\* statusFromGoalEvent.
EventStatus(e) ==
  IF e.decision = "done" THEN "success"
  ELSE IF e.decision = "blocked" THEN "blocked"
  ELSE IF e.status = "idle" THEN "waiting"
  ELSE IF e.name \in {"goal.tick.dispatch", "loop.tick.dispatch"} THEN "running" ELSE "recorded"

ExitStatus(code) == IF code = 0 THEN "success" ELSE "failed"

\* finalizedRunIndexRow: a Loop that started its goal goes on waiting for it.
EndStatus(waits) == IF waits /\ recordRun.exit = 0 THEN "waiting" ELSE ExitStatus(recordRun.exit)
FinalRow(row) == [row EXCEPT !.status = EndStatus(row.waits)]

\* nextStepFromEvidence: of the goal as the result leaves it.
StepFromEvidence(left, blocked, status) ==
  IF left = 0 THEN "done"
  ELSE IF status \in {"fail", "blocked"} THEN "rescue"
  ELSE IF blocked THEN "block" ELSE IF status # "noop" THEN "dispatch" ELSE "wait"

\* nextStepFromEvent: a workflow that was started reads "wait" there.
ReportedStep(e, left, blocked) ==
  IF e.decision \in {"done", "dispatch"} THEN e.decision
  ELSE IF e.decision \in {"blocked", "reject-evidence"} THEN "block"
  ELSE IF e.decision = "accept-evidence" THEN StepFromEvidence(left, blocked, e.status) ELSE "wait"

\* The events of a tick, and of a result: the goal changed or not, and is done
\* by it or not.
Decided(d) ==
  LoggedEvent(CASE d = "dispatch" -> "goal.tick.dispatch" [] d = "dispatchWorkflow" -> "goal.tick.dispatch"
                [] d = "done" -> "goal.tick.done" [] d = "idle" -> "goal.tick.idle"
                [] d = "wait" -> "goal.tick.wait" [] d = "blocked" -> "goal.tick.blocked", d, d)
LoopDecided(d) == LoggedEvent(IF d = "dispatch" THEN "loop.tick.dispatch" ELSE "loop.tick.idle", d, d)
TickEvents(g) ==
  {<<LoggedEvent("goal.tick.start", "none", "none"), e>> :
     e \in IF g \in GoalTargetLoops THEN {LoopDecided("dispatch"), LoopDecided("idle"), Decided("wait"), Decided("blocked")}
           ELSE {Decided(d) : d \in {"dispatch", "dispatchWorkflow", "done", "idle", "wait", "blocked"}}}
AppliedEvents(status) ==
  {LoggedEvent("goal.evidence.applied", status, "accept-evidence"), LoggedEvent("goal.evidence.unchanged", status, "no-state-change")}
ResultEvents ==
  UNION {{<<e>>, <<e, LoggedEvent("goal.decision.done", "done", "done")>>} :
           e \in UNION {AppliedEvents(s) : s \in {"pass", "fail", "noop"}}}
RejectedEvent == LoggedEvent("goal.evidence.rejected", "rejected", "reject-evidence")
---------------------------------------------------------------------------
RecordsInit ==
  /\ recordRun = NoRecordRun /\ staged = [g \in Goal |-> <<>>] /\ runLog = <<>>
  /\ indexRow = [x \in Goal \cup {"job"} |-> NoRow] /\ stagedRow = [g \in Goal |-> NoRow]
  /\ goalReport = [g \in Goal |-> NoGoalReport] /\ recordFaults = 0

RunAt(at) == recordRun.at = at
RunGoes(at) == recordRun' = [recordRun EXCEPT !.at = at]
RecordFails(what) == what \in RecordFaults /\ recordFaults < MaxRecordFaults /\ recordFaults' = recordFaults + 1
RunGoal == RecordGoals[recordRun.i]
Flushing == [recordRun EXCEPT !.at = "flush", !.f = 1]
ExitOf(code) == IF code = 0 THEN 99 ELSE code

StartRecords(kind, start, wanted, exit) ==
  /\ RunAt("ended")
  /\ recordRun' = [NoRecordRun EXCEPT !.kind = kind, !.at = "work", !.start = start, !.wanted = wanted,
                               !.exit = exit]
  /\ staged' = [g \in Goal |-> <<>>] /\ runLog' = <<>> /\ stagedRow' = [g \in Goal |-> NoRow]
  /\ indexRow' = [x \in Goal \cup {"job"} |->
       IF x # "job" THEN NoRow
       ELSE [NoRow EXCEPT !.status = "running", !.mode = TriggerMode(TriggerOf(IF start = "actor" THEN "nothing" ELSE start))]]
  /\ goalReport' = [g \in Goal |-> NoGoalReport] /\ recordFaults' = 0

\* stageGoalRunLogEvent, then the goal is stored.
StageEvents ==
  /\ RunAt("work") /\ RunGoes("save")
  /\ \E events \in IF recordRun.kind = "tick" THEN TickEvents(RunGoal) ELSE ResultEvents :
       staged' = [staged EXCEPT ![RunGoal] = @ \o events]
  /\ UNCHANGED <<runLog, indexRow, stagedRow, goalReport, recordFaults>>

StageRejection ==
  /\ RunAt("work") /\ recordRun.kind = "results" /\ recordRun' = Flushing
  /\ staged' = [staged EXCEPT ![RunGoal] = Append(@, RejectedEvent)]
  /\ UNCHANGED <<runLog, indexRow, stagedRow, goalReport, recordFaults>>

\* putGoalStateAsync: a tick goes on without a report, a result's failure is
\* thrown on after the log is written.
StoreGoal ==
  /\ RunAt("save")
  /\ \/ /\ recordRun' = IF recordRun.wanted THEN [recordRun EXCEPT !.at = "report"] ELSE Flushing
        /\ UNCHANGED recordFaults
     \/ /\ RecordFails("goal")
        /\ recordRun' = [Flushing EXCEPT !.thrown = recordRun.kind = "results"]
  /\ UNCHANGED <<staged, runLog, indexRow, stagedRow, goalReport>>

\* refreshGoalDashboardReport: told from the latest event that is still staged.
LatestStaged(g) == IF staged[g] = <<>> THEN LoggedEvent("unknown", "none", "none") ELSE staged[g][Len(staged[g])]
SaveGoalReport ==
  /\ RunAt("report")
  /\ \/ /\ RunGoal \in Reportable
        /\ \E left \in 0 .. 1, blocked \in BOOLEAN :
             goalReport' = [goalReport EXCEPT ![RunGoal] =
               [event |-> LatestStaged(RunGoal).name, next |-> ReportedStep(LatestStaged(RunGoal), left, blocked),
                mode |-> ContextMode(LatestStaged(RunGoal))]]
        /\ recordRun' = Flushing /\ UNCHANGED recordFaults
     \/ /\ IF RunGoal \in Reportable THEN RecordFails("report") ELSE UNCHANGED recordFaults
        /\ recordRun' = [Flushing EXCEPT !.exit = ExitOf(@)] /\ UNCHANGED goalReport
  /\ UNCHANGED <<staged, runLog, indexRow, stagedRow>>

\* What follows a flush, whether it came to its end or not.
AfterFlush ==
  IF recordRun.thrown THEN [recordRun EXCEPT !.at = "finish", !.exit = ExitOf(@)]
  ELSE IF recordRun.kind = "results" /\ recordRun.i < Len(RecordGoals) THEN [recordRun EXCEPT !.at = "work", !.i = @ + 1]
  ELSE [recordRun EXCEPT !.at = "finish"]

\* flushGoalRunLogEventsAsync: goal by goal, event by event, then the row. A
\* call that fails ends it, and what was stored before it is staged still.
FlushGoal == RecordGoals[recordRun.f]
MoreToFlush == RunAt("flush") /\ recordRun.f <= Len(RecordGoals)
InLog(g) == {n \in DOMAIN runLog : runLog[n].goal = g}
Stored(n) == runLog' = runLog \o [k \in 1 .. n |-> [goal |-> FlushGoal, event |-> staged[FlushGoal][k].name]]

\* mutant: what is stored stays staged.
Emptied_Kept(g) == staged
Emptied(g) == [staged EXCEPT ![g] = <<>>]
RowOf(g) == [status |-> EventStatus(LatestStaged(g)), mode |-> TriggerMode(TriggerOf(recordRun.start)),
             waits |-> LatestStaged(g).name \in {"loop.tick.dispatch", "loop.tick.idle"}]

FlushStops ==
  /\ MoreToFlush /\ recordRun' = AfterFlush /\ RecordFails("log")
  /\ \E n \in 0 .. Len(staged[FlushGoal]) - 1 : Stored(n)
  /\ UNCHANGED <<staged, indexRow, stagedRow, goalReport>>

FlushEvents ==
  /\ MoreToFlush /\ staged[FlushGoal] # <<>>
  /\ recordRun' = [recordRun EXCEPT !.f = @ + 1]
  /\ Stored(Len(staged[FlushGoal])) /\ staged' = Emptied(FlushGoal)
  /\ \/ indexRow' = [indexRow EXCEPT ![FlushGoal] = RowOf(FlushGoal)] /\ UNCHANGED recordFaults
     \/ RecordFails("index") /\ UNCHANGED indexRow
  /\ stagedRow' = [stagedRow EXCEPT ![FlushGoal] = RowOf(FlushGoal)]
  /\ UNCHANGED <<goalReport>>

FlushGoesOn ==
  /\ RunAt("flush")
  /\ recordRun' = IF MoreToFlush THEN [recordRun EXCEPT !.f = @ + 1] ELSE AfterFlush
  /\ MoreToFlush => staged[FlushGoal] = <<>>
  /\ UNCHANGED <<staged, runLog, indexRow, stagedRow, goalReport, recordFaults>>

\* The stage's end: the job's own row, then the rows of its goals; a write
\* that fails is only reported.
FinishJobRow ==
  /\ RunAt("finish") /\ RunGoes("rows")
  /\ \/ indexRow' = [indexRow EXCEPT !["job"].status = ExitStatus(recordRun.exit)] /\ UNCHANGED recordFaults
     \/ RecordFails("index") /\ UNCHANGED indexRow
  /\ UNCHANGED <<staged, runLog, stagedRow, goalReport>>

FinaliseRow(g) ==
  /\ RunAt("rows") /\ stagedRow[g] # NoRow
  /\ \/ indexRow' = [indexRow EXCEPT ![g] = FinalRow(stagedRow[g])] /\ UNCHANGED recordFaults
     \/ RecordFails("index") /\ UNCHANGED indexRow
  /\ stagedRow' = [stagedRow EXCEPT ![g] = NoRow]
  /\ UNCHANGED <<recordRun, staged, runLog, goalReport>>

EndRecords ==
  /\ RunAt("rows") /\ \A g \in Goal : stagedRow[g] = NoRow
  /\ RunGoes("ended")
  /\ UNCHANGED <<staged, runLog, indexRow, stagedRow, goalReport, recordFaults>>

RecordsKilled ==
  /\ ~RunAt("ended") /\ RecordFails("killed") /\ RunGoes("ended")
  /\ UNCHANGED <<staged, runLog, indexRow, stagedRow, goalReport>>

RecordsNext ==
  \/ \E start \in RecordStarts, wanted \in BOOLEAN :
       StartRecords("tick", start, wanted, 0) \/ \E exit \in {0, 1} : StartRecords("results", start, wanted, exit)
  \/ StageEvents \/ StageRejection \/ StoreGoal \/ SaveGoalReport
  \/ FlushStops \/ FlushEvents \/ FlushGoesOn \/ FinishJobRow
  \/ \E g \in Goal : FinaliseRow(g)
  \/ EndRecords \/ RecordsKilled
RecordsSpec == RecordsInit /\ [][RecordsNext]_recordVars
---------------------------------------------------------------------------
(* Every record of a run keeps its type. *)
RecordsTypeOK ==
  /\ recordRun.exit \in {0, 1, 99} /\ recordRun.i \in DOMAIN RecordGoals
  /\ \A x \in DOMAIN indexRow :
       indexRow[x].status \in {"none", "running", "success", "failed", "blocked", "waiting", "recorded"}

Quiet == RunAt("ended") /\ recordFaults = 0

(* When a run is over, no row of it says "running" or tells another end    *)
(* than the run's, but for a Loop that waits for its goal                  *)
(* (finalizeStagedRunIndexRowsAsync).                                      *)
RowsTellTheEnd ==
  Quiet /\ recordRun.kind # "none" =>
    \A x \in DOMAIN indexRow :
      /\ x = "job" \/ InLog(x) # {} => indexRow[x].status # "none"
      /\ indexRow[x].status # "none" =>
           indexRow[x].status \in {ExitStatus(recordRun.exit)} \cup
             IF x \in GoalTargetLoops /\ recordRun.exit = 0 THEN {"waiting"} ELSE {}

(* No event of a goal is left out of the log when nothing failed, and none *)
(* is in it twice, however often the log was written, but for once more    *)
(* with every call that failed (flushGoalRunLogEventsAsync).               *)
LogIsComplete ==
  /\ Quiet => \A g \in Goal : staged[g] = <<>>
  /\ \A g \in Goal : \A n \in InLog(g) :
       Cardinality({k \in InLog(g) : runLog[k].event = runLog[n].event}) <= 1 + recordFaults

(* A goal's report tells the decision the log ends with, and started by    *)
(* what the index says the run was (latestGoalRunLogEvent, dispatchMode).  *)
ReportTellsTheLog ==
  Quiet => \A g \in Goal : goalReport[g] # NoGoalReport =>
    /\ \E n \in InLog(g) : runLog[n].event = goalReport[g].event /\ \A k \in InLog(g) : k <= n
    /\ goalReport[g].mode = "automated" <=> goalReport[g].mode # "none" /\ indexRow[g].mode = "scheduled"
    /\ goalReport[g].mode = "manual" <=> goalReport[g].mode # "none" /\ indexRow[g].mode = "manual"

(* The log, the index and the reports of a run agree.                      *)
RecordsAgree == RowsTellTheEnd /\ LogIsComplete /\ ReportTellsTheLog
=============================================================================
