---------------------------- MODULE WorkflowRun ----------------------------
(***************************************************************************)
(* A durable graph workflow run: several engine processes ("runners") may  *)
(* be dispatched for the same run id.  Each one takes the run's lease,     *)
(* reads the stored record, interprets the step graph and writes the       *)
(* record back at every checkpoint; an external dashboard approves gated   *)
(* steps by writing the same record.  Processes crash, leases expire under *)
(* a live owner, and remote calls fail.                                    *)
(*                                                                         *)
(* runJob and runGraphCapabilityWorkflow (src/job.ts) are the handlers;    *)
(* one action stands for the code between two awaits whose order other     *)
(* processes can tell apart.  A checkpoint is a lease renewal immediately  *)
(* followed by the write: the two are one action, because a lease (8 h)    *)
(* does not run out between two consecutive calls.                         *)
(***************************************************************************)
EXTENDS Integers, Sequences, FiniteSets

CONSTANTS
  Runner,             \* processes that may be dispatched for the run
  NoOne,              \* no lease owner
  Step,               \* step ids of the graph
  End,                \* the "$end" target, and an absent currentStepId
  StartAt,            \* the first step
  Edges,              \* step -> sequence of connections, in file order
  RunWhen,            \* step -> the step whose fact it reads, the values it runs on
  Gated,              \* steps with approval: required
  Outcome,            \* what executing a step may return
  Tolerated,          \* step -> failing outcomes its continueOn accepts
  Invalid,            \* definition versions that workflow validation rejects
  MaxDefinitions,     \* bound: versions of the definition that get published
  MaxExecutedSteps,   \* maxExecutedSteps of one process
  MaxDispatches,      \* bound: times a process is dispatched for the run
  MaxFaults,          \* bound: crashes and failing remote calls
  MaxGrants           \* bound: approvals the dashboard gives

Target  == Step \cup {End}
Result  == {"pass", "fail", "blocked", "none"}   \* status of the structured result
Outcomes == [exit : {0, 1}, result : Result]
Kind    == {"when", "default", "always"}
Edge    == [to : Target, kind : Kind, when : SUBSET Result, max : Nat]  \* max 0: no maxIterations

ASSUME RunnerAssumption == NoOne \notin Runner
ASSUME StepAssumption ==
  /\ End \notin Step
  /\ StartAt \in Step
  /\ Gated \subseteq Step
  /\ Outcome \subseteq Outcomes
  /\ Tolerated \in [Step -> SUBSET Outcome]
  /\ RunWhen \in [Step -> [of : Step, among : SUBSET Result]]
  /\ Edges \in [Step -> Seq(Edge)]
\* validateWorkflow: a connection that sets no maxIterations leads forward in
\* the file.
ASSUME LoopAssumption ==
  /\ IsFiniteSet(Step)
  /\ \E place \in [Step -> 1 .. Cardinality(Step)] :
       \A s \in Step : \A i \in DOMAIN Edges[s] :
         (Edges[s][i].to \in Step /\ Edges[s][i].max = 0) => place[s] < place[Edges[s][i].to]
ASSUME BoundAssumption ==
  /\ MaxDefinitions \in Nat \ {0} /\ MaxExecutedSteps \in Nat /\ MaxDispatches \in Nat
  /\ MaxFaults \in Nat /\ MaxGrants \in Nat
  /\ Invalid \subseteq 1 .. MaxDefinitions

(***************************************************************************)
(* The stored record (WorkflowRunState).  facts is the last result each    *)
(* step merged in; an approval is for one step in one context: the         *)
(* definition hash and the facts the request was made with.                *)
(***************************************************************************)
Status     == {"absent", "running", "waiting-approval", "blocked", "failed", "done"}
StepStatus == {"none", "running", "completed", "blocked", "failed"}
Context    == [step : Target, hash : 0 .. MaxDefinitions, facts : [Step -> Result]]
Approval   == [context : Context, status : {"none", "pending", "approved", "consumed"}]
LoopEdge   == {e \in Step \X Target : \E i \in DOMAIN Edges[e[1]] :
                  Edges[e[1]][i].to = e[2] /\ Edges[e[1]][i].max > 0}
Counts     == [LoopEdge -> Nat]

Record == [status : Status, cur : Target, hash : 0 .. MaxDefinitions,
           completed : SUBSET Step, counts : Counts, approval : Approval,
           steps : [Step -> StepStatus], facts : [Step -> Result]]

NoFacts == [s \in Step |-> "none"]

NoRecord ==
  [status |-> "absent", cur |-> End, hash |-> 0, completed |-> {},
   counts |-> [e \in LoopEdge |-> 0],
   approval |-> [context |-> [step |-> End, hash |-> 0, facts |-> NoFacts], status |-> "none"],
   steps |-> [s \in Step |-> "none"], facts |-> NoFacts]

VARIABLES
  db,         \* the run's stored record
  lease,      \* the run's lease row
  index,      \* status of the run's row in the run index
  notified,   \* statuses workflow-completed was notified with
  definition, \* current version of the workflow definition
  pc,         \* where each runner is
  st,         \* each runner's in-memory WorkflowRunState
  version,    \* the definition each runner hydrated
  executed,   \* executedSteps of each runner
  code,       \* exit code each runner's workflow returned
  dispatched, faults, grants,  \* counters behind the bounds
  visit,      \* history: number of stored cursor moves
  execs,      \* history: key and visit of every launched step
  unspent     \* history: contexts approved and not launched since

runnerVars  == <<pc, st, version, executed, code>>
boundVars   == <<dispatched, faults, grants>>
historyVars == <<visit, execs, unspent>>
vars == <<db, lease, index, notified, definition, runnerVars, boundVars, historyVars>>

PC == {"idle", "acquired", "read", "indexed", "loop", "bind", "exec",
       "report", "row", "final", "notify", "thrown", "release"}

Key == [step : Step, counts : Counts]

TypeOK ==
  /\ db \in Record
  /\ lease \in [owner : Runner \cup {NoOne}, live : BOOLEAN]
  /\ index \in {"none", "running", "waiting", "success", "failed"}
  /\ notified \subseteq {"success", "blocked", "failed"}
  /\ definition \in 1 .. MaxDefinitions
  /\ pc \in [Runner -> PC]
  /\ st \in [Runner -> Record]
  /\ version \in [Runner -> 0 .. MaxDefinitions]
  /\ executed \in [Runner -> Nat]
  /\ code \in [Runner -> {0, 1}]
  /\ dispatched \in Nat /\ faults \in Nat /\ grants \in Nat
  /\ visit \in Nat
  /\ execs \subseteq [key : Key, visit : Nat]
  /\ unspent \subseteq Context

Init ==
  /\ db = NoRecord
  /\ lease = [owner |-> NoOne, live |-> FALSE]
  /\ index = "none" /\ notified = {} /\ definition = 1
  /\ pc = [r \in Runner |-> "idle"]
  /\ st = [r \in Runner |-> NoRecord]
  /\ version = [r \in Runner |-> 0]
  /\ executed = [r \in Runner |-> 0]
  /\ code = [r \in Runner |-> 0]
  /\ dispatched = 0 /\ faults = 0 /\ grants = 0
  /\ visit = 0 /\ execs = {} /\ unspent = {}

-----------------------------------------------------------------------------
(* The step graph: which connection a step's result selects.               *)

\* Faulty variant: one traversal too many.
Exhausted_OffByOne(s, i, counts) ==
  /\ Edges[s][i].max > 0
  /\ counts[<<s, Edges[s][i].to>>] > Edges[s][i].max

Exhausted(s, i, counts) ==
  /\ Edges[s][i].max > 0
  /\ counts[<<s, Edges[s][i].to>>] >= Edges[s][i].max

\* A connection that ends the search of selectWorkflowTransition.  A skipped
\* step has no result, and no condition on the result matches it.
Decides(s, i, result, counts) ==
  \/ Edges[s][i].kind = "when" /\ result \in Edges[s][i].when
  \/ Edges[s][i].kind = "always" /\ ~Exhausted(s, i, counts)

Fallback(s, i, counts) == Edges[s][i].kind = "default" /\ ~Exhausted(s, i, counts)

Selected(s, i, result, counts) ==
  /\ ~Exhausted(s, i, counts)
  /\ \/ /\ Decides(s, i, result, counts)
        /\ \A j \in DOMAIN Edges[s] : Decides(s, j, result, counts) => i <= j
     \/ /\ Fallback(s, i, counts)
        /\ \A j \in DOMAIN Edges[s] :
             ~Decides(s, j, result, counts) /\ (Fallback(s, j, counts) => i <= j)

Routed(s, result, counts) == \E i \in DOMAIN Edges[s] : Selected(s, i, result, counts)

NeedsResult(s) == \E i \in DOMAIN Edges[s] : Edges[s][i].kind = "when"

Counted(w, s, i) ==
  IF Edges[s][i].max = 0 THEN w
  ELSE [w EXCEPT !.counts[<<s, Edges[s][i].to>>] = @ + 1]

ShouldRun(s, facts) == facts[RunWhen[s].of] \in RunWhen[s].among

\* Faulty variant: the connection counts of the earlier processes are dropped.
InitialState_NoCounts(prior, hash) ==
  [prior EXCEPT !.status = "running",
                !.cur = IF @ = End THEN StartAt ELSE @,
                !.hash = IF @ = 0 THEN hash ELSE @,
                !.counts = NoRecord.counts]

\* The record a process starts interpreting from: what the run stored, or a
\* fresh run; whatever it stopped at, it is running again.
InitialState(prior, hash) ==
  [prior EXCEPT !.status = "running",
                !.cur = IF @ = End THEN StartAt ELSE @,
                !.hash = IF @ = 0 THEN hash ELSE @]

ResumeBlocked(prior, hash) == prior.hash # 0 /\ prior.hash # hash

ContextOf(w) == [step |-> w.cur, hash |-> w.hash, facts |-> w.facts]

\* Faulty variant: an approval that was used can be used again.
RequireApproval_Reusable(w) ==
  IF w.approval = [context |-> ContextOf(w), status |-> "approved"]
  THEN [w EXCEPT !.status = "running"]
  ELSE [w EXCEPT !.status = "waiting-approval",
                 !.approval = [context |-> ContextOf(w), status |-> "pending"]]

RequireApproval(w) ==
  IF w.approval = [context |-> ContextOf(w), status |-> "approved"]
  THEN [w EXCEPT !.status = "running", !.approval.status = "consumed"]
  ELSE [w EXCEPT !.status = "waiting-approval",
                 !.approval = [context |-> ContextOf(w), status |-> "pending"]]

BeginStep(w) == [w EXCEPT !.steps[w.cur] = "running"]

\* Faulty variant: the result is stored where the step's status belongs.
FinishStep_RawStatus(w, o) ==
  [w EXCEPT !.steps[w.cur] = o.result,
            !.facts[w.cur] = IF o.result = "none" THEN @ ELSE o.result,
            !.completed = @ \cup {w.cur}]

\* Faulty variant: only a passing result ends the step's entry.
FinishStep_OnlyPass(w, o) ==
  [w EXCEPT !.steps[w.cur] = IF o.result = "pass" THEN "completed" ELSE @,
            !.facts[w.cur] = IF o.result = "none" THEN @ ELSE o.result,
            !.completed = @ \cup {w.cur}]

\* finishWorkflowStep, the merge of its output and completedStepIds.push.
FinishStep(w, o) ==
  [w EXCEPT !.steps[w.cur] = IF o.exit = 0 THEN "completed"
                             ELSE IF o.result = "blocked" THEN "blocked" ELSE "failed",
            !.facts[w.cur] = IF o.result = "none" THEN @ ELSE o.result,
            !.completed = @ \cup {w.cur}]

\* Faulty variant: the key forgets how the cursor came to the step.
ExecutionKey_StepOnly(w) == [step |-> w.cur, counts |-> NoRecord.counts]

\* Identity of one logical execution, given to the step as workflowExecutionKey.
ExecutionKey(w) == [step |-> w.cur, counts |-> w.counts]

-----------------------------------------------------------------------------
(* runJob: take the lease, read the record, index the run as running.      *)

To(r, label) == pc' = [pc EXCEPT ![r] = label]

Fault == faults < MaxFaults /\ faults' = faults + 1

\* The best-effort index upsert: an unreachable backend is swallowed.
Upsert(row) ==
  /\ \/ index' = row /\ UNCHANGED faults
     \/ index' = index /\ Fault
  /\ UNCHANGED <<dispatched, grants>>

LeaseFree == lease.owner = NoOne \/ ~lease.live

\* A process starts: it hydrates the current definition and asks for the lease.
Acquire(r) ==
  /\ pc[r] = "idle" /\ dispatched < MaxDispatches
  /\ dispatched' = dispatched + 1
  /\ LeaseFree
  /\ lease' = [owner |-> r, live |-> TRUE]
  /\ version' = [version EXCEPT ![r] = definition]
  /\ To(r, "acquired")
  /\ UNCHANGED <<db, index, notified, definition, st, executed, code,
                 faults, grants, historyVars>>

\* Exit 75: the run is already running in another process.
RefuseBusy(r) ==
  /\ pc[r] = "idle" /\ dispatched < MaxDispatches
  /\ dispatched' = dispatched + 1
  /\ ~LeaseFree
  /\ UNCHANGED <<db, lease, index, notified, definition, runnerVars,
                 faults, grants, historyVars>>

Read(r) ==
  /\ pc[r] = "acquired"
  /\ st' = [st EXCEPT ![r] = db]
  /\ To(r, "read")
  /\ UNCHANGED <<db, lease, index, notified, definition, version, executed, code,
                 boundVars, historyVars>>

IndexRunning(r) ==
  /\ pc[r] = "read"
  /\ Upsert("running")
  /\ To(r, "indexed")
  /\ UNCHANGED <<db, lease, notified, definition, st, version, executed, code,
                 historyVars>>

-----------------------------------------------------------------------------
(* Checkpoints.  Only the owner's renewal succeeds, and a renewal makes    *)
(* the lease live again; the write itself compares nothing.                *)

\* Faulty variant: the record is written without renewing the lease.
Save_Unfenced(r, w) ==
  /\ UNCHANGED lease
  /\ db' = w
  /\ st' = [st EXCEPT ![r] = w]
  /\ visit' = IF w.cur # db.cur \/ w.counts # db.counts THEN visit + 1 ELSE visit
  /\ UNCHANGED <<notified, definition, version, boundVars>>

Save(r, w) ==
  /\ lease.owner = r
  /\ lease' = [lease EXCEPT !.live = TRUE]
  /\ db' = w
  /\ st' = [st EXCEPT ![r] = w]
  /\ visit' = IF w.cur # db.cur \/ w.counts # db.counts THEN visit + 1 ELSE visit
  /\ UNCHANGED <<notified, definition, version, boundVars>>

\* Save, and return from the workflow with exit code c to label.
Return(r, w, c, label) ==
  /\ Save(r, w)
  /\ code' = [code EXCEPT ![r] = c]
  /\ To(r, label)
  /\ UNCHANGED <<index, execs, unspent>>

\* Save, and stay in the loop of runGraphCapabilityWorkflow.
Continue(r, w) ==
  /\ Save(r, w)
  /\ To(r, "loop")
  /\ UNCHANGED <<index, code, execs, unspent>>

-----------------------------------------------------------------------------
(* runCapabilityWorkflow before the loop.                                  *)

\* A run that is done is a receipt: nothing is written or executed.
Receipt(r) ==
  /\ pc[r] = "indexed" /\ st[r].status = "done"
  /\ code' = [code EXCEPT ![r] = 0]
  /\ To(r, "row")
  /\ UNCHANGED <<db, lease, index, notified, definition, st, version, executed,
                 boundVars, historyVars>>

Rejected(r) == version[r] \in Invalid \/ ResumeBlocked(st[r], version[r])

RejectDefinition(r) ==
  /\ pc[r] = "indexed" /\ st[r].status # "done"
  /\ Rejected(r)
  /\ Return(r, [InitialState(st[r], version[r]) EXCEPT !.status = "blocked"], 1, "row")
  /\ UNCHANGED executed

\* Faulty variant: a finished run is interpreted again.
Enter_Again(r) ==
  /\ pc[r] = "indexed"
  /\ ~Rejected(r)
  /\ st' = [st EXCEPT ![r] = InitialState(@, version[r])]
  /\ To(r, "loop")
  /\ UNCHANGED <<db, lease, index, notified, definition, version, executed, code,
                 boundVars, historyVars>>

Enter(r) ==
  /\ pc[r] = "indexed" /\ st[r].status # "done"
  /\ ~Rejected(r)
  /\ st' = [st EXCEPT ![r] = InitialState(@, version[r])]
  /\ To(r, "loop")
  /\ UNCHANGED <<db, lease, index, notified, definition, version, executed, code,
                 boundVars, historyVars>>

-----------------------------------------------------------------------------
(* completeWorkflowAtTerminal and advanceGraphWorkflow: w is the state     *)
(* after step w.cur ended with a result and exit code.                     *)

\* Faulty variant: a terminal failure keeps the step's own exit code.
Terminate_KeepsExit(r, w, result, exit) ==
  IF result \in {"fail", "blocked"}
  THEN Return(r, [w EXCEPT !.status = IF result = "fail" THEN "failed" ELSE "blocked"],
              exit, "report")
  ELSE Return(r, [w EXCEPT !.status = "done", !.cur = End], exit, "report")

\* Faulty variant: the last step leaves the run's status as it was.
Terminate_NoStatus(r, w, result, exit) ==
  IF result \in {"fail", "blocked"}
  THEN Return(r, [w EXCEPT !.status = IF result = "fail" THEN "failed" ELSE "blocked"],
              1, "report")
  ELSE Return(r, w, exit, "report")

Terminate(r, w, result, exit) ==
  IF result \in {"fail", "blocked"}
  THEN Return(r, [w EXCEPT !.status = IF result = "fail" THEN "failed" ELSE "blocked"],
              1, "report")
  ELSE Return(r, [w EXCEPT !.status = "done", !.cur = End], exit, "report")

Advance(r, w, result, exit) ==
  LET s == w.cur
      Mute == NeedsResult(s) /\ result = "none"
      Block == Return(r, [w EXCEPT !.status = "blocked"], 1, "report")
  IN \/ DOMAIN Edges[s] = {} /\ Terminate(r, w, result, exit)
     \/ Mute /\ Block
     \/ DOMAIN Edges[s] # {} /\ ~Mute /\ ~Routed(s, result, w.counts) /\ Block
     \/ ~Mute /\ \E i \in DOMAIN Edges[s] :
          /\ Selected(s, i, result, w.counts)
          /\ IF Edges[s][i].to = End
             THEN Terminate(r, Counted(w, s, i), result, exit)
             ELSE Continue(r, [Counted(w, s, i) EXCEPT !.cur = Edges[s][i].to,
                                                       !.status = "running"])

-----------------------------------------------------------------------------
(* The loop of runGraphCapabilityWorkflow.                                 *)

InLoop(r) == pc[r] = "loop" /\ executed[r] < MaxExecutedSteps

CountStep(r) == executed' = [executed EXCEPT ![r] = @ + 1]

OverLimit(r) ==
  /\ pc[r] = "loop" /\ executed[r] >= MaxExecutedSteps
  /\ Return(r, [st[r] EXCEPT !.status = "blocked"], 1, "report")
  /\ UNCHANGED executed

\* runWhen is false: the step is passed over with no result.
Skip(r) ==
  /\ InLoop(r) /\ ~ShouldRun(st[r].cur, st[r].facts)
  /\ Advance(r, st[r], "skipped", 0)
  /\ CountStep(r)

\* A gated step asks for its approval, or uses the one it was given.
AskApproval(r) ==
  LET w == RequireApproval(st[r])
  IN /\ InLoop(r) /\ ShouldRun(st[r].cur, st[r].facts)
     /\ st[r].cur \in Gated
     /\ w.status = "waiting-approval"
     /\ Return(r, w, 0, "report")
     /\ CountStep(r)

ConsumeApproval(r) ==
  LET w == RequireApproval(st[r])
  IN /\ InLoop(r) /\ ShouldRun(st[r].cur, st[r].facts)
     /\ st[r].cur \in Gated
     /\ w.status = "running"
     /\ Save(r, w) /\ To(r, "bind")
     /\ CountStep(r)
     /\ UNCHANGED <<index, code, execs, unspent>>

Proceed(r) ==
  /\ InLoop(r) /\ ShouldRun(st[r].cur, st[r].facts)
  /\ st[r].cur \notin Gated
  /\ Save(r, st[r]) /\ To(r, "bind")
  /\ CountStep(r)
  /\ UNCHANGED <<index, code, execs, unspent>>

\* workflowStepToJob throws: an input of the step cannot be bound.
BindFails(r) ==
  /\ pc[r] = "bind"
  /\ Return(r, [st[r] EXCEPT !.status = "blocked", !.steps[st[r].cur] = "blocked"],
            1, "report")
  /\ UNCHANGED executed

\* The step is marked running, checkpointed, and its capability starts.
Launch(r) ==
  /\ pc[r] = "bind"
  /\ Save(r, BeginStep(st[r])) /\ To(r, "exec")
  /\ execs' = execs \cup {[key |-> ExecutionKey(st[r]), visit |-> visit]}
  /\ unspent' = IF st[r].cur \in Gated THEN unspent \ {ContextOf(st[r])} ELSE unspent
  /\ UNCHANGED <<index, executed, code>>

\* The step's capability returns; every path ends in one checkpoint.
Finish(r, o) ==
  LET w == FinishStep(st[r], o)
  IN /\ pc[r] = "exec"
     /\ IF o.exit # 0 /\ o \notin Tolerated[w.cur]
        THEN Return(r, [w EXCEPT !.status = IF o.result = "blocked" THEN "blocked"
                                            ELSE "failed"], 1, "report")
        ELSE Advance(r, w, o.result, o.exit)
     /\ UNCHANGED executed

-----------------------------------------------------------------------------
(* The rest of runJob: report, run index, final write, notification.       *)

PublishReport(r) ==
  /\ pc[r] = "report"
  /\ To(r, "row")
  /\ UNCHANGED <<db, lease, index, notified, definition, st, version, executed, code,
                 boundVars, historyVars>>

IndexResult(r) ==
  /\ pc[r] = "row"
  /\ Upsert(IF st[r].status = "waiting-approval" THEN "waiting"
            ELSE IF code[r] = 0 THEN "success" ELSE "failed")
  /\ To(r, "final")
  /\ UNCHANGED <<db, lease, notified, definition, st, version, executed, code,
                 historyVars>>

FinalWrite(r) ==
  /\ pc[r] = "final"
  /\ Save(r, st[r])
  /\ To(r, IF st[r].status = "waiting-approval" THEN "release" ELSE "notify")
  /\ UNCHANGED <<index, executed, code, execs, unspent>>

Notify(r) ==
  /\ pc[r] = "notify"
  /\ LET status == IF st[r].status = "blocked" THEN "blocked"
                   ELSE IF code[r] = 0 THEN "success" ELSE "failed"
     IN notified' = notified \cup {status}
  /\ To(r, "release")
  /\ UNCHANGED <<db, lease, index, definition, st, version, executed, code,
                 boundVars, historyVars>>

\* An exception leaves runCapabilityWorkflow: the run is indexed as failed.
IndexFailed(r) ==
  /\ pc[r] = "thrown"
  /\ Upsert("failed")
  /\ To(r, "release")
  /\ UNCHANGED <<db, lease, notified, definition, st, version, executed, code,
                 historyVars>>

Forget(r) ==
  /\ To(r, "idle")
  /\ st' = [st EXCEPT ![r] = NoRecord]
  /\ version' = [version EXCEPT ![r] = 0]
  /\ executed' = [executed EXCEPT ![r] = 0]
  /\ code' = [code EXCEPT ![r] = 0]
  /\ UNCHANGED <<db, index, notified, definition, historyVars>>

\* Faulty variant: a process waits until its own lease can be given back.
Release_OwnerOnly(r) ==
  /\ pc[r] = "release" /\ lease.owner = r
  /\ lease' = [owner |-> NoOne, live |-> FALSE]
  /\ Forget(r)
  /\ UNCHANGED boundVars

\* The finally block: a failing release is only logged, which is Crash here.
Release(r) ==
  /\ pc[r] = "release"
  /\ lease' = IF lease.owner = r THEN [owner |-> NoOne, live |-> FALSE] ELSE lease
  /\ Forget(r)
  /\ UNCHANGED boundVars

-----------------------------------------------------------------------------
(* What goes wrong, and what happens around the runners.                   *)

\* Where an exception leaves a process: from inside runCapabilityWorkflow the
\* run is indexed as failed; around it only the lease is given back.
Inside == {"indexed", "loop", "bind", "exec", "report"}
Around == {"acquired", "final", "notify"}

Throw(r) ==
  /\ pc[r] \in Inside \cup Around
  /\ To(r, IF pc[r] \in Inside THEN "thrown" ELSE "release")
  /\ UNCHANGED <<db, lease, index, notified, definition, st, version, executed, code,
                 historyVars>>

\* The renewal of a checkpoint reports that another process owns the run.
LeaseLost(r) ==
  /\ lease.owner # r
  /\ \/ pc[r] \in {"loop", "bind", "exec", "final"}
     \/ pc[r] = "indexed" /\ st[r].status # "done" /\ Rejected(r)
  /\ Throw(r)
  /\ UNCHANGED boundVars

\* A backend call fails, a step throws, or publishing the report does.
CallFails(r) ==
  /\ Fault
  /\ Throw(r)
  /\ UNCHANGED <<dispatched, grants>>

Crash(r) ==
  /\ pc[r] # "idle"
  /\ Fault
  /\ Forget(r)
  /\ UNCHANGED <<lease, dispatched, grants>>

\* approveWorkflowStep, called by the dashboard on the stored record.
Approve ==
  /\ grants < MaxGrants
  /\ grants' = grants + 1
  /\ db.status = "waiting-approval" /\ db.approval.status = "pending"
  /\ db' = [db EXCEPT !.status = "running", !.approval.status = "approved"]
  /\ unspent' = unspent \cup {db.approval.context}
  /\ UNCHANGED <<lease, index, notified, definition, runnerVars, dispatched, faults,
                 visit, execs>>

PublishDefinition ==
  /\ definition < MaxDefinitions
  /\ definition' = definition + 1
  /\ UNCHANGED <<db, lease, index, notified, runnerVars, boundVars, historyVars>>

\* The lease runs out: its owner is dead, or its step outlasts the lease.
Expire ==
  /\ lease.live
  /\ lease' = [lease EXCEPT !.live = FALSE]
  /\ UNCHANGED <<db, index, notified, definition, runnerVars, boundVars, historyVars>>

-----------------------------------------------------------------------------
\* What a running process does next, by itself.
Work(r) ==
  \/ Read(r) \/ IndexRunning(r)
  \/ Receipt(r) \/ RejectDefinition(r) \/ Enter(r)
  \/ OverLimit(r) \/ Skip(r)
  \/ AskApproval(r) \/ ConsumeApproval(r) \/ Proceed(r)
  \/ BindFails(r) \/ Launch(r) \/ (\E o \in Outcome : Finish(r, o))
  \/ PublishReport(r) \/ IndexResult(r) \/ FinalWrite(r) \/ Notify(r)
  \/ IndexFailed(r) \/ Release(r) \/ LeaseLost(r)

Next ==
  \/ \E r \in Runner : Acquire(r) \/ RefuseBusy(r) \/ Work(r) \/ CallFails(r) \/ Crash(r)
  \/ Approve \/ PublishDefinition \/ Expire

Spec == Init /\ [][Next]_vars

(* A process that is alive keeps going: awaits settle and a step's         *)
(* capability returns, since agents run under a timeout.  Nothing promises *)
(* that a run is dispatched again, approved, or that its lease expires.    *)
FairSpec == Spec /\ \A r \in Runner : WF_vars(Work(r))

-----------------------------------------------------------------------------
(* The inductive invariant behind the safety properties.                   *)

Interpreting == {"loop", "bind", "exec"}

\* A process in the loop interprets a running record at one of the steps.
AtAStep ==
  \A r \in Runner : pc[r] \in Interpreting => st[r].cur \in Step /\ st[r].status = "running"

\* The process that holds the lease knows at least what is stored, and is not
\* interpreting a run that is stored as done.
OwnerIsCurrent ==
  \A r \in Runner :
    (lease.owner = r /\ pc[r] \notin {"idle", "acquired", "release"}) =>
      /\ db.completed \subseteq st[r].completed
      /\ \A e \in LoopEdge : db.counts[e] <= st[r].counts[e]
      /\ db.status = "done" => st[r] = db /\ pc[r] \notin Interpreting

\* No count is above the limit of every connection that shares it.
WithinLimits(counts) ==
  \A e \in LoopEdge : \E i \in DOMAIN Edges[e[1]] :
    /\ Edges[e[1]][i].to = e[2]
    /\ Edges[e[1]][i].max > 0
    /\ counts[e] <= Edges[e[1]][i].max

CountsAreBounded == \A r \in Runner : WithinLimits(st[r].counts)

\* What the record, or the owner, holds as approved was approved and has not
\* been launched; an owner about to launch a gated step used such an approval.
ApprovalsAreUnspent ==
  /\ db.approval.status = "approved" => db.approval.context \in unspent
  /\ \A r \in Runner :
       (lease.owner = r /\ pc[r] \notin {"idle", "acquired", "release"}) =>
         /\ st[r].approval.status = "approved" => st[r].approval.context \in unspent
         /\ (pc[r] = "bind" /\ st[r].cur \in Gated) =>
              /\ st[r].approval.status = "consumed"
              /\ ContextOf(st[r]) \in unspent

-----------------------------------------------------------------------------
(* Safety.                                                                 *)

\* A run that is done never changes again: no re-dispatch, late process or
\* approval rewrites the receipt that runCapabilityWorkflow returns.
DoneIsFinal == [][db.status = "done" => db' = db]_vars

\* What one process finished is never undone by another one's write: the
\* record's completed steps and connection counts only grow, although a write
\* carries the whole in-memory state and compares nothing.
ProgressIsKept ==
  [][ /\ db.completed \subseteq db'.completed
      /\ \A e \in LoopEdge : db.counts[e] <= db'.counts[e] ]_vars

\* A run follows a bounded connection at most maxIterations times in all, over
\* every process that ever worked on it.
LoopsAreBounded == WithinLimits(db.counts)

Inv ==
  /\ TypeOK /\ AtAStep /\ OwnerIsCurrent
  /\ CountsAreBounded /\ LoopsAreBounded /\ ApprovalsAreUnspent

\* A gated step is launched only with an approval given for exactly this step,
\* definition and facts, and one approval is good for one launch, also when
\* processes crash between using the approval and running the step.
LaunchesAreApproved ==
  [][ \A r \in Runner :
        (pc[r] = "bind" /\ pc'[r] = "exec" /\ st[r].cur \in Gated)
          => ContextOf(st[r]) \in unspent ]_vars

\* Two different visits of the cursor to a step never share an execution key,
\* and a repeated launch in the same visit reuses it: commitAndPush tells a
\* repair from a retry by this key.
KeyPerVisit ==
  \A a, b \in execs : (a.key = b.key) <=> (a.visit = b.visit)

\* Success is reported, in the run index and to the dashboard, only for a run
\* whose stored record is done.
SuccessIsDone == index = "success" \/ "success" \in notified => db.status = "done"

\* A run that ended by itself shows no step as running, also when a process
\* died in the step and another one resumed it.
EndedShowsNoRunningStep ==
  db.status \in {"done", "failed"}
    => \A s \in Step : db.steps[s] # "running"

\* What is reported of a run, in three places, tells the same.
ReportsAgree == SuccessIsDone /\ EndedShowsNoRunningStep

(* Keys tell visits apart, and what is reported agrees with what was run,  *)
(* whichever process wrote it.                                             *)
ToldAsItRan == KeyPerVisit /\ ReportsAgree

\* An approval that was given stays in the record until a step uses it.
ApprovalIsNotLost ==
  [][ db.approval.status = "approved" => db'.approval.status # "pending" ]_vars

\* The stored record changes as if a single interpreter walked the graph.
Path == INSTANCE WorkflowPath WITH
  status <- db.status, cur <- db.cur, completed <- db.completed, counts <- db.counts,
  approval <- [step |-> db.approval.context.step, status |-> db.approval.status]

\* Every write of every process, stale or resumed, is a legal step of one walk
\* of the graph: this is what the lease renewal before each write is for.
WalksTheGraph == Path!Spec

-----------------------------------------------------------------------------
(* Liveness, under FairSpec.                                               *)

\* Every dispatched process ends, whatever loops the graph has.
ProcessesEnd == \A r \in Runner : pc[r] # "idle" ~> pc[r] = "idle"

\* A process that reaches the loop and meets no fault from then on leaves a
\* record that is not running, unless another process takes the run over.
UndisturbedRunSettles ==
  \A r \in Runner :
    (pc[r] = "loop" /\ lease.owner = r /\ faults = MaxFaults /\ grants = MaxGrants)
      ~> (db.status # "running" \/ lease.owner \in Runner \ {r})

\* Both: every process comes to an end, and an undisturbed one with its run.
ProcessesSettle == ProcessesEnd /\ UndisturbedRunSettles
=============================================================================
