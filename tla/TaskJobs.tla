------------------------------ MODULE TaskJobs ------------------------------
(***************************************************************************)
(* The planned jobs of an issue (src/scripts/planTaskJobs.ts,              *)
(* dispatchNextTaskJob.ts) and the chain of in-process hand-offs that runs *)
(* them (runImplementationChain, src/executor.ts): the planner stores the  *)
(* plan in the issue's task state, hands the first job that has not        *)
(* succeeded to the chain, and is run again after it.  Every hand-off goes *)
(* through runJob, which starts a chain of its own, so the chains nest:    *)
(* "hops" holds the count of each.  The task state is read when a run      *)
(* starts and written whole when it ends (src/state.ts, no token), and     *)
(* another run may work on the same issue.                                 *)
(***************************************************************************)
EXTENDS Naturals, Sequences, FiniteSets
LOCAL INSTANCE Functions

CONSTANTS
  PlannedJobs,     \* the plan in the issue's body: distinct job keys, in order
  JobResults,      \* what a job's run ends in: [exit, says, saves]
  MaxChainHops,    \* MAX_CHAIN_HOPS: cap of each chain (60 in the code)
  Overlap,         \* another run of the issue may overlap this one
  JobFaults,       \* subset of {"read", "write", "killed"}
  MaxTriggers, MaxJobFaults, MaxHandOffs  \* bounds of the model

JobKeys == {PlannedJobs[i] : i \in DOMAIN PlannedJobs}
JobStatus == {"none", "pending", "running", "failed", "succeeded"}
OtherKey == "other"  \* the key of the other run's own work

ASSUME TaskJobsAssumption ==
  /\ PlannedJobs \in Seq(JobKeys) /\ OtherKey \notin JobKeys
  /\ \A i, j \in DOMAIN PlannedJobs : i # j => PlannedJobs[i] # PlannedJobs[j]
  /\ \A r \in JobResults : r.exit \in {0, 1} /\ r.says \in JobStatus \ {"none", "pending"} /\ r.saves \in BOOLEAN
  /\ MaxChainHops \in Nat /\ Overlap \in BOOLEAN
  /\ MaxTriggers \in Nat /\ MaxJobFaults \in Nat /\ MaxHandOffs \in Nat

VARIABLES
  issueJobs,  \* the jobs of the stored task state: key -> status
  planner,    \* the process: [at, hops, job, seen, exit]
  other,      \* the other run: [at, seen]
  jobsLog     \* [triggers, faults, recorded]: bounds, and the jobs whose success was ever stored
taskJobsVars == <<issueJobs, planner, other, jobsLog>>

NoJobs == [k \in JobKeys \cup {OtherKey} |-> "none"]
NoPlanner == [at |-> "idle", hops |-> <<>>, job |-> OtherKey, seen |-> NoJobs, exit |-> 0]

TaskJobsInit ==
  /\ issueJobs = NoJobs
  /\ planner = NoPlanner
  /\ other = [at |-> "idle", seen |-> NoJobs]
  /\ jobsLog = [triggers |-> 0, faults |-> 0, recorded |-> {}]

-----------------------------------------------------------------------------
Failing(fault) == fault \in JobFaults /\ jobsLog.faults < MaxJobFaults
JobFault == jobsLog' = [jobsLog EXCEPT !.faults = @ + 1]
PlannerEnds(exit) == planner' = [planner EXCEPT !.at = "ended", !.exit = exit]

(* A process is started for the issue: a chain whose first stage plans.    *)
TriggerPlanner ==
  /\ planner.at = "idle" /\ jobsLog.triggers < MaxTriggers
  /\ Overlap \/ other.at = "idle"
  /\ planner' = [NoPlanner EXCEPT !.at = "plan", !.hops = <<0>>]
  /\ jobsLog' = [jobsLog EXCEPT !.triggers = @ + 1]
  /\ UNCHANGED <<issueJobs, other>>

(* The planner reads the issue's task state; a failing read ends its run.  *)
ReadPlan ==
  /\ planner.at = "plan"
  /\ \/ planner' = [planner EXCEPT !.at = "store", !.seen = issueJobs] /\ UNCHANGED jobsLog
     \/ Failing("read") /\ PlannerEnds(99) /\ JobFault
  /\ UNCHANGED <<issueJobs, other>>

(* upsertTaskJobs keeps what is known of a planned job; the first one that *)
(* has not succeeded is next.                                              *)
Upserted_Reset(jobs) == [k \in DOMAIN jobs |-> IF k \in JobKeys THEN "pending" ELSE jobs[k]]  \* mutant
Upserted(jobs) == [k \in DOMAIN jobs |-> IF k \in JobKeys /\ jobs[k] = "none" THEN "pending" ELSE jobs[k]]
Unfinished(jobs) == {i \in DOMAIN PlannedJobs : jobs[PlannedJobs[i]] # "succeeded"}
First(indices) == PlannedJobs[CHOOSE i \in indices : \A j \in indices : i <= j]

(* The plan is stored, and the next job handed to the chain of this run,   *)
(* as one more hop of it; the job's own chain starts inside it.            *)
Hop(hops) == [hops EXCEPT ![Len(hops)] = @ + 1]
StorePlan ==
  /\ planner.at = "store"
  /\ \/ LET jobs == Upserted(planner.seen) IN
        /\ issueJobs' = jobs /\ UNCHANGED jobsLog
        /\ IF Unfinished(jobs) = {} THEN PlannerEnds(0)
           ELSE /\ planner.hops[Len(planner.hops)] < MaxChainHops /\ Len(planner.hops) <= MaxHandOffs
                /\ planner' = [planner EXCEPT !.at = "load", !.job = First(Unfinished(jobs)), !.hops = Hop(@)]
     \/ Failing("write") /\ PlannerEnds(99) /\ JobFault /\ UNCHANGED issueJobs
  /\ UNCHANGED other

(* The job's run loads the task state, does its work, and writes the state *)
(* it loaded back with its own job's status; a failing write fails the run.*)
LoadJob ==
  /\ planner.at = "load"
  /\ \/ planner' = [planner EXCEPT !.at = "work", !.seen = issueJobs] /\ UNCHANGED jobsLog
     \/ Failing("read") /\ PlannerEnds(99) /\ JobFault
  /\ UNCHANGED <<issueJobs, other>>
SaveJob ==
  /\ planner.at = "work"
  /\ \E result \in JobResults :
       \/ /\ planner' = [planner EXCEPT !.at = "return", !.exit = result.exit]
          /\ issueJobs' = IF result.saves THEN [planner.seen EXCEPT ![planner.job] = result.says] ELSE issueJobs
          /\ jobsLog' = [jobsLog EXCEPT !.recorded = IF result.saves /\ result.says = "succeeded"
                                                     THEN @ \cup {planner.job} ELSE @]
       \/ /\ result.saves /\ Failing("write") /\ JobFault
          /\ planner' = [planner EXCEPT !.at = "return", !.exit = IF result.exit = 0 THEN 99 ELSE result.exit]
          /\ UNCHANGED issueJobs
  /\ UNCHANGED other

(* After a job that exits with 0 the planner is run again, through runJob  *)
(* and so in a chain inside this one; any other exit ends every chain.     *)
ReturnToPlanner ==
  /\ planner.at = "return" /\ planner.exit = 0
  /\ planner' = [planner EXCEPT !.at = "plan", !.hops = Append(@, 0)]
  /\ UNCHANGED <<issueJobs, other, jobsLog>>
ChainFails ==
  /\ planner.at = "return" /\ planner.exit # 0
  /\ PlannerEnds(planner.exit)
  /\ UNCHANGED <<issueJobs, other, jobsLog>>

(* The process ends, or dies at any point.                                 *)
PlannerExits ==
  /\ planner.at = "ended"
  /\ planner' = NoPlanner
  /\ UNCHANGED <<issueJobs, other, jobsLog>>
PlannerKilled ==
  /\ planner.at \notin {"idle", "ended"} /\ Failing("killed")
  /\ planner' = NoPlanner /\ JobFault
  /\ UNCHANGED <<issueJobs, other>>

(* Another run of the issue, with work of its own.                         *)
OtherLoads ==
  /\ other.at = "idle" /\ (Overlap \/ planner.at = "idle")
  /\ other' = [at |-> "work", seen |-> issueJobs]
  /\ UNCHANGED <<issueJobs, planner, jobsLog>>
OtherSaves ==
  /\ other.at = "work"
  /\ \E status \in {"succeeded", "failed"} : issueJobs' = [other.seen EXCEPT ![OtherKey] = status]
  /\ other' = [at |-> "idle", seen |-> NoJobs]
  /\ UNCHANGED <<planner, jobsLog>>

TaskJobsNext ==
  \/ TriggerPlanner \/ ReadPlan \/ StorePlan \/ LoadJob \/ SaveJob \/ ReturnToPlanner \/ ChainFails
  \/ PlannerExits \/ PlannerKilled \/ OtherLoads \/ OtherSaves
TaskJobsSpec == TaskJobsInit /\ [][TaskJobsNext]_taskJobsVars

-----------------------------------------------------------------------------
TaskJobsTypeOK ==
  /\ issueJobs \in [JobKeys \cup {OtherKey} -> JobStatus]
  /\ planner.at \in {"idle", "plan", "store", "load", "work", "return", "ended"}
  /\ planner.hops \in Seq(Nat) /\ planner.job \in JobKeys \cup {OtherKey} /\ planner.exit \in {0, 1, 99}
  /\ other.at \in {"idle", "work"} /\ jobsLog.recorded \subseteq JobKeys

(* A chain that ends with 0 has the success of every planned job in the    *)
(* task state, and no job runs again after its success was stored, through *)
(* failing writes, killed processes and the runs of other work on the      *)
(* issue (state.ts:399, dispatchNextTaskJob.ts:13).                        *)
PlannedJobsRunOnce ==
  /\ planner.at = "ended" /\ planner.exit = 0 => \A k \in JobKeys : issueJobs[k] = "succeeded"
  /\ planner.at \in {"load", "work"} => planner.job \notin jobsLog.recorded

(* The hand-offs of one process stay under the ceiling the chain's comment *)
(* promises (executor.ts:1098).                                            *)
ChainIsCapped == SumFunction(planner.hops) <= MaxChainHops
=============================================================================
