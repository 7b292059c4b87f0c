-------------------------------- MODULE Stage --------------------------------
(***************************************************************************)
(* One run of an implementation by the executor (runImplementation,        *)
(* src/executor.ts): its inputs are checked, a row of the run index says   *)
(* that it is running, its preflights run in order, then the agent or the  *)
(* container's children, then its postflights, and however that ends the   *)
(* row gets its outcome, and labels, artifacts and model proxies are       *)
(* cleaned up.  What the scripts do is left open: each may leave an exit   *)
(* code, and the executor keeps the first that is not zero.                *)
(***************************************************************************)
EXTENDS Naturals, Sequences

CONSTANTS
  Preflights,      \* the profile's preflight entries: [kind, label]
  Postflights,     \* its postflight entries: [mutates, afterFailedAgent], what a script that changes
                   \* the repository or a pull request does then: "nothing", "draft" or "works"
  StageKinds,      \* subset of {"agent", "container"}
  StageFaults,     \* subset of {"hydrate", "prepare", "script", "model", "index", "killed"}
  MaxStageFaults   \* bound of the model

ASSUME StageAssumption ==
  /\ Preflights \in Seq([kind : {"script", "shell"}, label : BOOLEAN])
  /\ Postflights \in Seq([mutates : BOOLEAN, afterFailedAgent : {"nothing", "draft", "works"}])
  /\ StageKinds \subseteq {"agent", "container"} /\ MaxStageFaults \in Nat

VARIABLES
  stage,     \* the run: [at, kind, pc, exit, skip, failed, rowed, cleaned]; "failed" is the first step that failed
  leaves,   \* what it leaves: [row, label, proxy, artifacts, spoilt]
  stageLog   \* [faults, kinds]
stageVars == <<stage, leaves, stageLog>>

StageInit ==
  /\ stage = [at |-> "resolve", kind |-> "agent", pc |-> 1, exit |-> 0, skip |-> FALSE, failed |-> "nothing",
              rowed |-> FALSE, cleaned |-> FALSE]
  /\ leaves = [row |-> "none", label |-> FALSE, proxy |-> FALSE, artifacts |-> "none", spoilt |-> FALSE]
  /\ stageLog = [faults |-> 0, kinds |-> {}]

-----------------------------------------------------------------------------
StageFault(fault) ==
  /\ fault \in StageFaults /\ stageLog.faults < MaxStageFaults
  /\ stageLog' = [faults |-> stageLog.faults + 1, kinds |-> stageLog.kinds \cup {fault}]
Advances(run) == [run EXCEPT !.pc = @ + 1]
(* A step fails: the first exit code that is not zero stays.               *)
Failed(run, exit, step) ==
  [run EXCEPT !.exit = IF @ = 0 THEN exit ELSE @, !.failed = IF @ = "nothing" THEN step ELSE @]
(* A return from the middle of it, with an exit code of its own.           *)
Returns(run, exit, step) == [Failed(run, exit, step) EXCEPT !.at = "finish", !.exit = exit]
(* An error nothing else catches becomes exit code 99.                     *)
Caught_No(step) == [stage EXCEPT !.at = "thrown"]  \* mutant: it leaves the function
Caught(step) == Returns(stage, 99, step)

(* Arguments that do not fit the profile's inputs, and all the rest.       *)
InputExits == {64, 99}
(* Profile, arguments, command-line tools, configuration and model are     *)
(* checked before anything is written; the repository's state is hydrated, *)
(* and an error of that leaves the function.                               *)
ResolveStage ==
  /\ stage.at = "resolve"
  /\ \/ \E exit \in InputExits :
          stage' = [Failed(stage, exit, "input") EXCEPT !.at = "returned"] /\ UNCHANGED stageLog
     \/ \E kind \in StageKinds : stage' = [stage EXCEPT !.at = "index", !.kind = kind] /\ UNCHANGED stageLog
     \/ StageFault("hydrate") /\ stage' = [stage EXCEPT !.at = "thrown"]
  /\ UNCHANGED leaves

(* The row of the run index is written; an error of the index is ignored.  *)
IndexRunning ==
  /\ stage.at = "index"
  /\ stage' = [stage EXCEPT !.at = "prepare"]
  /\ \/ leaves' = [leaves EXCEPT !.row = "running"] /\ UNCHANGED stageLog
     \/ StageFault("index") /\ UNCHANGED leaves

(* The task's artifact directory and the agent's identity, before the      *)
(* block whose end cleans up.                                              *)
PrepareStage ==
  /\ stage.at = "prepare"
  /\ \/ /\ stage' = [stage EXCEPT !.at = "preflight"] /\ UNCHANGED stageLog
        /\ leaves' = [leaves EXCEPT !.artifacts = "local"]
     \/ StageFault("prepare") /\ stage' = [stage EXCEPT !.at = "thrown"] /\ UNCHANGED leaves

(* One preflight script: it may decide that the agent is not needed, and   *)
(* refuse the run.  After each of them a run that needs no agent and has   *)
(* an exit code is over.                                                   *)
Preflight == Preflights[stage.pc]
ScriptPreflight ==
  /\ stage.at = "preflight" /\ stage.pc <= Len(Preflights) /\ Preflight.kind = "script"
  /\ leaves' = [leaves EXCEPT !.label = @ \/ Preflight.label]
  /\ \/ \E skip, refuses \in BOOLEAN :
          LET ran == [(IF refuses THEN Failed(stage, 1, "script") ELSE stage) EXCEPT !.skip = @ \/ skip] IN
          /\ stage' = IF ran.skip /\ ran.exit # 0 THEN Returns(ran, ran.exit, "script") ELSE Advances(ran)
          /\ UNCHANGED stageLog
     \/ StageFault("script") /\ stage' = Caught("script")

(* One shell script: one that fails or is killed at its deadline is        *)
(* recorded and the run goes on; it may say that no agent is needed.       *)
ShellPreflight ==
  /\ stage.at = "preflight" /\ stage.pc <= Len(Preflights) /\ Preflight.kind = "shell"
  /\ \/ \E skip \in BOOLEAN : stage' = Advances([stage EXCEPT !.skip = @ \/ skip])
     \/ \E exit \in {1, 124} : stage' = Advances([Failed(stage, exit, "shell") EXCEPT !.skip = TRUE])
  /\ UNCHANGED <<leaves, stageLog>>

(* The agent, with the proxy of its model, unless it is not needed; a      *)
(* failed one leaves no exit code.  A container runs its children instead. *)
PreflightsDone == stage.at = "preflight" /\ stage.pc = Len(Preflights) + 1
ModelFails ==
  /\ StageFault("model") /\ stage' = Returns(stage, 99, "model")
  /\ \E started \in BOOLEAN : leaves' = [leaves EXCEPT !.proxy = started]
ToPostflights(run) == [run EXCEPT !.at = "postflight", !.pc = 1]
StageAgent ==
  /\ PreflightsDone /\ stage.kind = "agent" /\ ~stage.skip
  /\ \/ /\ \E failed \in BOOLEAN :
             stage' = ToPostflights(IF failed THEN [stage EXCEPT !.failed = "agent"] ELSE stage)
        /\ leaves' = [leaves EXCEPT !.proxy = TRUE] /\ UNCHANGED stageLog
     \/ stage' = Returns(stage, 99, "prompt") /\ UNCHANGED <<leaves, stageLog>>
     \/ ModelFails
StageChildren ==
  /\ PreflightsDone /\ (stage.kind = "container" \/ stage.skip)
  /\ \/ stage' = ToPostflights(stage)
     \/ stage.kind = "container" /\ stage' = ToPostflights([Failed(stage, 1, "children") EXCEPT !.exit = 1])
  /\ UNCHANGED <<leaves, stageLog>>

(* One postflight.  One that changes the repository or a pull request is   *)
(* held back when an exit code is recorded; an error of one becomes an     *)
(* exit code, and the next one runs.                                       *)
Postflight == Postflights[stage.pc]
HeldBack_Never == FALSE  \* mutant: it runs all the same
HeldBack == Postflight.mutates /\ stage.exit # 0
SparesWork == HeldBack \/ (stage.failed = "agent" /\ Postflight.afterFailedAgent # "works")
RunPostflight ==
  /\ stage.at = "postflight" /\ stage.pc <= Len(Postflights)
  /\ \/ stage' = Advances(stage) /\ UNCHANGED stageLog
     \/ ~HeldBack /\ stage' = Advances(Failed(stage, 1, "postflight")) /\ UNCHANGED stageLog
     \/ ~HeldBack /\ StageFault("script") /\ stage' = Advances(Failed(stage, 99, "postflight"))
  /\ leaves' = [leaves EXCEPT !.spoilt = @ \/ (Postflight.mutates /\ ~SparesWork /\ stage.failed # "nothing")]

(* After the postflights the output is held to the capability's contract.  *)
CheckOutput ==
  /\ stage.at = "postflight" /\ stage.pc = Len(Postflights) + 1
  /\ \/ stage' = [stage EXCEPT !.at = "finish"]
     \/ stage' = Returns(stage, 99, "contract")
  /\ UNCHANGED <<leaves, stageLog>>

(* The row gets the outcome.  The function returns the promise of that     *)
(* from inside its block, so the clean-up does not wait for it; the run is *)
(* over when both are done.                                                *)
Settles(run) == IF run.rowed /\ run.cleaned THEN [run EXCEPT !.at = "returned"] ELSE run
FinishRow ==
  /\ stage.at = "finish" /\ ~stage.rowed
  /\ stage' = Settles([stage EXCEPT !.rowed = TRUE])
  /\ \/ leaves' = [leaves EXCEPT !.row = IF stage.exit = 0 THEN "success" ELSE "failed"] /\ UNCHANGED stageLog
     \/ StageFault("index") /\ UNCHANGED leaves

(* Whatever the way out: labels are cleared, the artifacts stored, the     *)
(* proxies stopped.                                                        *)
CleanUp ==
  /\ stage.at = "finish" /\ ~stage.cleaned
  /\ stage' = Settles([stage EXCEPT !.cleaned = TRUE])
  /\ leaves' = [leaves EXCEPT !.label = FALSE, !.proxy = FALSE, !.artifacts = "stored"]
  /\ UNCHANGED stageLog

StageKilled ==
  /\ stage.at \notin {"returned", "thrown", "killed"} /\ StageFault("killed")
  /\ stage' = [stage EXCEPT !.at = "killed"]
  /\ UNCHANGED leaves

StageNext ==
  \/ ResolveStage \/ IndexRunning \/ PrepareStage \/ ScriptPreflight \/ ShellPreflight \/ StageAgent
  \/ StageChildren \/ RunPostflight \/ CheckOutput \/ FinishRow \/ CleanUp \/ StageKilled
StageSpec == StageInit /\ [][StageNext]_stageVars

-----------------------------------------------------------------------------
StageSteps == {"nothing", "input", "script", "shell", "prompt", "model", "agent", "children", "postflight", "contract"}
StageTypeOK ==
  /\ stage.at \in {"resolve", "index", "prepare", "preflight", "postflight", "finish", "returned", "thrown", "killed"}
  /\ stage.pc \in Nat /\ stage.exit \in {0, 1, 64, 99, 124} /\ stage.failed \in StageSteps
  /\ leaves.row \in {"none", "running", "success", "failed"}
  /\ stageLog.faults \in 0..MaxStageFaults

(* However a run that got as far as its preflights ends, its row shows the *)
(* outcome unless a write of the index failed, no label and no model proxy *)
(* is left and the artifacts are stored: also after an error of a script, a*)
(* deadline, a model that did not start (executor.ts:983).                *)
RowShowsOutcome == leaves.row = IF stage.exit = 0 THEN "success" ELSE "failed"
StageIsSettled ==
  stage.at \in {"returned", "thrown"} /\ stage.failed # "input" /\ {"hydrate", "prepare"} \cap stageLog.kinds = {} =>
    /\ RowShowsOutcome \/ "index" \in stageLog.kinds
    /\ ~leaves.label /\ ~leaves.proxy /\ leaves.artifacts = "stored"

(* A postflight that changes the repository or a pull request works only   *)
(* on a run none of whose steps failed before it; after an agent that      *)
(* failed it may at most open a draft (executor.ts:832).                   *)
WorksOnCleanRuns == ~leaves.spoilt

(* A stage ends as its row says, having worked on clean runs only.         *)
StageEndsCleanly == StageIsSettled /\ WorksOnCleanRuns
=============================================================================
