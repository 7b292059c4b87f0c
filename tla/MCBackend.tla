------------------------------ MODULE MCBackend ------------------------------
(***************************************************************************)
(* Instances of the engine's components that work through the state        *)
(* backend or GitHub, side by side: a behaviour is one of the part that    *)
(* "part" names, the others rest in their initial state.                   *)
(***************************************************************************)
EXTENDS LoopDispatch, ManagedGoal, GoalLoop, Delivery, AgentSession, MCTaskFlow, MCAgency, MCDefs, MCRecords, MCHost

CONSTANTS d1, d2, e1, e2, la, lb

VARIABLE part
mcVars == <<part, loopVars, goalVars, goalLoopVars, deliveryVars, agentVars, containerVars, taskJobsVars, stageVars,
            toolVars, ciVars, docVars, definitionVars, profileRun, recordVars, schedulerVars, hostVars>>

(* A schedule for both Loops and a wake for one of them.                   *)
Loops == <<la, lb>>
Dispatchers == {d1, d2}
Kinds == (d1 :> "schedule") @@ (d2 :> "wake")
Requests == (d1 :> {la, lb}) @@ (d2 :> {lb})
Periods == (la :> 2) @@ (lb :> 2)

(* Two pieces of evidence, the second with an argument the first brings.   *)
Items == <<e1, e2>>
Policies == (e1 :> [pending |-> "wait", failure |-> "retry", max |-> 2])
         @@ (e2 :> [pending |-> "retry", failure |-> "none", max |-> 0])
Arguments == (e1 :> {}) @@ (e2 :> {"pr"})
Reports(c, v, b) == [class |-> c, value |-> v, brings |-> b]
Results ==
  {Reports("succeeded", "none", {"pr"}), Reports("succeeded", "false", {}), Reports("retryable", "none", {}),
   Reports("needsFix", "none", {}), Reports("pending", "none", {}), Reports("fatal", "true", {})}

(* A template, an active goal of the target's name, a finished one, none.  *)
GoalTarget(n, t) == [kind |-> "goal", named |-> n, template |-> t]
Targets == {GoalTarget("none", TRUE), GoalTarget("active", FALSE), GoalTarget("done", TRUE),
            GoalTarget("none", FALSE), [kind |-> "workflow", named |-> "none", template |-> FALSE]}

MCInit ==
  /\ part \in {"loops", "goal", "target", "delivery", "agent", "container", "jobs", "stage",
              "tools", "ci", "documents", "definitions", "profiles", "records", "scheduler"} \cup HostParts
  /\ LoopInit /\ GoalInit /\ GoalLoopInit /\ DeliveryInit /\ AgentInit
  /\ ContainerInit /\ TaskJobsInit /\ StageInit
  /\ CapabilityToolsInit /\ CiRunInit /\ WorkflowDocsInit /\ DefinitionsInit /\ ProfilesInit
  /\ RecordsInit /\ GoalSchedulerInit /\ HostInit
  /\ part # "target" => loop = GoalTarget("none", TRUE)
  /\ part # "ci" => ciStart = Event("schedule", "person", "none", FALSE)
  /\ part # "definitions" => kodyConfig.is = "absent"
  /\ memory = NoMemory <=> part = "ticks" /\ "script" \in sharing
  /\ part # "ticks" => sharing = {"live"}

(* The variables of the parts, and those of all but one.                   *)
OthersRest ==
  /\ part # "loops" => UNCHANGED loopVars
  /\ part # "goal" => UNCHANGED goalVars
  /\ part # "target" => UNCHANGED goalLoopVars
  /\ part # "delivery" => UNCHANGED deliveryVars
  /\ part # "agent" => UNCHANGED agentVars
  /\ part # "container" => UNCHANGED containerVars
  /\ part # "jobs" => UNCHANGED taskJobsVars
  /\ part # "stage" => UNCHANGED stageVars
  /\ part # "tools" => UNCHANGED toolVars
  /\ part # "ci" => UNCHANGED ciVars
  /\ part # "documents" => UNCHANGED docVars
  /\ part # "definitions" => UNCHANGED definitionVars
  /\ part # "profiles" => UNCHANGED profileRun
  /\ part # "records" => UNCHANGED recordVars
  /\ part # "scheduler" => UNCHANGED schedulerVars
  /\ part \notin HostParts => UNCHANGED hostVars
MCNext ==
  /\ UNCHANGED part /\ OthersRest
  /\ \/ part = "loops" /\ LoopNext
     \/ part = "goal" /\ GoalNext
     \/ part = "target" /\ GoalLoopNext
     \/ part = "delivery" /\ DeliveryNext
     \/ part = "agent" /\ AgentNext
     \/ part = "container" /\ ContainerNext
     \/ part = "jobs" /\ TaskJobsNext
     \/ part = "stage" /\ StageNext
     \/ part = "tools" /\ CapabilityToolsNext
     \/ part = "ci" /\ CiRunNext
     \/ part = "documents" /\ WorkflowDocsNext
     \/ part = "definitions" /\ DefinitionsNext
     \/ part = "profiles" /\ ProfilesNext
     \/ part = "records" /\ RecordsNext
     \/ part = "scheduler" /\ GoalSchedulerNext
     \/ HostNext(part)
MCSpec == MCInit /\ [][MCNext]_mcVars

(* The variables of each part have their types.                            *)
BackendTypeOK ==
  /\ part = "loops" => LoopTypeOK
  /\ part = "goal" => GoalTypeOK
  /\ part = "target" => GoalLoopTypeOK
  /\ part = "delivery" => DeliveryTypeOK
  /\ part = "agent" => AgentTypeOK
  /\ part = "container" => ContainerTypeOK
  /\ part = "jobs" => TaskJobsTypeOK
  /\ part = "stage" => StageTypeOK
  /\ part = "tools" => CapabilityToolsTypeOK
  /\ part = "ci" => CiRunTypeOK
  /\ part = "documents" => WorkflowDocsTypeOK
  /\ part = "definitions" => DefinitionsTypeOK
  /\ part = "profiles" => ProfilesTypeOK
  /\ part = "records" => RecordsTypeOK
  /\ part = "scheduler" => GoalSchedulerTypeOK
  /\ HostTypeOK(part)
=============================================================================
