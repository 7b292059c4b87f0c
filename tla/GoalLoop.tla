------------------------------ MODULE GoalLoop ------------------------------
(***************************************************************************)
(* A scheduled Loop whose target is a workflow or a goal: the gate of its  *)
(* preferred time (src/scripts/goalCapabilityScheduling.ts), the choice or *)
(* creation of a target instance (src/goal/targetLoopResolution.ts) and    *)
(* the schedule state it leaves (src/scripts/advanceManagedGoal.ts).       *)
(***************************************************************************)
EXTENDS Integers, FiniteSets

CONSTANTS
  LoopTargets,    \* targets to consider: their kind, the state of a goal of that name, a template
  LastDay,        \* bound: local days 1..LastDay
  IdsPerDay,      \* instance ids tried per day
  MaxLoopTicks,   \* bound: ticks of the Loop
  MaxSaveFaults   \* bound: failing writes and crashes

ASSUME GoalLoopAssumption ==
  /\ LoopTargets \subseteq [kind : {"goal", "workflow"}, named : {"none", "active", "done"},
                          template : BOOLEAN]
  /\ {LastDay, IdsPerDay, MaxLoopTicks, MaxSaveFaults} \subseteq Nat /\ LastDay # 0

VARIABLES
  loop,           \* the Loop's target
  day, open,      \* the local day; its preferred time is past
  last,           \* scheduleState.lastDecision: its kind and day
  tick,           \* the tick in progress
  instance,       \* instance id -> state of the goal
  trustedIn,      \* who runs without approval: "loop", "target"
  runsOn,         \* history: day -> dispatches that ran
  lostOn,         \* history: days whose dispatch died with its process
  loopTicks, saveFaults

goalLoopVars == <<loop, day, open, last, tick, instance, trustedIn, runsOn, lostOn,
                 loopTicks, saveFaults>>

Day == 1..LastDay
InstanceId == Day \X (1..IdsPerDay)
Literal == <<0, 0>>
NoTick == [at |-> "idle", day |-> 0, open |-> FALSE, again |-> FALSE, target |-> Literal]
Active == {i \in InstanceId : instance[i] = "active"}

GoalLoopInit ==
  /\ loop \in LoopTargets
  /\ day = 1 /\ open = FALSE /\ last = [kind |-> "none", day |-> 0]
  /\ tick = NoTick /\ instance = [i \in InstanceId |-> "none"] /\ trustedIn = {"loop", "target"}
  /\ runsOn = [d \in Day |-> 0] /\ lostOn = {} /\ loopTicks = 0 /\ saveFaults = 0

Clock == <<loop, day, open>>
Earlier(i, j) == i[1] < j[1] \/ (i[1] = j[1] /\ i[2] <= j[2])
Oldest == CHOOSE i \in Active : \A j \in Active : Earlier(i, j)
ActiveTarget_Literal == loop.kind = "goal" /\ loop.named = "active"
ActiveTarget == loop.kind = "goal" /\ (Active # {} \/ loop.named = "active")
SaveFails == saveFaults < MaxSaveFaults /\ saveFaults' = saveFaults + 1

(* resolveActiveGoalLoopTarget and previousDispatchWasTargetInstance allow *)
(* another dispatch on the same day.                                       *)
StartTick ==
  /\ tick.at = "idle" /\ loopTicks < MaxLoopTicks /\ loopTicks' = loopTicks + 1
  /\ tick' = [at |-> "gate", day |-> day, open |-> open, target |-> Literal,
              again |-> ActiveTarget \/ (loop.kind = "goal" /\ last.kind = "dispatch")]
  /\ UNCHANGED <<Clock, last, instance, trustedIn, runsOn, lostOn, saveFaults>>

(* preferredRunTimeGate *)
GateOpen_AnyDay(t) == t.open /\ ~(last.kind = "dispatch" /\ ~t.again)
GateOpen(t) == t.open /\ ~(last = [kind |-> "dispatch", day |-> t.day] /\ ~t.again)

(* applyLoopScheduleState. *)
Save(kind) == last' = [kind |-> kind, day |-> tick.day]

Gate ==
  /\ tick.at = "gate"
  /\ \/ /\ ~GateOpen(tick) /\ tick' = NoTick
        /\ Save("idle") /\ UNCHANGED saveFaults
     \/ /\ ~GateOpen(tick) /\ tick' = NoTick
        /\ SaveFails /\ UNCHANGED last
     \/ /\ GateOpen(tick) /\ "loop" \notin trustedIn /\ tick' = NoTick
        /\ Save("wait") /\ UNCHANGED saveFaults
     \/ /\ GateOpen(tick) /\ "loop" \in trustedIn /\ UNCHANGED <<last, saveFaults>>
        /\ tick' = [tick EXCEPT !.at = IF loop.kind = "goal" THEN "resolve" ELSE "save"]
  /\ UNCHANGED <<Clock, instance, trustedIn, runsOn, lostOn, loopTicks>>

(* chooseTargetInstanceId: the first id of the day that is new or active. *)
Usable(i) == instance[i] \in {"none", "active"}
Candidates(d) == {i \in InstanceId : i[1] = d /\ Usable(i)}
Chosen(d) == CHOOSE i \in Candidates(d) : \A j \in Candidates(d) : i[2] <= j[2]

(* resolveGoalLoopTarget; without an active target, a template or a free   *)
(* id it throws, and nothing is saved.                                     *)
Resolve ==
  /\ tick.at = "resolve"
  /\ \/ /\ ActiveTarget
        /\ tick' = [tick EXCEPT !.at = "trust", !.target = IF Active # {} THEN Oldest ELSE Literal]
     \/ /\ ~ActiveTarget /\ loop.template /\ Candidates(tick.day) # {}
        /\ tick' = [tick EXCEPT !.at = "create", !.target = Chosen(tick.day)]
     \/ /\ ~ActiveTarget /\ ~loop.template /\ loop.named = "none"
        /\ tick' = [tick EXCEPT !.at = "trust"]
     \/ /\ ~ActiveTarget /\ IF loop.template THEN Candidates(tick.day) = {} ELSE loop.named = "done"
        /\ tick' = NoTick
  /\ UNCHANGED <<Clock, last, instance, trustedIn, runsOn, lostOn, loopTicks, saveFaults>>

CreateInstance ==
  /\ tick.at = "create"
  /\ instance' = [instance EXCEPT ![tick.target] = "active"]
  /\ tick' = [tick EXCEPT !.at = "trust"]
  /\ UNCHANGED <<Clock, last, trustedIn, runsOn, lostOn, loopTicks, saveFaults>>

(* autonomyBlockReason on the target; a wait keeps the schedule state but  *)
(* for the decision.                                                       *)
AskTrust ==
  /\ tick.at = "trust"
  /\ IF "target" \in trustedIn THEN tick' = [tick EXCEPT !.at = "save"] /\ UNCHANGED last
                      ELSE tick' = NoTick /\ Save("wait")
  /\ UNCHANGED <<Clock, instance, trustedIn, runsOn, lostOn, loopTicks, saveFaults>>

(* commitGoalState: the decision is saved, or not; a write that fails is    *)
(* logged and the dispatch goes on.                                        *)
SaveDecision ==
  /\ tick.at = "save" /\ tick' = [tick EXCEPT !.at = "dispatch"]
  /\ \/ Save("dispatch") /\ UNCHANGED saveFaults
     \/ SaveFails /\ UNCHANGED last
  /\ UNCHANGED <<Clock, instance, trustedIn, runsOn, lostOn, loopTicks>>

(* nextDispatch: the process itself runs the target. *)
DispatchTarget ==
  /\ tick.at = "dispatch" /\ tick' = NoTick
  /\ runsOn' = [runsOn EXCEPT ![tick.day] = @ + 1]
  /\ UNCHANGED <<Clock, last, instance, trustedIn, lostOn, loopTicks, saveFaults>>

TickDies ==
  /\ tick.at # "idle" /\ tick' = NoTick /\ SaveFails
  /\ lostOn' = IF tick.at = "dispatch" THEN lostOn \cup {tick.day} ELSE lostOn
  /\ UNCHANGED <<Clock, last, instance, trustedIn, runsOn, loopTicks>>

(* The world: time, the progress of instances, the operator's trust. *)
PreferredTime == ~open /\ open' = TRUE
                 /\ UNCHANGED <<loop, day, last, tick, instance, trustedIn, runsOn, lostOn, loopTicks, saveFaults>>
Midnight == day < LastDay /\ day' = day + 1 /\ open' = FALSE
            /\ UNCHANGED <<loop, last, tick, instance, trustedIn, runsOn, lostOn, loopTicks, saveFaults>>
InstanceEnds == \E i \in Active : instance' = [instance EXCEPT ![i] = "done"]
                /\ UNCHANGED <<Clock, last, tick, trustedIn, runsOn, lostOn, loopTicks, saveFaults>>
ToggleTrust == /\ \E w \in {"loop", "target"} :
                    trustedIn' = IF w \in trustedIn THEN trustedIn \ {w} ELSE trustedIn \cup {w}
               /\ UNCHANGED <<Clock, last, tick, instance, runsOn, lostOn, loopTicks, saveFaults>>

GoalLoopNext ==
  \/ StartTick \/ Gate \/ Resolve \/ CreateInstance \/ AskTrust \/ SaveDecision \/ DispatchTarget \/ TickDies
  \/ PreferredTime \/ Midnight \/ InstanceEnds \/ ToggleTrust

GoalLoopSpec == GoalLoopInit /\ [][GoalLoopNext]_goalLoopVars
-----------------------------------------------------------------------------
(* Every variable of the goal loop keeps its type. *)
GoalLoopTypeOK ==
  /\ loop \in LoopTargets
  /\ day \in Day /\ open \in BOOLEAN
  /\ last \in [kind : {"none", "idle", "wait", "dispatch"}, day : 0..LastDay]
  /\ tick.at \in {"idle", "gate", "resolve", "create", "trust", "save", "dispatch"}
  /\ tick.target \in InstanceId \cup {Literal}
  /\ instance \in [InstanceId -> {"none", "active", "done"}]

(* A Loop has at most one active instance of its target, over failing      *)
(* writes, crashes and days (resolveGoalLoopTarget).                       *)
OneActiveInstance == Cardinality(Active) <= 1

(* The gate lets a new day through, whatever was decided on the days       *)
(* before: a closed gate means that the time has not come, or that this    *)
(* very day had a dispatch of the workflow. Only a process that dies with  *)
(* a saved decision takes the day's run with it (preferredRunTimeGate).    *)
NewDayIsFree ==
  [][last'.kind = "idle" /\ last' # last
       => \/ ~tick.open
          \/ loop.kind = "workflow" /\ (runsOn[tick.day] > 0 \/ tick.day \in lostOn)]_goalLoopVars
=============================================================================
