--------------------------- MODULE GoalLoopProofs ---------------------------
(***************************************************************************)
(* Proofs about GoalLoop, for any targets, days, ids, ticks and failing    *)
(* writes: a Loop has one active instance of its target, and its gate lets *)
(* every new day through.  And about ManagedGoal: evidence decides when a  *)
(* goal is done, and nothing is repeated, while its ticks do not overlap.  *)
(* And about GoalScheduler: schedulers that overlap tick a goal one at a   *)
(* time, in its interval, and lose nobody's edit.                          *)
(***************************************************************************)
EXTENDS GoalLoop, ManagedGoal, GoalScheduler, FiniteSetTheorems, WellFoundedInduction, TLAPS

(* The tick with all of its fields, and the history of dispatches.         *)
TickOK ==
  /\ tick \in [at : {"idle", "gate", "resolve", "create", "trust", "save", "dispatch"}, day : 0..LastDay,
               open : BOOLEAN, again : BOOLEAN, target : InstanceId \cup {Literal}]
  /\ tick.at # "idle" => tick.day \in Day
  /\ tick.at = "create" => tick.target \in InstanceId
  /\ tick.at = "resolve" => loop.kind = "goal"
  /\ runsOn \in [Day -> Nat]

(* Only a tick makes an instance active, and only when it saw none; nobody *)
(* else makes one before it does.                                          *)
OneAtMost ==
  /\ \A i, j \in InstanceId : instance[i] = "active" /\ instance[j] = "active" => i = j
  /\ tick.at = "create" => \A i \in InstanceId : instance[i] # "active"

(* A decision that is remembered as a dispatch of a day was one, is about  *)
(* to be one, or died with its process.                                    *)
DispatchesHappened ==
  last.kind = "dispatch" => /\ last.day \in Day
                            /\ \/ runsOn[last.day] > 0 \/ last.day \in lostOn
                               \/ tick.at = "dispatch" /\ tick.day = last.day

(* A goal that was dispatched may be dispatched again on the same day.     *)
AgainIsSeen == tick.at = "gate" /\ loop.kind = "goal" /\ last.kind = "dispatch" => tick.again

LoopInv == GoalLoopTypeOK /\ TickOK /\ OneAtMost /\ DispatchesHappened /\ AgainIsSeen

LEMMA NoTickIsATick ==
  /\ NoTick \in [at : {"idle", "gate", "resolve", "create", "trust", "save", "dispatch"}, day : 0..LastDay,
                 open : BOOLEAN, again : BOOLEAN, target : InstanceId \cup {Literal}]
  /\ NoTick.at = "idle"
BY GoalLoopAssumption DEF NoTick

(* What a tick saves is of the tick's day.                                 *)
LEMMA SavedDecisions ==
  ASSUME TickOK, tick.at # "idle", NEW kind \in {"idle", "wait", "dispatch"}, Save(kind)
  PROVE  /\ last' \in [kind : {"none", "idle", "wait", "dispatch"}, day : 0..LastDay]
         /\ last'.kind = kind /\ last'.day = tick.day
BY GoalLoopAssumption DEF TickOK, Save, Day

LEMMA StartsHold == GoalLoopInit => LoopInv
<1> SUFFICES ASSUME GoalLoopInit PROVE LoopInv OBVIOUS
<1>1. GoalLoopTypeOK
  <2>1. 1 \in Day /\ 0 \in 0..LastDay
    BY GoalLoopAssumption DEF Day
  <2>2. last \in [kind : {"none", "idle", "wait", "dispatch"}, day : 0..LastDay]
    BY <2>1 DEF GoalLoopInit
  <2>3. tick.at = "idle" /\ tick.target = Literal
    BY DEF GoalLoopInit, NoTick
  <2>4. instance \in [InstanceId -> {"none", "active", "done"}]
    BY DEF GoalLoopInit
  <2> QED BY <2>1, <2>2, <2>3, <2>4 DEF GoalLoopInit, GoalLoopTypeOK
<1>2. TickOK
  BY NoTickIsATick DEF GoalLoopInit, TickOK
<1>3. OneAtMost
  BY NoTickIsATick DEF GoalLoopInit, OneAtMost
<1>4. DispatchesHappened
  BY DEF GoalLoopInit, DispatchesHappened
<1>5. AgainIsSeen
  BY NoTickIsATick DEF GoalLoopInit, AgainIsSeen
<1> QED BY <1>1, <1>2, <1>3, <1>4, <1>5 DEF LoopInv

(* The tick begins, decides and dispatches without touching an instance.   *)
LEMMA TicksHold ==
  ASSUME LoopInv, StartTick \/ Gate \/ AskTrust \/ SaveDecision \/ DispatchTarget \/ TickDies
  PROVE  LoopInv'
<1> USE DEF LoopInv
<1>1. instance' = instance /\ UNCHANGED Clock
  BY DEF StartTick, Gate, AskTrust, SaveDecision, DispatchTarget, TickDies, Clock
<1>2. tick'.at # "create"
  BY NoTickIsATick DEF StartTick, Gate, AskTrust, SaveDecision, DispatchTarget, TickDies, TickOK
<1>3. OneAtMost'
  BY <1>1, <1>2 DEF OneAtMost
<1>4. TickOK'
  <2>1. CASE StartTick
    BY <2>1, GoalLoopAssumption DEF StartTick, TickOK, GoalLoopTypeOK, ActiveTarget, Day, Clock
  <2>2. CASE Gate
    <3>1. loop' = loop /\ runsOn' = runsOn
      BY <2>2 DEF Gate, Clock
    <3>2. \/ tick' = NoTick
          \/ loop.kind = "goal" /\ tick' = [tick EXCEPT !.at = "resolve"]
          \/ tick' = [tick EXCEPT !.at = "save"]
      BY <2>2 DEF Gate
    <3>3. tick.at = "gate"
      BY <2>2 DEF Gate
    <3> QED BY <3>1, <3>2, <3>3, NoTickIsATick DEF TickOK
  <2>3. CASE AskTrust
    BY <2>3, NoTickIsATick DEF AskTrust, TickOK
  <2>4. CASE SaveDecision
    BY <2>4, <1>1 DEF SaveDecision, TickOK, Clock
  <2>5. CASE DispatchTarget
    BY <2>5, <1>1, NoTickIsATick DEF DispatchTarget, TickOK, Clock
  <2>6. CASE TickDies
    BY <2>6, NoTickIsATick DEF TickDies, TickOK
  <2> QED BY <2>1, <2>2, <2>3, <2>4, <2>5, <2>6
<1>5. last' = last \/ (tick.at # "idle" /\ \E kind \in {"idle", "wait", "dispatch"} :
                         Save(kind) /\ (kind = "dispatch" => SaveDecision))
  BY DEF StartTick, Gate, AskTrust, SaveDecision, DispatchTarget, TickDies
<1>6. last' \in [kind : {"none", "idle", "wait", "dispatch"}, day : 0..LastDay]
  BY <1>5, SavedDecisions DEF GoalLoopTypeOK
<1>7. GoalLoopTypeOK'
  BY <1>1, <1>4, <1>6 DEF GoalLoopTypeOK, TickOK, Clock
<1>8. /\ \A d \in Day : runsOn'[d] >= runsOn[d]
      /\ \A d \in lostOn : d \in lostOn'
  BY DEF StartTick, Gate, AskTrust, SaveDecision, DispatchTarget, TickDies, TickOK
<1>9. DispatchesHappened'
  <2> SUFFICES ASSUME last'.kind = "dispatch"
               PROVE  /\ last'.day \in Day
                      /\ \/ runsOn'[last'.day] > 0 \/ last'.day \in lostOn'
                         \/ tick'.at = "dispatch" /\ tick'.day = last'.day
    BY DEF DispatchesHappened
  <2>1. CASE SaveDecision /\ Save("dispatch")
    BY <2>1, SavedDecisions DEF SaveDecision, TickOK
  <2>2. CASE last' = last
    <3>1. CASE runsOn[last.day] > 0 \/ last.day \in lostOn
      BY <2>2, <3>1, <1>4, <1>8 DEF DispatchesHappened, TickOK
    <3>2. CASE tick.at = "dispatch" /\ tick.day = last.day
      <4>1. last.day \in Day
        BY <3>2 DEF TickOK
      <4>2. CASE DispatchTarget
        <5>1. runsOn'[last.day] = runsOn[last.day] + 1 /\ runsOn[last.day] \in Nat
          BY <4>1, <4>2, <3>2 DEF DispatchTarget, TickOK
        <5> QED BY <5>1, <4>1, <2>2
      <4>3. CASE TickDies
        BY <4>1, <4>3, <3>2, <2>2 DEF TickDies
      <4> QED BY <4>2, <4>3, <3>2 DEF StartTick, Gate, AskTrust, SaveDecision
    <3> QED BY <3>1, <3>2, <2>2 DEF DispatchesHappened
  <2>3. last' = last \/ (SaveDecision /\ Save("dispatch"))
    <3>1. CASE last' # last
      <4>1. PICK kind \in {"idle", "wait", "dispatch"} :
              tick.at # "idle" /\ Save(kind) /\ (kind = "dispatch" => SaveDecision)
        BY <1>5, <3>1
      <4>2. kind = "dispatch"
        BY <4>1, SavedDecisions
      <4> QED BY <4>1, <4>2
    <3> QED BY <3>1
  <2> QED BY <2>1, <2>2, <2>3
<1>10. AgainIsSeen'
  <2>1. CASE StartTick
    <3>1. tick'.again <=> ActiveTarget \/ (loop.kind = "goal" /\ last.kind = "dispatch")
      BY <2>1 DEF StartTick
    <3>2. loop' = loop /\ last' = last
      BY <2>1 DEF StartTick, Clock
    <3> QED BY <3>1, <3>2 DEF AgainIsSeen
  <2>2. CASE ~StartTick
    <3>1. tick'.at # "gate"
      BY <2>2, NoTickIsATick DEF Gate, AskTrust, SaveDecision, DispatchTarget, TickDies, TickOK
    <3> QED BY <3>1 DEF AgainIsSeen
  <2> QED BY <2>1, <2>2
<1> QED BY <1>3, <1>4, <1>7, <1>9, <1>10

(* A set of numbers that is not empty has a least one.                     *)
LEMMA LeastNumber ==
  ASSUME NEW T \in SUBSET Nat, T # {}
  PROVE  \E x \in T : \A y \in T : x <= y
<1> DEFINE Less == OpToRel(<, Nat)
<1>1. IsWellFoundedOn(Less, Nat)
  BY NatLessThanWellFounded
<1>2. \A x, y \in Nat : <<y, x>> \in Less <=> y < x
  BY DEF OpToRel
<1> HIDE DEF Less
<1>3. PICK x \in T : \A y \in T : <<y, x>> \notin Less
  BY <1>1, WFMin
<1>4. \A y \in T : ~(y < x)
  BY <1>2, <1>3
<1>5. \A y \in T : x <= y
  BY <1>4
<1> QED BY <1>5

(* The first usable id of a day is one (chooseTargetInstanceId).           *)
LEMMA ChosenIsUsable ==
  ASSUME NEW d, Candidates(d) # {}
  PROVE  Chosen(d) \in InstanceId /\ Usable(Chosen(d))
<1> DEFINE Nths == {i[2] : i \in Candidates(d)}
<1>1. \A i \in Candidates(d) : i \in InstanceId /\ i[2] \in Nat
  BY GoalLoopAssumption DEF Candidates, InstanceId, Day
<1>2. PICK n \in Nths : \A m \in Nths : n <= m
  <2>1. Nths \in SUBSET Nat /\ Nths # {}
    BY <1>1
  <2> QED BY <2>1, LeastNumber
<1>3. \E i \in Candidates(d) : \A j \in Candidates(d) : i[2] <= j[2]
  BY <1>2
<1>4. Chosen(d) \in Candidates(d)
  BY <1>3 DEF Chosen
<1> QED BY <1>4 DEF Candidates

(* With at most one active instance the oldest one is it.                  *)
LEMMA OldestIsActive ==
  ASSUME OneAtMost, Active # {}
  PROVE  Oldest \in Active
<1>1. PICK i \in Active : TRUE
  OBVIOUS
<1>2. \A j \in Active : j = i
  BY <1>1 DEF Active, OneAtMost
<1>3. Earlier(i, i)
  BY <1>1, GoalLoopAssumption DEF Active, InstanceId, Day, Earlier
<1> QED BY <1>1, <1>2, <1>3 DEF Oldest

(* The choice of an instance: an active one, or a new one when none is.    *)
LEMMA ResolveHolds ==
  ASSUME LoopInv, Resolve
  PROVE  LoopInv'
<1> USE DEF LoopInv
<1>1. instance' = instance /\ UNCHANGED Clock /\ last' = last /\ runsOn' = runsOn /\ lostOn' = lostOn
  BY DEF Resolve, Clock
<1>2. \/ tick' = NoTick
      \/ \E i \in InstanceId \cup {Literal} : tick' = [tick EXCEPT !.at = "trust", !.target = i]
      \/ ~ActiveTarget /\ \E i \in InstanceId : tick' = [tick EXCEPT !.at = "create", !.target = i]
  <2>1. CASE ActiveTarget
    BY <2>1, OldestIsActive DEF Resolve, Active
  <2>2. CASE ~ActiveTarget /\ loop.template
    BY <2>2, ChosenIsUsable DEF Resolve
  <2>3. CASE ~ActiveTarget /\ ~loop.template
    <3>1. tick.target \in InstanceId \cup {Literal}
      BY DEF TickOK
    <3>2. tick' = NoTick \/ tick' = [tick EXCEPT !.at = "trust"]
      BY <2>3 DEF Resolve
    <3>3. [tick EXCEPT !.at = "trust"] = [tick EXCEPT !.at = "trust", !.target = tick.target]
      BY DEF TickOK
    <3> QED BY <3>1, <3>2, <3>3
  <2> QED BY <2>1, <2>2, <2>3
<1>3. TickOK'
  BY <1>1, <1>2, NoTickIsATick DEF TickOK, Resolve, Clock
<1>4. tick'.at = "create" => Active = {}
  BY <1>2, NoTickIsATick DEF TickOK, Resolve, ActiveTarget
<1>5. OneAtMost'
  BY <1>1, <1>4 DEF OneAtMost, Active
<1>6. GoalLoopTypeOK'
  BY <1>1, <1>3 DEF GoalLoopTypeOK, TickOK, Clock
<1>7. DispatchesHappened'
  <2>1. tick.at # "dispatch"
    BY DEF Resolve
  <2> QED BY <1>1, <2>1 DEF DispatchesHappened
<1>8. AgainIsSeen'
  BY <1>2, NoTickIsATick DEF AgainIsSeen, TickOK
<1> QED BY <1>3, <1>5, <1>6, <1>7, <1>8

(* An instance is made by a tick that saw none; it is the only one.        *)
LEMMA CreationHolds ==
  ASSUME LoopInv, CreateInstance
  PROVE  LoopInv'
<1> USE DEF LoopInv
<1>1. /\ instance' = [instance EXCEPT ![tick.target] = "active"] /\ tick' = [tick EXCEPT !.at = "trust"]
      /\ tick.at = "create" /\ tick.target \in InstanceId
      /\ UNCHANGED Clock /\ last' = last /\ runsOn' = runsOn /\ lostOn' = lostOn
  BY DEF CreateInstance, Clock, TickOK
<1>2. TickOK'
  BY <1>1 DEF TickOK, Clock
<1>3. OneAtMost'
  BY <1>1 DEF OneAtMost, GoalLoopTypeOK, TickOK
<1>4. GoalLoopTypeOK'
  BY <1>1, <1>2 DEF GoalLoopTypeOK, TickOK, Clock
<1>5. DispatchesHappened'
  BY <1>1 DEF DispatchesHappened
<1>6. AgainIsSeen'
  BY <1>1 DEF AgainIsSeen, TickOK
<1> QED BY <1>2, <1>3, <1>4, <1>5, <1>6

(* Days pass, instances end, the operator's trust comes and goes.          *)
LEMMA WorldHolds ==
  ASSUME LoopInv, PreferredTime \/ Midnight \/ InstanceEnds \/ ToggleTrust
  PROVE  LoopInv'
<1> USE DEF LoopInv
<1>1. loop' = loop /\ tick' = tick /\ last' = last /\ runsOn' = runsOn /\ lostOn' = lostOn
  BY DEF PreferredTime, Midnight, InstanceEnds, ToggleTrust, Clock
<1>2. day' \in Day /\ open' \in BOOLEAN
  <2>1. day \in Day /\ open \in BOOLEAN
    BY DEF GoalLoopTypeOK
  <2>2. CASE PreferredTime
    BY <2>1, <2>2 DEF PreferredTime
  <2>3. CASE Midnight
    <3>1. LastDay \in Nat /\ day \in Nat /\ 1 <= day
      BY <2>1, GoalLoopAssumption DEF Day
    <3>2. day < LastDay /\ day' = day + 1 /\ open' = FALSE
      BY <2>3 DEF Midnight
    <3>3. day + 1 \in 1..LastDay
      BY <3>1, <3>2
    <3>4. open' \in BOOLEAN
      BY <3>2
    <3> QED BY <3>2, <3>3, <3>4 DEF Day
  <2>4. CASE InstanceEnds \/ ToggleTrust
    BY <2>1, <2>4 DEF InstanceEnds, ToggleTrust, Clock
  <2> QED BY <2>2, <2>3, <2>4
<1>3. /\ instance' \in [InstanceId -> {"none", "active", "done"}]
      /\ \A i \in InstanceId : instance'[i] = "active" => instance[i] = "active"
  BY DEF PreferredTime, Midnight, InstanceEnds, ToggleTrust, Active, GoalLoopTypeOK
<1>4. TickOK' /\ DispatchesHappened' /\ AgainIsSeen'
  BY <1>1 DEF TickOK, DispatchesHappened, AgainIsSeen
<1>5. OneAtMost'
  BY <1>1, <1>3 DEF OneAtMost
<1>6. GoalLoopTypeOK'
  BY <1>1, <1>2, <1>3 DEF GoalLoopTypeOK
<1> QED BY <1>4, <1>5, <1>6

LEMMA LoopInvHolds == LoopInv /\ [GoalLoopNext]_goalLoopVars => LoopInv'
<1> SUFFICES ASSUME LoopInv, [GoalLoopNext]_goalLoopVars PROVE LoopInv' OBVIOUS
<1>1. CASE UNCHANGED goalLoopVars
  BY <1>1 DEF goalLoopVars, LoopInv, GoalLoopTypeOK, TickOK, OneAtMost, DispatchesHappened, AgainIsSeen
<1>2. CASE GoalLoopNext
  BY <1>2, TicksHold, ResolveHolds, CreationHolds, WorldHolds DEF GoalLoopNext
<1> QED BY <1>1, <1>2

LEMMA LoopInvariance == GoalLoopSpec => []LoopInv
BY StartsHold, LoopInvHolds, PTL DEF GoalLoopSpec

(* Every variable of the goal loop keeps its type.                         *)
THEOREM GoalLoopTypeCorrect == GoalLoopSpec => []GoalLoopTypeOK
<1>1. LoopInv => GoalLoopTypeOK
  BY DEF LoopInv
<1> QED BY <1>1, LoopInvariance, PTL

(* A Loop has at most one active instance of its target, over failing      *)
(* writes, crashes and days (resolveGoalLoopTarget).                       *)
THEOREM OneInstanceAtATime == GoalLoopSpec => []OneActiveInstance
<1>1. LoopInv => OneActiveInstance
  <2> SUFFICES ASSUME LoopInv PROVE Cardinality(Active) <= 1 BY DEF OneActiveInstance
  <2>1. CASE Active = {}
    BY <2>1, FS_EmptySet
  <2>2. CASE Active # {}
    <3>1. PICK i \in Active : Active = {i}
      BY <2>2 DEF LoopInv, OneAtMost, Active
    <3>2. Cardinality({i}) = 1
      BY FS_Singleton
    <3> QED BY <3>1, <3>2
  <2> QED BY <2>1, <2>2
<1> QED BY <1>1, LoopInvariance, PTL

(* The gate lets a new day through, whatever was decided before: only the  *)
(* dispatch of a workflow on that very day, or the hour, closes it.        *)
THEOREM NewDaysAreFree == GoalLoopSpec => NewDayIsFree
<1>1. LoopInv /\ [GoalLoopNext]_goalLoopVars
        => [last'.kind = "idle" /\ last' # last
              => \/ ~tick.open
                 \/ loop.kind = "workflow" /\ (runsOn[tick.day] > 0 \/ tick.day \in lostOn)]_goalLoopVars
  <2> SUFFICES ASSUME LoopInv, GoalLoopNext, last'.kind = "idle", last' # last, tick.open
               PROVE  loop.kind = "workflow" /\ (runsOn[tick.day] > 0 \/ tick.day \in lostOn)
    OBVIOUS
  <2>1. Gate /\ ~GateOpen(tick)
    <3>1. Save("wait") => last'.kind = "wait"
      BY DEF Save
    <3>2. Save("dispatch") => last'.kind = "dispatch"
      BY DEF Save
    <3> QED BY <3>1, <3>2 DEF GoalLoopNext, StartTick, Gate, Resolve, CreateInstance, AskTrust, SaveDecision,
                 DispatchTarget, TickDies, PreferredTime, Midnight, InstanceEnds, ToggleTrust
  <2>2. last = [kind |-> "dispatch", day |-> tick.day] /\ ~tick.again /\ tick.at = "gate"
    BY <2>1 DEF GateOpen, Gate
  <2>3. last.kind = "dispatch" /\ last.day = tick.day
    BY <2>2
  <2>4. loop.kind = "workflow"
    <3>1. loop.kind \in {"goal", "workflow"}
      BY GoalLoopAssumption DEF LoopInv, GoalLoopTypeOK
    <3> QED BY <2>2, <2>3, <3>1 DEF LoopInv, AgainIsSeen
  <2>5. runsOn[tick.day] > 0 \/ tick.day \in lostOn
    BY <2>2, <2>3 DEF LoopInv, DispatchesHappened
  <2> QED BY <2>4, <2>5
<1> QED BY <1>1, LoopInvariance, PTL DEF GoalLoopSpec, NewDayIsFree
-----------------------------------------------------------------------------
(* A managed goal.  Goals, ticks and results with all of their fields.     *)
Facts == UNION {r.brings : r \in GoalResult}
Documents ==
  [state : {"active", "abandoned", "done"}, sat : SUBSET Item, known : SUBSET Facts,
   pending : Item \cup {NoGoalItem}, blocked : BOOLEAN,
   progress : [Item -> [class : Class, attempts : Nat, issue : BOOLEAN]]]
Planning == {"advance", "token", "save"}
Reporting == {"search", "create", "report token", "report save"}
Running == {"capability", "fetch"} \cup Reporting
TickRuns ==
  [at : {"idle", "load", "handoff", "end"} \cup Planning \cup Running, goal : Documents \cup {NoGoalItem},
   next : Item \cup {NoGoalItem}, result : GoalResult \cup {NoGoalItem}, hops : Nat, fresh : BOOLEAN]
GoalTyped ==
  /\ doc \in Documents /\ gp \in [GoalProc -> TickRuns] /\ trusted \in BOOLEAN
  /\ tracker \in [Item -> Nat] /\ tries \in [Item -> Nat] /\ unstored \in [Item -> Nat] /\ soft \subseteq Item
  /\ ticks \in Nat /\ goalFaults \in Nat

Complete(goal) == goal.state = "done" => goal.sat = Item
Limited(e) == e \in soft /\ Policy[e].max # 0

(* What a tick holds at each of its places.                                *)
Placed(run) ==
  /\ run.at = "idle" => run = Asleep
  /\ run.at \in {"load", "advance", "end"} => run.next = NoGoalItem
  /\ run.at \in Running => run.next \in Item
  /\ run.at \in Planning \cup Reporting => run.goal \in Documents /\ Complete(run.goal)
  /\ run.at \in Running \ {"capability"} => run.result \in GoalResult

(* A tick plans from the stored progress, never hands over for a goal that *)
(* is done, and only while the limit allows another run.                   *)
Agrees(run) ==
  /\ run.at \in Planning => run.goal.progress = doc.progress
  /\ run.at = "advance" \/ run.next # NoGoalItem => doc.state # "done"
  /\ run.at \in Planning /\ (run.at = "advance" \/ run.next # NoGoalItem) => run.goal.state # "done"
  /\ run.next # NoGoalItem /\ Limited(run.next) => doc.progress[run.next].attempts < Policy[run.next].max

(* The result that is to be stored is one more attempt of its evidence.    *)
Reported(run) ==
  /\ run.at \in Reporting =>
       /\ \A e \in Item : e # run.next => run.goal.progress[e] = doc.progress[e]
       /\ run.goal.progress[run.next].class = run.result.class
       /\ run.goal.progress[run.next].attempts = doc.progress[run.next].attempts + 1
  /\ run.at = "create" => tracker[run.next] = 0
  /\ run.at \in Running \ {"capability"} /\ run.next \in soft => run.result.class = "retryable"

OneTick == \A p, q \in GoalProc : gp[p].at # "idle" /\ gp[q].at # "idle" => p = q
SoftFails ==
  \A e \in soft :
    /\ doc.progress[e].class \in {"none", "retryable"}
    /\ doc.progress[e].class = "none" => doc.progress[e].attempts = 0
    /\ Policy[e].max # 0 => doc.progress[e].attempts <= Policy[e].max

(* Every run of a capability is stored, lost, or under way.                *)
Now(e) == IF \E p \in GoalProc : gp[p].at \in Running /\ gp[p].next = e THEN 1 ELSE 0
Counted == \A e \in Item : tries[e] = doc.progress[e].attempts + unstored[e] + Now(e)

ManagedInv ==
  /\ GoalTyped /\ Complete(doc) /\ OneTick /\ SoftFails /\ Counted /\ FiledOnce
  /\ \A p \in GoalProc : Placed(gp[p]) /\ Agrees(gp[p]) /\ Reported(gp[p])

Alone(p) == \A x \in GoalProc : x # p => gp[x] = Asleep

\* A process without a tick.
LEMMA AsleepType ==
  /\ Asleep \in TickRuns /\ Asleep.at = "idle" /\ Asleep.next = NoGoalItem /\ Asleep.fresh = FALSE
  /\ Placed(Asleep)
BY DEF Asleep, TickRuns, Placed, Planning, Running, Reporting

\* What the invariant says of one tick.
LEMMA TickFacts ==
  ASSUME ManagedInv, NEW p \in GoalProc
  PROVE  /\ gp[p] \in TickRuns /\ Placed(gp[p]) /\ Agrees(gp[p]) /\ Reported(gp[p])
         /\ doc \in Documents /\ Complete(doc)
         /\ ~At(p, "idle") => Alone(p)
  BY DEF ManagedInv, GoalTyped, OneTick, Placed, Alone, At

\* The other processes stay asleep.
LEMMA OthersSleep ==
  ASSUME ManagedInv, NEW p \in GoalProc, Alone(p), NEW q \in TickRuns, Moves(p, q)
  PROVE  /\ gp' \in [GoalProc -> TickRuns] /\ gp'[p] = q
         /\ \A x \in GoalProc : x # p => gp'[x] = Asleep
<1>1. gp' = [x \in GoalProc |-> IF x = p THEN q ELSE [gp[x] EXCEPT !.fresh = @ /\ doc' = doc]]
  BY DEF Moves
<1>2. [Asleep EXCEPT !.fresh = @ /\ doc' = doc] = Asleep
  <2>1. [Asleep EXCEPT !.fresh = FALSE] = Asleep
    BY AsleepType DEF TickRuns
  <2>2. (Asleep.fresh /\ doc' = doc) = FALSE
    BY AsleepType
  <2> QED
    BY <2>1, <2>2
<1>3. \A x \in GoalProc : x # p => gp'[x] = Asleep
  BY <1>1, <1>2 DEF Alone
<1>4. gp'[p] = q
  BY <1>1
<1>5. \A x \in GoalProc : gp'[x] \in TickRuns
  BY <1>3, <1>4, AsleepType
<1> QED
  BY <1>1, <1>3, <1>4, <1>5

\* What one tick does is all that has to be looked at.
LEMMA TickKeeps ==
  ASSUME ManagedInv, NEW p \in GoalProc, GoalTyped', \A x \in GoalProc : x # p => gp'[x] = Asleep,
         Complete(doc)', SoftFails', FiledOnce', Placed(gp[p])', Agrees(gp[p])', Reported(gp[p])',
         \A e \in Item : tries'[e] = doc'.progress[e].attempts + unstored'[e]
                                     + (IF gp'[p].at \in Running /\ gp'[p].next = e THEN 1 ELSE 0)
  PROVE  ManagedInv'
<1>1. OneTick'
  BY AsleepType DEF OneTick
<1>2. \A e : Now(e)' = IF gp'[p].at \in Running /\ gp'[p].next = e THEN 1 ELSE 0
  BY AsleepType DEF Now, Running, Reporting
<1>3. Counted'
  BY <1>2 DEF Counted
<1>4. ASSUME NEW x \in GoalProc, x # p
      PROVE  (Placed(gp[x]) /\ Agrees(gp[x]) /\ Reported(gp[x]))'
  BY <1>4, AsleepType DEF Placed, Agrees, Reported, Planning, Running, Reporting
<1> QED
  BY <1>1, <1>3, <1>4 DEF ManagedInv

\* A tick that only moves.
LEMMA MoveKeeps ==
  ASSUME ManagedInv, NEW p \in GoalProc, Alone(p), NEW q \in TickRuns, Moves(p, q),
         UNCHANGED <<doc, tracker, tries, soft, unstored, trusted>>, ticks' \in Nat, goalFaults' \in Nat,
         Placed(q), Agrees(q), Reported(q),
         q.at \in Running <=> gp[p].at \in Running, q.at \in Running => q.next = gp[p].next
  PROVE  ManagedInv'
<1>1. /\ gp' \in [GoalProc -> TickRuns] /\ gp'[p] = q
      /\ \A x \in GoalProc : x # p => gp'[x] = Asleep
  BY OthersSleep
<1>2. GoalTyped' /\ Complete(doc)' /\ SoftFails' /\ FiledOnce'
  BY <1>1 DEF ManagedInv, GoalTyped, Complete, SoftFails, FiledOnce
<1>3. Placed(gp[p])' /\ Agrees(gp[p])' /\ Reported(gp[p])'
  BY <1>1 DEF Placed, Agrees, Reported, Complete, Limited
<1>4. \A e : Now(e) = IF gp[p].at \in Running /\ gp[p].next = e THEN 1 ELSE 0
  BY AsleepType DEF Alone, Now, Running, Reporting
<1>5. ASSUME NEW e \in Item
      PROVE  tries'[e] = doc'.progress[e].attempts + unstored'[e]
                         + (IF gp'[p].at \in Running /\ gp'[p].next = e THEN 1 ELSE 0)
  BY <1>1, <1>4 DEF ManagedInv, Counted
<1> QED
  BY <1>1, <1>2, <1>3, <1>5, TickKeeps

\* A verdict lets a capability run again after a retryable failure only below its limit.
LEMMA VerdictIs ==
  ASSUME NEW g \in Documents, NEW e \in Item, NEW due \in BOOLEAN
  PROVE  /\ Verdict(g, e, due) \in {"go", "wait", "blocked"}
         /\ Verdict(g, e, due) = "go" /\ g.progress[e].class = "retryable" /\ Policy[e].max # 0
              => g.progress[e].attempts < Policy[e].max
<1>1. /\ g.progress[e].class \in Class /\ g.progress[e].attempts \in Nat /\ Policy[e].max \in Nat
      /\ Policy[e].pending \in {"retry", "wait", "block", "issue"}
      /\ Policy[e].failure \in {"none", "retry", "wait", "block", "issue"}
  BY GoalAssumption DEF Documents
<1> DEFINE class == g.progress[e].class
<1>2. CASE class = "retryable"
  BY <1>1, <1>2 DEF Verdict, LimitReached
<1>3. CASE class = "pending"
  BY <1>1, <1>3 DEF Verdict
<1>4. CASE class \in {"needsFix", "fatal"}
  BY <1>1, <1>4 DEF Verdict
<1>5. CASE class \in {"none", "succeeded"}
  BY <1>1, <1>5 DEF Verdict
<1> QED
  BY <1>1, <1>2, <1>3, <1>4, <1>5 DEF Class, Terminal

\* The evidence asked for next is one of the goal's.
LEMMA FirstMissingIs ==
  ASSUME NEW g \in Documents
  PROVE  /\ Missing(g) # {} => FirstMissing(g) \in Item
         /\ Missing(g) = {} => g.sat = Item
<1>1. Missing(g) \in SUBSET Nat /\ Missing(g) \subseteq DOMAIN Evidence
  BY GoalAssumption DEF Missing
<1>2. ASSUME Missing(g) # {} PROVE FirstMissing(g) \in Item
  <2>1. \E i \in Missing(g) : \A j \in Missing(g) : i <= j
    BY <1>1, <1>2, LeastNumber
  <2> QED
    BY <1>1, <2>1 DEF FirstMissing, Item
<1>3. ASSUME Missing(g) = {} PROVE g.sat = Item
  BY <1>3 DEF Missing, Satisfied, Documents, Item
<1> QED
  BY <1>2, <1>3

\* Planning changes neither a goal's state nor its evidence, and asks for what the verdict lets go.
LEMMA PlannedIs ==
  ASSUME NEW g \in Documents, NEW due \in BOOLEAN
  PROVE  LET d == Planned(g, due) IN
         /\ d.goal \in Documents /\ d.goal.state = g.state /\ d.goal.sat = g.sat /\ d.goal.progress = g.progress
         /\ d.kind = "done" => g.sat = Item
         /\ d.kind = "dispatch" => d.of \in Item /\ Verdict(g, d.of, due) = "go"
<1> DEFINE d == Planned(g, due)
<1>1. CASE Missing(g) = {}
  <2>1. d.goal = [g EXCEPT !.blocked = FALSE, !.pending = NoGoalItem] /\ d.kind = "done"
    BY <1>1 DEF Planned
  <2>2. [g EXCEPT !.blocked = FALSE, !.pending = NoGoalItem] \in Documents
    BY DEF Documents
  <2> QED
    BY <1>1, <2>1, <2>2, FirstMissingIs DEF Documents
<1>2. CASE Missing(g) # {}
  <2> DEFINE e == FirstMissing(g)
             v == Verdict(g, e, due)
             runnable == e \in Attached /\ Needs[e] \subseteq g.known
             kind == IF v = "go" THEN IF runnable THEN "dispatch" ELSE "blocked" ELSE v
             blocked == kind = "blocked"
             pending == IF kind = "dispatch" THEN e ELSE g.pending
             next == [g EXCEPT !.blocked = blocked, !.pending = pending]
  <2>1. e \in Item
    BY <1>2, FirstMissingIs
  <2>2. v \in {"go", "wait", "blocked"}
    BY <2>1, VerdictIs
  <2>3. d = [kind |-> kind, of |-> e, goal |-> next]
    BY <1>2 DEF Planned
  <2>4. kind # "done" /\ (kind = "dispatch" => v = "go")
    BY <2>2
  <2>5. pending \in Item \cup {NoGoalItem} /\ blocked \in BOOLEAN
    BY <2>1 DEF Documents
  <2> HIDE DEF pending, blocked, kind
  <2>6. next \in Documents /\ next.state = g.state /\ next.sat = g.sat /\ next.progress = g.progress
    BY <2>5 DEF Documents
  <2> HIDE DEF e, v, next
  <2>7. d.kind = kind /\ d.of = e /\ d.goal = next
    BY <2>3
  <2> QED
    BY <2>1, <2>4, <2>6, <2>7 DEF v
<1> QED
  BY <1>1, <1>2

\* A goal is completed with all of its evidence.
LEMMA CompletedIs ==
  ASSUME NEW g \in Documents, Complete(g)
  PROVE  Completed(g) \in Documents /\ Complete(Completed(g)) /\ Completed(g).progress = g.progress
<1>1. CASE g.state = "active" /\ Missing(g) = {}
  <2> DEFINE h == Planned(g, TRUE).goal
  <2>1. h \in Documents /\ h.sat = g.sat /\ h.progress = g.progress
    BY PlannedIs
  <2>2. g.sat = Item
    BY <1>1, FirstMissingIs
  <2>3. Completed(g) = [h EXCEPT !.state = "done"]
    BY <1>1 DEF Completed
  <2> HIDE DEF h
  <2> QED
    BY <2>1, <2>2, <2>3 DEF Documents, Complete
<1>2. CASE ~(g.state = "active" /\ Missing(g) = {})
  BY <1>2 DEF Completed
<1> QED
  BY <1>1, <1>2

\* A result is one attempt of its evidence.
LEMMA AppliedIs ==
  ASSUME NEW g \in Documents, NEW e \in Item, NEW r \in GoalResult
  PROVE  LET h == Applied(g, e, r) IN
         /\ h \in Documents /\ h.state = g.state
         /\ \A i \in Item : i # e => h.progress[i] = g.progress[i]
         /\ h.progress[e].class = r.class /\ h.progress[e].attempts = g.progress[e].attempts + 1
<1> DEFINE sat == IF r.value = "true" \/ (r.value = "none" /\ r.class = "succeeded") THEN g.sat \cup {e}
                  ELSE IF r.value = "false" \/ r.class \in Terminal THEN g.sat \ {e} ELSE g.sat
           known == g.known \cup r.brings
           pending == IF g.pending = e /\ (r.value # "none" \/ r.class \in Terminal) THEN NoGoalItem ELSE g.pending
           blocked == g.blocked \/ r.class \in {"needsFix", "fatal"}
           entry == Attempted(g.progress[e], r)
           progress == [g.progress EXCEPT ![e] = entry]
           h == [g EXCEPT !.sat = sat, !.known = known, !.pending = pending, !.blocked = blocked,
                          !.progress = progress]
<1>1. g.progress \in [Item -> [class : Class, attempts : Nat, issue : BOOLEAN]]
  BY DEF Documents
<1>2. r.class \in Class
  BY GoalAssumption
<1>3. /\ entry \in [class : Class, attempts : Nat, issue : BOOLEAN]
      /\ entry.class = r.class /\ entry.attempts = g.progress[e].attempts + 1
  <2> DEFINE old == g.progress[e]
  <2>1. old \in [class : Class, attempts : Nat, issue : BOOLEAN]
    BY <1>1
  <2> HIDE DEF old
  <2> DEFINE n == old.attempts + 1
             new == [old EXCEPT !.class = r.class, !.attempts = n]
  <2>2. entry = new /\ n \in Nat /\ n = g.progress[e].attempts + 1
    BY <2>1 DEF old, Attempted
  <2> HIDE DEF n, entry
  <2>3. new \in [class : Class, attempts : Nat, issue : BOOLEAN] /\ new.class = r.class /\ new.attempts = n
    BY <1>2, <2>1, <2>2
  <2> QED
    BY <2>2, <2>3
<1>4. Applied(g, e, r) = h
  BY <1>1 DEF Applied, FactsAfter, Documents
<1> HIDE DEF entry
<1>5. /\ progress \in [Item -> [class : Class, attempts : Nat, issue : BOOLEAN]]
      /\ progress[e] = entry /\ \A i \in Item : i # e => progress[i] = g.progress[i]
  BY <1>1, <1>3
<1>6. known \in SUBSET Facts
  BY DEF Documents, Facts
<1>7. sat \in SUBSET Item /\ pending \in Item \cup {NoGoalItem} /\ blocked \in BOOLEAN
  BY DEF Documents
<1> HIDE DEF sat, known, pending, blocked, progress
<1>8. h \in Documents /\ h.state = g.state /\ h.progress = progress
  BY <1>5, <1>6, <1>7 DEF Documents
<1> HIDE DEF h
<1> QED
  BY <1>3, <1>4, <1>5, <1>8

\* A tick that moves on, with all else it holds.
LEMMA GoesTo ==
  ASSUME NEW run \in TickRuns, NEW to \in {"idle", "load", "handoff", "end"} \cup Planning \cup Running,
         NEW fresh \in BOOLEAN
  PROVE  LET q == [run EXCEPT !.at = to]
             f == [run EXCEPT !.fresh = fresh, !.at = to]
         IN  /\ q \in TickRuns /\ q.at = to /\ q.goal = run.goal /\ q.next = run.next /\ q.result = run.result
             /\ f \in TickRuns /\ f.at = to /\ f.goal = run.goal /\ f.next = run.next /\ f.result = run.result
  BY DEF TickRuns

\* A process whose tick is over.
LEMMA LeaveKeeps ==
  ASSUME ManagedInv, NEW p \in GoalProc, ~At(p, "idle"), gp[p].at \notin Running, Leaves(p),
         UNCHANGED <<doc, tracker, tries, soft, unstored, trusted>>, ticks' \in Nat, goalFaults' \in Nat
  PROVE  ManagedInv'
<1>1. Alone(p)
  BY TickFacts
<1>2. Agrees(Asleep) /\ Reported(Asleep)
  BY AsleepType DEF Agrees, Reported, Planning, Running, Reporting
<1>3. Asleep.at \notin Running
  BY AsleepType DEF Running, Reporting
<1> QED
  BY <1>1, <1>2, <1>3, AsleepType, MoveKeeps DEF Leaves

\* Ticks of a goal do not overlap: a tick starts when all processes sleep.
LEMMA TickStartKeeps ==
  ASSUME ManagedInv, Exclusive, NEW p \in GoalProc, StartGoalTick(p)
  PROVE  ManagedInv'
<1>1. gp[p] = Asleep /\ Alone(p)
  BY DEF StartGoalTick, ManagedInv, Placed, At, Alone
<1> DEFINE q == [Asleep EXCEPT !.at = "load"]
<1>2. Moves(p, q) /\ UNCHANGED <<doc, tracker, tries, soft, unstored, trusted>>
  BY <1>1 DEF StartGoalTick, Becomes, History
<1>3. ticks' \in Nat /\ goalFaults' \in Nat
  BY DEF StartGoalTick, ManagedInv, GoalTyped
<1>4. q \in TickRuns /\ q.at = "load" /\ q.next = NoGoalItem
  BY AsleepType, GoesTo
<1> HIDE DEF q
<1>5. Placed(q) /\ Agrees(q) /\ Reported(q)
  BY <1>4 DEF Placed, Agrees, Reported, Planning, Running, Reporting
<1>6. q.at \notin Running /\ gp[p].at \notin Running
  BY <1>1, <1>4, AsleepType DEF Running, Reporting
<1> QED
  BY <1>1, <1>2, <1>3, <1>4, <1>5, <1>6, MoveKeeps

\* A tick holds the stored goal.
LEMMA LoadKeeps ==
  ASSUME ManagedInv, NEW p \in GoalProc, Load(p)
  PROVE  ManagedInv'
<1>1. /\ gp[p].at = "load" /\ ~At(p, "idle") /\ gp[p].at \notin Running
      /\ UNCHANGED <<doc, tracker, tries, soft, unstored, trusted>>
      /\ ticks' \in Nat /\ goalFaults' \in Nat
  BY DEF Load, At, Running, Reporting, History, GoalFails, ManagedInv, GoalTyped
<1>2. CASE Leaves(p)
  BY <1>1, <1>2, LeaveKeeps
<1>3. CASE ~Leaves(p)
  <2> DEFINE to == IF doc.state = "active" THEN "advance" ELSE "token"
             q == [gp[p] EXCEPT !.goal = doc, !.at = to]
  <2>1. Moves(p, q)
    BY <1>3 DEF Load
  <2>2. to \in Planning /\ (to = "advance" => doc.state = "active")
    BY DEF Planning
  <2> HIDE DEF to
  <2>3. gp[p] \in TickRuns /\ doc \in Documents /\ Complete(doc) /\ Alone(p) /\ gp[p].next = NoGoalItem
    BY <1>1, TickFacts DEF Placed
  <2>4. q \in TickRuns /\ q.at = to /\ q.goal = doc /\ q.next = NoGoalItem
    BY <2>2, <2>3 DEF TickRuns
  <2> HIDE DEF q
  <2>5. Placed(q) /\ Agrees(q) /\ Reported(q) /\ q.at \notin Running
    BY <2>2, <2>3, <2>4 DEF Placed, Agrees, Reported, Planning, Running, Reporting
  <2> QED
    BY <1>1, <2>1, <2>3, <2>4, <2>5, MoveKeeps
<1> QED
  BY <1>2, <1>3

\* A tick plans: it hands over below the limit, and is done with all evidence.
LEMMA AdvanceKeeps ==
  ASSUME ManagedInv, NEW p \in GoalProc, Advance(p)
  PROVE  ManagedInv'
<1>1. /\ gp[p].at = "advance" /\ gp[p].at \notin Running /\ ~At(p, "idle")
      /\ UNCHANGED <<doc, tracker, tries, soft, unstored, trusted>>
      /\ ticks' \in Nat /\ goalFaults' \in Nat
  BY DEF Advance, At, Running, Reporting, Steady, History, ManagedInv, GoalTyped
<1>2. PICK due \in BOOLEAN :
        LET g == gp[p].goal
            d == Planned(g, due)
            next == Reached(d.goal, d.kind)
        IN  Moves(p, [gp[p] EXCEPT !.goal = next,
                                   !.next = IF d.kind = "dispatch" /\ trusted THEN d.of ELSE NoGoalItem,
                                   !.at = IF next # g THEN "token"
                                          ELSE IF d.kind = "dispatch" /\ trusted THEN "handoff" ELSE "end"])
  BY DEF Advance
<1> DEFINE g == gp[p].goal
           d == Planned(g, due)
           goal == Reached(d.goal, d.kind)
           next == IF d.kind = "dispatch" /\ trusted THEN d.of ELSE NoGoalItem
           to == IF goal # g THEN "token"
                 ELSE IF d.kind = "dispatch" /\ trusted THEN "handoff" ELSE "end"
           q == [gp[p] EXCEPT !.goal = goal, !.next = next, !.at = to]
<1>3. Moves(p, q)
  BY <1>2
<1>4. /\ gp[p] \in TickRuns /\ Alone(p) /\ g \in Documents /\ Complete(g)
      /\ g.progress = doc.progress /\ doc.state # "done" /\ g.state # "done"
  BY <1>1, TickFacts DEF Placed, Agrees, Planning
<1>5. /\ d.goal \in Documents /\ d.goal.state = g.state /\ d.goal.sat = g.sat /\ d.goal.progress = g.progress
      /\ d.kind = "done" => g.sat = Item
      /\ d.kind = "dispatch" => d.of \in Item /\ Verdict(g, d.of, due) = "go"
  BY <1>4, PlannedIs
<1> HIDE DEF d
<1>6. /\ goal \in Documents /\ goal.progress = doc.progress /\ Complete(goal)
      /\ d.kind # "done" => goal.state # "done"
  <2> DEFINE h == d.goal
  <2> HIDE DEF h
  <2>1. h \in Documents /\ h.state = g.state /\ h.sat = g.sat /\ h.progress = g.progress
    BY <1>5 DEF h
  <2>2. goal = Reached(h, d.kind)
    BY DEF h
  <2>3. CASE d.kind = "done"
    BY <1>4, <1>5, <2>1, <2>2, <2>3 DEF Reached, Documents, Complete
  <2>4. CASE d.kind # "done"
    BY <1>4, <2>1, <2>2, <2>4 DEF Reached, Complete
  <2> QED
    BY <2>3, <2>4
<1>7. /\ next \in Item \cup {NoGoalItem} /\ (next # NoGoalItem => d.kind = "dispatch" /\ next = d.of)
      /\ to \in {"token", "handoff", "end"} /\ (to = "end" => next = NoGoalItem)
  BY <1>5, GoalAssumption
<1>8. ASSUME next # NoGoalItem, Limited(next) PROVE doc.progress[next].attempts < Policy[next].max
  <2>1. next \in Item /\ next \in soft /\ Policy[next].max # 0 /\ Verdict(g, next, due) = "go"
    BY <1>5, <1>7, <1>8 DEF Limited
  <2>2. Policy[next].max \in Nat
    BY <2>1, GoalAssumption
  <2>3. CASE doc.progress[next].class = "retryable"
    BY <1>4, <2>1, <2>3, VerdictIs
  <2>4. CASE doc.progress[next].class = "none"
    BY <2>1, <2>2, <2>4 DEF ManagedInv, SoftFails
  <2> QED
    BY <2>1, <2>3, <2>4 DEF ManagedInv, SoftFails
<1> HIDE DEF goal, next, to
<1>9. q \in TickRuns /\ q.at = to /\ q.goal = goal /\ q.next = next
  BY <1>4, <1>6, <1>7 DEF TickRuns, Planning
<1> HIDE DEF q
<1>10. Placed(q) /\ Agrees(q) /\ Reported(q) /\ q.at \notin Running
  BY <1>4, <1>6, <1>7, <1>8, <1>9 DEF Placed, Agrees, Reported, Planning, Running, Reporting
<1> QED
  BY <1>1, <1>3, <1>4, <1>9, <1>10, MoveKeeps

\* A goal whose issue cannot be prepared is saved as blocked.
LEMMA PrepareKeeps ==
  ASSUME ManagedInv, NEW p \in GoalProc, PrepareFails(p)
  PROVE  ManagedInv'
<1>1. /\ gp[p].at = "advance" /\ gp[p].at \notin Running /\ ~At(p, "idle")
      /\ UNCHANGED <<doc, tracker, tries, soft, unstored, trusted>>
      /\ ticks' \in Nat /\ goalFaults' \in Nat
      /\ Moves(p, [gp[p] EXCEPT !.goal.blocked = TRUE, !.at = "token"])
  BY DEF PrepareFails, At, Running, Reporting, History, GoalFails, ManagedInv, GoalTyped
<1> DEFINE goal == [gp[p].goal EXCEPT !.blocked = TRUE]
           q == [gp[p] EXCEPT !.goal = goal, !.at = "token"]
<1>2. /\ gp[p] \in TickRuns /\ Alone(p) /\ gp[p].goal \in Documents /\ Complete(gp[p].goal)
      /\ gp[p].goal.progress = doc.progress /\ gp[p].next = NoGoalItem
  BY <1>1, TickFacts DEF Placed, Agrees, Planning
<1>3. goal \in Documents /\ goal.progress = doc.progress /\ Complete(goal)
  <2> DEFINE g == gp[p].goal
  <2> HIDE DEF g
  <2>1. g \in Documents /\ Complete(g) /\ g.progress = doc.progress
    BY <1>2 DEF g
  <2>2. [g EXCEPT !.blocked = TRUE] \in Documents /\ [g EXCEPT !.blocked = TRUE].progress = g.progress
        /\ Complete([g EXCEPT !.blocked = TRUE])
    BY <2>1 DEF Documents, Complete
  <2> QED
    BY <2>1, <2>2 DEF g
<1>4. Moves(p, q)
  <2>1. [gp[p] EXCEPT !.goal.blocked = TRUE, !.at = "token"] = q
    BY <1>2 DEF TickRuns
  <2> QED
    BY <1>1, <2>1
<1> HIDE DEF goal
<1>5. q \in TickRuns /\ q.at = "token" /\ q.goal = goal /\ q.next = NoGoalItem
  BY <1>2, <1>3 DEF TickRuns, Planning
<1> HIDE DEF q
<1>6. Placed(q) /\ Agrees(q) /\ Reported(q) /\ q.at \notin Running
  BY <1>3, <1>5 DEF Placed, Agrees, Reported, Planning, Running, Reporting
<1> QED
  BY <1>1, <1>2, <1>4, <1>5, <1>6, MoveKeeps

\* A token is of what is stored now.
LEMMA TokenKeeps ==
  ASSUME ManagedInv, NEW p \in GoalProc, GetToken(p)
  PROVE  ManagedInv'
<1> DEFINE to == IF gp[p].at = "token" THEN "save" ELSE "report save"
           q == [gp[p] EXCEPT !.fresh = TRUE, !.at = to]
<1>1. /\ gp[p].at \in {"token", "report token"} /\ ~At(p, "idle")
      /\ UNCHANGED <<doc, tracker, tries, soft, unstored, trusted>>
      /\ ticks' \in Nat /\ goalFaults' \in Nat /\ Moves(p, q)
  BY DEF GetToken, At, Steady, History, ManagedInv, GoalTyped
<1>2. gp[p] \in TickRuns /\ Alone(p) /\ Placed(gp[p]) /\ Agrees(gp[p]) /\ Reported(gp[p])
  BY <1>1, TickFacts
<1>3. to \in {"save", "report save"} /\ (to = "save" <=> gp[p].at = "token")
  OBVIOUS
<1> HIDE DEF to
<1>4. /\ q \in TickRuns /\ q.at = to /\ q.goal = gp[p].goal /\ q.next = gp[p].next /\ q.result = gp[p].result
  BY <1>2, <1>3 DEF TickRuns, Planning, Running, Reporting
<1> HIDE DEF q
<1>5. Placed(q) /\ Agrees(q) /\ Reported(q) /\ (q.at \in Running <=> gp[p].at \in Running)
  BY <1>1, <1>2, <1>3, <1>4 DEF Placed, Agrees, Reported, Planning, Running, Reporting
<1> QED
  BY <1>1, <1>2, <1>4, <1>5, MoveKeeps

\* A plan that cannot be stored is carried out all the same.
LEMMA CommitFailsKeeps ==
  ASSUME ManagedInv, NEW p \in GoalProc, CommitFails(p)
  PROVE  ManagedInv'
<1> DEFINE to == IF gp[p].next = NoGoalItem THEN "end" ELSE "handoff"
           q == [gp[p] EXCEPT !.at = to]
<1>1. /\ gp[p].at \in {"token", "save"} /\ ~At(p, "idle") /\ gp[p].at \notin Running
      /\ UNCHANGED <<doc, tracker, tries, soft, unstored, trusted>>
      /\ ticks' \in Nat /\ goalFaults' \in Nat /\ Moves(p, q)
  <2>1. gp[p].at \in {"token", "save"} /\ ~At(p, "idle") /\ gp[p].at \notin Running
    BY DEF CommitFails, At, Running, Reporting
  <2>2. UNCHANGED <<doc, tracker, tries, soft, unstored, trusted>> /\ Moves(p, q)
    BY DEF CommitFails, Becomes, History
  <2>3. ticks' \in Nat /\ goalFaults' \in Nat
    BY DEF CommitFails, GoalFails, ManagedInv, GoalTyped
  <2> QED
    BY <2>1, <2>2, <2>3
<1>2. gp[p] \in TickRuns /\ Alone(p) /\ Placed(gp[p]) /\ Agrees(gp[p]) /\ Reported(gp[p])
  BY <1>1, TickFacts
<1>3. to \in {"end", "handoff"} /\ (to = "end" <=> gp[p].next = NoGoalItem)
  OBVIOUS
<1> HIDE DEF to
<1>4. q \in TickRuns /\ q.at = to /\ q.goal = gp[p].goal /\ q.next = gp[p].next /\ q.result = gp[p].result
  BY <1>2, <1>3 DEF TickRuns
<1> HIDE DEF q
<1>5. Placed(q) /\ Agrees(q) /\ Reported(q) /\ q.at \notin Running
  BY <1>1, <1>2, <1>3, <1>4 DEF Placed, Agrees, Reported, Planning, Running, Reporting
<1> QED
  BY <1>1, <1>2, <1>4, <1>5, MoveKeeps

\* What is stored of a plan keeps the stored progress.
LEMMA CommitKeeps ==
  ASSUME ManagedInv, NEW p \in GoalProc, Commit(p)
  PROVE  ManagedInv'
<1> DEFINE to == IF gp[p].next = NoGoalItem THEN "end" ELSE "handoff"
           q == [gp[p] EXCEPT !.at = to]
<1>1. /\ gp[p].at = "save" /\ ~At(p, "idle") /\ Moves(p, q)
      /\ UNCHANGED <<tracker, tries, soft, unstored, trusted, ticks, goalFaults>>
      /\ doc' = IF gp[p].fresh THEN gp[p].goal ELSE doc
  BY DEF Commit, At, Becomes, Steady, History
<1>2. gp[p] \in TickRuns /\ Alone(p) /\ Placed(gp[p]) /\ Agrees(gp[p]) /\ Reported(gp[p]) /\ Complete(doc) /\ doc \in Documents
  BY <1>1, TickFacts
<1>3. to \in {"end", "handoff"} /\ (to = "end" <=> gp[p].next = NoGoalItem)
  OBVIOUS
<1> HIDE DEF to
<1>4. q \in TickRuns /\ q.at = to /\ q.goal = gp[p].goal /\ q.next = gp[p].next /\ q.result = gp[p].result
  BY <1>2, <1>3 DEF TickRuns
<1> HIDE DEF q
<1>5. /\ gp' \in [GoalProc -> TickRuns] /\ gp'[p] = q
      /\ \A x \in GoalProc : x # p => gp'[x] = Asleep
  BY <1>1, <1>2, <1>4, OthersSleep
<1>6. /\ doc' \in Documents /\ Complete(doc)' /\ doc'.progress = doc.progress
      /\ gp[p].next # NoGoalItem => doc'.state # "done"
  BY <1>1, <1>2 DEF Placed, Agrees, Planning, Complete
<1>7. GoalTyped'
  BY <1>1, <1>5, <1>6 DEF ManagedInv, GoalTyped
<1>8. SoftFails' /\ FiledOnce'
  BY <1>1, <1>6 DEF ManagedInv, SoftFails, FiledOnce
<1>9. Placed(gp[p])' /\ Agrees(gp[p])' /\ Reported(gp[p])'
  BY <1>1, <1>2, <1>3, <1>4, <1>5, <1>6
     DEF Placed, Agrees, Reported, Planning, Running, Reporting, Complete, Limited
<1>10. \A e : Now(e) = 0
  BY <1>1, <1>2, AsleepType DEF Alone, Now, Running, Reporting
<1>11. gp'[p].at \notin Running
  BY <1>3, <1>4, <1>5 DEF Running, Reporting
<1>12. \A e \in Item : tries'[e] = doc'.progress[e].attempts + unstored'[e]
                                     + (IF gp'[p].at \in Running /\ gp'[p].next = e THEN 1 ELSE 0)
  BY <1>1, <1>6, <1>10, <1>11 DEF ManagedInv, Counted
<1> QED
  BY <1>5, <1>6, <1>7, <1>8, <1>9, <1>12, TickKeeps

\* A hand-over is one more run of a capability, of which nothing is stored yet.
LEMMA HandOffKeeps ==
  ASSUME ManagedInv, NEW p \in GoalProc, HandOff(p)
  PROVE  ManagedInv'
<1>1. /\ gp[p].at = "handoff" /\ ~At(p, "idle") /\ gp[p].at \notin Running
      /\ UNCHANGED <<doc, tracker, soft, unstored, trusted, ticks, goalFaults>>
      /\ ticks \in Nat /\ goalFaults \in Nat
  BY DEF HandOff, At, Steady, ManagedInv, GoalTyped, Running, Reporting
<1>2. gp[p] \in TickRuns /\ Alone(p) /\ Placed(gp[p]) /\ Agrees(gp[p]) /\ Reported(gp[p]) /\ Complete(doc) /\ doc \in Documents
  BY <1>1, TickFacts
<1>3. CASE ~(gp[p].hops < MaxHops)
  BY <1>1, <1>3, LeaveKeeps DEF HandOff
<1> DEFINE hops == gp[p].hops + 1
           to == IF gp[p].next = NoGoalItem THEN "load" ELSE "capability"
           q == [gp[p] EXCEPT !.hops = hops, !.at = to]
<1>4. ASSUME gp[p].hops < MaxHops
      PROVE  /\ Moves(p, q) /\ tries' = IF gp[p].next = NoGoalItem THEN tries ELSE [tries EXCEPT ![gp[p].next] = @ + 1]
             /\ hops \in Nat /\ to \in {"load", "capability"} /\ (to = "load" <=> gp[p].next = NoGoalItem)
  BY <1>2, <1>4 DEF HandOff, TickRuns
<1> HIDE DEF hops, to
<1>5. ASSUME gp[p].hops < MaxHops
      PROVE  q \in TickRuns /\ q.at = to /\ q.goal = gp[p].goal /\ q.next = gp[p].next /\ q.result = gp[p].result
  BY <1>2, <1>4, <1>5 DEF TickRuns, Running
<1> HIDE DEF q
<1>6. ASSUME gp[p].hops < MaxHops
      PROVE  Placed(q) /\ Agrees(q) /\ Reported(q) /\ (gp[p].next # NoGoalItem => gp[p].next \in Item)
  BY <1>1, <1>2, <1>4, <1>5, <1>6 DEF Placed, Agrees, Reported, Planning, Running, Reporting, TickRuns
<1>7. CASE gp[p].hops < MaxHops /\ gp[p].next = NoGoalItem
  <2>1. q.at \notin Running
    BY <1>4, <1>5, <1>7 DEF Running, Reporting
  <2> QED
    BY <1>1, <1>2, <1>4, <1>5, <1>6, <1>7, <2>1, MoveKeeps
<1>8. CASE gp[p].hops < MaxHops /\ gp[p].next # NoGoalItem
  <2>1. /\ gp' \in [GoalProc -> TickRuns] /\ gp'[p] = q
        /\ \A x \in GoalProc : x # p => gp'[x] = Asleep
    BY <1>2, <1>4, <1>5, <1>8, OthersSleep
  <2>2. tries' = [tries EXCEPT ![gp[p].next] = @ + 1] /\ gp[p].next \in Item /\ tries \in [Item -> Nat]
    BY <1>4, <1>6, <1>8 DEF ManagedInv, GoalTyped
  <2>3. GoalTyped' /\ Complete(doc)' /\ SoftFails' /\ FiledOnce'
    BY <1>1, <2>1, <2>2 DEF ManagedInv, GoalTyped, Complete, SoftFails, FiledOnce
  <2>4. Placed(gp[p])' /\ Agrees(gp[p])' /\ Reported(gp[p])'
    BY <1>1, <1>6, <1>8, <2>1 DEF Placed, Agrees, Reported, Complete, Limited
  <2>5. \A e : Now(e) = 0
    BY <1>1, <1>2, AsleepType DEF Alone, Now, Running, Reporting
  <2>6. q.at \in Running /\ q.next = gp[p].next
    BY <1>4, <1>5, <1>8 DEF Running
  <2>7. \A e \in Item : doc.progress[e].attempts \in Nat /\ unstored[e] \in Nat
    BY <1>2 DEF Documents, ManagedInv, GoalTyped
  <2>8. ASSUME NEW e \in Item
        PROVE  tries'[e] = doc'.progress[e].attempts + unstored'[e]
                           + (IF gp'[p].at \in Running /\ gp'[p].next = e THEN 1 ELSE 0)
    <3>1. tries[e] = doc.progress[e].attempts + unstored[e]
      BY <2>5, <2>7 DEF ManagedInv, Counted
    <3> QED
      BY <1>1, <2>1, <2>2, <2>6, <2>7, <3>1
  <2> QED
    BY <2>1, <2>3, <2>4, <2>8, TickKeeps
<1> QED
  BY <1>3, <1>7, <1>8, <1>2 DEF TickRuns

\* A capability reports: only a retryable failure leaves its evidence soft.
LEMMA PerformKeeps ==
  ASSUME ManagedInv, NEW p \in GoalProc, Perform(p)
  PROVE  ManagedInv'
<1>1. /\ gp[p].at = "capability" /\ ~At(p, "idle")
      /\ UNCHANGED <<doc, tracker, tries, unstored, trusted, ticks, goalFaults>>
  BY DEF Perform, At, Steady
<1>2. PICK r \in GoalResult :
       /\ Moves(p, [gp[p] EXCEPT !.result = r, !.at = "fetch"])
       /\ soft' = IF r.class = "retryable" THEN soft ELSE soft \ {gp[p].next}
  BY DEF Perform
<1> DEFINE q == [gp[p] EXCEPT !.result = r, !.at = "fetch"]
<1>3. gp[p] \in TickRuns /\ Alone(p) /\ Placed(gp[p]) /\ Agrees(gp[p]) /\ Complete(doc) /\ doc \in Documents
  BY <1>1, TickFacts
<1>4. q \in TickRuns /\ q.at = "fetch" /\ q.goal = gp[p].goal /\ q.next = gp[p].next /\ q.result = r
  BY <1>3 DEF TickRuns, Running
<1>5. Moves(p, q)
  BY <1>2
<1> HIDE DEF q
<1>6. /\ gp' \in [GoalProc -> TickRuns] /\ gp'[p] = q
      /\ \A x \in GoalProc : x # p => gp'[x] = Asleep
  BY <1>3, <1>4, <1>5, OthersSleep
<1>7. soft' \subseteq soft /\ (gp[p].next \in soft' => r.class = "retryable")
  BY <1>2
<1>8. GoalTyped' /\ Complete(doc)' /\ SoftFails' /\ FiledOnce'
  BY <1>1, <1>6, <1>7 DEF ManagedInv, GoalTyped, Complete, SoftFails, FiledOnce
<1>9. Placed(gp[p])' /\ Agrees(gp[p])' /\ Reported(gp[p])'
  BY <1>1, <1>3, <1>4, <1>6, <1>7
     DEF Placed, Agrees, Reported, Planning, Running, Reporting, Complete, Limited
<1>10. \A e : Now(e) = IF gp[p].next = e THEN 1 ELSE 0
  BY <1>1, <1>3, AsleepType DEF Alone, Now, Running, Reporting
<1>11. \A e \in Item : tries'[e] = doc'.progress[e].attempts + unstored'[e]
                                     + (IF gp'[p].at \in Running /\ gp'[p].next = e THEN 1 ELSE 0)
  BY <1>1, <1>4, <1>6, <1>10 DEF ManagedInv, Counted, Running
<1> QED
  BY <1>6, <1>8, <1>9, <1>11, TickKeeps

\* An issue is noted with its evidence.
LEMMA IssueNoted ==
  ASSUME NEW g \in Documents, NEW e \in Item
  PROVE  LET h == [g EXCEPT !.progress[e].issue = TRUE] IN
         /\ h \in Documents /\ h.state = g.state /\ (Complete(g) => Complete(h))
         /\ \A i \in Item : i # e => h.progress[i] = g.progress[i]
         /\ h.progress[e].class = g.progress[e].class /\ h.progress[e].attempts = g.progress[e].attempts
<1> DEFINE entry == [g.progress[e] EXCEPT !.issue = TRUE]
           progress == [g.progress EXCEPT ![e] = entry]
           h == [g EXCEPT !.progress = progress]
<1>1. g.progress \in [Item -> [class : Class, attempts : Nat, issue : BOOLEAN]]
  BY DEF Documents
<1>2. /\ entry \in [class : Class, attempts : Nat, issue : BOOLEAN]
      /\ entry.class = g.progress[e].class /\ entry.attempts = g.progress[e].attempts
  BY <1>1
<1>3. [g EXCEPT !.progress[e].issue = TRUE] = h
  BY <1>1 DEF Documents
<1> HIDE DEF entry
<1>4. /\ progress \in [Item -> [class : Class, attempts : Nat, issue : BOOLEAN]]
      /\ progress[e] = entry /\ \A i \in Item : i # e => progress[i] = g.progress[i]
  BY <1>1, <1>2
<1> HIDE DEF progress
<1>5. h \in Documents /\ h.state = g.state /\ h.sat = g.sat /\ h.progress = progress
  BY <1>4 DEF Documents
<1> HIDE DEF h
<1> QED
  BY <1>2, <1>3, <1>4, <1>5 DEF Complete

\* A report is prepared from the stored goal: one more attempt, and done only
\* with all evidence.
LEMMA ReportKeeps ==
  ASSUME ManagedInv, NEW p \in GoalProc, Report(p)
  PROVE  ManagedInv'
<1> DEFINE e == gp[p].next
           r == gp[p].result
           g == Applied(doc, e, r)
           asks == r.class = "needsFix" /\ ~g.progress[e].issue
           goal == IF asks THEN g ELSE Completed(g)
           to == IF asks THEN "search" ELSE "report token"
           q == [gp[p] EXCEPT !.goal = goal, !.at = to]
<1>1. /\ gp[p].at = "fetch" /\ ~At(p, "idle") /\ Moves(p, q)
      /\ UNCHANGED <<doc, tracker, tries, soft, unstored, trusted, ticks, goalFaults>>
  BY DEF Report, At, Steady, History
<1>2. /\ gp[p] \in TickRuns /\ Alone(p) /\ Placed(gp[p]) /\ Agrees(gp[p]) /\ Reported(gp[p]) /\ doc \in Documents
      /\ e \in Item /\ r \in GoalResult /\ e # NoGoalItem /\ doc.state # "done"
  BY <1>1, TickFacts, GoalAssumption DEF Placed, Agrees, Running
<1>3. /\ g \in Documents /\ g.state = doc.state
      /\ \A i \in Item : i # e => g.progress[i] = doc.progress[i]
      /\ g.progress[e].class = r.class /\ g.progress[e].attempts = doc.progress[e].attempts + 1
  BY <1>2, AppliedIs
<1> HIDE DEF g
<1>4. Complete(g)
  BY <1>2, <1>3 DEF Complete
<1>5. goal \in Documents /\ Complete(goal) /\ goal.progress = g.progress
  BY <1>3, <1>4, CompletedIs
<1>6. to \in {"search", "report token"}
  OBVIOUS
<1> HIDE DEF goal, to
<1>7. q \in TickRuns /\ q.at = to /\ q.goal = goal /\ q.next = e /\ q.result = r
  BY <1>2, <1>5, <1>6 DEF TickRuns, Running, Reporting
<1> HIDE DEF q
<1>8. Placed(q) /\ Agrees(q) /\ Reported(q) /\ q.at \in Running /\ gp[p].at \in Running
  BY <1>1, <1>2, <1>3, <1>5, <1>6, <1>7 DEF Placed, Agrees, Reported, Planning, Running, Reporting
<1>9. ticks' \in Nat /\ goalFaults' \in Nat
  BY <1>1 DEF ManagedInv, GoalTyped
<1> QED
  BY <1>1, <1>2, <1>7, <1>8, <1>9, MoveKeeps

\* The goal with the issue noted, on its way to be stored.
LEMMA NotedGoal ==
  ASSUME ManagedInv, NEW p \in GoalProc, gp[p].at \in {"search", "create"}
  PROVE  LET goal == Completed([gp[p].goal EXCEPT !.progress[gp[p].next].issue = TRUE])
             q == [gp[p] EXCEPT !.goal = goal, !.at = "report token"]
         IN  /\ q \in TickRuns /\ q.at = "report token" /\ q.next = gp[p].next /\ q.next \in Item
             /\ Placed(q) /\ Agrees(q) /\ Reported(q)
<1> DEFINE e == gp[p].next
           g == gp[p].goal
           h == [g EXCEPT !.progress[e].issue = TRUE]
           goal == Completed(h)
           q == [gp[p] EXCEPT !.goal = goal, !.at = "report token"]
<1>1. /\ gp[p] \in TickRuns /\ Placed(gp[p]) /\ Agrees(gp[p]) /\ Reported(gp[p]) /\ doc \in Documents
      /\ e \in Item /\ gp[p].result \in GoalResult /\ e # NoGoalItem /\ g \in Documents /\ Complete(g)
  BY TickFacts, GoalAssumption DEF Placed, Agrees, Running, Reporting
<1>2. /\ h \in Documents /\ Complete(h)
      /\ \A i \in Item : i # e => h.progress[i] = g.progress[i]
      /\ h.progress[e].class = g.progress[e].class /\ h.progress[e].attempts = g.progress[e].attempts
  BY <1>1, IssueNoted
<1> HIDE DEF h
<1>3. goal \in Documents /\ Complete(goal) /\ goal.progress = h.progress
  BY <1>2, CompletedIs
<1> HIDE DEF goal
<1>4. q \in TickRuns /\ q.at = "report token" /\ q.goal = goal /\ q.next = e /\ q.result = gp[p].result
  BY <1>1, <1>3 DEF TickRuns, Running, Reporting
<1> HIDE DEF q
<1>5. Placed(q) /\ Agrees(q)
  BY <1>1, <1>3, <1>4 DEF Placed, Agrees, Planning, Running, Reporting
<1>6. Reported(q)
  BY <1>1, <1>2, <1>3, <1>4 DEF Reported, Running, Reporting
<1> QED
  BY <1>1, <1>4, <1>5, <1>6 DEF goal, h, q

\* An issue is looked for first.
LEMMA SearchKeeps ==
  ASSUME ManagedInv, NEW p \in GoalProc, SearchIssue(p)
  PROVE  ManagedInv'
<1>1. /\ gp[p].at = "search" /\ ~At(p, "idle") /\ gp[p].at \in Running
      /\ UNCHANGED <<doc, tracker, tries, soft, unstored, trusted, ticks, goalFaults>>
  BY DEF SearchIssue, At, Steady, History, Running, Reporting
<1>2. /\ gp[p] \in TickRuns /\ Alone(p) /\ Placed(gp[p]) /\ Agrees(gp[p]) /\ Reported(gp[p])
      /\ gp[p].next \in Item
  BY <1>1, TickFacts DEF Placed
<1>3. ticks' \in Nat /\ goalFaults' \in Nat /\ tracker[gp[p].next] \in Nat
  BY <1>1, <1>2 DEF ManagedInv, GoalTyped
<1>4. CASE tracker[gp[p].next] > 0
  <2> DEFINE goal == Completed([gp[p].goal EXCEPT !.progress[gp[p].next].issue = TRUE])
             q == [gp[p] EXCEPT !.goal = goal, !.at = "report token"]
  <2>1. Moves(p, q)
    BY <1>4 DEF SearchIssue
  <2>2. /\ q \in TickRuns /\ q.at = "report token" /\ q.next = gp[p].next
        /\ Placed(q) /\ Agrees(q) /\ Reported(q)
    BY <1>1, NotedGoal
  <2> HIDE DEF q
  <2>3. q.at \in Running
    BY <2>2 DEF Running, Reporting
  <2> QED
    BY <1>1, <1>2, <1>3, <2>1, <2>2, <2>3, MoveKeeps
<1>5. CASE ~(tracker[gp[p].next] > 0)
  <2> DEFINE q == [gp[p] EXCEPT !.at = "create"]
  <2>1. Moves(p, q)
    BY <1>5 DEF SearchIssue, Becomes
  <2>2. q \in TickRuns /\ q.at = "create" /\ q.goal = gp[p].goal /\ q.next = gp[p].next /\ q.result = gp[p].result
    BY <1>2 DEF TickRuns, Running, Reporting
  <2>3. tracker[gp[p].next] = 0
    BY <1>3, <1>5
  <2> HIDE DEF q
  <2>4. Placed(q) /\ Agrees(q) /\ Reported(q) /\ q.at \in Running
    BY <1>1, <1>2, <2>2, <2>3 DEF Placed, Agrees, Reported, Planning, Running, Reporting
  <2> QED
    BY <1>1, <1>2, <1>3, <2>1, <2>2, <2>4, MoveKeeps
<1> QED
  BY <1>4, <1>5

\* An issue is created where none was.
LEMMA CreateKeeps ==
  ASSUME ManagedInv, NEW p \in GoalProc, CreateIssue(p)
  PROVE  ManagedInv'
<1> DEFINE goal == Completed([gp[p].goal EXCEPT !.progress[gp[p].next].issue = TRUE])
           q == [gp[p] EXCEPT !.goal = goal, !.at = "report token"]
<1>1. /\ gp[p].at = "create" /\ ~At(p, "idle") /\ Moves(p, q)
      /\ UNCHANGED <<doc, tries, soft, unstored, trusted, ticks, goalFaults>>
      /\ tracker' = [tracker EXCEPT ![gp[p].next] = @ + 1]
  BY DEF CreateIssue, At, Steady, History
<1>2. /\ q \in TickRuns /\ q.at = "report token" /\ q.next = gp[p].next /\ q.next \in Item
      /\ Placed(q) /\ Agrees(q) /\ Reported(q) /\ Alone(p)
  BY <1>1, NotedGoal, TickFacts
<1> HIDE DEF q
<1>3. /\ gp' \in [GoalProc -> TickRuns] /\ gp'[p] = q
      /\ \A x \in GoalProc : x # p => gp'[x] = Asleep
  BY <1>1, <1>2, OthersSleep
<1>4. tracker[gp[p].next] = 0 /\ tracker \in [Item -> Nat]
  BY <1>1, TickFacts DEF Reported, ManagedInv, GoalTyped
<1>5. tracker' \in [Item -> Nat] /\ FiledOnce'
  <2>1. gp[p].next \in Item /\ tracker[gp[p].next] + 1 = 1
    <3>1. gp[p].next \in Item
      BY <1>2
    <3>2. tracker[gp[p].next] + 1 = 1
      BY <1>4
    <3> QED
      BY <3>1, <3>2
  <2>2. tracker' = [tracker EXCEPT ![gp[p].next] = 1]
    BY <1>1, <2>1
  <2>3. tracker' \in [Item -> Nat] /\ \A e \in Item : tracker'[e] = IF e = gp[p].next THEN 1 ELSE tracker[e]
    BY <1>4, <2>1, <2>2
  <2> QED
    BY <2>3 DEF ManagedInv, FiledOnce
<1>6. GoalTyped' /\ Complete(doc)' /\ SoftFails'
  BY <1>1, <1>3, <1>5 DEF ManagedInv, GoalTyped, Complete, SoftFails
<1>7. Placed(gp[p])' /\ Agrees(gp[p])' /\ Reported(gp[p])'
  BY <1>1, <1>2, <1>3 DEF Placed, Agrees, Reported, Planning, Running, Reporting, Complete, Limited
<1>8. \A e : Now(e) = IF gp[p].next = e THEN 1 ELSE 0
  BY <1>1, <1>2, AsleepType DEF Alone, Now, Running, Reporting
<1>9. \A e \in Item : tries'[e] = doc'.progress[e].attempts + unstored'[e]
                                    + (IF gp'[p].at \in Running /\ gp'[p].next = e THEN 1 ELSE 0)
  BY <1>1, <1>2, <1>3, <1>8 DEF ManagedInv, Counted, Running, Reporting
<1> QED
  BY <1>3, <1>5, <1>6, <1>7, <1>9, TickKeeps

\* A result is stored with its attempt, or lost.
LEMMA StoreKeeps ==
  ASSUME ManagedInv, NEW p \in GoalProc, StoreReport(p)
  PROVE  ManagedInv'
<1>1. /\ gp[p].at = "report save" /\ ~At(p, "idle")
      /\ UNCHANGED <<tracker, tries, soft, trusted, ticks, goalFaults>>
  BY DEF StoreReport, At, Steady
<1>2. /\ gp[p] \in TickRuns /\ Alone(p) /\ Placed(gp[p]) /\ Agrees(gp[p]) /\ Reported(gp[p]) /\ Complete(doc)
      /\ doc \in Documents /\ gp[p].next \in Item /\ gp[p].result \in GoalResult /\ gp[p].next # NoGoalItem
      /\ gp[p].goal \in Documents /\ Complete(gp[p].goal)
  BY <1>1, TickFacts, GoalAssumption DEF Placed, Running, Reporting
<1> DEFINE e == gp[p].next
           g == gp[p].goal
<1>3. /\ \A i \in Item : i # e => g.progress[i] = doc.progress[i]
      /\ g.progress[e].class = gp[p].result.class /\ g.progress[e].attempts = doc.progress[e].attempts + 1
      /\ e \in soft => gp[p].result.class = "retryable"
      /\ Limited(e) => doc.progress[e].attempts < Policy[e].max
  BY <1>1, <1>2 DEF Reported, Agrees, Running, Reporting
<1>4. \A i : Now(i) = IF e = i THEN 1 ELSE 0
  BY <1>1, <1>2, AsleepType DEF Alone, Now, Running, Reporting
<1>5. \A i \in Item : doc.progress[i].attempts \in Nat /\ unstored[i] \in Nat /\ Policy[i].max \in Nat
  BY <1>2, GoalAssumption DEF Documents, ManagedInv, GoalTyped
<1>6. \A i \in Item : tries[i] = doc.progress[i].attempts + unstored[i] + (IF e = i THEN 1 ELSE 0)
  BY <1>4 DEF ManagedInv, Counted
<1>7. CASE gp[p].fresh
  <2>1. doc' = g /\ unstored' = unstored
    BY <1>7 DEF StoreReport
  <2>2. PICK due \in BOOLEAN : Moves(p, [Asleep EXCEPT !.hops = gp[p].hops,
                                           !.at = IF Resumes(g, due) THEN "handoff" ELSE "end"])
    BY <1>7 DEF StoreReport
  <2> DEFINE to == IF Resumes(g, due) THEN "handoff" ELSE "end"
             q == [Asleep EXCEPT !.hops = gp[p].hops, !.at = to]
  <2>3. to \in {"handoff", "end"} /\ Moves(p, q)
    BY <2>2
  <2> HIDE DEF to
  <2>4. q \in TickRuns /\ q.at = to /\ q.next = NoGoalItem
    BY <1>2, <2>3, AsleepType DEF TickRuns
  <2> HIDE DEF q
  <2>5. /\ gp' \in [GoalProc -> TickRuns] /\ gp'[p] = q
        /\ \A x \in GoalProc : x # p => gp'[x] = Asleep
    BY <1>2, <2>3, <2>4, OthersSleep
  <2>6. GoalTyped' /\ Complete(doc)' /\ FiledOnce'
    BY <1>1, <1>2, <2>1, <2>5 DEF ManagedInv, GoalTyped, Complete, FiledOnce
  <2>7. SoftFails'
    <3> SUFFICES ASSUME NEW i \in soft
                 PROVE  /\ g.progress[i].class \in {"none", "retryable"}
                        /\ g.progress[i].class = "none" => g.progress[i].attempts = 0
                        /\ Policy[i].max # 0 => g.progress[i].attempts <= Policy[i].max
      BY <1>1, <2>1 DEF SoftFails
    <3>1. i \in Item
      BY DEF ManagedInv, GoalTyped
    <3>2. CASE i = e
      BY <1>3, <1>5, <3>1, <3>2 DEF Limited
    <3>3. CASE i # e
      BY <1>3, <3>1, <3>3 DEF ManagedInv, SoftFails
    <3> QED
      BY <3>2, <3>3
  <2>8. Placed(gp[p])' /\ Agrees(gp[p])' /\ Reported(gp[p])' /\ gp'[p].at \notin Running
    BY <2>3, <2>4, <2>5 DEF Placed, Agrees, Reported, Planning, Running, Reporting
  <2>9. ASSUME NEW i \in Item
        PROVE  tries'[i] = doc'.progress[i].attempts + unstored'[i]
                           + (IF gp'[p].at \in Running /\ gp'[p].next = i THEN 1 ELSE 0)
    <3>1. tries'[i] = doc.progress[i].attempts + unstored[i] + (IF e = i THEN 1 ELSE 0)
      BY <1>1, <1>6
    <3>2. CASE i = e
      <4>1. g.progress[i].attempts = doc.progress[i].attempts + 1
        BY <1>3, <3>2
      <4> QED
        BY <1>5, <2>1, <2>8, <3>1, <3>2, <4>1
    <3>3. CASE i # e
      <4>1. g.progress[i].attempts = doc.progress[i].attempts
        BY <1>3, <3>3
      <4> QED
        BY <1>5, <2>1, <2>8, <3>1, <3>3, <4>1
    <3> QED
      BY <3>2, <3>3
  <2> QED
    BY <2>5, <2>6, <2>7, <2>8, <2>9, TickKeeps
<1>8. CASE ~gp[p].fresh
  <2>1. doc' = doc /\ unstored' = [unstored EXCEPT ![e] = @ + 1] /\ Moves(p, Asleep)
    BY <1>2, <1>8, GoalAssumption DEF StoreReport, Loses, Leaves
  <2>2. /\ gp' \in [GoalProc -> TickRuns] /\ gp'[p] = Asleep
        /\ \A x \in GoalProc : x # p => gp'[x] = Asleep
    BY <1>2, <2>1, AsleepType, OthersSleep
  <2>0. unstored \in [Item -> Nat] /\ unstored[e] + 1 \in Nat
    BY <1>2, <1>5 DEF ManagedInv, GoalTyped
  <2>9. unstored' \in [Item -> Nat] /\ \A i \in Item : unstored'[i] = IF i = e THEN unstored[e] + 1 ELSE unstored[i]
    BY <1>2, <2>0, <2>1
  <2>3. GoalTyped' /\ Complete(doc)' /\ FiledOnce' /\ SoftFails'
    BY <1>1, <1>2, <2>1, <2>2, <2>9 DEF ManagedInv, GoalTyped, Complete, FiledOnce, SoftFails
  <2>4. Placed(gp[p])' /\ Agrees(gp[p])' /\ Reported(gp[p])' /\ gp'[p].at \notin Running
    BY <2>2, AsleepType DEF Placed, Agrees, Reported, Planning, Running, Reporting
  <2>6. ASSUME NEW i \in Item
        PROVE  tries'[i] = doc'.progress[i].attempts + unstored'[i]
                           + (IF gp'[p].at \in Running /\ gp'[p].next = i THEN 1 ELSE 0)
    <3>1. tries'[i] = doc.progress[i].attempts + unstored[i] + (IF e = i THEN 1 ELSE 0)
      BY <1>1, <1>6
    <3>2. unstored'[i] = unstored[i] + (IF e = i THEN 1 ELSE 0)
      BY <1>5, <2>9
    <3> QED
      BY <1>5, <2>1, <2>4, <3>1, <3>2
  <2> QED
    BY <2>2, <2>3, <2>4, <2>6, TickKeeps
<1> QED
  BY <1>7, <1>8

\* What a process that dies had under way is lost.
LEMMA InterruptedKeeps ==
  ASSUME ManagedInv, NEW p \in GoalProc, Interrupted(p)
  PROVE  ManagedInv'
<1>1. /\ ~At(p, "idle") /\ Moves(p, Asleep) /\ ticks' \in Nat /\ goalFaults' \in Nat
      /\ UNCHANGED <<doc, tracker, trusted, tries, soft>>
      /\ unstored' = IF gp[p].next = NoGoalItem \/ gp[p].at \in {"token", "save", "handoff"}
                     THEN unstored ELSE [unstored EXCEPT ![gp[p].next] = @ + 1]
  BY DEF Interrupted, Leaves, GoalFails, ManagedInv, GoalTyped
<1>2. /\ gp[p] \in TickRuns /\ Alone(p) /\ Placed(gp[p]) /\ doc \in Documents /\ Complete(doc)
  BY <1>1, TickFacts
<1>3. /\ gp' \in [GoalProc -> TickRuns] /\ gp'[p] = Asleep
      /\ \A x \in GoalProc : x # p => gp'[x] = Asleep
  BY <1>1, <1>2, AsleepType, OthersSleep
<1>4. Placed(gp[p])' /\ Agrees(gp[p])' /\ Reported(gp[p])' /\ gp'[p].at \notin Running
  BY <1>3, AsleepType DEF Placed, Agrees, Reported, Planning, Running, Reporting
<1>5. \A i : Now(i) = IF gp[p].at \in Running /\ gp[p].next = i THEN 1 ELSE 0
  BY <1>2, AsleepType DEF Alone, Now, Running, Reporting
<1>6. \A i \in Item : doc.progress[i].attempts \in Nat /\ unstored[i] \in Nat
  BY <1>2 DEF Documents, ManagedInv, GoalTyped
<1>7. unstored \in [Item -> Nat] /\ \A i \in Item : tries[i] = doc.progress[i].attempts + unstored[i] + Now(i)
  BY DEF ManagedInv, GoalTyped, Counted
<1>9. ASSUME unstored' \in [Item -> Nat],
             \A i \in Item : tries[i] = doc.progress[i].attempts + unstored'[i]
      PROVE  ManagedInv'
  <2>1. GoalTyped' /\ Complete(doc)' /\ FiledOnce' /\ SoftFails'
    BY <1>1, <1>3, <1>9 DEF ManagedInv, GoalTyped, Complete, FiledOnce, SoftFails
  <2>2. ASSUME NEW i \in Item
        PROVE  tries'[i] = doc'.progress[i].attempts + unstored'[i]
                           + (IF gp'[p].at \in Running /\ gp'[p].next = i THEN 1 ELSE 0)
    BY <1>1, <1>4, <1>6, <1>9
  <2> QED
    BY <1>3, <1>4, <2>1, <2>2, TickKeeps
<1>8. CASE gp[p].at \in Running
  <2>1. gp[p].next \in Item /\ gp[p].next # NoGoalItem /\ gp[p].at \notin {"token", "save", "handoff"}
    BY <1>2, <1>8, GoalAssumption DEF Placed, Running, Reporting
  <2>2. unstored' = [unstored EXCEPT ![gp[p].next] = @ + 1]
    BY <1>1, <2>1
  <2>3. unstored' \in [Item -> Nat]
    BY <1>7, <2>1, <2>2
  <2>4. ASSUME NEW i \in Item PROVE tries[i] = doc.progress[i].attempts + unstored'[i]
    <3>1. unstored'[i] = unstored[i] + (IF gp[p].next = i THEN 1 ELSE 0)
      BY <1>6, <1>7, <2>1, <2>2
    <3>2. tries[i] = doc.progress[i].attempts + unstored[i] + (IF gp[p].next = i THEN 1 ELSE 0)
      BY <1>5, <1>7, <1>8
    <3> QED
      BY <1>6, <3>1, <3>2
  <2> QED
    BY <1>9, <2>3, <2>4
<1>10. CASE gp[p].at \notin Running
  <2>1. unstored' = unstored
    BY <1>1, <1>2, <1>10 DEF Placed, At, TickRuns, Planning
  <2>2. \A i \in Item : Now(i) = 0
    BY <1>5, <1>10
  <2>3. ASSUME NEW i \in Item PROVE tries[i] = doc.progress[i].attempts + unstored'[i]
    BY <1>6, <1>7, <2>1, <2>2
  <2> QED
    BY <1>7, <1>9, <2>1, <2>3
<1> QED
  BY <1>8, <1>10

\* An operator's decision takes the token of who is about to write.
LEMMA AbandonKeeps ==
  ASSUME ManagedInv, Abandon
  PROVE  ManagedInv'
<1> DEFINE g == [doc EXCEPT !.state = "abandoned"]
<1>1. /\ doc' = g /\ UNCHANGED <<tracker, tries, soft, unstored, trusted, ticks, goalFaults>>
      /\ gp' = [p \in GoalProc |-> [gp[p] EXCEPT !.fresh = FALSE]]
  BY DEF Abandon, Steady, History
<1>2. g \in Documents /\ g.state = "abandoned" /\ g.progress = doc.progress
  BY DEF ManagedInv, GoalTyped, Documents
<1> HIDE DEF g
<1>3. ASSUME NEW p \in GoalProc
      PROVE  /\ gp'[p] \in TickRuns /\ gp'[p].at = gp[p].at /\ gp'[p].goal = gp[p].goal
             /\ gp'[p].next = gp[p].next /\ gp'[p].result = gp[p].result
             /\ gp[p] = Asleep => gp'[p] = Asleep
  <2>1. gp[p] \in TickRuns /\ gp'[p] = [gp[p] EXCEPT !.fresh = FALSE]
    BY <1>1 DEF ManagedInv, GoalTyped
  <2>2. [Asleep EXCEPT !.fresh = FALSE] = Asleep
    BY AsleepType DEF TickRuns
  <2>3. gp'[p] \in TickRuns /\ gp'[p].at = gp[p].at /\ gp'[p].goal = gp[p].goal
        /\ gp'[p].next = gp[p].next /\ gp'[p].result = gp[p].result
    BY <2>1 DEF TickRuns
  <2> QED
    BY <2>1, <2>2, <2>3
<1>4. gp' \in [GoalProc -> TickRuns]
  BY <1>1, <1>3
<1>5. GoalTyped' /\ Complete(doc)' /\ SoftFails' /\ FiledOnce'
  BY <1>1, <1>2, <1>4 DEF ManagedInv, GoalTyped, Complete, SoftFails, FiledOnce
<1>6. OneTick'
  BY <1>3 DEF ManagedInv, OneTick
<1>7. \A e : Now(e)' = Now(e)
  BY <1>3 DEF Now
<1>8. Counted'
  BY <1>1, <1>2, <1>7 DEF ManagedInv, Counted
<1>9. ASSUME NEW p \in GoalProc
      PROVE  (Placed(gp[p]) /\ Agrees(gp[p]) /\ Reported(gp[p]))'
  <2>1. Placed(gp[p]) /\ Agrees(gp[p]) /\ Reported(gp[p])
    BY TickFacts
  <2>2. Placed(gp'[p])
    BY <1>3, <2>1 DEF Placed
  <2>3. Agrees(gp[p])'
    BY <1>1, <1>2, <1>3, <2>1 DEF Agrees, Limited
  <2>4. Reported(gp[p])'
    BY <1>1, <1>2, <1>3, <2>1 DEF Reported
  <2> QED
    BY <2>2, <2>3, <2>4 DEF Placed
<1> QED
  BY <1>5, <1>6, <1>8, <1>9 DEF ManagedInv

\* While ticks of a goal do not overlap, a goal is done only with all of its
\* evidence, what needs a fix has one issue, and a capability that keeps failing
\* runs no more often than its limit (advanceManagedGoal.ts,
\* applyCapabilityReports.ts), whatever operators do and whichever calls fail.
THEOREM EvidenceDecidesEach ==
  ASSUME Exclusive
  PROVE  GoalSpec => [](GoalTypeOK /\ EvidenceDecides)
<1>1. GoalInit => ManagedInv
  <2> SUFFICES ASSUME GoalInit PROVE ManagedInv
    OBVIOUS
  <2> DEFINE first == [class |-> "none", attempts |-> 0, issue |-> FALSE]
             progress == [e \in Item |-> first]
  <2>1. progress \in [Item -> [class : Class, attempts : Nat, issue : BOOLEAN]]
    BY DEF Class, Terminal
  <2>2. doc = [state |-> "active", sat |-> {}, known |-> {}, pending |-> NoGoalItem, blocked |-> FALSE,
               progress |-> progress]
    BY DEF GoalInit
  <2>3. \A e \in Item : progress[e].class = "none" /\ progress[e].attempts = 0
    OBVIOUS
  <2> HIDE DEF progress
  <2>4. doc \in Documents /\ doc.state = "active" /\ doc.progress = progress
    BY <2>1, <2>2 DEF Documents
  <2>5. gp \in [GoalProc -> TickRuns] /\ \A p \in GoalProc : gp[p] = Asleep
    BY AsleepType DEF GoalInit
  <2>6. GoalTyped
    BY <2>4, <2>5 DEF GoalInit, GoalTyped
  <2>7. Complete(doc) /\ FiledOnce /\ OneTick
    BY <2>4, <2>5, AsleepType DEF GoalInit, Complete, FiledOnce, OneTick
  <2>8. SoftFails
    BY <2>3, <2>4, GoalAssumption DEF GoalInit, SoftFails
  <2>9. \A e : Now(e) = 0
    BY <2>5, AsleepType DEF Now, Running, Reporting
  <2>10. Counted
    BY <2>3, <2>4, <2>9 DEF GoalInit, Counted
  <2>11. \A p \in GoalProc : Placed(gp[p]) /\ Agrees(gp[p]) /\ Reported(gp[p])
    BY <2>5, AsleepType DEF Agrees, Reported, Planning, Running, Reporting
  <2> QED
    BY <2>6, <2>7, <2>8, <2>10, <2>11 DEF ManagedInv
<1>2. ManagedInv /\ [GoalNext]_goalVars => ManagedInv'
  <2> SUFFICES ASSUME ManagedInv, [GoalNext]_goalVars PROVE ManagedInv'
    OBVIOUS
  <2>1. ASSUME NEW p \in GoalProc, StartGoalTick(p) \/ Goes(p) \/ PrepareFails(p) \/ CommitFails(p) \/ Interrupted(p)
        PROVE  ManagedInv'
    <3>1. CASE StartGoalTick(p)
      BY <3>1, TickStartKeeps
    <3>2. CASE EndTick(p)
      <4>1. /\ ~At(p, "idle") /\ gp[p].at \notin Running /\ Leaves(p) /\ ticks' \in Nat /\ goalFaults' \in Nat
            /\ UNCHANGED <<doc, tracker, tries, soft, unstored, trusted>>
        BY <3>2 DEF EndTick, At, Running, Reporting, Steady, History, ManagedInv, GoalTyped
      <4> QED
        BY <4>1, LeaveKeeps
    <3>3. CASE Load(p) \/ Advance(p) \/ GetToken(p) \/ Commit(p) \/ HandOff(p) \/ Perform(p)
      BY <3>3, LoadKeeps, AdvanceKeeps, TokenKeeps, CommitKeeps, HandOffKeeps, PerformKeeps
    <3>4. CASE Report(p) \/ SearchIssue(p) \/ CreateIssue(p) \/ StoreReport(p)
      BY <3>4, ReportKeeps, SearchKeeps, CreateKeeps, StoreKeeps
    <3>5. CASE PrepareFails(p) \/ CommitFails(p) \/ Interrupted(p)
      BY <3>5, PrepareKeeps, CommitFailsKeeps, InterruptedKeeps
    <3> QED
      BY <2>1, <3>1, <3>2, <3>3, <3>4, <3>5 DEF Goes
  <2>2. CASE Abandon
    BY <2>2, AbandonKeeps
  <2>3. CASE Trust \/ UNCHANGED goalVars
    <3>1. UNCHANGED <<doc, gp, tracker, tries, soft, unstored, ticks, goalFaults>> /\ trusted' \in BOOLEAN
      BY <2>3 DEF Trust, History, goalVars, ManagedInv, GoalTyped
    <3> QED
      BY <3>1 DEF ManagedInv, GoalTyped, Complete, OneTick, SoftFails, Counted, Now, FiledOnce, Placed, Agrees,
                  Reported, Limited
  <2> QED
    BY <2>1, <2>2, <2>3 DEF GoalNext
<1>3. ManagedInv => GoalTypeOK /\ EvidenceDecides
  <2> SUFFICES ASSUME ManagedInv PROVE GoalTypeOK /\ EvidenceDecides
    OBVIOUS
  <2>1. \A g \in Documents : GoalDocument(g)
    BY DEF Documents, GoalDocument
  <2>2. GoalTypeOK
    BY <2>1 DEF ManagedInv, GoalTyped, TickRuns, GoalTypeOK
  <2>3. DoneMeansEvidence
    BY DEF ManagedInv, Complete, DoneMeansEvidence
  <2>4. RetriesAreLimited
    <3> SUFFICES ASSUME NEW e \in soft, Policy[e].max # 0 PROVE tries[e] - unstored[e] <= Policy[e].max
      BY DEF RetriesAreLimited
    <3>1. /\ e \in Item /\ doc.progress[e].attempts \in Nat /\ unstored[e] \in Nat /\ Policy[e].max \in Nat
          /\ tries[e] = doc.progress[e].attempts + unstored[e] + Now(e)
          /\ doc.progress[e].attempts <= Policy[e].max
      BY GoalAssumption DEF ManagedInv, GoalTyped, Documents, Counted, SoftFails
    <3>2. CASE \E p \in GoalProc : gp[p].at \in Running /\ gp[p].next = e
      <4>1. doc.progress[e].attempts < Policy[e].max
        BY <3>1, <3>2, GoalAssumption DEF ManagedInv, Agrees, Limited
      <4> QED
        BY <3>1, <3>2, <4>1 DEF Now
    <3>3. CASE ~\E p \in GoalProc : gp[p].at \in Running /\ gp[p].next = e
      BY <3>1, <3>3 DEF Now
    <3> QED
      BY <3>2, <3>3
  <2> QED
    BY <2>2, <2>3, <2>4 DEF ManagedInv, EvidenceDecides, NothingIsRepeated
<1> QED
  BY <1>1, <1>2, <1>3, PTL DEF GoalSpec
-----------------------------------------------------------------------------
(* The goal scheduler.                                                     *)
GoalFiles ==
  [is : {"active", "done"}, lease : [by : Schedulers \cup {"none"}, until : Nat], ticked : Nat, sent : Nat, edits : Nat,
   born : Nat, looked : Nat]
AnyFile == GoalFiles \cup {NoFile}
SchedulerPlaces == {"idle", "look", "create", "goals", "reserve", "tick", "finish"}
SchedulerState ==
  [at : SchedulerPlaces, now : Nat, looked : Nat, seen : [File -> AnyFile], chosen : SUBSET File, left : SUBSET DOMAIN FileOrder,
   goal : File \cup {"none"}, read : AnyFile]
SchedulerTyped ==
  /\ goalFile \in [File -> AnyFile] /\ scheduler \in [Schedulers -> SchedulerState]
  /\ peopleEdits \in [File -> Nat] /\ moment \in Nat

\* What a scheduler knows of the time, of its work, of the file it ticks, and of
\* the instances that came since it looked.
OnTime(s) == s.at # "idle" => s.now <= moment /\ moment <= s.now + RunTime /\ s.looked <= moment
HasWork(s) ==
  /\ s.at \in {"reserve", "tick", "finish"} => s.goal \in File
  /\ s.at = "reserve" => s.read \in GoalFiles /\ ~Waits(s.read, s.goal, s.now)
  /\ s.at = "create" => \A i \in s.left : FileOrder[i] \in ActiveGoals
Leased(files, p, s) ==
  /\ s.at = "tick" =>
       /\ files[s.goal] \in GoalFiles /\ files[s.goal].lease = [by |-> p, until |-> s.now + LeaseTime]
       /\ s.goal \notin DailyGoals /\ files[s.goal].ticked > 0 => s.now >= files[s.goal].ticked + Interval
  /\ s.at = "finish" => s.read \in GoalFiles /\ s.read.lease.by = p
SawInstances(files, s) ==
  s.at = "create" /\ TemplateWanted /\ s.chosen \cap Instance = {} =>
    \A h \in ActiveInstances(files) : files[h].born >= s.looked
Knows(files, p, s) == OnTime(s) /\ HasWork(s) /\ Leased(files, p, s) /\ SawInstances(files, s)
FilesAreDated ==
  \A g \in File :
    /\ goalFile[g] # NoFile => goalFile[g].looked <= moment /\ goalFile[g].born <= moment /\ goalFile[g].edits = peopleEdits[g]
    /\ goalFile[g] = NoFile => peopleEdits[g] = 0
SchedulerInv == SchedulerTyped /\ (\A p \in Schedulers : Knows(goalFile, p, scheduler[p])) /\ FilesAreDated /\ InstancesFollow

LEMMA SchedulerFacts ==
  /\ FileOrder \in Seq(File) /\ DOMAIN FileOrder \subseteq Nat /\ \A i \in DOMAIN FileOrder : FileOrder[i] \in File
  /\ RunTime \in Nat /\ LeaseTime \in Nat /\ RunTime < LeaseTime /\ Interval \in Nat /\ Interval > 0
  /\ Instance \subseteq File /\ ActiveGoals \subseteq File /\ DirectLoops \subseteq File
  /\ NoFile \notin GoalFiles /\ NoFile.is # "active" /\ NoFile.is = "absent"
<1>1. NoFile \notin GoalFiles /\ NoFile.is # "active" /\ NoFile.is = "absent"
  BY DEF NoFile, GoalFiles
<1>2. FileOrder \in Seq(File)
  BY SchedulerAssumption
<1>3. DOMAIN FileOrder = 1 .. Len(FileOrder) /\ Len(FileOrder) \in Nat
  BY <1>2
<1> QED
  BY <1>1, <1>2, <1>3, SchedulerAssumption

LEMMA IdleSchedulerTyped == NoScheduler \in SchedulerState /\ \A files, p : Knows(files, p, NoScheduler)
BY DEF NoScheduler, SchedulerState, SchedulerPlaces, AnyFile, Knows, OnTime, HasWork, Leased, SawInstances

\* The files stay as they are, and one scheduler goes on.
LEMMA SchedulerGoesOn ==
  ASSUME SchedulerInv, NEW p \in Schedulers, NEW s \in SchedulerState, SchedulerGoes(p, s), Knows(goalFile, p, s),
         UNCHANGED <<goalFile, peopleEdits, moment>>
  PROVE  SchedulerInv'
<1>1. SchedulerTyped'
  BY DEF SchedulerInv, SchedulerTyped, SchedulerGoes
<1>2. ASSUME NEW q \in Schedulers PROVE Knows(goalFile, q, scheduler[q])'
  <2>1. scheduler'[q] = IF q = p THEN s ELSE scheduler[q]
    BY DEF SchedulerInv, SchedulerTyped, SchedulerGoes
  <2>2. Knows(goalFile, q, scheduler'[q])
    BY <2>1 DEF SchedulerInv
  <2> QED
    BY <2>2 DEF Knows, OnTime, HasWork, Leased, SawInstances
<1>3. FilesAreDated' /\ InstancesFollow'
  BY DEF SchedulerInv, FilesAreDated, InstancesFollow, ActiveInstances
<1> QED
  BY <1>1, <1>2, <1>3 DEF SchedulerInv

\* A file is written that nobody else ticks: one that was there, or a new one.
LEMMA SchedulerWrites ==
  ASSUME SchedulerInv, NEW p \in Schedulers, NEW s \in SchedulerState, SchedulerGoes(p, s), NEW g \in File, NEW f \in GoalFiles,
         Written(g, f), UNCHANGED <<peopleEdits, moment>>, Knows(goalFile', p, s),
         f.looked <= moment, f.born <= moment, f.edits = peopleEdits[g],
         \A q \in Schedulers : q # p /\ scheduler[q].at = "tick" => scheduler[q].goal # g,
         \/ goalFile[g] # NoFile /\ f.born = goalFile[g].born /\ f.looked = goalFile[g].looked /\ f.is = goalFile[g].is
         \/ f.born = moment /\ (g \in Instance => \A h \in ActiveInstances(goalFile) : f.looked <= goalFile[h].born)
  PROVE  SchedulerInv'
<1>1. SchedulerTyped'
  BY DEF SchedulerInv, SchedulerTyped, SchedulerGoes, Written, AnyFile
<1>f. goalFile'[g] = f /\ \A h \in File : h # g => goalFile'[h] = goalFile[h]
  BY DEF SchedulerInv, SchedulerTyped, Written
<1>i. /\ Instance \subseteq File
      /\ \A h \in ActiveInstances(goalFile') : h # g => h \in ActiveInstances(goalFile) /\ goalFile'[h] = goalFile[h]
      /\ \A h \in File : goalFile[h].is = "active" => goalFile[h] \in GoalFiles /\ goalFile[h] # NoFile
  BY <1>f, SchedulerFacts DEF ActiveInstances, SchedulerInv, SchedulerTyped, AnyFile
<1>2. ASSUME NEW q \in Schedulers PROVE Knows(goalFile, q, scheduler[q])'
  <2>1. CASE q = p
    <3>1. scheduler'[q] = s
      BY <2>1 DEF SchedulerInv, SchedulerTyped, SchedulerGoes
    <3> QED
      BY <2>1, <3>1 DEF Knows, OnTime, HasWork, Leased, SawInstances
  <2>2. CASE q # p
    <3>1. scheduler'[q] = scheduler[q] /\ Knows(goalFile, q, scheduler[q]) /\ scheduler[q] \in SchedulerState /\ moment \in Nat
      BY <2>2 DEF SchedulerInv, SchedulerTyped, SchedulerGoes
    <3>2. OnTime(scheduler[q])' /\ HasWork(scheduler[q])'
      BY <3>1 DEF Knows, OnTime, HasWork
    <3>3. Leased(goalFile, q, scheduler[q])'
      <4>1. scheduler[q].at = "tick" => goalFile'[scheduler[q].goal] = goalFile[scheduler[q].goal]
        BY <2>2, <3>1, <1>f DEF Knows, HasWork
      <4> QED
        BY <3>1, <4>1 DEF Knows, Leased
    <3>4. SawInstances(goalFile, scheduler[q])'
      <4> SUFFICES ASSUME scheduler[q].at = "create", TemplateWanted, scheduler[q].chosen \cap Instance = {},
                          NEW h \in ActiveInstances(goalFile')
                   PROVE  goalFile'[h].born >= scheduler[q].looked
        BY <3>1 DEF SawInstances, ActiveInstances
      <4>1. CASE h # g
        BY <3>1, <4>1, <1>i DEF Knows, SawInstances
      <4>2. CASE h = g /\ f.born = moment
        BY <3>1, <4>2, <1>f DEF Knows, OnTime, SchedulerState
      <4>3. CASE h = g /\ goalFile[g] # NoFile /\ f.born = goalFile[g].born /\ f.is = goalFile[g].is
        <5>1. g \in ActiveInstances(goalFile)
          BY <4>3, <1>f DEF ActiveInstances
        <5> QED
          BY <3>1, <4>3, <5>1, <1>f DEF Knows, SawInstances
      <4> QED
        BY <4>1, <4>2, <4>3
    <3> QED
      BY <3>2, <3>3, <3>4 DEF Knows
  <2> QED
    BY <2>1, <2>2
<1>3. FilesAreDated'
  BY <1>f, SchedulerFacts DEF SchedulerInv, FilesAreDated
<1>4. InstancesFollow'
  <2> SUFFICES ASSUME NEW h \in ActiveInstances(goalFile'), NEW k \in ActiveInstances(goalFile'), h # k
               PROVE  goalFile'[h].looked <= goalFile'[k].born
    BY DEF InstancesFollow, ActiveInstances
  <2>1. CASE h # g /\ k # g
    BY <2>1, <1>i DEF SchedulerInv, InstancesFollow
  <2>2. CASE g \in {h, k} /\ goalFile[g] # NoFile /\ f.born = goalFile[g].born /\ f.looked = goalFile[g].looked /\ f.is = goalFile[g].is
    <3>1. g \in ActiveInstances(goalFile)
      BY <2>2, <1>f DEF ActiveInstances
    <3>2. h \in ActiveInstances(goalFile) /\ k \in ActiveInstances(goalFile)
      BY <3>1, <1>i
    <3>3. goalFile[h].looked <= goalFile[k].born
      BY <3>2 DEF SchedulerInv, InstancesFollow
    <3>4. goalFile'[h].looked = goalFile[h].looked /\ goalFile'[k].born = goalFile[k].born
      BY <2>2, <1>f, <1>i
    <3> QED
      BY <3>3, <3>4
  <2>3. CASE h = g /\ f.born = moment /\ \A x \in ActiveInstances(goalFile) : f.looked <= goalFile[x].born
    BY <2>3, <1>f, <1>i
  <2>4. CASE k = g /\ f.born = moment
    <3>1. goalFile'[h] = goalFile[h] /\ goalFile[h] # NoFile /\ h \in File
      BY <2>4, <1>i DEF ActiveInstances
    <3> QED
      BY <2>4, <3>1, <1>f DEF SchedulerInv, FilesAreDated
  <2> QED
    BY <2>1, <2>2, <2>3, <2>4 DEF ActiveInstances
<1> QED
  BY <1>1, <1>2, <1>3, <1>4 DEF SchedulerInv

LEMMA SchedulerStarts == GoalSchedulerInit => SchedulerInv
<1> SUFFICES ASSUME GoalSchedulerInit PROVE SchedulerInv
  OBVIOUS
<1> DEFINE made == [FreshFile(0, 0) EXCEPT !.sent = 1]
<1>1. made \in GoalFiles /\ made.looked = 0 /\ made.born = 0 /\ made.edits = 0
  BY DEF FreshFile, GoalFiles, NoLease
<1> HIDE DEF made
<1>2. /\ goalFile = [g \in File |-> IF g \in DirectLoops THEN made ELSE NoFile] /\ moment = 1
      /\ scheduler = [p \in Schedulers |-> NoScheduler] /\ peopleEdits = [g \in File |-> 0]
  BY DEF GoalSchedulerInit, made
<1>3. SchedulerTyped
  BY <1>1, <1>2, IdleSchedulerTyped DEF SchedulerTyped, AnyFile
<1>4. \A p \in Schedulers : Knows(goalFile, p, scheduler[p])
  BY <1>2, IdleSchedulerTyped
<1>5. FilesAreDated
  BY <1>1, <1>2 DEF FilesAreDated
<1>6. InstancesFollow
  <2>1. \A g \in ActiveInstances(goalFile) : goalFile[g] = made
    BY <1>2, SchedulerFacts DEF ActiveInstances
  <2> QED
    BY <1>1, <2>1 DEF InstancesFollow
<1> QED
  BY <1>3, <1>4, <1>5, <1>6 DEF SchedulerInv

LEMMA SchedulerBegins ==
  ASSUME SchedulerInv, NEW p \in Schedulers, StartScheduler(p)
  PROVE  SchedulerInv'
<1> DEFINE s == [NoScheduler EXCEPT !.at = "look", !.now = moment]
<1>1. moment \in Nat /\ RunTime \in Nat
  BY SchedulerFacts DEF SchedulerInv, SchedulerTyped
<1>2. s \in SchedulerState /\ s.at = "look" /\ s.now = moment /\ s.looked = 0
  BY <1>1, IdleSchedulerTyped DEF SchedulerState, SchedulerPlaces, NoScheduler
<1>3. SchedulerGoes(p, s) /\ UNCHANGED <<goalFile, peopleEdits, moment>>
  BY DEF StartScheduler
<1> HIDE DEF s
<1>4. Knows(goalFile, p, s)
  BY <1>1, <1>2 DEF Knows, OnTime, HasWork, Leased, SawInstances
<1> QED
  BY <1>2, <1>3, <1>4, SchedulerGoesOn

\* The oldest of several instances is one of them.
LEMMA OldestIsOne ==
  ASSUME SchedulerInv, ActiveInstances(goalFile) # {}
  PROVE  OldestInstance(goalFile, ActiveInstances(goalFile)) \in ActiveInstances(goalFile)
<1> DEFINE ids == ActiveInstances(goalFile)
           Births == {goalFile[g].born : g \in ids}
<1>1. \A g \in ids : goalFile[g].born \in Nat
  BY SchedulerFacts DEF ActiveInstances, SchedulerInv, SchedulerTyped, AnyFile, GoalFiles
<1>2. Births \in SUBSET Nat /\ Births # {}
  BY <1>1
<1>3. \E x \in Births : \A y \in Births : x <= y
  BY <1>2, LeastNumber
<1>4. \E g \in ids : \A h \in ids : goalFile[g].born <= goalFile[h].born
  BY <1>3
<1> QED
  BY <1>4 DEF OldestInstance

LEMMA SchedulerLooks ==
  ASSUME SchedulerInv, NEW p \in Schedulers, LookAtGoals(p)
  PROVE  SchedulerInv'
<1> DEFINE oldest == IF TemplateWanted THEN {OldestInstance(goalFile, x) : x \in {ActiveInstances(goalFile)} \ {{}}} ELSE {}
           chosen == {g \in ActiveGoals : Wanted(g)} \cup oldest
           left == {i \in DOMAIN FileOrder : FileOrder[i] \in ActiveGoals /\ Wanted(FileOrder[i])}
           s == [scheduler[p] EXCEPT !.at = "create", !.seen = goalFile, !.looked = moment, !.chosen = chosen, !.left = left]
<1>1. SchedulerGoes(p, s) /\ UNCHANGED <<goalFile, peopleEdits, moment>> /\ scheduler[p].at = "look"
  BY DEF LookAtGoals, SchedulerAt, Untimed
<1>2. oldest \subseteq Instance /\ (TemplateWanted /\ oldest = {} => ActiveInstances(goalFile) = {})
  <2>1. CASE ActiveInstances(goalFile) = {}
    BY <2>1
  <2>2. CASE ActiveInstances(goalFile) # {}
    BY <2>2, OldestIsOne DEF ActiveInstances
  <2> QED
    BY <2>1, <2>2
<1>3. chosen \in SUBSET File /\ (TemplateWanted /\ chosen \cap Instance = {} => ActiveInstances(goalFile) = {})
  BY <1>2, SchedulerFacts
<1>4. left \in SUBSET DOMAIN FileOrder /\ \A i \in left : FileOrder[i] \in ActiveGoals
  OBVIOUS
<1>5. scheduler[p] \in SchedulerState /\ goalFile \in [File -> AnyFile] /\ moment \in Nat /\ OnTime(scheduler[p])
  BY DEF SchedulerInv, SchedulerTyped, Knows
<1> HIDE DEF chosen, left
<1>6. /\ s \in SchedulerState /\ s.at = "create" /\ s.looked = moment /\ s.chosen = chosen /\ s.left = left /\ s.now = scheduler[p].now
  BY <1>3, <1>4, <1>5 DEF SchedulerState, SchedulerPlaces
<1> HIDE DEF s
<1>7. Knows(goalFile, p, s)
  BY <1>1, <1>3, <1>4, <1>5, <1>6 DEF Knows, OnTime, HasWork, Leased, SawInstances
<1> QED
  BY <1>1, <1>6, <1>7, SchedulerGoesOn

LEMMA FirstIsOne ==
  ASSUME NEW left \in SUBSET DOMAIN FileOrder, left # {}
  PROVE  NextInOrder(left) \in left /\ FileOrder[NextInOrder(left)] \in File
<1>1. \E i \in left : \A k \in left : i <= k
  BY LeastNumber, SchedulerFacts
<1> QED
  BY <1>1, SchedulerFacts DEF NextInOrder

\* A file is made, or there already, or not made.
LEMMA FileIsMade ==
  ASSUME SchedulerInv, NEW p \in Schedulers, SchedulerAt(p, "create"), NEW g \in File, Makes(p, g, scheduler[p]),
         NEW s \in SchedulerState, SchedulerGoes(p, s), Knows(goalFile', p, s),
         g \in Instance => \A h \in ActiveInstances(goalFile) : scheduler[p].looked <= goalFile[h].born
  PROVE  SchedulerInv'
<1> DEFINE f == FreshFile(moment, scheduler[p].looked)
<1>1. UNCHANGED <<peopleEdits, moment>>
  BY DEF Makes, Untimed
<1>2. CASE goalFile' = goalFile
  BY <1>1, <1>2, SchedulerGoesOn
<1>3. CASE goalFile[g] = NoFile /\ goalFile' = [goalFile EXCEPT ![g] = f]
  <2>1. scheduler[p] \in SchedulerState /\ moment \in Nat /\ OnTime(scheduler[p]) /\ scheduler[p].at = "create"
    BY DEF SchedulerInv, SchedulerTyped, Knows, SchedulerAt
  <2>2. f \in GoalFiles /\ f.looked = scheduler[p].looked /\ f.born = moment /\ f.edits = 0
    BY <2>1 DEF FreshFile, GoalFiles, SchedulerState, NoLease
  <2>3. f.looked <= moment /\ f.born <= moment /\ f.edits = peopleEdits[g]
    BY <1>3, <2>1, <2>2 DEF OnTime, SchedulerInv, FilesAreDated
  <2>4. \A q \in Schedulers : q # p /\ scheduler[q].at = "tick" => scheduler[q].goal # g
    BY <1>3, SchedulerFacts DEF SchedulerInv, Knows, Leased
  <2> HIDE DEF f
  <2>5. Written(g, f)
    BY <1>3 DEF Written
  <2> QED
    BY <1>1, <2>2, <2>3, <2>4, <2>5, SchedulerWrites
<1> QED
  BY <1>2, <1>3 DEF Makes

\* What a scheduler saw may be brought up to date.
LEMMA CountedState ==
  ASSUME SchedulerInv, NEW g \in File, NEW s \in SchedulerState, NEW created, goalFile' \in [File -> AnyFile]
  PROVE  LET t == Counts(s, g, created) IN
         /\ t \in SchedulerState /\ t.at = s.at /\ t.now = s.now /\ t.looked = s.looked /\ t.chosen = s.chosen /\ t.left = s.left
         /\ t.goal = s.goal /\ t.read = s.read
<1> DEFINE seen == [s.seen EXCEPT ![g] = goalFile'[g]]
<1>1. seen \in [File -> AnyFile]
  BY DEF SchedulerState
<1>2. Counts(s, g, created) = s \/ Counts(s, g, created) = [s EXCEPT !.seen = seen]
  BY DEF Counts
<1> HIDE DEF seen
<1> QED
  BY <1>1, <1>2 DEF SchedulerState

LEMMA MadeFiles ==
  ASSUME SchedulerInv, NEW p \in Schedulers, NEW g \in File, Makes(p, g, scheduler[p])
  PROVE  /\ goalFile' \in [File -> AnyFile] /\ moment' = moment
         /\ \A h \in File : h # g => goalFile'[h] = goalFile[h]
<1> DEFINE f == FreshFile(moment, scheduler[p].looked)
<1>1. f \in GoalFiles
  <2>1. scheduler[p] \in SchedulerState /\ moment \in Nat
    BY DEF SchedulerInv, SchedulerTyped
  <2> QED
    BY <2>1 DEF FreshFile, GoalFiles, SchedulerState, NoLease
<1>2. goalFile' = goalFile \/ goalFile' = [goalFile EXCEPT ![g] = f]
  BY DEF Makes
<1> HIDE DEF f
<1>3. goalFile \in [File -> AnyFile]
  BY DEF SchedulerInv, SchedulerTyped
<1>4. moment' = moment
  BY DEF Makes, Untimed
<1> QED
  BY <1>1, <1>2, <1>3, <1>4 DEF AnyFile

\* A configured goal is no instance of a template.
LEMMA ConfiguredIsCreated ==
  ASSUME SchedulerInv, NEW p \in Schedulers, CreateConfigured(p), ActiveGoals \cap Instance = {}
  PROVE  SchedulerInv'
<1> DEFINE i == NextInOrder(scheduler[p].left)
           g == FileOrder[i]
           s == [scheduler[p] EXCEPT !.left = @ \ {i}]
<1>1. scheduler[p] \in SchedulerState /\ Knows(goalFile, p, scheduler[p]) /\ scheduler[p].at = "create" /\ SchedulerAt(p, "create")
  BY DEF CreateConfigured, SchedulerAt, SchedulerInv, SchedulerTyped
<1>2. scheduler[p].left # {} /\ Makes(p, g, scheduler[p]) /\ \E created \in Created(g) : SchedulerGoes(p, Counts(s, g, created))
  BY DEF CreateConfigured
<1>3. i \in scheduler[p].left /\ g \in File
  BY <1>1, <1>2, FirstIsOne DEF SchedulerState
<1>4. g \in ActiveGoals /\ g \notin Instance
  BY <1>1, <1>3 DEF Knows, HasWork
<1>5. /\ s \in SchedulerState /\ s.at = "create" /\ s.now = scheduler[p].now /\ s.looked = scheduler[p].looked
      /\ s.chosen = scheduler[p].chosen /\ s.left \subseteq scheduler[p].left
  BY <1>1 DEF SchedulerState
<1> HIDE DEF i, g, s
<1>6. /\ goalFile' \in [File -> AnyFile] /\ moment' = moment
      /\ \A h \in File : h # g => goalFile'[h] = goalFile[h]
  BY <1>2, <1>3, MadeFiles
<1>7. PICK created : SchedulerGoes(p, Counts(s, g, created))
  BY <1>2
<1> DEFINE t == Counts(s, g, created)
<1>8. /\ t \in SchedulerState /\ t.at = "create" /\ t.now = scheduler[p].now /\ t.looked = scheduler[p].looked
      /\ t.chosen = scheduler[p].chosen /\ t.left \subseteq scheduler[p].left
  BY <1>3, <1>5, <1>6, CountedState
<1>9. SchedulerGoes(p, t)
  BY <1>7
<1> HIDE DEF t
<1>10. Knows(goalFile', p, t)
  <2>1. SawInstances(goalFile', t)
    BY <1>1, <1>4, <1>6, <1>8, SchedulerFacts DEF Knows, SawInstances, ActiveInstances
  <2> QED
    BY <1>1, <1>8, <2>1 DEF Knows, OnTime, HasWork, Leased
<1> QED
  BY <1>1, <1>2, <1>3, <1>4, <1>8, <1>9, <1>10, FileIsMade

\* The sweep over the goals that are due.
LEMMA SweepIs ==
  ASSUME SchedulerInv, NEW p \in Schedulers, NEW s \in SchedulerState, OnTime(s), s.at # "idle", Sweep(p, s), NEW files
  PROVE  \E t \in SchedulerState : SchedulerGoes(p, t) /\ Knows(files, p, t)
<1> DEFINE left == {i \in DOMAIN FileOrder : GoalDue(s, FileOrder[i])}
           t == [s EXCEPT !.at = "goals", !.left = left, !.seen = NoScheduler.seen, !.chosen = {}]
<1>1. SchedulerGoes(p, t)
  BY DEF Sweep
<1>2. NoScheduler.seen \in [File -> AnyFile] /\ left \in SUBSET DOMAIN FileOrder
  BY IdleSchedulerTyped DEF SchedulerState
<1> HIDE DEF left
<1>3. t \in SchedulerState /\ t.at = "goals" /\ t.now = s.now /\ t.looked = s.looked
  BY <1>2 DEF SchedulerState, SchedulerPlaces
<1> HIDE DEF t
<1>4. Knows(files, p, t)
  BY <1>3 DEF Knows, OnTime, HasWork, Leased, SawInstances
<1> QED
  BY <1>1, <1>3, <1>4

LEMMA InstanceIsMade ==
  ASSUME SchedulerInv, NEW p \in Schedulers, MakeInstance(p)
  PROVE  SchedulerInv'
<1> DEFINE old == scheduler[p]
           g == InstanceNames[Bucket(old.now)]
           s == [old EXCEPT !.chosen = @ \cup {g}]
<1>1. old \in SchedulerState /\ Knows(goalFile, p, old) /\ old.at = "create" /\ SchedulerAt(p, "create")
  BY DEF MakeInstance, SchedulerAt, SchedulerInv, SchedulerTyped
<1>2. MakesInstance(old) /\ Makes(p, g, old) /\ \E created \in Created(g) : Sweep(p, Counts(s, g, created))
  BY DEF MakeInstance
<1>3. g \in Instance /\ g \in File
  BY <1>2, SchedulerFacts DEF MakesInstance, Instance
<1>4. \A h \in ActiveInstances(goalFile) : old.looked <= goalFile[h].born
  <2>1. \A h \in ActiveInstances(goalFile) : goalFile[h].born >= old.looked
    BY <1>1, <1>2 DEF MakesInstance, Knows, SawInstances
  <2> QED
    BY <2>1
<1>5. s \in SchedulerState /\ s.at = "create" /\ s.now = old.now /\ s.looked = old.looked
  BY <1>1, <1>3 DEF SchedulerState
<1> HIDE DEF old, g, s
<1>6. goalFile' \in [File -> AnyFile]
  BY <1>2, <1>3, MadeFiles DEF old
<1>7. PICK created : Sweep(p, Counts(s, g, created))
  BY <1>2
<1> DEFINE t == Counts(s, g, created)
<1>8. t \in SchedulerState /\ t.at = "create" /\ t.now = old.now /\ t.looked = old.looked
  BY <1>3, <1>5, <1>6, CountedState
<1>9. Sweep(p, t)
  BY <1>7
<1> HIDE DEF t
<1>10. OnTime(t)
  BY <1>1, <1>8 DEF Knows, OnTime
<1>11. PICK u \in SchedulerState : SchedulerGoes(p, u) /\ Knows(goalFile', p, u)
  BY <1>8, <1>9, <1>10, SweepIs
<1> QED
  BY <1>1, <1>2, <1>3, <1>4, <1>11, FileIsMade DEF old

LEMMA InstanceIsSkipped ==
  ASSUME SchedulerInv, NEW p \in Schedulers, SkipInstance(p)
  PROVE  SchedulerInv'
<1>1. scheduler[p] \in SchedulerState /\ OnTime(scheduler[p]) /\ scheduler[p].at # "idle" /\ Sweep(p, scheduler[p])
      /\ UNCHANGED <<goalFile, peopleEdits, moment>>
  BY DEF SkipInstance, SchedulerAt, SchedulerInv, SchedulerTyped, Knows, Untimed
<1>2. PICK t \in SchedulerState : SchedulerGoes(p, t) /\ Knows(goalFile, p, t)
  BY <1>1, SweepIs
<1> QED
  BY <1>1, <1>2, SchedulerGoesOn

LEMMA SchedulerResets ==
  ASSUME SchedulerInv, NEW p \in Schedulers, SchedulerGoes(p, NoScheduler), UNCHANGED <<goalFile, peopleEdits, moment>>
  PROVE  SchedulerInv'
BY IdleSchedulerTyped, SchedulerGoesOn

\* On to the next goal.
LEMMA PassedOn ==
  ASSUME NEW s \in SchedulerState, OnTime(s), s.at # "idle", NEW files, NEW p
  PROVE  Passed(s) \in SchedulerState /\ Knows(files, p, Passed(s))
<1>1. Passed(s) \in SchedulerState /\ Passed(s).at = "goals" /\ Passed(s).now = s.now /\ Passed(s).looked = s.looked
  BY DEF Passed, SchedulerState, SchedulerPlaces, AnyFile
<1> QED
  BY <1>1 DEF Knows, OnTime, HasWork, Leased, SawInstances

LEMMA GoalIsNext ==
  ASSUME SchedulerInv, NEW p \in Schedulers, NextGoal(p)
  PROVE  SchedulerInv'
<1> DEFINE s == scheduler[p]
           i == NextInOrder(s.left)
           g == FileOrder[i]
           due == goalFile[g].is = "active" /\ ~Waits(goalFile[g], g, s.now)
           next == [s EXCEPT !.left = @ \ {i}]
           taken == [next EXCEPT !.goal = g, !.read = goalFile[g], !.at = "reserve"]
<1>1. s \in SchedulerState /\ s.at = "goals" /\ OnTime(s) /\ UNCHANGED <<goalFile, peopleEdits, moment>>
  BY DEF NextGoal, SchedulerAt, SchedulerInv, SchedulerTyped, Knows, Untimed
<1>2. SchedulerGoes(p, IF s.left = {} THEN NoScheduler ELSE IF due THEN taken ELSE next)
  BY DEF NextGoal
<1>3. CASE s.left = {}
  BY <1>1, <1>2, <1>3, SchedulerResets
<1>4. CASE s.left # {}
  <2>1. g \in File /\ goalFile[g] \in AnyFile
    BY <1>1, <1>4, FirstIsOne DEF SchedulerState, SchedulerInv, SchedulerTyped
  <2>2. next \in SchedulerState /\ next.at = "goals" /\ next.now = s.now /\ next.looked = s.looked
    BY <1>1 DEF SchedulerState
  <2> HIDE DEF s, i, g, next
  <2>3. CASE due
    <3>1. taken \in SchedulerState /\ taken.at = "reserve" /\ taken.now = s.now /\ taken.looked = s.looked /\ taken.goal = g
          /\ taken.read = goalFile[g]
      BY <2>1, <2>2 DEF SchedulerState, SchedulerPlaces
    <3>2. goalFile[g] \in GoalFiles
      BY <2>1, <2>3, SchedulerFacts DEF AnyFile
    <3> HIDE DEF taken
    <3>3. Knows(goalFile, p, taken)
      BY <1>1, <2>1, <2>3, <3>1, <3>2 DEF Knows, OnTime, HasWork, Leased, SawInstances
    <3>4. SchedulerGoes(p, taken)
      BY <1>2, <1>4, <2>3
    <3> QED
      BY <1>1, <3>1, <3>3, <3>4, SchedulerGoesOn
  <2>4. CASE ~due
    <3>1. Knows(goalFile, p, next)
      BY <1>1, <2>2 DEF Knows, OnTime, HasWork, Leased, SawInstances
    <3>2. SchedulerGoes(p, next)
      BY <1>2, <1>4, <2>4
    <3> QED
      BY <1>1, <2>2, <3>1, <3>2, SchedulerGoesOn
  <2> QED
    BY <2>3, <2>4
<1> QED
  BY <1>3, <1>4

\* Who ticks a goal holds its lease.
LEMMA TickerHolds ==
  ASSUME SchedulerInv, NEW q \in Schedulers, scheduler[q].at = "tick"
  PROVE  goalFile[scheduler[q].goal].lease.by = q
<1>1. goalFile[scheduler[q].goal].lease = [by |-> q, until |-> scheduler[q].now + LeaseTime]
  BY DEF SchedulerInv, Knows, Leased
<1> QED
  BY <1>1

\* A goal whose lease has run out by the clock of one scheduler is ticked by no other.
LEMMA NobodyTicks ==
  ASSUME SchedulerInv, NEW p \in Schedulers, scheduler[p].at = "reserve", goalFile[scheduler[p].goal] = scheduler[p].read
  PROVE  \A q \in Schedulers : q # p /\ scheduler[q].at = "tick" => scheduler[q].goal # scheduler[p].goal
<1> SUFFICES ASSUME NEW q \in Schedulers, q # p, scheduler[q].at = "tick", scheduler[q].goal = scheduler[p].goal PROVE FALSE
  OBVIOUS
<1>1. /\ scheduler[p] \in SchedulerState /\ scheduler[q] \in SchedulerState /\ moment \in Nat
      /\ Knows(goalFile, p, scheduler[p]) /\ Knows(goalFile, q, scheduler[q])
  BY DEF SchedulerInv, SchedulerTyped
<1>2. scheduler[p].read.lease.until = scheduler[q].now + LeaseTime
  BY <1>1 DEF Knows, Leased
<1>3. ~(scheduler[p].read.lease.until > scheduler[p].now)
  BY <1>1 DEF Knows, HasWork, Waits
<1>4. scheduler[p].now <= moment /\ moment <= scheduler[q].now + RunTime
  BY <1>1 DEF Knows, OnTime
<1> QED
  BY <1>1, <1>2, <1>3, <1>4, SchedulerFacts DEF SchedulerState

LEMMA TickIsReserved ==
  ASSUME SchedulerInv, NEW p \in Schedulers, ReserveTick(p)
  PROVE  SchedulerInv'
<1> DEFINE s == scheduler[p]
           g == s.goal
           leased == [s.read EXCEPT !.lease = [by |-> p, until |-> s.now + LeaseTime]]
           reserves == [s EXCEPT !.at = "tick", !.read = NoFile]
<1>1. s \in SchedulerState /\ s.at = "reserve" /\ Knows(goalFile, p, s) /\ UNCHANGED <<peopleEdits, moment>>
  BY DEF ReserveTick, SchedulerAt, SchedulerInv, SchedulerTyped, Untimed
<1>2. \/ Takes(g, s.read) /\ Written(g, leased) /\ SchedulerGoes(p, reserves)
      \/ UNCHANGED goalFile /\ SchedulerGoes(p, Passed(s))
      \/ UNCHANGED goalFile /\ SchedulerGoes(p, NoScheduler)
      \/ Takes(g, s.read) /\ Written(g, leased) /\ SchedulerGoes(p, NoScheduler)
  BY DEF ReserveTick
<1>3. g \in File /\ s.read \in GoalFiles /\ ~Waits(s.read, g, s.now) /\ OnTime(s)
  BY <1>1 DEF Knows, HasWork
<1>4. /\ leased \in GoalFiles /\ leased.lease = [by |-> p, until |-> s.now + LeaseTime] /\ leased.ticked = s.read.ticked
      /\ leased.born = s.read.born /\ leased.looked = s.read.looked /\ leased.is = s.read.is /\ leased.edits = s.read.edits
  <2> DEFINE lease == [by |-> p, until |-> s.now + LeaseTime]
  <2>1. lease \in [by : Schedulers \cup {"none"}, until : Nat]
    <3>1. s.now \in Nat
      BY <1>1 DEF SchedulerState
    <3> QED
      BY <3>1, SchedulerFacts
  <2>2. leased = [s.read EXCEPT !.lease = lease]
    OBVIOUS
  <2> HIDE DEF lease
  <2>3. /\ leased \in GoalFiles /\ leased.lease = lease /\ leased.ticked = s.read.ticked
        /\ leased.born = s.read.born /\ leased.looked = s.read.looked /\ leased.is = s.read.is /\ leased.edits = s.read.edits
    BY <1>3, <2>1, <2>2 DEF GoalFiles
  <2> QED
    BY <2>3 DEF lease
<1>5. reserves \in SchedulerState /\ reserves.at = "tick" /\ reserves.now = s.now /\ reserves.looked = s.looked /\ reserves.goal = g
  BY <1>1 DEF SchedulerState, SchedulerPlaces, AnyFile
<1> HIDE DEF s, leased, reserves
<1>6. ASSUME Takes(g, s.read), Written(g, leased), NEW t \in SchedulerState, SchedulerGoes(p, t), Knows(goalFile', p, t)
      PROVE  SchedulerInv'
  <2>1. goalFile[g] = s.read /\ goalFile[g] # NoFile
    BY <1>3, <1>6, SchedulerFacts DEF Takes
  <2>2. \A q \in Schedulers : q # p /\ scheduler[q].at = "tick" => scheduler[q].goal # g
    BY <1>1, <2>1, NobodyTicks DEF s
  <2>3. leased.looked <= moment /\ leased.born <= moment /\ leased.edits = peopleEdits[g]
    BY <1>3, <1>4, <2>1 DEF SchedulerInv, FilesAreDated
  <2> QED
    BY <1>1, <1>3, <1>4, <1>6, <2>1, <2>2, <2>3, SchedulerWrites
<1>7. CASE Takes(g, s.read) /\ Written(g, leased) /\ SchedulerGoes(p, reserves)
  <2>1. goalFile'[g] = leased
    BY <1>3, <1>7 DEF Written, SchedulerInv, SchedulerTyped
  <2>2. g \notin DailyGoals /\ leased.ticked > 0 => s.now >= leased.ticked + Interval
    <3>1. s.read.ticked \in Nat /\ s.now \in Nat
      BY <1>1, <1>3 DEF GoalFiles, SchedulerState
    <3> QED
      BY <1>3, <1>4, <3>1, SchedulerFacts DEF Waits, WaitsForTime
  <2>3. Leased(goalFile', p, reserves)
    BY <1>4, <1>5, <2>1, <2>2 DEF Leased
  <2>4. OnTime(reserves) /\ HasWork(reserves) /\ SawInstances(goalFile', reserves)
    BY <1>1, <1>3, <1>5 DEF OnTime, HasWork, SawInstances
  <2>5. Knows(goalFile', p, reserves)
    BY <2>3, <2>4 DEF Knows
  <2> QED
    BY <1>5, <1>6, <1>7, <2>5
<1>8. CASE UNCHANGED goalFile /\ SchedulerGoes(p, Passed(s))
  <2>1. Passed(s) \in SchedulerState /\ Knows(goalFile, p, Passed(s))
    BY <1>1, <1>3, PassedOn
  <2> QED
    BY <1>1, <1>8, <2>1, SchedulerGoesOn
<1>9. CASE UNCHANGED goalFile /\ SchedulerGoes(p, NoScheduler)
  BY <1>1, <1>9, SchedulerResets
<1>10. CASE Takes(g, s.read) /\ Written(g, leased) /\ SchedulerGoes(p, NoScheduler)
  BY <1>6, <1>10, IdleSchedulerTyped
<1> QED
  BY <1>2, <1>7, <1>8, <1>9, <1>10

LEMMA GoalTickEnds ==
  ASSUME SchedulerInv, NEW p \in Schedulers, EndGoalTick(p)
  PROVE  SchedulerInv'
<1> DEFINE s == scheduler[p]
           file == goalFile[s.goal]
           own == file # NoFile /\ file.lease.by = p /\ file.lease.until = s.now + LeaseTime
           ends == [s EXCEPT !.read = file, !.at = "finish"]
<1>1. s \in SchedulerState /\ s.at = "tick" /\ Knows(goalFile, p, s) /\ UNCHANGED <<goalFile, peopleEdits, moment>>
  BY DEF EndGoalTick, SchedulerAt, SchedulerInv, SchedulerTyped, Untimed
<1>2. SchedulerGoes(p, IF own THEN ends ELSE Passed(s))
  BY DEF EndGoalTick
<1>3. s.goal \in File /\ file \in GoalFiles /\ file.lease.by = p
  BY <1>1 DEF Knows, HasWork, Leased
<1>4. ends \in SchedulerState /\ ends.at = "finish" /\ ends.read = file /\ ends.now = s.now /\ ends.looked = s.looked /\ ends.goal = s.goal
  BY <1>1, <1>3 DEF SchedulerState, SchedulerPlaces, AnyFile
<1> HIDE DEF file, ends
<1>5. Knows(goalFile, p, ends)
  BY <1>1, <1>3, <1>4 DEF Knows, OnTime, HasWork, Leased, SawInstances
<1>6. Passed(s) \in SchedulerState /\ Knows(goalFile, p, Passed(s))
  BY <1>1, PassedOn DEF Knows
<1> QED
  BY <1>1, <1>2, <1>4, <1>5, <1>6, SchedulerGoesOn

LEMMA ReservationEnds ==
  ASSUME SchedulerInv, NEW p \in Schedulers, FinishReservation(p)
  PROVE  SchedulerInv'
<1> DEFINE s == scheduler[p]
           g == s.goal
           f == [s.read EXCEPT !.lease = NoLease, !.ticked = s.now, !.sent = 0]
<1>1. s \in SchedulerState /\ s.at = "finish" /\ Knows(goalFile, p, s) /\ UNCHANGED <<peopleEdits, moment>>
      /\ SchedulerGoes(p, Passed(s))
  BY DEF FinishReservation, SchedulerAt, SchedulerInv, SchedulerTyped, Untimed
<1>2. UNCHANGED goalFile \/ (Takes(g, s.read) /\ Written(g, f))
  BY DEF FinishReservation
<1>3. g \in File /\ s.read \in GoalFiles /\ s.read.lease.by = p /\ OnTime(s)
  BY <1>1 DEF Knows, HasWork, Leased
<1>4. /\ f \in GoalFiles /\ f.born = s.read.born /\ f.looked = s.read.looked /\ f.is = s.read.is /\ f.edits = s.read.edits
  BY <1>1, <1>3 DEF GoalFiles, SchedulerState, NoLease
<1>5. Passed(s) \in SchedulerState /\ \A files : Knows(files, p, Passed(s))
  BY <1>1, <1>3, PassedOn
<1> HIDE DEF f
<1>6. CASE UNCHANGED goalFile
  BY <1>1, <1>5, <1>6, SchedulerGoesOn
<1>7. CASE Takes(g, s.read) /\ Written(g, f)
  <2>1. goalFile[g] = s.read /\ goalFile[g] # NoFile
    BY <1>3, <1>7, SchedulerFacts DEF Takes
  <2>2. \A q \in Schedulers : q # p /\ scheduler[q].at = "tick" => scheduler[q].goal # g
    BY <1>3, <2>1, TickerHolds
  <2>3. f.looked <= moment /\ f.born <= moment /\ f.edits = peopleEdits[g]
    BY <1>3, <1>4, <2>1 DEF SchedulerInv, FilesAreDated
  <2> HIDE DEF s, g
  <2> QED
    BY <1>1, <1>3, <1>4, <1>5, <1>7, <2>1, <2>2, <2>3, SchedulerWrites
<1> QED
  BY <1>2, <1>6, <1>7

LEMMA PeopleEditKeeps ==
  ASSUME SchedulerInv, NEW g \in File, PeopleEdit(g)
  PROVE  SchedulerInv'
<1>1. PICK is \in {goalFile[g].is, "done"} : goalFile' = [goalFile EXCEPT ![g].edits = @ + 1, ![g].is = is]
  BY DEF PeopleEdit
<1>2. goalFile[g] \in GoalFiles /\ goalFile[g] # NoFile
  BY DEF PeopleEdit, SchedulerInv, SchedulerTyped, AnyFile
<1> DEFINE f == [goalFile[g] EXCEPT !.edits = @ + 1, !.is = is]
<1>3. /\ f \in GoalFiles /\ f.edits = goalFile[g].edits + 1 /\ f.born = goalFile[g].born /\ f.looked = goalFile[g].looked
      /\ f.lease = goalFile[g].lease /\ f.ticked = goalFile[g].ticked /\ (f.is = "active" => goalFile[g].is = "active")
  <2>1. is \in {"active", "done"} /\ goalFile[g].edits + 1 \in Nat
    BY <1>1, <1>2 DEF GoalFiles
  <2>2. f = [goalFile[g] EXCEPT !.edits = goalFile[g].edits + 1, !.is = is]
    OBVIOUS
  <2> QED
    BY <1>1, <1>2, <2>1, <2>2 DEF GoalFiles
<1>4. goalFile' = [goalFile EXCEPT ![g] = f]
  BY <1>1
<1> HIDE DEF f
<1>5. /\ goalFile'[g] = f /\ \A h \in File : h # g => goalFile'[h] = goalFile[h]
      /\ UNCHANGED <<scheduler, moment>> /\ peopleEdits' = [peopleEdits EXCEPT ![g] = @ + 1]
  BY <1>4 DEF PeopleEdit, SchedulerInv, SchedulerTyped, Untimed
<1>6. SchedulerTyped'
  BY <1>3, <1>4, <1>5 DEF SchedulerInv, SchedulerTyped, AnyFile
<1>7. \A h \in ActiveInstances(goalFile') :
        h \in ActiveInstances(goalFile) /\ goalFile'[h].born = goalFile[h].born /\ goalFile'[h].looked = goalFile[h].looked
  BY <1>3, <1>5, SchedulerFacts DEF ActiveInstances
<1>8. ASSUME NEW q \in Schedulers PROVE Knows(goalFile, q, scheduler[q])'
  <2>1. Knows(goalFile, q, scheduler[q]) /\ UNCHANGED <<scheduler, moment>>
    BY <1>5 DEF SchedulerInv
  <2>2. Leased(goalFile, q, scheduler[q])'
    BY <1>3, <1>5, <2>1 DEF Knows, Leased, HasWork
  <2>3. SawInstances(goalFile, scheduler[q])'
    BY <1>7, <2>1 DEF Knows, SawInstances
  <2> QED
    BY <2>1, <2>2, <2>3 DEF Knows, OnTime, HasWork
<1>9. FilesAreDated'
  BY <1>2, <1>3, <1>5, SchedulerFacts DEF SchedulerInv, SchedulerTyped, FilesAreDated
<1>10. InstancesFollow'
  BY <1>7 DEF SchedulerInv, InstancesFollow
<1> QED
  BY <1>6, <1>8, <1>9, <1>10 DEF SchedulerInv

LEMMA TimeKeeps ==
  ASSUME SchedulerInv, MomentPasses
  PROVE  SchedulerInv'
<1>1. moment' = moment + 1 /\ moment \in Nat /\ UNCHANGED <<goalFile, scheduler, peopleEdits>> /\ RunTime \in Nat
  BY SchedulerFacts DEF MomentPasses, SchedulerInv, SchedulerTyped
<1>2. SchedulerTyped'
  BY <1>1 DEF SchedulerInv, SchedulerTyped
<1>3. ASSUME NEW q \in Schedulers PROVE Knows(goalFile, q, scheduler[q])'
  <2>1. Knows(goalFile, q, scheduler[q]) /\ scheduler[q] \in SchedulerState
        /\ (scheduler[q].at # "idle" => moment < scheduler[q].now + RunTime)
    BY DEF SchedulerInv, SchedulerTyped, MomentPasses, SchedulerAt
  <2>2. OnTime(scheduler[q])'
    BY <1>1, <2>1 DEF Knows, OnTime, SchedulerState
  <2> QED
    BY <1>1, <2>1, <2>2 DEF Knows, HasWork, Leased, SawInstances
<1>4. FilesAreDated'
  <2>1. \A g \in File : goalFile[g] # NoFile => goalFile[g].looked \in Nat /\ goalFile[g].born \in Nat
    BY DEF SchedulerInv, SchedulerTyped, AnyFile, GoalFiles
  <2> QED
    BY <1>1, <2>1 DEF SchedulerInv, FilesAreDated
<1>5. InstancesFollow'
  BY <1>1 DEF SchedulerInv, InstancesFollow, ActiveInstances
<1> QED
  BY <1>2, <1>3, <1>4, <1>5 DEF SchedulerInv

\* With no instance among the configured goals, every state of schedulers that
\* overlap, are killed and lose replies is as SchedulerInv says.
THEOREM SchedulerInvariance ==
  ASSUME ActiveGoals \cap Instance = {}
  PROVE  GoalSchedulerSpec => []SchedulerInv
<1>1. SchedulerInv /\ [GoalSchedulerNext]_schedulerVars => SchedulerInv'
  <2> SUFFICES ASSUME SchedulerInv, [GoalSchedulerNext]_schedulerVars PROVE SchedulerInv'
    OBVIOUS
  <2>1. ASSUME NEW p \in Schedulers, SchedulerKilled(p) PROVE SchedulerInv'
    BY <2>1, SchedulerResets DEF SchedulerKilled, Untimed
  <2>2. ASSUME UNCHANGED schedulerVars PROVE SchedulerInv'
    BY <2>2 DEF schedulerVars, SchedulerInv, SchedulerTyped, Knows, OnTime, HasWork, Leased, SawInstances, FilesAreDated, InstancesFollow,
      ActiveInstances
  <2> QED
    BY <2>1, <2>2, SchedulerBegins, SchedulerLooks, ConfiguredIsCreated, InstanceIsMade, InstanceIsSkipped, GoalIsNext, TickIsReserved,
      GoalTickEnds, ReservationEnds, PeopleEditKeeps, TimeKeeps DEF GoalSchedulerNext
<1> QED
  BY <1>1, SchedulerStarts, PTL DEF GoalSchedulerSpec

\* THEOREM: the goal files, the schedulers, the people's edits and the clock keep
\* their types (GoalSchedulerTypeOK), over any files, schedulers, faults and edits.
THEOREM SchedulerTypeCorrect ==
  ASSUME ActiveGoals \cap Instance = {}
  PROVE  GoalSchedulerSpec => []GoalSchedulerTypeOK
<1>1. SchedulerInv => GoalSchedulerTypeOK
  BY SchedulerFacts DEF SchedulerInv, SchedulerTyped, GoalSchedulerTypeOK, AnyFile, GoalFiles, SchedulerState
<1> QED
  BY <1>1, SchedulerInvariance, PTL

\* THEOREM: no two schedulers tick one goal at a time, no goal is ticked before its
\* interval is over, no edit of a person is lost, and an instance is made only by
\* who looked before any was (SchedulesHold), for schedulers that overlap, are
\* killed, lose replies and meet people who edit.
THEOREM SchedulesHoldEach ==
  ASSUME ActiveGoals \cap Instance = {}
  PROVE  GoalSchedulerSpec => []SchedulesHold
<1>1. SchedulerInv => SchedulesHold
  <2> SUFFICES ASSUME SchedulerInv PROVE SchedulesHold
    OBVIOUS
  <2>1. OneTickAtATime
    <3> SUFFICES ASSUME NEW p \in Schedulers, NEW q \in Schedulers, p # q, scheduler[p].at = "tick", scheduler[q].at = "tick",
                        scheduler[p].goal = scheduler[q].goal
                 PROVE  FALSE
      BY DEF OneTickAtATime, SchedulerAt
    <3>1. goalFile[scheduler[p].goal].lease.by = p /\ goalFile[scheduler[q].goal].lease.by = q
      BY TickerHolds
    <3> QED
      BY <3>1
  <2>2. IntervalIsKept
    BY DEF IntervalIsKept, SchedulerAt, SchedulerInv, Knows, Leased
  <2>3. PeoplesEditsStay
    BY DEF PeoplesEditsStay, SchedulerInv, FilesAreDated
  <2> QED
    BY <2>1, <2>2, <2>3 DEF SchedulesHold, SchedulerInv
<1> QED
  BY <1>1, SchedulerInvariance, PTL
=============================================================================
