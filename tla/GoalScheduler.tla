---------------------------- MODULE GoalScheduler ----------------------------
(***************************************************************************)
(* The goal scheduler (runtime-services/goal-scheduler/scheduler.sh): it   *)
(* makes instances of scheduled goal templates in the state repository and *)
(* ticks the active goals there, each under a lease in the goal's file,    *)
(* which is written with the hash of what was read.                        *)
(***************************************************************************)
EXTENDS Naturals, Sequences, Functions

CONSTANTS
  Schedulers,     \* processes
  FileOrder,      \* the goals' files, by name
  DirectLoops,    \* Loops that carry their own interval
  ActiveGoals,    \* goals the configuration names, each with a template
  ScheduledTemplate, \* the template the configuration schedules
  InstanceNames,  \* bucket -> its instance
  OnlyGoals,      \* KODY_GOAL_SCHEDULER_ONLY: none is all
  DailyGoals,     \* goals of one tick a day, at a preferred time
  Interval,       \* the interval of the others, and the length of a bucket
  DayLength, PreferredHour,
  LeaseTime,      \* an hour
  RunTime,        \* what the profile gives a scheduler: half an hour
  SchedulerFaults, \* what may happen: "call", "lost reply", "killed"
  LastMoment, MaxSchedulerRuns, MaxSchedulerFaults, MaxPeopleEdits \* bounds

VARIABLES
  goalFile,   \* goal -> its file, NoFile if there is none
  scheduler,  \* process -> [at, now, looked, seen, chosen, left, goal, read]; left: places
              \* of FileOrder
  peopleEdits, \* history: goal -> edits people made of its file
  moment, schedulerRuns, schedulerFaults

schedulerVars == <<goalFile, scheduler, peopleEdits, moment, schedulerRuns, schedulerFaults>>

File == {FileOrder[i] : i \in DOMAIN FileOrder}
Instance == {InstanceNames[b] : b \in DOMAIN InstanceNames}
NoFile == [is |-> "absent"]
NoLease == [by |-> "none", until |-> 0]
FreshFile(now, looked) ==
  [is |-> "active", lease |-> NoLease, ticked |-> 0, sent |-> 0, edits |-> 0, born |-> now, looked |-> looked]
NoScheduler == [at |-> "idle", now |-> 0, looked |-> 0, seen |-> [g \in File |-> NoFile], chosen |-> {},
                left |-> {}, goal |-> "none", read |-> NoFile]

ASSUME SchedulerAssumption ==
  /\ RunTime \in Nat /\ LeaseTime \in Nat /\ RunTime < LeaseTime /\ FileOrder \in Seq(File)
  /\ ActiveGoals \cup DirectLoops \cup Instance \subseteq File
  /\ Interval \in Nat \ {0} /\ DayLength \in Nat \ {0}

GoalSchedulerInit ==
  /\ goalFile = [g \in File |-> IF g \in DirectLoops THEN [FreshFile(0, 0) EXCEPT !.sent = 1] ELSE NoFile]
  /\ scheduler = [p \in Schedulers |-> NoScheduler] /\ peopleEdits = [g \in File |-> 0]
  /\ moment = 1 /\ schedulerRuns = 0 /\ schedulerFaults = 0
---------------------------------------------------------------------------
Bucket(now) == now \div Interval
BeforePreferred(now) == now % DayLength < PreferredHour
DayOf(now) == now \div DayLength

\* schedule_wait_reason: a lease, the day's tick, or the interval.
WaitsForTime(file, g, now) ==
  IF g \in DailyGoals THEN BeforePreferred(now) \/ (file.sent > 0 /\ DayOf(file.sent) = DayOf(now))
  ELSE file.ticked > 0 /\ now < file.ticked + Interval
Waits(file, g, now) == file.lease.until > now \/ WaitsForTime(file, g, now)

OldestInstance(files, ids) == CHOOSE g \in ids : \A h \in ids : files[g].born <= files[h].born
ActiveInstances(files) == {g \in Instance : files[g].is = "active"}
Wanted(g) == OnlyGoals = {} \/ g \in OnlyGoals \/ (g \in Instance /\ ScheduledTemplate \in OnlyGoals)
TemplateWanted == OnlyGoals = {} \/ ScheduledTemplate \in OnlyGoals

NextInOrder(left) == CHOOSE i \in left : \A k \in left : i <= k
SchedulerAt(p, at) == scheduler[p].at = at
SchedulerGoes(p, s) == scheduler' = [scheduler EXCEPT ![p] = s]
Passed(s) == [s EXCEPT !.at = "goals", !.goal = "none", !.read = NoFile]
SchedulerFails(what) ==
  what \in SchedulerFaults /\ schedulerFaults < MaxSchedulerFaults /\ schedulerFaults' = schedulerFaults + 1
Untimed == UNCHANGED <<moment, schedulerRuns>>

\* The run's clock is read once, before the files are.
StartScheduler(p) ==
  /\ SchedulerAt(p, "idle") /\ schedulerRuns < MaxSchedulerRuns /\ schedulerRuns' = schedulerRuns + 1
  /\ SchedulerGoes(p, [NoScheduler EXCEPT !.at = "look", !.now = moment])
  /\ UNCHANGED <<goalFile, peopleEdits, moment, schedulerFaults>>

\* list_goal_ids and the cached states: an active instance of the template is
\* the one that goes on, the oldest of several.
LookAtGoals(p) ==
  /\ SchedulerAt(p, "look")
  /\ SchedulerGoes(p, [scheduler[p] EXCEPT !.at = "create", !.seen = goalFile, !.looked = moment,
       !.chosen = {g \in ActiveGoals : Wanted(g)} \cup
         IF TemplateWanted THEN {OldestInstance(goalFile, x) : x \in {ActiveInstances(goalFile)} \ {{}}} ELSE {},
       !.left = {i \in DOMAIN FileOrder : FileOrder[i] \in ActiveGoals /\ Wanted(FileOrder[i])}])
  /\ UNCHANGED <<goalFile, peopleEdits, schedulerFaults>> /\ Untimed

\* create_instance_from_template: a file that is there is left alone, and is
\* among the created ones only if it came between the two looks for it.
Makes(p, g, s) ==
  /\ \/ /\ goalFile[g] = NoFile /\ UNCHANGED schedulerFaults
        /\ goalFile' = [goalFile EXCEPT ![g] = FreshFile(moment, s.looked)]
     \/ goalFile[g] # NoFile /\ UNCHANGED <<goalFile, schedulerFaults>>
     \/ SchedulerFails("call") /\ UNCHANGED goalFile
  /\ UNCHANGED peopleEdits /\ Untimed
Created(g) ==
  IF goalFile[g] # NoFile /\ schedulerFaults' = schedulerFaults THEN BOOLEAN ELSE {goalFile'[g] # goalFile[g]}
Counts(s, g, created) == IF created /\ s.seen[g] = NoFile THEN [s EXCEPT !.seen[g] = goalFile'[g]] ELSE s

CreateConfigured(p) ==
  /\ SchedulerAt(p, "create") /\ scheduler[p].left # {}
  /\ LET i == NextInOrder(scheduler[p].left)
         g == FileOrder[i] IN
       /\ Makes(p, g, scheduler[p])
       /\ \E created \in Created(g) : SchedulerGoes(p, Counts([scheduler[p] EXCEPT !.left = @ \ {i}], g, created))

\* The sweep is over goals that are chosen, active and due by what was read.
GoalDue(s, g) ==
  Wanted(g) /\ g \in s.chosen \cup DirectLoops /\ s.seen[g].is = "active" /\ ~Waits(s.seen[g], g, s.now)
Sweep(p, s) ==
  SchedulerGoes(p, [s EXCEPT !.at = "goals", !.left = {i \in DOMAIN FileOrder : GoalDue(s, FileOrder[i])},
                             !.seen = NoScheduler.seen, !.chosen = {}])

\* The bucket's instance, unless it is early or one is active already.
MakesInstance(s) ==
  TemplateWanted /\ Bucket(s.now) \in DOMAIN InstanceNames /\ ~BeforePreferred(s.now) /\ s.chosen \cap Instance = {}
MakeInstance(p) ==
  /\ SchedulerAt(p, "create") /\ scheduler[p].left = {} /\ MakesInstance(scheduler[p])
  /\ LET s == scheduler[p]
         g == InstanceNames[Bucket(s.now)]
     IN /\ Makes(p, g, s)
        /\ \E created \in Created(g) : Sweep(p, Counts([s EXCEPT !.chosen = @ \cup {g}], g, created))

SkipInstance(p) ==
  /\ SchedulerAt(p, "create") /\ scheduler[p].left = {} /\ ~MakesInstance(scheduler[p])
  /\ Sweep(p, scheduler[p])
  /\ UNCHANGED <<goalFile, peopleEdits, schedulerFaults>> /\ Untimed

\* reserve_goal_tick: everything is asked again of the file as it is now.
NextGoal(p) ==
  /\ SchedulerAt(p, "goals")
  /\ LET s == scheduler[p]
         i == NextInOrder(s.left)
         g == FileOrder[i]
         due == goalFile[g].is = "active" /\ ~Waits(goalFile[g], g, s.now)
         next == [s EXCEPT !.left = @ \ {i}]
     IN SchedulerGoes(p, IF s.left = {} THEN NoScheduler
                         ELSE IF due THEN [next EXCEPT !.goal = g, !.read = goalFile[g], !.at = "reserve"]
                         ELSE next)
  /\ UNCHANGED <<goalFile, peopleEdits, schedulerFaults>> /\ Untimed

\* mutant: the file is written whatever became of it since it was read.
Takes_Any(g, read) == TRUE
Takes(g, read) == goalFile[g] = read
Written(g, file) == goalFile' = [goalFile EXCEPT ![g] = file]

\* A call that fails for another reason ends the scheduler; its write may have
\* been taken all the same.
ReserveTick(p) ==
  /\ SchedulerAt(p, "reserve")
  /\ LET s == scheduler[p]
         g == s.goal
         leased == [s.read EXCEPT !.lease = [by |-> p, until |-> s.now + LeaseTime]]
     IN \/ Takes(g, s.read) /\ Written(g, leased) /\ UNCHANGED schedulerFaults
             /\ SchedulerGoes(p, [s EXCEPT !.at = "tick", !.read = NoFile])
        \/ ~Takes(g, s.read) /\ UNCHANGED <<goalFile, schedulerFaults>>
             /\ SchedulerGoes(p, Passed(s))
        \/ SchedulerFails("call") /\ UNCHANGED goalFile /\ SchedulerGoes(p, NoScheduler)
        \/ Takes(g, s.read) /\ Written(g, leased) /\ SchedulerFails("lost reply") /\ SchedulerGoes(p, NoScheduler)
  /\ UNCHANGED peopleEdits /\ Untimed

\* The tick of goal-manager ends, however it ends;
\* finish_goal_tick_reservation: only a lease of one's own is given back.
EndGoalTick(p) ==
  /\ SchedulerAt(p, "tick")
  /\ LET s == scheduler[p]
         file == goalFile[s.goal]
         own == file # NoFile /\ file.lease.by = p /\ file.lease.until = s.now + LeaseTime
     IN SchedulerGoes(p, IF own THEN [s EXCEPT !.read = file, !.at = "finish"] ELSE Passed(s))
  /\ UNCHANGED <<goalFile, peopleEdits, schedulerFaults>> /\ Untimed

\* The decision the file then tells is "idle".
FinishReservation(p) ==
  /\ SchedulerAt(p, "finish")
  /\ LET s == scheduler[p] IN
       /\ \/ /\ Takes(s.goal, s.read) /\ UNCHANGED schedulerFaults
             /\ Written(s.goal, [s.read EXCEPT !.lease = NoLease, !.ticked = s.now, !.sent = 0])
          \/ ~Takes(s.goal, s.read) /\ UNCHANGED <<goalFile, schedulerFaults>>
          \/ SchedulerFails("call") /\ UNCHANGED goalFile
       /\ SchedulerGoes(p, Passed(s))
  /\ UNCHANGED peopleEdits /\ Untimed

\* At the end of its time, or at any other, the scheduler is killed.
SchedulerKilled(p) ==
  /\ ~SchedulerAt(p, "idle")
  /\ IF moment >= scheduler[p].now + RunTime THEN UNCHANGED schedulerFaults ELSE SchedulerFails("killed")
  /\ SchedulerGoes(p, NoScheduler)
  /\ UNCHANGED <<goalFile, peopleEdits>> /\ Untimed

\* People edit a goal, or end it, in the dashboard.
PeopleEdit(g) ==
  /\ goalFile[g] # NoFile /\ FoldFunction(LAMBDA a, b : a + b, 0, peopleEdits) < MaxPeopleEdits
  /\ peopleEdits' = [peopleEdits EXCEPT ![g] = @ + 1]
  /\ \E is \in {goalFile[g].is, "done"} :
       goalFile' = [goalFile EXCEPT ![g].edits = @ + 1, ![g].is = is]
  /\ UNCHANGED <<scheduler, schedulerFaults>> /\ Untimed

MomentPasses ==
  /\ moment < LastMoment /\ moment' = moment + 1
  /\ \A p \in Schedulers : ~SchedulerAt(p, "idle") => moment < scheduler[p].now + RunTime
  /\ UNCHANGED <<goalFile, scheduler, peopleEdits, schedulerRuns, schedulerFaults>>

GoalSchedulerNext ==
  \/ \E p \in Schedulers :
       \/ StartScheduler(p) \/ LookAtGoals(p) \/ CreateConfigured(p) \/ MakeInstance(p) \/ SkipInstance(p) \/ NextGoal(p)
       \/ ReserveTick(p) \/ EndGoalTick(p) \/ FinishReservation(p) \/ SchedulerKilled(p)
  \/ \E g \in File : PeopleEdit(g)
  \/ MomentPasses
GoalSchedulerSpec == GoalSchedulerInit /\ [][GoalSchedulerNext]_schedulerVars
---------------------------------------------------------------------------
(* Files and processes keep their types. *)
GoalSchedulerTypeOK ==
  /\ \A g \in File : goalFile[g].is \in {"absent", "active", "done"}
  /\ \A p \in Schedulers : scheduler[p].chosen \subseteq File /\ scheduler[p].goal \in File \cup {"none"}

(* Two schedulers never tick one goal at a time, whatever their clocks and *)
(* whichever of them was killed before (reserve_goal_tick).                *)
OneTickAtATime ==
  \A p, q \in Schedulers :
    p # q /\ SchedulerAt(p, "tick") /\ SchedulerAt(q, "tick") => scheduler[p].goal # scheduler[q].goal

(* A goal is ticked an interval after the last tick its file tells.        *)
IntervalIsKept ==
  \A p \in Schedulers : SchedulerAt(p, "tick") =>
    LET g == scheduler[p].goal IN
    g \notin DailyGoals /\ goalFile[g].ticked > 0 => scheduler[p].now >= goalFile[g].ticked + Interval

(* A second active instance of a template is made only by a scheduler that *)
(* looked before the first was there (scheduled_active).                   *)
InstancesFollow ==
  \A g, h \in ActiveInstances(goalFile) :
    g # h => goalFile[g].looked <= goalFile[h].born /\ goalFile[h].looked <= goalFile[g].born

(* No write of a scheduler loses what people wrote.                        *)
PeoplesEditsStay == \A g \in File : goalFile[g] # NoFile => goalFile[g].edits = peopleEdits[g]

(* What schedulers that overlap promise.                                   *)
SchedulesHold == OneTickAtATime /\ IntervalIsKept /\ InstancesFollow /\ PeoplesEditsStay
=============================================================================
