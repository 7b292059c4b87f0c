------------------------------ MODULE Container ------------------------------
(***************************************************************************)
(* A container implementation (src/container.ts): the children of one      *)
(* profile run one after another in one process, each routed by the action *)
(* the one before left in the task state.  There are two task states, the  *)
(* issue's and the pull request's (src/state.ts); a child writes the one   *)
(* of its target, and the container reads that one back.  When the loop    *)
(* ends, finishFlow (src/scripts/finishFlow.ts) stores the state the       *)
(* container holds as the issue's.  A container may be started again, and  *)
(* then skips what is recorded as completed.                               *)
(***************************************************************************)
EXTENDS Naturals, Sequences, FiniteSets

CONSTANTS
  Children,               \* the profile's children: [name, target, next]
  ChildResults,           \* child -> what its runs can end in: [exit, says, opens]
  Mirrors,                \* the child that opens the pull request copies its state there
  ContainerMaxIterations, \* bound of the loop (50 in the code)
  ContainerFaults,        \* subset of {"read", "throw", "killed"}
  MaxContainerStarts,     \* bound of the model
  MaxContainerFaults      \* bound of the model

ChildNames == {Children[i].name : i \in DOMAIN Children}
Actions == {"none", "COMPLETED", "FAILED", "PASS", "CONCERNS"}

ASSUME ContainerAssumption ==
  /\ Len(Children) \in Nat \ {0} /\ DOMAIN Children = 1..Len(Children)
  /\ \A i \in DOMAIN Children :
       /\ Children[i].target \in {"issue", "pr"}
       /\ DOMAIN Children[i].next \subseteq Actions \cup {"*"}
  /\ \A c \in ChildNames : \A r \in ChildResults[c] :
       r.exit \in {0, 1} /\ r.says \in Actions /\ r.opens \in BOOLEAN
  /\ Mirrors \in BOOLEAN
  /\ ContainerMaxIterations \in Nat /\ MaxContainerStarts \in Nat /\ MaxContainerFaults \in Nat

VARIABLES
  taskStates,   \* the stored task states: thread -> [last, attempts, pr]
  childLoop,    \* the container's process
  containerLog  \* [starts, faults, finished]: bounds, and the children that ever recorded COMPLETED
containerVars == <<taskStates, childLoop, containerLog>>

(* Last actions and attempts of each child, and whether core.prUrl is set. *)
EmptyTaskState == [last |-> [c \in ChildNames |-> "none"], attempts |-> [c \in ChildNames |-> 0], pr |-> FALSE]
NoLoop == [at |-> "idle", idx |-> 0, iteration |-> 0, known |-> FALSE, cached |-> EmptyTaskState,
           prior |-> EmptyTaskState, says |-> "none", exit |-> 0, action |-> "none", outcome |-> "none"]

ContainerInit ==
  /\ taskStates = [t \in {"issue", "pr"} |-> EmptyTaskState]
  /\ childLoop = NoLoop
  /\ containerLog = [starts |-> 0, faults |-> 0, finished |-> {}]

-----------------------------------------------------------------------------
Child == Children[childLoop.idx]

(* Where the container looks for a child's outcome: the pull request when  *)
(* the child's target is it and the state at hand names one, otherwise the *)
(* issue; the state at hand itself when neither can be read.               *)
Thread_Issue == "issue"  \* mutant: always the issue
Thread == IF Child.target = "pr" /\ childLoop.cached.pr THEN "pr" ELSE "issue"
ReadFaults(faults) == {n \in {0, 1} : n = 1 => "read" \in ContainerFaults /\ faults < MaxContainerFaults}
StateRead(failing) ==
  IF failing = 0 THEN taskStates[Thread]
  ELSE IF Thread = "pr" THEN taskStates["issue"]
  ELSE childLoop.cached

Ends(process, exit) == [process EXCEPT !.at = "ended", !.exit = exit]

(* A container starts: its own preflight loads the issue's task state.     *)
StartContainer ==
  /\ childLoop.at = "idle" /\ containerLog.starts < MaxContainerStarts
  /\ childLoop' = [NoLoop EXCEPT !.at = "next", !.idx = 1, !.cached = taskStates["issue"]]
  /\ containerLog' = [containerLog EXCEPT !.starts = @ + 1]
  /\ UNCHANGED taskStates

(* One iteration up to the child's invocation: the iteration cap, what the *)
(* task state already shows, the pull request a child may need.            *)
TooMany == childLoop.iteration >= ContainerMaxIterations
SkipsChild_Never(prior) == FALSE  \* mutant: a completed child is run again
SkipsChild(prior) == prior.last[Child.name] = "COMPLETED"
NextChild ==
  /\ childLoop.at = "next"
  /\ \E failing \in ReadFaults(containerLog.faults) :
       LET prior == StateRead(failing)
           known == childLoop.known \/ prior.pr
           process == [childLoop EXCEPT !.iteration = @ + 1, !.known = known, !.prior = prior, !.says = "none"]
       IN  /\ childLoop' = IF TooMany THEN Ends(childLoop, 1)
                      ELSE IF SkipsChild(prior) THEN [process EXCEPT !.at = "route", !.action = "COMPLETED"]
                      ELSE IF Child.target = "pr" /\ ~known THEN Ends(process, 1)
                      ELSE [process EXCEPT !.at = "child"]
           /\ TooMany => failing = 0
           /\ containerLog' = [containerLog EXCEPT !.faults = @ + failing]
  /\ UNCHANGED taskStates

(* The child runs: it records its action in its target's state, counting   *)
(* the attempt, unless it bails before its saveTaskState.                  *)
Recorded(state, child, result) ==
  IF result.says = "none" THEN state
  ELSE [state EXCEPT !.last[child] = result.says, !.attempts[child] = @ + 1, !.pr = @ \/ result.opens]
RunChild ==
  /\ childLoop.at = "child"
  /\ \E result \in ChildResults[Child.name] :
       LET saved == Recorded(taskStates[Child.target], Child.name, result) IN
       /\ taskStates' = [t \in DOMAIN taskStates |->
                           IF t = Child.target \/ (Mirrors /\ result.opens) THEN saved ELSE taskStates[t]]
       /\ childLoop' = [childLoop EXCEPT !.at = "back", !.says = result.says, !.exit = result.exit]
       /\ containerLog' = [containerLog EXCEPT !.finished = IF result.says = "COMPLETED" THEN @ \cup {Child.name} ELSE @]

(* A child that throws ends the container.                                 *)
ChildThrows ==
  /\ childLoop.at = "child" /\ "throw" \in ContainerFaults /\ containerLog.faults < MaxContainerFaults
  /\ childLoop' = Ends(childLoop, 1)
  /\ containerLog' = [containerLog EXCEPT !.faults = @ + 1]
  /\ UNCHANGED taskStates

(* What the child did is what the state read back shows of it, when its    *)
(* attempts grew; otherwise its exit code stands for an action, which is   *)
(* entered in the container's copy of the state only.                      *)
ChildReturned ==
  /\ childLoop.at = "back"
  /\ \E failing \in ReadFaults(containerLog.faults) :
       LET read == StateRead(failing)
           c == Child.name
           before == childLoop.prior.attempts[c]
           wrote == read.attempts[c] > before /\ read.last[c] # "none"
       IN  /\ childLoop' = [childLoop EXCEPT
                !.at = "route", !.known = @ \/ read.pr,
                !.action = IF wrote THEN read.last[c] ELSE IF childLoop.exit = 0 THEN "COMPLETED" ELSE "FAILED",
                !.cached = IF wrote THEN read ELSE [read EXCEPT !.attempts[c] = before + 1]]
           /\ containerLog' = [containerLog EXCEPT !.faults = @ + failing]
  /\ UNCHANGED taskStates

(* The route of the action, or of "*"; none ends the container.            *)
RouteOf(action) ==
  IF action \in DOMAIN Child.next THEN Child.next[action]
  ELSE IF "*" \in DOMAIN Child.next THEN Child.next["*"]
  ELSE "abort"
Route ==
  /\ childLoop.at = "route"
  /\ LET route == RouteOf(childLoop.action) IN
     childLoop' = IF route \in ChildNames
             THEN [childLoop EXCEPT !.at = "next", !.idx = CHOOSE i \in DOMAIN Children : Children[i].name = route]
             ELSE Ends(childLoop, IF route = "done" THEN 0 ELSE 1)
  /\ UNCHANGED <<taskStates, containerLog>>

(* finishFlow: the container's copy becomes the issue's task state.        *)
FinishFlow ==
  /\ childLoop.at = "ended"
  /\ taskStates' = [taskStates EXCEPT !["issue"] = childLoop.cached]
  /\ childLoop' = [childLoop EXCEPT !.at = "idle", !.outcome = IF childLoop.exit = 0 THEN "done" ELSE "aborted"]
  /\ UNCHANGED containerLog

(* The process dies, at any point.                                         *)
ContainerKilled ==
  /\ childLoop.at # "idle" /\ "killed" \in ContainerFaults /\ containerLog.faults < MaxContainerFaults
  /\ childLoop' = NoLoop
  /\ containerLog' = [containerLog EXCEPT !.faults = @ + 1]
  /\ UNCHANGED taskStates

ContainerNext ==
  \/ StartContainer \/ NextChild \/ RunChild \/ ChildThrows \/ ChildReturned \/ Route \/ FinishFlow
  \/ ContainerKilled
ContainerSpec == ContainerInit /\ [][ContainerNext]_containerVars

-----------------------------------------------------------------------------
ContainerTypeOK ==
  /\ \A t \in {"issue", "pr"} :
       /\ taskStates[t].last \in [ChildNames -> Actions]
       /\ taskStates[t].attempts \in [ChildNames -> Nat]
       /\ taskStates[t].pr \in BOOLEAN
  /\ childLoop.at \in {"idle", "next", "child", "back", "route", "ended"}
  /\ childLoop.idx \in 0..Len(Children) /\ childLoop.iteration \in 0..ContainerMaxIterations
  /\ childLoop.action \in Actions /\ containerLog.finished \subseteq ChildNames

(* The container routes by what the child it just ran reported, not by what*)
(* another state shows or by its exit code (container.ts:364).             *)
RoutedByReport == childLoop.at = "route" /\ childLoop.says # "none" => childLoop.action = childLoop.says
(* No child runs again once it recorded that it completed, whatever killed *)
(* or aborted the containers before (container.ts:141).                    *)
NothingIsRedone == childLoop.at = "child" => Child.name \notin containerLog.finished
(* The walk over the children follows their reports and repeats none.      *)
ContainerKeepsCourse == RoutedByReport /\ NothingIsRedone
=============================================================================
