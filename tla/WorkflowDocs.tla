------------------------------ MODULE WorkflowDocs ------------------------------
(***************************************************************************)
(* From a workflow document to its run (src/workflowValidation.ts,         *)
(* src/workflowDefinitions.ts, src/job.ts): which documents are accepted,  *)
(* what acceptance says of a graph, and the run of a workflow that is a    *)
(* plain list of steps.  The run of an accepted graph is WorkflowRun's.    *)
(***************************************************************************)
EXTENDS Integers, Sequences, FiniteSets

CONSTANTS
  Documents,     \* documents: [startAt, steps]; see DocStep
  MaxDocSteps, MaxNext, MaxLoop,  \* 100 steps, 20 connections of one, 100 iterations in the code
  AskedEvidence, \* evidence that runs are asked for, with "none"
  MaxDocStarts   \* starts of one run: bound of the model

(* A connection and a step, as far as validation tells them apart: "bad" is*)
(* whatever its field's check refuses, 0 an absent maxIterations, -1 one   *)
(* that is no positive integer.                                            *)
Connection(to, when, default, max) == [to |-> to, when |-> when, default |-> default, max |-> max]
DocStep == [id |-> "none", capability |-> "known", fields |-> "ok", approval |-> FALSE, from |-> "none", next |-> << >>,
            evidence |-> "none", when |-> "always", continues |-> FALSE, onPr |-> FALSE]

DocSteps ==
  [id : STRING, capability : STRING, fields : STRING, approval : BOOLEAN, from : STRING,
   next : Seq([to : STRING, when : STRING, default : BOOLEAN, max : Int]),
   evidence : STRING, when : STRING, continues : BOOLEAN, onPr : BOOLEAN]

ASSUME WorkflowDocsAssumption ==
  /\ Documents \subseteq [startAt : STRING, steps : Seq(DocSteps)]
  /\ AskedEvidence \subseteq STRING
  /\ {MaxDocSteps, MaxNext, MaxLoop, MaxDocStarts} \subseteq Nat

VARIABLES
  document,    \* the document
  linear,      \* [at, index, pr, last, asked, starts]: the process that runs it
  linearRun   \* [status, steps]: the record, and what became of each step in this start
docVars == <<document, linear, linearRun>>

NoDocument == [startAt |-> "none", steps |-> << >>]
Untouched(d) == [i \in DOMAIN d.steps |-> "none"]
WorkflowDocsInit ==
  /\ document = NoDocument
  /\ linear = [at |-> "idle", index |-> 1, pr |-> FALSE, last |-> "none", asked |-> "none", starts |-> 0]
  /\ linearRun = [status |-> "absent", steps |-> << >>]

-----------------------------------------------------------------------------
(* validateWorkflow.  A document with a startAt, an id or a connection is a*)
(* graph.                                                                  *)
IsGraph(d) == d.startAt # "none" \/ \E i \in DOMAIN d.steps : d.steps[i].id # "none" \/ d.steps[i].next # << >>
Found(code, condition) == IF condition THEN {code} ELSE {}
StepIssues(d, i, known) ==
  LET step == d.steps[i] IN
  Found("unsupported_step_field", step.fields = "unsupported")
  \cup Found("invalid_step_value", step.fields = "bad")
  \cup Found("invalid_capability", step.capability = "bad")
  \cup Found("unknown_capability", known /\ step.capability = "unknown")
  \cup Found("approval_requires_step_id", step.approval /\ step.id = "none")
  \cup Found("invalid_step_id", IsGraph(d) /\ step.id \in {"none", "bad"})

DocIds(d) == {d.steps[i].id : i \in DOMAIN d.steps} \ {"none", "bad"}
Start(d) == IF d.startAt # "none" THEN d.startAt ELSE d.steps[1].id
Place(d, id) == CHOOSE i \in DOMAIN d.steps : d.steps[i].id = id /\ \A j \in DOMAIN d.steps : d.steps[j].id = id => i <= j

(* A connection back to its own or an earlier step must be bounded; one    *)
(* without a condition stands alone.                                       *)
Backward_Earlier(d, i, c) == c.to \in DocIds(d) /\ Place(d, c.to) < i  \* mutant
Backward(d, i, c) == c.to \in DocIds(d) /\ Place(d, c.to) <= i
Plain(c) == c.when = "none" /\ ~c.default /\ c.max = 0
ConnectionIssues(d, i, c) ==
  Found("invalid_transition_target", c.to = "bad")
  \cup Found("conflicting_transition", c.default /\ c.when # "none")
  \cup Found("invalid_condition", c.when = "bad")
  \cup Found("missing_transition_target", c.to \notin DocIds(d) \cup {"$end", "bad"})
  \cup Found("unbounded_loop", Backward(d, i, c) /\ c.max <= 0)
  \cup Found("loop_limit_too_high", Backward(d, i, c) /\ c.max > MaxLoop)
  \cup Found("invalid_loop_limit", c.to \in DocIds(d) /\ ~Backward(d, i, c) /\ c.max < 0)
NextIssues(d, i) ==
  LET next == d.steps[i].next
      plain == {k \in DOMAIN next : Plain(next[k])} IN
  Found("too_many_transitions", Len(next) > MaxNext)
  \cup Found("multiple_default_transitions", Cardinality({k \in DOMAIN next : next[k].default}) > 1)
  \cup Found("ambiguous_transition", Cardinality(plain) > 1 \/ (plain # {} /\ Len(next) > 1))
  \cup Found("missing_input_step", d.steps[i].from \notin DocIds(d) \cup {"none"})
  \cup UNION {ConnectionIssues(d, i, next[k]) : k \in DOMAIN next}

(* The steps a walk can come to: those the connections lead to, from start.*)
LeadsTo(d, id) ==
  LET i == Place(d, id) IN {d.steps[i].next[k].to : k \in DOMAIN d.steps[i].next} \cap DocIds(d)
ReachableIn(d) ==
  LET reached[n \in 0 .. Len(d.steps)] ==
        IF n = 0 THEN {Start(d)} ELSE reached[n - 1] \cup UNION {LeadsTo(d, id) : id \in reached[n - 1]}
  IN reached[Len(d.steps)]
MayEnd(d, id) ==
  LET i == Place(d, id) IN LeadsTo(d, id) = {} \/ \E k \in DOMAIN d.steps[i].next : d.steps[i].next[k].to = "$end"
GraphIssues(d) ==
  Found("duplicate_step_id", \E i, j \in DOMAIN d.steps : i # j /\ d.steps[i].id = d.steps[j].id /\ d.steps[i].id \in DocIds(d))
  \cup (UNION {NextIssues(d, i) : i \in {j \in DOMAIN d.steps : d.steps[j].id # "none"}})
  \cup (IF Start(d) \notin DocIds(d) THEN {"missing_start_step"}
        ELSE Found("unreachable_step", DocIds(d) \ ReachableIn(d) # {})
             \cup Found("missing_terminal_step", ~\E id \in ReachableIn(d) : MayEnd(d, id)))
IssuesOf(d, known) ==
  IF d.steps = << >> THEN {"steps_required"}
  ELSE Found("too_many_steps", Len(d.steps) > MaxDocSteps)
       \cup (UNION {StepIssues(d, i, known) : i \in DOMAIN d.steps})
       \cup (IF IsGraph(d) THEN GraphIssues(d) ELSE {})

(* A document with an issue is no workflow; the capabilities it names are  *)
(* looked up when a run starts.                                            *)
ReadDocument ==
  /\ linear.at = "idle" /\ document = NoDocument
  /\ \E d \in Documents : document' = d /\ linear' = [linear EXCEPT !.at = IF IssuesOf(d, FALSE) = {} THEN "accepted" ELSE "refused"]
  /\ UNCHANGED linearRun

-----------------------------------------------------------------------------
(* runLinearCapabilityWorkflow.  A start begins at the step that brings the*)
(* evidence asked for; where an earlier start stopped is not looked at.    *)
ResumeIndex_After(d, asked) ==  \* mutant
  LET found == {i \in DOMAIN d.steps : d.steps[i].evidence = asked} IN
  IF asked = "none" \/ found = {} THEN 1 ELSE (CHOOSE i \in found : \A j \in found : i <= j) + 1
ResumeIndex(d, asked) ==
  LET found == {i \in DOMAIN d.steps : d.steps[i].evidence = asked} IN
  IF asked = "none" \/ found = {} THEN 1 ELSE CHOOSE i \in found : \A j \in found : i <= j
StartLinear ==
  /\ linear.at \in {"accepted", "stopped"} /\ ~IsGraph(document) /\ linear.starts < MaxDocStarts /\ linearRun.status # "done"
  /\ \E asked \in IF linear.starts = 0 THEN AskedEvidence ELSE {linear.asked} :
       linear' = [at |-> IF IssuesOf(document, TRUE) = {} THEN "choose" ELSE "stopped", index |-> ResumeIndex(document, asked),
                  pr |-> FALSE, last |-> "none", asked |-> asked, starts |-> linear.starts + 1]
  /\ linearRun' = [linearRun EXCEPT !.steps = Untouched(document)]
  /\ UNCHANGED document

(* The next step: past the last the run is done; one whose condition the   *)
(* last result does not meet is passed over; one that needs a pull request *)
(* nobody opened throws; another is recorded and run.                      *)
WouldRun(step) == step.when = "always" \/ (step.when = "afterFailure" /\ linear.last = "failed")
NextLinearStep ==
  /\ linear.at = "choose"
  /\ IF linear.index > Len(document.steps)
     THEN linear' = [linear EXCEPT !.at = "ended"] /\ linearRun' = [linearRun EXCEPT !.status = "done"]
     ELSE LET step == document.steps[linear.index] IN
          CASE ~WouldRun(step) ->
                 /\ linear' = [linear EXCEPT !.index = @ + 1]
                 /\ linearRun' = [linearRun EXCEPT !.steps[linear.index] = "skipped"]
            [] WouldRun(step) /\ step.onPr /\ ~linear.pr -> linear' = [linear EXCEPT !.at = "stopped"] /\ UNCHANGED linearRun
            [] OTHER ->
                 /\ linear' = [linear EXCEPT !.at = "work"]
                 /\ linearRun' = [linearRun EXCEPT !.status = "running", !.steps[linear.index] = "running"]
  /\ UNCHANGED document

(* A step that fails ends the run unless its outcome is one the workflow   *)
(* goes on with.                                                           *)
GoesOn_Always(step, end) == TRUE  \* mutant
GoesOn(step, end) == end = "completed" \/ (end = "failed" /\ step.continues)
FinishLinearStep ==
  /\ linear.at = "work"
  /\ \E end \in {"completed", "failed", "blocked"}, opens \in BOOLEAN :
       LET pr == linear.pr \/ (opens /\ end # "blocked") IN
       IF GoesOn(document.steps[linear.index], end)
       THEN /\ linear' = [linear EXCEPT !.at = "choose", !.index = @ + 1, !.pr = pr, !.last = end]
            /\ linearRun' = [linearRun EXCEPT !.steps[linear.index] = end]
       ELSE /\ linear' = [linear EXCEPT !.at = "stopped", !.pr = pr, !.last = end]
            /\ linearRun' = [status |-> end, steps |-> [linearRun.steps EXCEPT ![linear.index] = end]]
  /\ UNCHANGED document

LinearKilled ==
  /\ linear.at \in {"choose", "work"} /\ linear.starts < MaxDocStarts
  /\ linear' = [linear EXCEPT !.at = "stopped"]
  /\ UNCHANGED <<document, linearRun>>

WorkflowDocsNext == ReadDocument \/ StartLinear \/ NextLinearStep \/ FinishLinearStep \/ LinearKilled
WorkflowDocsSpec == WorkflowDocsInit /\ [][WorkflowDocsNext]_docVars

-----------------------------------------------------------------------------
WorkflowDocsTypeOK ==
  /\ DOMAIN document = DOMAIN NoDocument
  /\ linear.at \in {"idle", "accepted", "refused", "choose", "work", "stopped", "ended"}
  /\ linear.index \in 1 .. Len(document.steps) + 1
  /\ linearRun.status \in {"absent", "running", "done", "failed", "blocked"}

(* What WorkflowRun's interpreter needs of a graph, whatever the document  *)
(* looked like: the walk starts at a step of the workflow and its          *)
(* connections lead to steps of it; a circle in it holds a bounded         *)
(* connection, so that a walk ends; ids name one step; every step can be   *)
(* come to, and one of them can be the last (workflowValidation.ts:47).    *)
Unbounded(d) ==
  [id \in DocIds(d) |-> LET i == Place(d, id) IN
     {d.steps[i].next[k].to : k \in {m \in DOMAIN d.steps[i].next : d.steps[i].next[m].max <= 0}} \cap DocIds(d)]
OnUnboundedCircle(d, id) ==
  LET reached[n \in 1 .. Len(d.steps)] ==
        IF n = 1 THEN Unbounded(d)[id] ELSE reached[n - 1] \cup UNION {Unbounded(d)[x] : x \in reached[n - 1]}
  IN id \in reached[Len(d.steps)]
ClosedUnderWalks(d, S) == Start(d) \in S /\ \A id \in S : LeadsTo(d, id) \subseteq S
Sound(d) ==
  /\ Start(d) \in DocIds(d) /\ Cardinality(DocIds(d)) = Len(d.steps)
  /\ \A i \in DOMAIN d.steps : \A k \in DOMAIN d.steps[i].next :
       /\ d.steps[i].next[k].to \in DocIds(d) \cup {"$end"}
       /\ Plain(d.steps[i].next[k]) => Len(d.steps[i].next) = 1
  /\ \A id \in DocIds(d) : ~OnUnboundedCircle(d, id)
  /\ \A S \in SUBSET DocIds(d) : ClosedUnderWalks(d, S) => S = DocIds(d)
  /\ \E id \in DocIds(d) : MayEnd(d, id)
AcceptedGraphsAreSound == (linear.at = "accepted" /\ IsGraph(document)) => Sound(document)

(* A list of steps is done only when every step from the one asked for on  *)
(* was completed, passed over by its own condition, or failed in a way the *)
(* workflow goes on with, all in this start (job.ts:612, 663).             *)
LinearRunIsWhole ==
  linearRun.status = "done" =>
    \A i \in DOMAIN document.steps :
      LET step == document.steps[i] IN
      \/ linearRun.steps[i] = "completed" \/ (linearRun.steps[i] = "skipped" /\ step.when # "always")
      \/ linearRun.steps[i] = "failed" /\ step.continues
      \/ linear.asked # "none" /\ linearRun.steps[i] = "none" /\ step.evidence # linear.asked
         /\ \E j \in DOMAIN document.steps : j > i /\ document.steps[j].evidence = linear.asked

(* A document that is accepted, graph or list, can be run to its end.      *)
DocumentsHold == AcceptedGraphsAreSound /\ LinearRunIsWhole
=============================================================================
