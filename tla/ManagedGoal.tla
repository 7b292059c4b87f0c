----------------------------- MODULE ManagedGoal -----------------------------
(***************************************************************************)
(* Ticks of a managed goal: goal-manager plans the next step from the      *)
(* evidence (src/goal/manager.ts, src/scripts/advanceManagedGoal.ts), hands *)
(* over to the capability in the same process, and the capability's result *)
(* is written back (src/scripts/applyCapabilityReports.ts), all through    *)
(* the compare-and-set of src/goal/stateStore.ts.                          *)
(***************************************************************************)
EXTENDS Integers, Sequences, FiniteSets

CONSTANTS
  GoalProc,       \* engine processes that tick the goal
  Exclusive,      \* ticks of the goal do not overlap (the scheduler's lease)
  Evidence,       \* destination.evidence, in order
  Policy,         \* evidence -> [pending, failure: action, max: maxAttempts or 0]
  Attached,       \* evidence whose route capability is attached to the goal
  Needs,          \* evidence -> facts its arguments refer to
  GoalResult,     \* results a capability may report: [class, value, brings]
  NoGoalItem,     \* no evidence
  MaxHops,        \* MAX_CHAIN_HOPS
  MaxTicks,       \* bound: ticks started
  OperatorActs,   \* what the operator may do: "abandon", "trust"
  MaxGoalFaults   \* bound: failing calls and crashes

Item == {Evidence[i] : i \in DOMAIN Evidence}
Terminal == {"succeeded", "needsFix", "fatal"}
Class == Terminal \cup {"none", "pending", "retryable"}

ASSUME GoalAssumption ==
  /\ Len(Evidence) \in Nat /\ DOMAIN Evidence = 1..Len(Evidence)
  /\ Policy \in [Item -> [pending : {"retry", "wait", "block", "issue"},
                         failure : {"none", "retry", "wait", "block", "issue"}, max : Nat]]
  /\ \A r \in GoalResult : r.class \in Class /\ r.value \in {"none", "true", "false"}
  /\ NoGoalItem \notin Item \cup GoalResult /\ Attached \subseteq Item /\ Exclusive \in BOOLEAN
  /\ MaxHops \in Nat /\ MaxTicks \in Nat /\ MaxGoalFaults \in Nat

VARIABLES
  doc,       \* the stored goal
  gp,        \* process -> where it is, the goal it works on, its evidence, its result
  tracker,   \* evidence -> "needs fix" issues opened for it
  trusted,   \* the goal runs without approval
  tries,     \* history: evidence -> times its capability ran
  soft,      \* history: evidence whose results were all retryable
  unstored,  \* history: evidence -> runs whose result was not stored
  ticks, goalFaults

goalVars == <<doc, gp, tracker, trusted, tries, soft, unstored, ticks, goalFaults>>

Asleep == [at |-> "idle", goal |-> NoGoalItem, next |-> NoGoalItem, result |-> NoGoalItem,
           hops |-> 0, fresh |-> FALSE]

GoalInit ==
  /\ doc = [state |-> "active", sat |-> {}, known |-> {}, pending |-> NoGoalItem, blocked |-> FALSE,
            progress |-> [e \in Item |-> [class |-> "none", attempts |-> 0, issue |-> FALSE]]]
  /\ gp = [p \in GoalProc |-> Asleep]
  /\ tracker = [e \in Item |-> 0] /\ trusted = TRUE
  /\ tries = [e \in Item |-> 0] /\ soft = Item /\ unstored = [e \in Item |-> 0]
  /\ ticks = 0 /\ goalFaults = 0
-----------------------------------------------------------------------------
(* Planning. *)
Satisfied(g, e) == e \in g.sat
Missing(g) == {i \in DOMAIN Evidence : ~Satisfied(g, Evidence[i])}
FirstMissing(g) == Evidence[CHOOSE i \in Missing(g) : \A j \in Missing(g) : i <= j]

LimitReached_OffByOne(g, e) == Policy[e].max # 0 /\ g.progress[e].attempts > Policy[e].max
LimitReached(g, e) == Policy[e].max # 0 /\ g.progress[e].attempts >= Policy[e].max

(* decisionFromEvidenceProgress; "due": nextRetryAt has passed. *)
Verdict(g, e, due) ==
  LET class == g.progress[e].class
      fail  == Policy[e].failure
  IN  CASE class = "pending" -> [retry |-> "go", wait |-> "wait", block |-> "blocked",
                                 issue |-> "blocked"][Policy[e].pending]
        [] class = "retryable" /\ fail \in {"none", "retry"} ->
             IF LimitReached(g, e) THEN "blocked" ELSE IF due THEN "go" ELSE "wait"
        [] class = "retryable" /\ fail = "wait" -> "wait"
        [] class = "retryable" /\ fail \in {"block", "issue"} -> "blocked"
        [] class \in {"needsFix", "fatal"} -> IF fail = "retry" THEN "go" ELSE "blocked"
        [] class \in {"none", "succeeded"} -> "go"

(* planManagedGoalTick: the decision and the goal as it leaves it. *)
Planned(g, due) ==
  IF Missing(g) = {} THEN [kind |-> "done", of |-> NoGoalItem,
                           goal |-> [g EXCEPT !.blocked = FALSE, !.pending = NoGoalItem]]
  ELSE LET e == FirstMissing(g)
           v == Verdict(g, e, due)
           runnable == e \in Attached /\ Needs[e] \subseteq g.known
           kind == IF v = "go" THEN IF runnable THEN "dispatch" ELSE "blocked" ELSE v
       IN  [kind |-> kind, of |-> e,
            goal |-> [g EXCEPT !.blocked = kind = "blocked",
                               !.pending = IF kind = "dispatch" THEN e ELSE @]]

(* Facts a result brings are merged into the goal's. *)
FactsAfter_Lost(g, r) == g.known
FactsAfter(g, r) == g.known \cup r.brings

(* One more attempt of a piece of evidence.                                *)
Attempted(progress, r) == [progress EXCEPT !.class = r.class, !.attempts = @ + 1]

(* applyCapabilityEvidenceToGoalState, for a result about evidence e. *)
Applied(g, e, r) ==
  [g EXCEPT
    !.sat = IF r.value = "true" \/ (r.value = "none" /\ r.class = "succeeded") THEN @ \cup {e}
            ELSE IF r.value = "false" \/ r.class \in Terminal THEN @ \ {e} ELSE @,
    !.known = FactsAfter(g, r),
    !.pending = IF @ = e /\ (r.value # "none" \/ r.class \in Terminal) THEN NoGoalItem ELSE @,
    !.blocked = @ \/ r.class \in {"needsFix", "fatal"},
    !.progress[e] = Attempted(@, r)]

(* mutant: some of the evidence is enough *)
Completed_Some(g) ==
  IF g.state = "active" /\ g.sat # {} THEN [Planned(g, TRUE).goal EXCEPT !.state = "done"] ELSE g
(* completeSatisfiedManagedGoal *)
Completed(g) ==
  IF g.state = "active" /\ Missing(g) = {} THEN [Planned(g, TRUE).goal EXCEPT !.state = "done"] ELSE g

(* shouldResumeManagedGoal *)
Resumes(g, due) == g.state = "active" /\ ~g.blocked /\ Planned(g, due).kind = "dispatch"
-----------------------------------------------------------------------------
At(p, from) == gp[p].at = from
GoalFails == goalFaults < MaxGoalFaults /\ goalFaults' = goalFaults + 1
Steady == UNCHANGED <<trusted, ticks, goalFaults>>
History == <<tries, soft, unstored>>

(* Every write invalidates the tokens others hold. *)
Moves(p, q) == gp' = [x \in GoalProc |-> IF x = p THEN q
                        ELSE [gp[x] EXCEPT !.fresh = @ /\ doc' = doc]]
Becomes(p, to) == Moves(p, [gp[p] EXCEPT !.at = to])
Leaves(p) == Moves(p, Asleep)

(* A result that never reaches the goal. *)
Loses(p) ==
  unstored' = IF gp[p].result # NoGoalItem THEN [unstored EXCEPT ![gp[p].next] = @ + 1] ELSE unstored

StartGoalTick(p) ==
  /\ At(p, "idle") /\ ticks < MaxTicks /\ ticks' = ticks + 1
  /\ Exclusive => \A q \in GoalProc : At(q, "idle")
  /\ Becomes(p, "load")
  /\ UNCHANGED <<doc, tracker, trusted, History, goalFaults>>

(* loadGoalState: the goal, or nothing to tick when it cannot be read. A   *)
(* goal that is not active is not advanced, but saved again.               *)
Load(p) ==
  /\ At(p, "load")
  /\ \/ /\ Moves(p, [gp[p] EXCEPT !.goal = doc, !.at = IF doc.state = "active" THEN "advance" ELSE "token"])
        /\ UNCHANGED goalFaults
     \/ Leaves(p) /\ GoalFails
  /\ UNCHANGED <<doc, tracker, trusted, History, ticks>>

(* The lifecycle state follows every decision. *)
Reached_EachKind(g, kind) == [g EXCEPT !.state = kind]
Reached(g, kind) == IF kind = "done" THEN [g EXCEPT !.state = "done"] ELSE g

(* advanceManagedGoal and saveManagedGoalState. *)
Advance(p) ==
  /\ At(p, "advance")
  /\ \E due \in BOOLEAN :
       LET g == gp[p].goal
           d == Planned(g, due)
           next == Reached(d.goal, d.kind)
       IN  Moves(p, [gp[p] EXCEPT !.goal = next,
                                  !.next = IF d.kind = "dispatch" /\ trusted THEN d.of ELSE NoGoalItem,
                                  !.at = IF next # g THEN "token"
                                         ELSE IF d.kind = "dispatch" /\ trusted THEN "handoff" ELSE "end"])
  /\ Steady /\ UNCHANGED <<doc, tracker, History>>

(* The goal's issue cannot be found or created. *)
PrepareFails(p) ==
  /\ At(p, "advance") /\ GoalFails
  /\ Moves(p, [gp[p] EXCEPT !.goal.blocked = TRUE, !.at = "token"])
  /\ UNCHANGED <<doc, tracker, trusted, History, ticks>>

(* putGoalStateAsync: the token is read now, whatever the edit began from. *)
GetToken(p) ==
  /\ At(p, "token") \/ At(p, "report token")
  /\ Moves(p, [gp[p] EXCEPT !.fresh = TRUE, !.at = IF @ = "token" THEN "save" ELSE "report save"])
  /\ Steady /\ UNCHANGED <<doc, tracker, History>>

(* commitGoalState: a failure to persist is only logged. *)
Commit(p) ==
  /\ At(p, "save")
  /\ doc' = IF gp[p].fresh THEN gp[p].goal ELSE doc
  /\ Becomes(p, IF gp[p].next = NoGoalItem THEN "end" ELSE "handoff")
  /\ Steady /\ UNCHANGED <<tracker, History>>

CommitFails(p) ==
  /\ At(p, "token") \/ At(p, "save")
  /\ Becomes(p, IF gp[p].next = NoGoalItem THEN "end" ELSE "handoff")
  /\ GoalFails /\ UNCHANGED <<doc, tracker, trusted, History, ticks>>

(* runImplementationChain: the next hand-off, or none beyond the cap. *)
HandOff(p) ==
  /\ At(p, "handoff")
  /\ IF gp[p].hops < MaxHops
       THEN /\ tries' = IF gp[p].next = NoGoalItem THEN tries ELSE [tries EXCEPT ![gp[p].next] = @ + 1]
            /\ Moves(p, [gp[p] EXCEPT !.hops = @ + 1,
                                      !.at = IF gp[p].next = NoGoalItem THEN "load" ELSE "capability"])
       ELSE Leaves(p) /\ UNCHANGED tries
  /\ Steady /\ UNCHANGED <<doc, tracker, soft, unstored>>

Perform(p) ==
  /\ At(p, "capability")
  /\ \E r \in GoalResult :
       /\ Moves(p, [gp[p] EXCEPT !.result = r, !.at = "fetch"])
       /\ soft' = IF r.class = "retryable" THEN soft ELSE soft \ {gp[p].next}
  /\ Steady /\ UNCHANGED <<doc, tracker, tries, unstored>>

(* applyCapabilityReports up to its write. *)
Report(p) ==
  LET e == gp[p].next
      g == Applied(doc, e, gp[p].result)
      asks == gp[p].result.class = "needsFix" /\ ~g.progress[e].issue
  IN  /\ At(p, "fetch")
      /\ Moves(p, [gp[p] EXCEPT !.goal = IF asks THEN g ELSE Completed(g),
                                !.at = IF asks THEN "search" ELSE "report token"])
      /\ Steady /\ UNCHANGED <<doc, tracker, History>>

(* ensureNeedsFixIssue: search by marker, then create. *)
SearchIssue_Skipped(p) ==
  /\ At(p, "search")
  /\ Becomes(p, "create") /\ Steady /\ UNCHANGED <<doc, tracker, History>>

SearchIssue(p) ==
  /\ At(p, "search")
  /\ IF tracker[gp[p].next] > 0
       THEN Moves(p, [gp[p] EXCEPT !.goal = Completed([@ EXCEPT !.progress[gp[p].next].issue = TRUE]),
                                   !.at = "report token"])
       ELSE Becomes(p, "create")
  /\ Steady /\ UNCHANGED <<doc, tracker, History>>

CreateIssue(p) ==
  /\ At(p, "create")
  /\ tracker' = [tracker EXCEPT ![gp[p].next] = @ + 1]
  /\ Moves(p, [gp[p] EXCEPT !.goal = Completed([@ EXCEPT !.progress[gp[p].next].issue = TRUE]),
                            !.at = "report token"])
  /\ Steady /\ UNCHANGED <<doc, History>>

(* The result is stored and the goal resumes in this process; a conflict   *)
(* throws.                                                                 *)
StoreReport(p) ==
  /\ At(p, "report save")
  /\ IF gp[p].fresh
       THEN /\ doc' = gp[p].goal /\ UNCHANGED unstored
            /\ \E due \in BOOLEAN :
                 Moves(p, [Asleep EXCEPT !.hops = gp[p].hops,
                                         !.at = IF Resumes(gp[p].goal, due) THEN "handoff" ELSE "end"])
       ELSE Leaves(p) /\ Loses(p) /\ UNCHANGED doc
  /\ Steady /\ UNCHANGED <<tracker, tries, soft>>

EndTick(p) == At(p, "end") /\ Leaves(p) /\ Steady /\ UNCHANGED <<doc, tracker, History>>

(* The process dies, or a call of the report throws. *)
Interrupted(p) ==
  /\ ~At(p, "idle") /\ GoalFails
  /\ Leaves(p) /\ unstored' = IF gp[p].next = NoGoalItem \/ gp[p].at \in {"token", "save", "handoff"}
                               THEN unstored ELSE [unstored EXCEPT ![gp[p].next] = @ + 1]
  /\ UNCHANGED <<doc, tracker, trusted, tries, soft, ticks>>

(* The dashboard edits the stored goal. *)
Abandon ==
  /\ "abandon" \in OperatorActs /\ doc.state = "active"
  /\ doc' = [doc EXCEPT !.state = "abandoned"]
  /\ gp' = [p \in GoalProc |-> [gp[p] EXCEPT !.fresh = FALSE]]
  /\ Steady /\ UNCHANGED <<tracker, History>>
Trust ==
  /\ "trust" \in OperatorActs /\ trusted' = ~trusted
  /\ UNCHANGED <<doc, gp, tracker, History, ticks, goalFaults>>

Goes(p) ==
  \/ Load(p) \/ Advance(p) \/ GetToken(p) \/ Commit(p) \/ HandOff(p) \/ Perform(p) \/ Report(p)
  \/ SearchIssue(p) \/ CreateIssue(p) \/ StoreReport(p) \/ EndTick(p)
GoalNext ==
  \/ \E p \in GoalProc : StartGoalTick(p) \/ Goes(p) \/ PrepareFails(p) \/ CommitFails(p) \/ Interrupted(p)
  \/ Abandon \/ Trust

GoalSpec == GoalInit /\ [][GoalNext]_goalVars
GoalFairness == \A p \in GoalProc : WF_goalVars(StartGoalTick(p) \/ Goes(p))
-----------------------------------------------------------------------------
(* Every variable of the managed goal keeps its type. *)
GoalDocument(g) ==
  /\ g.state \in {"active", "abandoned", "done"} /\ g.sat \subseteq Item
  /\ g.pending \in Item \cup {NoGoalItem} /\ g.blocked \in BOOLEAN
  /\ \A e \in Item : g.progress[e].class \in Class /\ g.progress[e].attempts \in Nat
GoalTypeOK ==
  /\ GoalDocument(doc) /\ trusted \in BOOLEAN
  /\ \A p \in GoalProc : gp[p].goal # NoGoalItem => GoalDocument(gp[p].goal)
  /\ tracker \in [Item -> Nat]

(* A goal is done only with all of its evidence, whatever was reported     *)
(* before and by whom (planManagedGoalTick, completeSatisfiedManagedGoal). *)
DoneMeansEvidence == doc.state = "done" => doc.sat = Item

(* Evidence that needs a fix has one issue, over retries, crashes between  *)
(* the issue and the write, and lost writes (ensureNeedsFixIssue).         *)
FiledOnce == \A e \in Item : tracker[e] <= 1

(* A capability that keeps failing retryably runs maxAttempts times, not   *)
(* counting runs whose result was never stored (decisionFromEvidenceProgress). *)
RetriesAreLimited ==
  \A e \in soft : Policy[e].max # 0 => tries[e] - unstored[e] <= Policy[e].max

(* What crashes and lost writes may not multiply: issues and runs.         *)
NothingIsRepeated == FiledOnce /\ RetriesAreLimited

(* A goal gets where its evidence leads, and asks for each piece once.     *)
EvidenceDecides == DoneMeansEvidence /\ NothingIsRepeated

(* An operator's decision to abandon the goal stands: the writes of ticks  *)
(* and reports use optimistic concurrency (putGoalStateAsync).             *)
AbandonedStays == [][doc.state = "abandoned" => doc'.state = "abandoned"]_doc
=============================================================================
