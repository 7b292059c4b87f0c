------------------------------- MODULE QaGoals -------------------------------
(***************************************************************************)
(* What becomes of a QA report (scripts/createQaGoal.ts, promoteQaGoal.ts):*)
(* a comment on the issue that asked, one record issue, or a goal: its     *)
(* entry in the goals' manifest, an issue for every finding, its state.    *)
(***************************************************************************)
EXTENDS Naturals, Sequences, FiniteSets

CONSTANTS
  QaProcesses,
  QaFocus,       \* what a run's scope and day make of a goal's name
  NamedGoals,    \* goals a run may be told to attach to
  QaReports,     \* what an agent may report: [kind, findings, verdict]
  DashboardRaces, \* may the dashboard write the manifest while a run does?
  QaFaults,      \* what may fail: "list", "edit", "ticket", "store", "lost reply", "killed"
  MaxQaRuns, MaxQaFaults, MaxQaEdits \* bounds

VARIABLES
  manifests, \* the manifest issues, the newest last: [listed, readable]
  filed,     \* tickets: [goal, run, finding]
  storedBy,  \* goal -> the runs that stored it as theirs
  qaRun,     \* process -> its run
  blind,     \* history: was a manifest there and not read?
  onceListed, \* history: goals that were in the newest manifest
  qaRuns, qaFaults, qaEdits

qaVars == <<manifests, filed, storedBy, qaRun, blind, onceListed, qaRuns, qaFaults, qaEdits>>

\* Names for all that runs and edits list.
ASSUME QaAssumption ==
  MaxQaRuns \in Nat /\ MaxQaEdits \in Nat /\ \A report \in QaReports : report.findings \in Nat

GoalIds == (QaFocus \X (1 .. MaxQaRuns + MaxQaEdits)) \cup (NamedGoals \X {1})
NoReport == [kind |-> "none", findings |-> 0, verdict |-> "PASS"]
NoQaRun == [at |-> "idle", n |-> 0, named |-> "none", report |-> NoReport, number |-> 0, seen |-> {},
            id |-> <<"none", 0>>, todo |-> 0, exit |-> 0, left |-> "nothing"]

QaGoalsInit ==
  /\ manifests = <<>> /\ filed = {} /\ storedBy = [g \in GoalIds |-> {}] /\ qaRun = [p \in QaProcesses |-> NoQaRun]
  /\ blind = FALSE /\ onceListed = {} /\ qaRuns = 0 /\ qaFaults = 0 /\ qaEdits = 0
---------------------------------------------------------------------------
QaAt(p, at) == qaRun[p].at = at
QaGoes(p, r) == qaRun' = [qaRun EXCEPT ![p] = r]
QaEnds(p, exit, left) == QaGoes(p, [qaRun[p] EXCEPT !.at = "idle", !.exit = exit, !.left = left])
QaFails(what) == what \in QaFaults /\ qaFaults < MaxQaFaults /\ qaFaults' = qaFaults + 1
Manifested == UNCHANGED <<manifests, blind, onceListed, qaEdits>>
VerdictExit(report) == IF report.verdict = "FAIL" THEN 1 ELSE 0

\* splitReport: findings count when their block, or a fence, could be read.
IsGoal(report) == report.kind \in {"block", "fence"} /\ report.findings > 0

\* Asked at an issue the report goes there; the qa-goal verb takes a report
\* from there only when it has the block.
StartQa(p, entry, named, report) ==
  /\ QaAt(p, "idle") /\ qaRuns < MaxQaRuns /\ qaRuns' = qaRuns + 1
  /\ QaGoes(p,
       IF report.kind = "none" THEN [NoQaRun EXCEPT !.n = qaRuns', !.exit = 1]
       ELSE IF entry = "promote" /\ report.kind = "fence" THEN [NoQaRun EXCEPT !.n = qaRuns', !.exit = 3]
       ELSE [NoQaRun EXCEPT !.n = qaRuns', !.named = named, !.report = report, !.todo = report.findings,
               !.at = IF entry = "tracked" THEN "comment" ELSE IF IsGoal(report) THEN "read" ELSE "record"])
  /\ UNCHANGED <<filed, storedBy, qaFaults>> /\ Manifested

PostReport(p) ==
  /\ QaAt(p, "comment") \/ QaAt(p, "record")
  /\ \/ QaEnds(p, VerdictExit(qaRun[p].report), qaRun[p].at) /\ UNCHANGED qaFaults
     \/ QaEnds(p, 4, "nothing") /\ QaFails("ticket")
  /\ UNCHANGED <<filed, storedBy, qaRuns>> /\ Manifested

\* buildGoalId: the first name that the manifest does not have.
\* mutant: the day's name as it is.
NewGoalId_Plain(focus, taken) == <<focus, 1>>
NewGoalId(focus, taken) == <<focus, CHOOSE n \in 1 .. MaxQaRuns + MaxQaEdits :
  <<focus, n>> \notin taken /\ \A k \in 1 .. n - 1 : <<focus, k>> \in taken>>

\* loadManifest: the newest issue; a list that fails is none, a body that
\* cannot be read an empty one. A run told its goal takes only the number.
ReadManifest(p) ==
  /\ QaAt(p, "read")
  /\ \E number \in {Len(manifests), 0} :
       LET readable == number > 0 /\ manifests[number].readable
           seen == IF readable THEN manifests[number].listed ELSE {}
           r == [qaRun[p] EXCEPT !.number = number, !.seen = seen]
       IN /\ IF number = Len(manifests) THEN UNCHANGED qaFaults ELSE QaFails("list")
          /\ IF r.named # "none"
             THEN QaGoes(p, [r EXCEPT !.id = <<r.named, 1>>, !.at = "tickets"]) /\ UNCHANGED blind
             ELSE /\ blind' = (blind \/ (manifests # <<>> /\ ~readable))
                  /\ \E focus \in QaFocus :
                       QaGoes(p, [r EXCEPT !.id = NewGoalId(focus, seen), !.at = "list"])
  /\ UNCHANGED <<manifests, filed, storedBy, onceListed, qaRuns, qaEdits>>

\* createOrUpdateManifestIssue, before any ticket.
WithManifest(number, listed) ==
  LET entry == [listed |-> listed, readable |-> TRUE] IN
  IF number = 0 THEN Append(manifests, entry) ELSE [manifests EXCEPT ![number] = entry]
ListGoal(p) ==
  /\ QaAt(p, "list")
  /\ LET r == qaRun[p]
         listed == r.seen \cup {r.id}
     IN \/ /\ manifests' = WithManifest(r.number, listed) /\ onceListed' = onceListed \cup {r.id}
           /\ \/ QaGoes(p, [r EXCEPT !.at = "tickets", !.left = "list"]) /\ UNCHANGED qaFaults
              \/ QaEnds(p, 4, "list") /\ QaFails("lost reply")
        \/ QaEnds(p, 4, "nothing") /\ QaFails("edit") /\ UNCHANGED <<manifests, onceListed>>
  /\ UNCHANGED <<filed, storedBy, blind, qaRuns, qaEdits>>

OpenTicket(p) ==
  /\ QaAt(p, "tickets") /\ qaRun[p].todo > 0
  /\ LET r == qaRun[p] IN
       /\ \/ filed' = filed \cup {[goal |-> r.id, run |-> r.n, finding |-> r.todo]} /\ UNCHANGED qaFaults
          \/ QaFails("ticket") /\ UNCHANGED filed
       /\ QaGoes(p, [r EXCEPT !.todo = @ - 1])
  /\ UNCHANGED <<storedBy, qaRuns>> /\ Manifested

\* The goal is stored active, over what was there; a failure is only written
\* to the log.
StoreQaGoal(p) ==
  /\ QaAt(p, "tickets") /\ qaRun[p].todo = 0
  /\ LET r == qaRun[p] IN
       /\ \/ storedBy' = [storedBy EXCEPT ![r.id] = @ \cup {r.n}] /\ UNCHANGED qaFaults
          \/ QaFails("store") /\ UNCHANGED storedBy
       /\ QaEnds(p, VerdictExit(r.report), r.left)
  /\ UNCHANGED <<filed, qaRuns>> /\ Manifested

QaKilled(p) ==
  /\ ~QaAt(p, "idle") /\ QaFails("killed") /\ QaEnds(p, 137, "nothing")
  /\ UNCHANGED <<filed, storedBy, qaRuns>> /\ Manifested

\* The dashboard adds an entry, or somebody's edit makes the body unreadable.
DashboardEdits ==
  /\ manifests # <<>> /\ qaEdits < MaxQaEdits /\ qaEdits' = qaEdits + 1
  /\ DashboardRaces \/ \A p \in QaProcesses : QaAt(p, "idle")
  /\ LET last == Len(manifests) IN
       \/ /\ manifests[last].readable
          /\ \E g \in GoalIds \ manifests[last].listed :
               manifests' = [manifests EXCEPT ![last].listed = @ \cup {g}] /\ onceListed' = onceListed \cup {g}
       \/ manifests' = [manifests EXCEPT ![last].readable = FALSE] /\ UNCHANGED onceListed
  /\ UNCHANGED <<filed, storedBy, qaRun, blind, qaRuns, qaFaults>>

QaGoalsNext ==
  \/ \E p \in QaProcesses :
       \/ \E entry \in {"tracked", "standalone", "promote"}, named \in NamedGoals \cup {"none"}, report \in QaReports :
            StartQa(p, entry, named, report)
       \/ PostReport(p) \/ ReadManifest(p) \/ ListGoal(p) \/ OpenTicket(p) \/ StoreQaGoal(p) \/ QaKilled(p)
  \/ DashboardEdits
QaGoalsSpec == QaGoalsInit /\ [][QaGoalsNext]_qaVars
---------------------------------------------------------------------------
(* Runs and goals keep their types.                                        *)
QaGoalsTypeOK ==
  /\ \A p \in QaProcesses : qaRun[p].exit \in {0, 1, 3, 4, 137} /\ qaRun[p].number \in 0 .. Len(manifests)
  /\ onceListed \subseteq GoalIds

(* A goal that was listed stays listed where the dashboard looks for it,   *)
(* unless a run could not read what was there.                             *)
ListedGoalsStay ==
  manifests # <<>> /\ ~blind /\ manifests[Len(manifests)].readable =>
    onceListed \subseteq manifests[Len(manifests)].listed

(* No run that names its goal itself takes a name under which another      *)
(* stored a goal or filed tickets, unless it could not read the manifest.  *)
NobodysGoalIsTaken ==
  ~blind => \A g \in QaFocus \X (1 .. MaxQaRuns + MaxQaEdits) :
    Cardinality(storedBy[g] \cup {t.run : t \in {x \in filed : x.goal = g}}) <= 1

(* A run that ends by its verdict left the report where people look, a     *)
(* comment, a record or an entry; only one that attaches may leave nothing.*)
ReportsAreLeft ==
  \A p \in QaProcesses :
    QaAt(p, "idle") /\ qaRun[p].report.kind # "none" /\ qaRun[p].exit = VerdictExit(qaRun[p].report) =>
      qaRun[p].left # "nothing" \/ qaRun[p].named # "none"

(* The properties of the goals QA runs make.                               *)
QaGoalsHold == ListedGoalsStay /\ NobodysGoalIsTaken /\ ReportsAreLeft
=============================================================================
