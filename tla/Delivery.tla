------------------------------ MODULE Delivery ------------------------------
(***************************************************************************)
(* How a run of a pr-branch profile delivers what its agent did            *)
(* (src/executor.ts, src/lifecycles/prBranch.ts and the postflight scripts *)
(* parseAgentResult, verifyWithRetry, checkCoverageWithRetry,              *)
(* commitAndPush, requireDeliveryArtifacts, ensurePr, postIssueComment,    *)
(* saveTaskState, finalizeTerminal, over src/commit.ts,                    *)
(* src/pushWithRetry.ts, src/branch.ts, src/pr.ts).                        *)
(*                                                                         *)
(* One issue with its branch and pull request; runs for it one after the   *)
(* other (the workflow's concurrency group), people who push to the branch *)
(* and merge it meanwhile, and git, GitHub and the state backend failing.  *)
(* A commit is named by the run or person that made it; a branch is the    *)
(* set of commits it holds.                                                *)
(***************************************************************************)
EXTENDS Naturals, FiniteSets

CONSTANTS
  Profiles,        \* the profiles that run: "run" (checks, finalize), "capability-delivery"
  CoverageRules,   \* BOOLEAN: the configuration asks for sibling tests
  PushAttempts,    \* pushes tried before giving up, DEFAULT_MAX_RETRIES
  Chained,         \* BOOLEAN: one process may deliver more than once for the issue
  PeopleActs,      \* what people do meanwhile: "push", "merge"
  DeliveryFaults,  \* what may fail: "stage", "push", "fetch", "conflict", "lookup",
                   \* "create", "patch", "phantom", "save", "agent", "killed"
  MaxRuns, MaxPeople, MaxDeliveryFaults   \* bounds of the model

(* pushWithRetry.ts:43: at least one push is tried.                        *)
ASSUME DeliveryAssumption ==
  /\ Profiles \subseteq {"run", "capability-delivery"} /\ PushAttempts \in Nat \ {0}
  /\ CoverageRules \in BOOLEAN /\ Chained \in BOOLEAN
  /\ MaxRuns \in Nat /\ MaxPeople \in Nat /\ MaxDeliveryFaults \in Nat

VARIABLES
  origin,     \* the branch on the remote: its commits, or Gone
  trunk,      \* the default branch's share of those commits
  pull,       \* the open pull request of the branch: "none", "draft", "ready"
  phantom,    \* GitHub takes the branch for one with a pull request nobody can list
  clone,      \* the branch in the runner's clone
  run,          \* the run in progress
  sentinels,  \* per profile, the commit result recorded on the runner's disk
  label,      \* the issue's kody label
  task,       \* the saved task state
  ended,      \* the last run that ended (history)
  unchecked,  \* runs with checks whose commit is not what passed them (history)
  people, deliveryFaults   \* bounded counters

deliveryVars ==
  <<origin, trunk, pull, phantom, clone, run, sentinels, label, task, ended, unchecked, people, deliveryFaults>>
outside == <<origin, trunk, pull, phantom>>
told == <<label, task>>

Gone == {0}
Runs == 1..MaxRuns
Persons == (MaxRuns + 1)..(MaxRuns + MaxPeople)
NoSentinel == [committed |-> FALSE]

(* What an agent's session can come to: DONE, FAILED or only prose, with   *)
(* changes or none, protected files among them.                            *)
Replies == {r \in [done : BOOLEAN, prose : BOOLEAN, work : BOOLEAN, omits : BOOLEAN] : r.done => ~r.prose}
NoReply == [done |-> FALSE, prose |-> FALSE, work |-> FALSE, omits |-> FALSE]

Idle(j) ==
  [at |-> "idle", job |-> j, profile |-> "none", reply |-> NoReply, exit |-> 0,
   done |-> FALSE, checks |-> "none", stale |-> FALSE, misses |-> FALSE,
   committed |-> FALSE, pushed |-> FALSE, crash |-> FALSE, ahead |-> FALSE, omitted |-> FALSE, tries |-> 0, trunk |-> {},
   pr |-> "none", draft |-> FALSE, prCrash |-> FALSE, unneeded |-> FALSE]

DeliveryInit ==
  /\ origin = Gone /\ trunk = {} /\ pull = "none" /\ phantom = FALSE /\ clone = Gone
  /\ run = Idle(0) /\ sentinels = [p \in Profiles |-> NoSentinel]
  /\ label = "none" /\ task = [status |-> "none", pr |-> FALSE]
  /\ ended = [job |-> 0, exit |-> 0, work |-> FALSE, finished |-> FALSE, profile |-> "none"]
  /\ unchecked = {} /\ people = 0 /\ deliveryFaults = 0

DeliveryFails(c) ==
  /\ c \in DeliveryFaults /\ deliveryFaults < MaxDeliveryFaults
  /\ deliveryFaults' = deliveryFaults + 1
DeliveryWorks == deliveryFaults' = deliveryFaults

(* Every way out of a run, the last of them the executor's finally: the    *)
(* label the profile stamped is taken off again.                           *)
Unstamped(l) == IF l = "running" THEN "none" ELSE l
RunOutcome(exit, finished) ==
  [job |-> run.job, exit |-> exit, work |-> run.reply.work /\ run.done, finished |-> finished, profile |-> run.profile]
Aborts ==
  /\ run' = Idle(run.job)
  /\ ended' = RunOutcome(99, FALSE)
  /\ label' = Unstamped(label)

-----------------------------------------------------------------------------
Begin ==
  /\ run.at = "idle" /\ run.job < MaxRuns
  /\ \E p \in Profiles, fresh \in {TRUE, ~Chained} :
       /\ run' = [Idle(run.job + 1) EXCEPT !.at = "branch", !.profile = p, !.trunk = trunk]
       /\ clone' = IF fresh THEN Gone ELSE clone
       /\ sentinels' = IF fresh THEN [q \in Profiles |-> NoSentinel] ELSE sentinels
  /\ label' = "running"
  /\ DeliveryWorks
  /\ UNCHANGED <<outside, task, ended, unchecked, people>>

(* ensureFeatureBranch: the branch is taken from the remote and gets the   *)
(* default branch merged in, or is started from that; one that is checked  *)
(* out already is taken as it is.                                          *)
TakesRemote == clone = Gone /\ origin # Gone
Branch ==
  /\ run.at = "branch"
  /\ clone' = IF TakesRemote THEN origin \cup run.trunk ELSE IF clone = Gone THEN run.trunk ELSE clone
  /\ run' = [run EXCEPT !.at = "agent"]
  /\ DeliveryWorks
  /\ UNCHANGED <<outside, sentinels, told, ended, unchecked, people>>

(* The default branch does not merge into the branch: the preflight throws.*)
BranchConflicts ==
  /\ run.at = "branch" /\ TakesRemote /\ ~(run.trunk \subseteq origin)
  /\ DeliveryFails("conflict")
  /\ clone' = origin
  /\ Aborts
  /\ UNCHANGED <<outside, sentinels, task, unchecked, people>>

(* The agent runs and the reply is parsed. A session that throws ends the  *)
(* run. A capability's output is parsed as well: it makes the agent done,  *)
(* or records why the run failed.                                          *)
AgentRuns ==
  /\ run.at = "agent"
  /\ \E r \in Replies, accepted \in BOOLEAN :
       /\ accepted \/ run.profile = "capability-delivery"
       /\ run' = [run EXCEPT !.at = IF run.profile = "run" THEN "checks" ELSE "commit", !.reply = r,
                         !.done = r.done \/ (run.profile = "capability-delivery" /\ accepted),
                         !.exit = IF accepted THEN 0 ELSE 1]
  /\ DeliveryWorks
  /\ UNCHANGED <<outside, clone, sentinels, told, ended, unchecked, people>>

AgentThrows ==
  /\ run.at = "agent"
  /\ DeliveryFails("agent")
  /\ Aborts
  /\ UNCHANGED <<outside, clone, sentinels, task, unchecked, people>>

(* The checks run; when they fail and the agent was done it gets one more  *)
(* session, and what it leaves is checked again.                           *)
Verify ==
  /\ run.at = "checks"
  /\ \E first, again, redone \in BOOLEAN :
       run' = [run EXCEPT !.at = "coverage",
                      !.checks = IF first \/ (run.done /\ again) THEN "passed" ELSE "failed",
                      !.reply.work = @ \/ (~first /\ run.done /\ redone)]
  /\ DeliveryWorks
  /\ UNCHANGED <<outside, clone, sentinels, told, ended, unchecked, people>>

(* Missing sibling tests give the agent one more session; nothing checks   *)
(* the tree after it.                                                      *)
Cover ==
  /\ run.at = "coverage"
  /\ \E missing, still, more \in BOOLEAN :
       LET retried == CoverageRules /\ run.done /\ missing
       IN run' = [run EXCEPT !.at = "commit", !.misses = retried /\ still, !.stale = retried,
                             !.reply.work = @ \/ (retried /\ more)]
  /\ DeliveryWorks
  /\ UNCHANGED <<outside, clone, sentinels, told, ended, unchecked, people>>

-----------------------------------------------------------------------------
Ahead(c) == c \ (Gone \cup run.trunk) # {}
CommitRefused_Reply == ~run.done /\ ~run.reply.prose  \* mutant: failed checks do not stop the commit
CommitRefused == run.checks = "failed" \/ (~run.done /\ ~run.reply.prose)

(* A failed run changes nothing outside any more.                          *)
CommitBlocked ==
  /\ run.at = "commit" /\ run.exit # 0
  /\ run' = [run EXCEPT !.at = "require"]
  /\ DeliveryWorks
  /\ UNCHANGED <<outside, clone, sentinels, told, ended, unchecked, people>>

(* The profile's sentinel is there: its result is taken for this one's.    *)
CommitReplays ==
  /\ run.at = "commit" /\ run.exit = 0 /\ sentinels[run.profile] # NoSentinel
  /\ LET s == sentinels[run.profile]
     IN run' = [run EXCEPT !.at = "require", !.committed = TRUE, !.pushed = s.pushed, !.ahead = s.ahead,
                       !.crash = ~s.pushed, !.exit = IF s.pushed THEN 0 ELSE s.exit, !.omitted = s.omitted]
  /\ DeliveryWorks
  /\ UNCHANGED <<outside, clone, sentinels, told, ended, unchecked, people>>

(* Nothing to commit, or nothing the checks and the agent allow to commit. *)
CommitNothing ==
  /\ run.at = "commit" /\ run.exit = 0 /\ sentinels[run.profile] = NoSentinel
  /\ CommitRefused \/ ~run.reply.work
  /\ run' = [run EXCEPT !.at = "require", !.ahead = Ahead(clone), !.omitted = ~CommitRefused /\ run.reply.omits]
  /\ DeliveryWorks
  /\ UNCHANGED <<outside, clone, sentinels, told, ended, unchecked, people>>

(* Unstaging or committing fails: recorded as a crash, not as an exit code.*)
CommitCrashes ==
  /\ run.at = "commit" /\ run.exit = 0 /\ sentinels[run.profile] = NoSentinel
  /\ ~CommitRefused /\ (run.reply.work \/ run.reply.omits)
  /\ DeliveryFails("stage")
  /\ run' = [run EXCEPT !.at = "require", !.crash = TRUE, !.ahead = Ahead(clone)]
  /\ UNCHANGED <<outside, clone, sentinels, told, ended, unchecked, people>>

CommitWork ==
  /\ run.at = "commit" /\ run.exit = 0 /\ sentinels[run.profile] = NoSentinel
  /\ ~CommitRefused /\ run.reply.work
  /\ clone' = (clone \ Gone) \cup {run.job}
  /\ unchecked' = IF run.profile = "run" /\ (run.checks # "passed" \/ run.stale) THEN unchecked \cup {run.job} ELSE unchecked
  /\ run' = [run EXCEPT !.at = "push", !.committed = TRUE, !.omitted = run.reply.omits, !.tries = 1]
  /\ DeliveryWorks
  /\ UNCHANGED <<outside, sentinels, told, ended, people>>

-----------------------------------------------------------------------------
(* pushWithRetry, for the delivery and for the recovery of a branch.       *)
Pushing == run.at \in {"push", "repush"}
FastForward_Forced == TRUE  \* mutant: push --force
FastForward == origin = Gone \/ origin \subseteq clone

(* Recorded on the runner's disk once there is a commit.                   *)
Record(r) ==
  sentinels' = [sentinels EXCEPT ![run.profile] =
    [committed |-> TRUE, pushed |-> r.pushed, ahead |-> r.ahead, exit |-> r.exit, omitted |-> r.omitted]]

PushEnds(ok) ==
  LET pushed == [run EXCEPT !.at = "require", !.pushed = ok, !.crash = ~ok, !.ahead = Ahead(clone),
                          !.exit = IF ok THEN 0 ELSE 4]
  IN IF run.at = "push"
     THEN run' = pushed /\ Record(pushed)
     ELSE /\ run' = IF ok THEN [run EXCEPT !.at = "recreate"]
                  ELSE [run EXCEPT !.at = "comment", !.pr = "crashed", !.prCrash = TRUE, !.exit = 4]
          /\ UNCHANGED sentinels

PushLands ==
  /\ Pushing /\ FastForward
  /\ origin' = clone
  /\ PushEnds(TRUE)
  /\ DeliveryWorks
  /\ UNCHANGED <<trunk, pull, phantom, clone, told, ended, unchecked, people>>

(* Somebody else pushed first: fetch, rebase, try again.                   *)
PushRebases ==
  /\ Pushing /\ ~FastForward /\ run.tries < PushAttempts
  /\ clone' = clone \cup origin
  /\ run' = [run EXCEPT !.tries = @ + 1]
  /\ DeliveryWorks
  /\ UNCHANGED <<outside, sentinels, told, ended, unchecked, people>>

PushGivesUp ==
  /\ Pushing
  /\ \/ DeliveryFails("push")
     \/ ~FastForward /\ run.tries = PushAttempts /\ DeliveryWorks
     \/ ~FastForward /\ run.tries < PushAttempts /\ (DeliveryFails("fetch") \/ DeliveryFails("conflict"))
  /\ PushEnds(FALSE)
  /\ UNCHANGED <<outside, clone, told, ended, unchecked, people>>

(* A capability that had to deliver and did not fails here.                *)
Require ==
  /\ run.at = "require"
  /\ run' = [run EXCEPT !.at = "pr",
                    !.exit = IF run.done /\ run.profile = "capability-delivery" /\ ~run.pushed THEN 4 ELSE @]
  /\ DeliveryWorks
  /\ UNCHANGED <<outside, clone, sentinels, told, ended, unchecked, people>>

-----------------------------------------------------------------------------
(* ensurePr. A draft when the agent was not done or tests are missing.     *)
Draft == run.misses \/ ~run.done
Skips == (~run.committed /\ ~run.ahead) \/ (run.committed /\ ~run.pushed) \/ run.checks = "failed"

PrSkipped ==
  /\ run.at = "pr" /\ (run.exit # 0 \/ Skips)
  /\ run' = [run EXCEPT !.at = "comment", !.pr = IF run.exit # 0 THEN "none" ELSE "skipped"]
  /\ DeliveryWorks
  /\ UNCHANGED <<outside, clone, sentinels, told, ended, unchecked, people>>

PrCrashes_Logged == run' = [run EXCEPT !.at = "comment", !.pr = "crashed", !.prCrash = TRUE]  \* mutant: no exit code
Shown(outcome) == run' = [run EXCEPT !.at = "comment", !.pr = outcome, !.draft = Draft]
PrCrashes == run' = [run EXCEPT !.at = "comment", !.pr = "crashed", !.prCrash = TRUE, !.exit = 4]

(* The open pull request is found: its body is rewritten and a draft is    *)
(* promoted by a good run. Nothing turns a ready one into a draft.         *)
Update ==
  /\ pull' = IF pull = "draft" /\ ~Draft THEN "ready" ELSE pull
  /\ Shown("updated")

PrUpdated ==
  /\ run.at \in {"pr", "recover"} /\ run.exit = 0 /\ ~Skips /\ pull # "none"
  /\ \/ DeliveryWorks /\ Update
     \/ (run.committed \/ run.at = "recover") /\ DeliveryFails("patch") /\ UNCHANGED pull /\ PrCrashes
     \/ pull = "draft" /\ ~Draft /\ DeliveryFails("ready") /\ UNCHANGED pull /\ Shown("updated")
  /\ UNCHANGED <<origin, trunk, phantom, clone, sentinels, told, ended, unchecked, people>>

(* None is found, or the lookup failed: one is created, unless GitHub says *)
(* that there is one.                                                      *)
Create ==
  \/ DeliveryFails("create") /\ UNCHANGED pull /\ PrCrashes
  \/ DeliveryWorks /\ pull' = (IF Draft THEN "draft" ELSE "ready") /\ Shown("created")

PrCreated ==
  /\ run.at = "pr" /\ run.exit = 0 /\ ~Skips /\ pull = "none" /\ ~phantom
  /\ Create
  /\ UNCHANGED <<origin, trunk, phantom, clone, sentinels, told, ended, unchecked, people>>

PrExists ==
  /\ run.at = "pr" /\ run.exit = 0 /\ ~Skips
  /\ \/ pull # "none" /\ DeliveryFails("lookup")
     \/ pull = "none" /\ phantom /\ DeliveryWorks
  /\ run' = [run EXCEPT !.at = "recover"]
  /\ UNCHANGED <<outside, clone, sentinels, told, ended, unchecked, people>>

(* Still none to be found: the branch is deleted, pushed again and tried   *)
(* once more. A lookup that fails again ends it instead.                   *)
PrRecovers ==
  /\ run.at = "recover"
  /\ \/ DeliveryFails("lookup") /\ PrCrashes /\ UNCHANGED <<origin, phantom>>
     \/ /\ pull = "none" /\ DeliveryWorks
        /\ origin' = Gone /\ phantom' = FALSE
        /\ run' = [run EXCEPT !.at = "repush", !.tries = 1]
  /\ UNCHANGED <<trunk, pull, clone, sentinels, told, ended, unchecked, people>>

PrRecreated ==
  /\ run.at = "recreate"
  /\ IF pull = "none" THEN Create ELSE DeliveryWorks /\ UNCHANGED pull /\ PrCrashes
  /\ UNCHANGED <<origin, trunk, phantom, clone, sentinels, told, ended, unchecked, people>>

-----------------------------------------------------------------------------
(* postIssueComment: the message, the label and the exit code.             *)
Failure == run.omitted \/ run.misses \/ ~run.done \/ run.checks = "failed"
Max2(a, b) == IF a > b THEN a ELSE b

Comment ==
  /\ run.at = "comment"
  /\ LET none == ~run.committed /\ ~run.ahead
         lost == ~none /\ run.exit = 4 /\ (run.prCrash \/ run.crash)
         exit == CASE none /\ Failure -> 3
                   [] (none /\ ~Failure) \/ lost -> run.exit
                   [] OTHER -> Max2(run.exit, IF Failure THEN 1 ELSE 0)
         shows == ~none /\ ~lost /\ ~Failure /\ ~run.draft /\ run.pr \in {"created", "updated"}
     IN /\ run' = [run EXCEPT !.at = "save", !.exit = exit, !.unneeded = none /\ ~Failure /\ run.exit = 0]
        /\ label' = CASE exit # 0 -> "failed"
                      [] exit = 0 /\ shows -> "reviewing"
                      [] OTHER -> label
  /\ DeliveryWorks
  /\ UNCHANGED <<outside, clone, sentinels, task, ended, unchecked, people>>

HasPr == task.pr \/ run.pr \in {"created", "updated"}
Succeeded == run.exit = 0 /\ (HasPr \/ run.unneeded)

(* saveTaskState; a write that fails makes the run fail.                   *)
SaveTask ==
  /\ run.at = "save"
  /\ \/ /\ DeliveryWorks
        /\ task' = [status |-> IF (IF run.profile = "run" THEN Succeeded ELSE run.done) THEN "succeeded" ELSE "failed",
                    pr |-> HasPr]
        /\ run' = [run EXCEPT !.at = "finalize"]
     \/ /\ DeliveryFails("save")
        /\ run' = [run EXCEPT !.at = "finalize", !.exit = IF @ = 0 THEN 99 ELSE @]
        /\ UNCHANGED task
  /\ UNCHANGED <<outside, clone, sentinels, label, ended, unchecked, people>>

(* mutant: storing the task state is best effort, the issue is left alone *)
Finalize_KeepsLabel ==
  /\ run.at = "finalize"
  /\ run' = Idle(run.job) /\ label' = Unstamped(label) /\ ended' = RunOutcome(run.exit, TRUE)
  /\ DeliveryWorks
  /\ UNCHANGED <<outside, clone, sentinels, task, unchecked, people>>

(* finalizeTerminal, for a profile that settles its issue itself, and the  *)
(* end of the run. Its write is best effort.                               *)
Finalize ==
  /\ run.at = "finalize"
  /\ LET settled == IF run.profile # "run" THEN label
                    ELSE IF ~Succeeded THEN "failed" ELSE IF HasPr THEN "reviewing" ELSE "done"
         state == IF run.profile # "run" THEN task
                  ELSE [task EXCEPT !.status = IF Succeeded THEN "succeeded" ELSE "failed"]
     IN /\ run' = Idle(run.job)
        /\ label' = Unstamped(settled)
        /\ ended' = RunOutcome(run.exit, TRUE)
        /\ \/ DeliveryWorks /\ task' = state
           \/ state # task /\ DeliveryFails("save") /\ UNCHANGED task
  /\ UNCHANGED <<outside, clone, sentinels, unchecked, people>>

-----------------------------------------------------------------------------
(* The runner is lost; its clone and its disk with it.                     *)
Killed ==
  /\ run.at # "idle"
  /\ DeliveryFails("killed")
  /\ run' = Idle(run.job)
  /\ clone' = Gone
  /\ sentinels' = [q \in Profiles |-> NoSentinel]
  /\ ended' = RunOutcome(137, FALSE)
  /\ UNCHANGED <<outside, told, unchecked, people>>

(* Somebody pushes a commit to the branch.                                 *)
PersonPushes ==
  /\ "push" \in PeopleActs /\ people < MaxPeople /\ origin # Gone
  /\ people' = people + 1
  /\ origin' = origin \cup {MaxRuns + people + 1}
  /\ DeliveryWorks
  /\ UNCHANGED <<trunk, pull, phantom, clone, run, sentinels, told, ended, unchecked>>

(* Somebody merges the pull request.                                       *)
PersonMerges ==
  /\ "merge" \in PeopleActs /\ pull = "ready" /\ origin # Gone
  /\ trunk' = trunk \cup origin
  /\ pull' = "none"
  /\ DeliveryWorks
  /\ UNCHANGED <<origin, phantom, clone, run, sentinels, told, ended, unchecked, people>>

(* GitHub loses track of which pull request the branch has.                *)
GitHubConfuses ==
  /\ pull = "none" /\ origin # Gone /\ ~phantom
  /\ DeliveryFails("phantom")
  /\ phantom' = TRUE
  /\ UNCHANGED <<origin, trunk, pull, clone, run, sentinels, told, ended, unchecked, people>>

DeliveryNext ==
  \/ Begin \/ Branch \/ BranchConflicts \/ AgentRuns \/ AgentThrows \/ Verify \/ Cover
  \/ CommitBlocked \/ CommitReplays \/ CommitNothing \/ CommitCrashes \/ CommitWork
  \/ PushLands \/ PushRebases \/ PushGivesUp \/ Require
  \/ PrSkipped \/ PrUpdated \/ PrCreated \/ PrExists \/ PrRecovers \/ PrRecreated
  \/ Comment \/ SaveTask \/ Finalize \/ Killed
  \/ PersonPushes \/ PersonMerges \/ GitHubConfuses

DeliverySpec == DeliveryInit /\ [][DeliveryNext]_deliveryVars

-----------------------------------------------------------------------------
(* The variables have their types.                                         *)
DeliveryTypeOK ==
  /\ origin \in (SUBSET (Runs \cup Persons)) \cup {Gone} /\ trunk \subseteq Runs \cup Persons
  /\ clone \in (SUBSET (Runs \cup Persons)) \cup {Gone}
  /\ pull \in {"none", "draft", "ready"} /\ label \in {"none", "running", "reviewing", "done", "failed"}
  /\ run.job \in 0..MaxRuns /\ run.tries \in 0..PushAttempts /\ run.exit \in {0, 1, 3, 4, 99}
  /\ unchecked \subseteq Runs

NoRun == run.at = "idle"
GreenRun == NoRun /\ ended.finished /\ ended.exit = 0

\* After a run that ended green the work of its agent is on the remote, and
\* what Kody pushed and nobody merged yet is in front of people as a pull
\* request, whichever runs were killed or failed before it.
GreenMeansReviewable ==
  GreenRun =>
    /\ ended.work => ended.job \in origin \cup trunk
    /\ (origin \cap Runs) \subseteq trunk \/ pull # "none"

\* Kody never takes a commit off the remote branch by pushing, however many
\* people push meanwhile: only the recovery of a branch with a pull request
\* nobody can list deletes it.
OthersKept == [][run.at = "recover" \/ (origin \ Gone) \subseteq origin']_deliveryVars

\* What a profile with checks brings to the remote is exactly what passed
\* them, over retries by the agent, replays, rebases and lost runners, as
\* long as no coverage rule sends the agent back after the checks.
CheckedContent == (origin \cup trunk) \cap unchecked = {}

\* The issue's label tells how the last run ended: reviewing or done for exit
\* 0, failed for anything else, also when storing the task state failed after
\* the comment was posted.
OutcomeIsShown ==
  NoRun /\ ended.finished /\ ended.profile = "run" =>
    /\ ended.exit = 0 <=> label \in {"reviewing", "done"}
    /\ ended.exit # 0 <=> label = "failed"

\* What was delivered was checked, and what is shown of it is how it ended.
DeliveryIsHonest == CheckedContent /\ OutcomeIsShown

=============================================================================
