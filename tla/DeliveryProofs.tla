--------------------------- MODULE DeliveryProofs ---------------------------
(***************************************************************************)
(* What Delivery promises, for any number of runs, people and failures:    *)
(* the label tells how a run ended, what is delivered was checked, nobody  *)
(* else's commit is lost, and a green run's work can be reviewed.  And     *)
(* PreviewBuild: a build that ran alone and well is what reviewers see.    *)
(***************************************************************************)
EXTENDS Delivery, PreviewBuild, RunRecords, FiniteSetTheorems, TLAPS

Commits == Runs \cup Persons
Places ==
  {"idle", "branch", "agent", "checks", "coverage", "commit", "push", "require", "pr", "recover", "repush",
   "recreate", "comment", "save", "finalize"}
ExitCodes == {0, 1, 3, 4, 99}
CheckResults == {"none", "passed", "failed"}
PrOutcomes == {"none", "skipped", "created", "updated", "crashed"}
DeliveryRuns ==
  [at : Places, job : 0..MaxRuns, profile : Profiles \cup {"none"}, reply : Replies, exit : ExitCodes,
   done : BOOLEAN, checks : CheckResults, stale : BOOLEAN, misses : BOOLEAN,
   committed : BOOLEAN, pushed : BOOLEAN, crash : BOOLEAN, ahead : BOOLEAN, omitted : BOOLEAN,
   tries : 0..PushAttempts, trunk : SUBSET Commits,
   pr : PrOutcomes, draft : BOOLEAN, prCrash : BOOLEAN, unneeded : BOOLEAN]
Sentinels ==
  {NoSentinel} \cup {s \in [committed : {TRUE}, pushed : BOOLEAN, ahead : BOOLEAN, exit : ExitCodes, omitted : BOOLEAN] :
                       s.pushed \/ s.exit # 0}

Branches == (SUBSET Commits) \cup {Gone}
Endings ==
  [job : 0..MaxRuns, exit : ExitCodes \cup {137}, work : BOOLEAN, finished : BOOLEAN, profile : Profiles \cup {"none"}]
Labels == {"none", "running", "reviewing", "done", "failed"}

\* What is outside the run's own memory.
WorldTyped ==
  /\ origin \in Branches /\ clone \in Branches /\ trunk \subseteq Commits
  /\ pull \in {"none", "draft", "ready"} /\ phantom \in BOOLEAN /\ people \in 0..MaxPeople
  /\ label \in Labels /\ task \in [status : {"none", "succeeded", "failed"}, pr : BOOLEAN]
  /\ ended \in Endings /\ unchecked \subseteq Runs
RunPlaced ==
  /\ run.at # "idle" => run.job \in Runs /\ run.profile \in Profiles
  /\ run.at \notin {"idle", "branch"} => clone # Gone
DeliveryTyped == run \in DeliveryRuns /\ sentinels \in [Profiles -> Sentinels] /\ WorldTyped /\ RunPlaced

(* The phases of a run, and what it knows in them.                         *)
Made == {"branch", "agent", "checks", "coverage", "commit"}
Asked == {"recover", "repush", "recreate"}
Told == {"comment", "save", "finalize"}
OnShow == run.pr \in {"created", "updated"}

\* A run that did not fail pushed what it committed, and showed what it pushed.
Course ==
  /\ run.at \in Made => ~run.committed /\ ~run.pushed
  /\ run.at = "push" => run.committed
  /\ run.committed /\ ~run.pushed /\ run.at # "push" => run.exit # 0
  /\ run.at \in Asked => (run.committed \/ run.ahead) /\ (run.committed => run.pushed)
  /\ run.at = "comment" /\ run.exit = 0 => OnShow \/ (~run.committed /\ ~run.ahead) \/ run.checks = "failed"
  /\ run.at \in {"save", "finalize"} /\ run.exit = 0 =>
       ~Failure /\ (OnShow \/ (run.unneeded /\ ~run.committed /\ ~run.ahead))
  /\ run.profile = "run" /\ run.at \notin {"idle", "branch", "agent", "checks"} => run.checks # "none"
  /\ CoverageRules \/ ~run.stale

\* Work of an agent that was done and passed its checks is committed or the run fails.
WorkIsCommitted ==
  "stage" \notin DeliveryFaults =>
    ((/\ run.at \notin Made \cup {"push", "idle"} /\ run.exit = 0
      /\ run.reply.work /\ run.done /\ run.checks # "failed") => run.committed)

\* The clone has what runs pushed, and the commit of its own run.
CloneHasAll ==
  /\ run.at = "branch" => clone = Gone
  /\ run.at \notin {"idle", "branch"} => origin \cap Runs \subseteq clone
  /\ run.at # "idle" => run.trunk \subseteq trunk
  /\ run.at # "idle" /\ run.committed => run.job \in clone

\* A runner's disk has no result of an earlier run.
FreshDisk == run.at \in Made \cup {"push"} => sentinels = [q \in Profiles |-> NoSentinel]

\* What a run says it pushed is on the remote; a run with nothing to show leaves
\* nothing unmerged behind; what it shows is open or merged.
CommitsArrive ==
  /\ run.committed /\ run.pushed /\ run.at \notin {"idle", "repush"} /\ run.exit = 0 => run.job \in origin \cup trunk
  /\ run.at \notin Made \cup {"push", "idle"} /\ run.exit = 0 /\ ~run.committed /\ ~run.ahead =>
       origin \cap Runs \subseteq run.trunk
  /\ run.at \in Told /\ OnShow => origin \cap Runs \subseteq trunk \/ pull # "none"

-----------------------------------------------------------------------------
(* Steps of a run.                                                         *)

\* The sets that the fields of a run are in, without their definitions.
LEMMA Members ==
  /\ \A x \in {"idle", "branch", "agent", "checks", "coverage", "commit", "push", "require", "pr", "recover", "repush",
               "recreate", "comment", "save", "finalize"} : x \in Places
  /\ \A x \in {0, 1, 3, 4, 99} : x \in ExitCodes
  /\ \A x \in {"none", "passed", "failed"} : x \in CheckResults
  /\ \A x \in {"none", "skipped", "created", "updated", "crashed"} : x \in PrOutcomes
BY DEF Places, ExitCodes, CheckResults, PrOutcomes

\* A run that is not there.
LEMMA IdleType ==
  ASSUME NEW j \in 0..MaxRuns
  PROVE  Idle(j) \in DeliveryRuns
<1>1. NoReply \in Replies /\ 0 \in 0..PushAttempts
  BY DeliveryAssumption DEF NoReply, Replies
<1> QED
  BY <1>1, Members DEF Idle, DeliveryRuns

\* What the comment makes of the exit code.
LEMMA CommentSteps ==
  ASSUME run \in DeliveryRuns, Comment
  PROVE  \E exit \in ExitCodes, unneeded \in BOOLEAN :
           /\ run' = [run EXCEPT !.at = "save", !.exit = exit, !.unneeded = unneeded]
           /\ exit = 0 => run.exit = 0 /\ ~Failure /\ (~run.committed /\ ~run.ahead => unneeded)
<1> DEFINE none == ~run.committed /\ ~run.ahead
           exit == CASE none /\ Failure -> 3
                     [] (none /\ ~Failure) \/ (~none /\ run.exit = 4 /\ (run.prCrash \/ run.crash)) -> run.exit
                     [] OTHER -> Max2(run.exit, IF Failure THEN 1 ELSE 0)
           unneeded == none /\ ~Failure /\ run.exit = 0
<1>1. run' = [run EXCEPT !.at = "save", !.exit = exit, !.unneeded = unneeded]
  BY DEF Comment
<1>2. exit \in ExitCodes /\ unneeded \in BOOLEAN
  BY DEF DeliveryRuns, ExitCodes, Max2
<1>3. exit = 0 => run.exit = 0 /\ ~Failure /\ (none => unneeded)
  <2>1. run.exit \in ExitCodes
    BY DEF DeliveryRuns
  <2>2. Max2(run.exit, 1) # 0 /\ Max2(run.exit, 0) = run.exit
    BY <2>1 DEF ExitCodes, Max2
  <2>3. CASE Failure
    BY <2>2, <2>3
  <2>4. CASE ~Failure
    BY <2>2, <2>4
  <2> QED
    BY <2>3, <2>4
<1> HIDE DEF exit, unneeded
<1> QED
  BY <1>1, <1>2, <1>3

\* What a push that ends may change.
LEMMA PushSteps ==
  ASSUME run \in DeliveryRuns, Pushing, NEW ok \in BOOLEAN, PushEnds(ok)
  PROVE  /\ run'.job = run.job /\ run'.profile = run.profile /\ run'.trunk = run.trunk /\ run'.committed = run.committed
         /\ run.at = "push" => run'.at = "require" /\ run'.pushed = ok /\ run'.exit = (IF ok THEN 0 ELSE 4)
         /\ run.at = "repush" =>
              /\ run'.pushed = run.pushed /\ run'.ahead = run.ahead /\ UNCHANGED sentinels
              /\ run'.at = IF ok THEN "recreate" ELSE "comment"
              /\ run'.exit = IF ok THEN run.exit ELSE 4
              /\ ~ok => run'.pr = "crashed"
<1>1. CASE run.at = "push"
  BY <1>1 DEF PushEnds, DeliveryRuns
<1>2. CASE run.at = "repush"
  BY <1>2 DEF PushEnds, DeliveryRuns
<1> QED
  BY <1>1, <1>2 DEF Pushing

\* Every step keeps the fields' types, and what a run knows of itself.
LEMMA RunSteps ==
  ASSUME run \in DeliveryRuns, sentinels \in [Profiles -> Sentinels], run.at # "idle" => run.profile \in Profiles,
         Course, WorkIsCommitted, trunk \subseteq Commits, DeliveryNext
  PROVE  run' \in DeliveryRuns /\ Course' /\ WorkIsCommitted'
<1> DEFINE Good == run' \in DeliveryRuns /\ Course' /\ WorkIsCommitted'
<1>0. run.reply \in Replies /\ run.done \in BOOLEAN
  BY DEF DeliveryRuns, Replies
<1>i. ASSUME NEW j \in 0..MaxRuns, run' = Idle(j) PROVE Good
  BY <1>i, IdleType DEF Course, WorkIsCommitted, Made, Asked, OnShow, Failure, Idle
<1>j. run.job \in 0..MaxRuns
  BY DEF DeliveryRuns
<1>k. 1 \in 0..PushAttempts
  BY DeliveryAssumption
<1>1. CASE Begin
  <2>1. PICK p \in Profiles : run' = [Idle(run.job + 1) EXCEPT !.at = "branch", !.profile = p, !.trunk = trunk]
    BY <1>1 DEF Begin
  <2>2. run.job + 1 \in 0..MaxRuns /\ Idle(run.job + 1) \in DeliveryRuns
    BY <1>1, IdleType, DeliveryAssumption DEF Begin, DeliveryRuns
  <2>3. run' \in DeliveryRuns
    BY <2>1, <2>2, Members DEF DeliveryRuns
  <2> QED
    BY <2>1, <2>2, <2>3 DEF Idle, Course, WorkIsCommitted, Made, Asked, OnShow, Failure
<1>2. CASE Branch
  <2>1. run' \in DeliveryRuns
    BY <1>2, Members DEF Branch, DeliveryRuns
  <2> QED
    BY <1>2, <2>1 DEF Branch, DeliveryRuns, Course, WorkIsCommitted, Made, Asked, OnShow, Failure
<1>4. CASE AgentRuns
  <2>1. PICK at \in {"checks", "commit"}, reply \in Replies, done \in BOOLEAN, exit \in {0, 1} :
          /\ run' = [run EXCEPT !.at = at, !.reply = reply, !.done = done, !.exit = exit]
          /\ run.profile = "run" => at = "checks"
    BY <1>4 DEF AgentRuns, Replies
  <2>2. run' \in DeliveryRuns
    BY <2>1, Members DEF DeliveryRuns
  <2> QED
    BY <1>4, <2>1, <2>2 DEF AgentRuns, DeliveryRuns, Course, WorkIsCommitted, Made, Asked, OnShow, Failure
<1>6. CASE Verify
  <2>1. PICK checks \in {"passed", "failed"}, work \in BOOLEAN :
          run' = [run EXCEPT !.at = "coverage", !.checks = checks, !.reply = [run.reply EXCEPT !.work = work]]
    BY <1>6, <1>0 DEF Verify, DeliveryRuns, Replies
  <2>2. [run.reply EXCEPT !.work = work] \in Replies
    BY <1>0 DEF Replies
  <2>3. run' \in DeliveryRuns
    BY <2>1, <2>2, Members DEF DeliveryRuns
  <2> QED
    BY <1>6, <2>1, <2>3 DEF Verify, DeliveryRuns, Course, WorkIsCommitted, Made, Asked, OnShow, Failure
<1>7. CASE Cover
  <2>1. PICK misses \in BOOLEAN, stale \in BOOLEAN, work \in BOOLEAN :
          /\ run' = [run EXCEPT !.at = "commit", !.misses = misses, !.stale = stale, !.reply = [run.reply EXCEPT !.work = work]]
          /\ stale => CoverageRules
    BY <1>7, <1>0, DeliveryAssumption DEF Cover, DeliveryRuns
  <2>2. [run.reply EXCEPT !.work = work] \in Replies
    BY <1>0 DEF Replies
  <2>3. run' \in DeliveryRuns
    BY <2>1, <2>2, Members DEF DeliveryRuns
  <2> QED
    BY <1>7, <2>1, <2>3 DEF Cover, DeliveryRuns, Course, WorkIsCommitted, Made, Asked, OnShow, Failure
<1>8. CASE CommitBlocked
  <2>1. run' = [run EXCEPT !.at = "require"]
    BY <1>8 DEF CommitBlocked
  <2>2. run' \in DeliveryRuns
    BY <2>1, Members DEF DeliveryRuns
  <2> QED
    BY <1>8, <2>1, <2>2 DEF CommitBlocked, DeliveryRuns, Course, WorkIsCommitted, Made, Asked, OnShow, Failure
<1>9. CASE CommitReplays
  <2> DEFINE s == sentinels[run.profile]
             exit == IF s.pushed THEN 0 ELSE s.exit
             crash == ~s.pushed
  <2>1. /\ s.pushed \in BOOLEAN /\ s.ahead \in BOOLEAN /\ s.omitted \in BOOLEAN /\ exit \in ExitCodes /\ crash \in BOOLEAN
        /\ s.pushed \/ exit # 0
    BY <1>9, Members DEF CommitReplays, Sentinels
  <2>2. run' = [run EXCEPT !.at = "require", !.committed = TRUE, !.pushed = s.pushed, !.ahead = s.ahead,
                           !.crash = crash, !.exit = exit, !.omitted = s.omitted]
    BY <1>9 DEF CommitReplays
  <2> HIDE DEF s, exit, crash
  <2>3. run' \in DeliveryRuns
    BY <2>1, <2>2, Members DEF DeliveryRuns
  <2>4. /\ run'.at = "require" /\ run'.committed = TRUE /\ run'.pushed = s.pushed /\ run'.exit = exit
        /\ run'.checks = run.checks /\ run'.profile = run.profile /\ run'.stale = run.stale
    BY <2>2 DEF DeliveryRuns
  <2> QED
    BY <1>9, <2>1, <2>3, <2>4 DEF CommitReplays, Course, WorkIsCommitted, Made, Asked
<1>10. CASE CommitNothing
  <2>1. PICK ahead \in BOOLEAN, omitted \in BOOLEAN :
          /\ run' = [run EXCEPT !.at = "require", !.ahead = ahead, !.omitted = omitted]
    BY <1>10, <1>0 DEF CommitNothing, CommitRefused, Ahead, Replies
  <2>2. run' \in DeliveryRuns
    BY <2>1, Members DEF DeliveryRuns
  <2> QED
    BY <1>10, <2>1, <2>2 DEF CommitNothing, DeliveryRuns, Course, WorkIsCommitted, Made, Asked, OnShow, Failure, CommitRefused
<1>11. CASE CommitCrashes
  <2>1. PICK ahead \in BOOLEAN :
          /\ run' = [run EXCEPT !.at = "require", !.crash = TRUE, !.ahead = ahead]
    BY <1>11 DEF CommitCrashes, Ahead
  <2>2. run' \in DeliveryRuns
    BY <2>1, Members DEF DeliveryRuns
  <2> QED
    BY <1>11, <2>1, <2>2 DEF CommitCrashes, DeliveryRuns, Course, WorkIsCommitted, Made, Asked, OnShow, Failure, DeliveryFails
<1>12. CASE CommitWork
  <2>1. run' = [run EXCEPT !.at = "push", !.committed = TRUE, !.omitted = run.reply.omits, !.tries = 1]
    BY <1>12 DEF CommitWork
  <2>3. run.reply.omits \in BOOLEAN
    BY <1>0 DEF Replies
  <2>2. run' \in DeliveryRuns
    BY <2>1, <2>3, Members, <1>k DEF DeliveryRuns
  <2> QED
    BY <1>12, <2>1, <2>2 DEF CommitWork, DeliveryRuns, Course, WorkIsCommitted, Made, Asked, OnShow, Failure
<1>e. ASSUME Pushing, NEW ok \in BOOLEAN, PushEnds(ok) PROVE Good
  <2> DEFINE ahead == Ahead(clone)
             crash == ~ok
             exit == IF ok THEN 0 ELSE 4
  <2>1. ahead \in BOOLEAN /\ crash \in BOOLEAN /\ exit \in ExitCodes /\ (ok \/ exit # 0)
    BY Members DEF Ahead
  <2>2. CASE run.at = "push"
    <3>1. run' = [run EXCEPT !.at = "require", !.pushed = ok, !.crash = crash, !.ahead = ahead, !.exit = exit]
      BY <1>e, <2>2 DEF PushEnds
    <3> HIDE DEF ahead, crash, exit
    <3>2. run' \in DeliveryRuns
      BY <2>1, <3>1, Members DEF DeliveryRuns
    <3> QED
      BY <2>1, <2>2, <3>1, <3>2 DEF DeliveryRuns, Course, WorkIsCommitted, Made, Asked, OnShow, Failure
  <2>3. CASE run.at = "repush"
    <3>1. run' = IF ok THEN [run EXCEPT !.at = "recreate"]
                 ELSE [run EXCEPT !.at = "comment", !.pr = "crashed", !.prCrash = TRUE, !.exit = 4]
      BY <1>e, <2>3 DEF PushEnds
    <3>2. run' \in DeliveryRuns
      BY <3>1, Members DEF DeliveryRuns
    <3> QED
      BY <2>3, <3>1, <3>2 DEF DeliveryRuns, Course, WorkIsCommitted, Made, Asked, OnShow, Failure
  <2> QED
    BY <1>e, <2>2, <2>3 DEF Pushing
<1>13. CASE PushLands
  BY <1>e, <1>13 DEF PushLands
<1>14. CASE PushRebases
  <2>1. run' = [run EXCEPT !.tries = run.tries + 1] /\ run.tries + 1 \in 0..PushAttempts
    BY <1>14, DeliveryAssumption DEF PushRebases, DeliveryRuns
  <2>2. run' \in DeliveryRuns
    BY <2>1, Members DEF DeliveryRuns
  <2> QED
    BY <1>14, <2>1, <2>2 DEF PushRebases, DeliveryRuns, Course, WorkIsCommitted, Made, Asked, OnShow, Failure, Pushing
<1>15. CASE PushGivesUp
  BY <1>e, <1>15 DEF PushGivesUp
<1>16. CASE Require
  <2>1. PICK exit \in ExitCodes :
          /\ run' = [run EXCEPT !.at = "pr", !.exit = exit]
          /\ exit = run.exit \/ exit = 4
    BY <1>16, Members DEF Require, DeliveryRuns
  <2>2. run' \in DeliveryRuns
    BY <2>1, Members DEF DeliveryRuns
  <2> QED
    BY <1>16, <2>1, <2>2 DEF Require, DeliveryRuns, Course, WorkIsCommitted, Made, Asked, OnShow, Failure
<1>17. CASE PrSkipped
  <2>1. PICK pr \in {"none", "skipped"} :
          /\ run' = [run EXCEPT !.at = "comment", !.pr = pr]
    BY <1>17 DEF PrSkipped
  <2>2. run' \in DeliveryRuns
    BY <2>1, Members DEF DeliveryRuns
  <2> QED
    BY <1>17, <2>1, <2>2 DEF PrSkipped, DeliveryRuns, Course, WorkIsCommitted, Made, Asked, OnShow, Failure, Skips
<1>c. ASSUME PrCrashes, run.at \in Asked \cup {"pr"} PROVE Good
  <2>1. run' = [run EXCEPT !.at = "comment", !.pr = "crashed", !.prCrash = TRUE, !.exit = 4]
    BY <1>c DEF PrCrashes
  <2>2. run' \in DeliveryRuns
    BY <2>1, Members DEF DeliveryRuns
  <2> QED
    BY <1>c, <2>1, <2>2 DEF DeliveryRuns, Course, WorkIsCommitted, Made, Asked, OnShow, Failure
<1>s. ASSUME NEW outcome \in {"created", "updated"}, Shown(outcome), run.at \in Asked \cup {"pr"},
             run.at = "pr" => run.committed \/ run.exit # 0 \/ ~Skips
      PROVE  Good
  <2>1. PICK draft \in BOOLEAN : run' = [run EXCEPT !.at = "comment", !.pr = outcome, !.draft = draft]
    BY <1>s, <1>0 DEF Shown, Draft, DeliveryRuns
  <2>2. run' \in DeliveryRuns
    BY <2>1, Members DEF DeliveryRuns
  <2> QED
    BY <1>s, <2>1, <2>2 DEF DeliveryRuns, Course, WorkIsCommitted, Made, Asked, OnShow, Failure
<1>18. CASE PrUpdated
  BY <1>18, <1>c, <1>s DEF PrUpdated, Update, Asked
<1>19. CASE PrCreated
  BY <1>19, <1>c, <1>s DEF PrCreated, Create, Asked
<1>20. CASE PrExists
  <2>1. run' = [run EXCEPT !.at = "recover"]
    BY <1>20 DEF PrExists
  <2>2. run' \in DeliveryRuns
    BY <2>1, Members DEF DeliveryRuns
  <2> QED
    BY <1>20, <2>1, <2>2 DEF PrExists, DeliveryRuns, Course, WorkIsCommitted, Made, Asked, OnShow, Failure, Skips
<1>21. CASE PrRecovers
  <2>1. CASE PrCrashes
    BY <1>21, <1>c, <2>1 DEF PrRecovers, Asked
  <2>2. CASE run' = [run EXCEPT !.at = "repush", !.tries = 1]
    <3>1. run' \in DeliveryRuns
      BY <1>k, <2>2, Members DEF DeliveryRuns
    <3> QED
      BY <1>21, <2>2, <3>1 DEF PrRecovers, DeliveryRuns, Course, WorkIsCommitted, Made, Asked, OnShow, Failure
  <2> QED
    BY <1>21, <2>1, <2>2 DEF PrRecovers
<1>22. CASE PrRecreated
  BY <1>22, <1>c, <1>s DEF PrRecreated, Create, Asked
<1>23. CASE Comment
  <2> DEFINE none == ~run.committed /\ ~run.ahead
  <2>1. PICK exit \in ExitCodes, unneeded \in BOOLEAN :
          /\ run' = [run EXCEPT !.at = "save", !.exit = exit, !.unneeded = unneeded]
          /\ exit = 0 => run.exit = 0 /\ ~Failure /\ (none => unneeded)
    BY <1>23, CommentSteps
  <2>4. run.exit = 0 /\ ~Failure => OnShow \/ none
    BY <1>23 DEF Comment, Course, Failure
  <2>5. run' \in DeliveryRuns
    BY <2>1, Members DEF DeliveryRuns
  <2>6. /\ run'.at = "save" /\ run'.exit = exit /\ run'.unneeded = unneeded
        /\ \A f \in {"committed", "pushed", "ahead", "omitted", "misses", "done", "checks", "pr", "reply", "profile", "stale"} :
             run'[f] = run[f]
    BY <2>1 DEF DeliveryRuns
  <2>7. Failure' = Failure /\ OnShow' = OnShow
    BY <2>6 DEF Failure, OnShow
  <2>8. Course'
    BY <1>23, <2>1, <2>4, <2>6, <2>7 DEF Comment, Course, Made, Asked
  <2>9. WorkIsCommitted'
    BY <1>23, <2>1, <2>6 DEF Comment, WorkIsCommitted, Made
  <2> QED
    BY <2>5, <2>8, <2>9
<1>24. CASE SaveTask
  <2>1. CASE run' = [run EXCEPT !.at = "finalize"]
    <3>1. run' \in DeliveryRuns
      BY <2>1, Members DEF DeliveryRuns
    <3> QED
      BY <1>24, <2>1, <3>1 DEF SaveTask, DeliveryRuns, Course, WorkIsCommitted, Made, Asked, OnShow, Failure
  <2>2. CASE run' = [run EXCEPT !.at = "finalize", !.exit = IF @ = 0 THEN 99 ELSE @]
    <3> DEFINE exit == IF run.exit = 0 THEN 99 ELSE run.exit
    <3>1. run' = [run EXCEPT !.at = "finalize", !.exit = exit] /\ exit \in ExitCodes /\ exit # 0
      BY <2>2, Members DEF DeliveryRuns
    <3> HIDE DEF exit
    <3>2. run' \in DeliveryRuns
      BY <3>1, Members DEF DeliveryRuns
    <3> QED
      BY <1>24, <3>1, <3>2 DEF SaveTask, DeliveryRuns, Course, WorkIsCommitted, Made, Asked, OnShow, Failure
  <2> QED
    BY <1>24, <2>1, <2>2 DEF SaveTask
<1>25. CASE Finalize \/ Killed \/ BranchConflicts \/ AgentThrows
  BY <1>25, <1>i, <1>j DEF Finalize, Killed, BranchConflicts, AgentThrows, Aborts
<1>26. CASE run' = run
  BY <1>26 DEF DeliveryRuns, Course, WorkIsCommitted, Made, Asked, OnShow, Failure
<1> QED
  BY <1>1, <1>2, <1>4, <1>6, <1>7, <1>8, <1>9, <1>10, <1>11, <1>12, <1>13, <1>14, <1>15, <1>16, <1>17, <1>18, <1>19,
     <1>20, <1>21, <1>22, <1>23, <1>24, <1>25, <1>26
  DEF DeliveryNext, PersonPushes, PersonMerges, GitHubConfuses

\* Pushing leaves a result on the disk that is no success without a push.
LEMMA DiskKept ==
  ASSUME run \in DeliveryRuns, sentinels \in [Profiles -> Sentinels], RunPlaced, DeliveryNext
  PROVE  sentinels' \in [Profiles -> Sentinels]
<1>1. ASSUME NEW ok \in BOOLEAN, PushEnds(ok), Pushing PROVE sentinels' \in [Profiles -> Sentinels]
  <2>1. CASE run.at = "push"
    <3> DEFINE pushed == [run EXCEPT !.at = "require", !.pushed = ok, !.crash = ~ok, !.ahead = Ahead(clone),
                                     !.exit = IF ok THEN 0 ELSE 4]
               kept == [committed |-> TRUE, pushed |-> pushed.pushed, ahead |-> pushed.ahead, exit |-> pushed.exit,
                        omitted |-> pushed.omitted]
    <3>1. sentinels' = [sentinels EXCEPT ![run.profile] = kept]
      BY <1>1, <2>1 DEF PushEnds, Record
    <3>2. /\ pushed.pushed = ok /\ pushed.ahead \in BOOLEAN /\ pushed.exit = (IF ok THEN 0 ELSE 4)
          /\ pushed.omitted \in BOOLEAN
      BY DEF DeliveryRuns, Ahead
    <3> HIDE DEF pushed
    <3>3. kept \in Sentinels
      BY <3>2, Members DEF Sentinels
    <3> HIDE DEF kept
    <3> QED
      BY <2>1, <3>1, <3>3 DEF RunPlaced
  <2>2. CASE run.at = "repush"
    BY <1>1, <2>2 DEF PushEnds
  <2> QED
    BY <1>1, <2>1, <2>2 DEF Pushing
<1>2. CASE PushLands \/ PushGivesUp
  BY <1>1, <1>2 DEF PushLands, PushGivesUp
<1>3. CASE Begin
  BY <1>3 DEF Begin, Sentinels
<1>4. CASE Killed
  BY <1>4 DEF Killed, Sentinels
<1>5. CASE UNCHANGED sentinels
  BY <1>5
<1> QED
  BY <1>2, <1>3, <1>4, <1>5 DEF DeliveryNext, Branch, BranchConflicts, AgentRuns, AgentThrows, Verify, Cover,
    CommitBlocked, CommitReplays, CommitNothing, CommitCrashes, CommitWork, PushRebases, Require, PrSkipped,
    PrUpdated, PrCreated, PrExists, PrRecovers, PrRecreated, Comment, SaveTask, Finalize, PersonPushes, PersonMerges,
    GitHubConfuses

\* A run's job and profile are fixed when it begins.
LEMMA SameRun ==
  ASSUME run \in DeliveryRuns, DeliveryNext
  PROVE  \/ Begin
         \/ run'.job = run.job /\ run'.profile = run.profile /\ run'.trunk = run.trunk
         \/ run' = Idle(run.job)
<1>1. CASE Branch \/ AgentRuns \/ Verify \/ Cover \/ CommitBlocked \/ CommitReplays \/ CommitNothing \/ CommitCrashes
  BY <1>1 DEF DeliveryRuns, Branch, AgentRuns, Verify, Cover, CommitBlocked, CommitReplays, CommitNothing, CommitCrashes
<1>2. CASE CommitWork \/ PushRebases \/ Require \/ PrSkipped \/ PrExists \/ Comment \/ SaveTask
  BY <1>2 DEF DeliveryRuns, CommitWork, PushRebases, Require, PrSkipped, PrExists, Comment, SaveTask
<1>3. CASE PushLands \/ PushGivesUp
  BY <1>3, PushSteps DEF PushLands, PushGivesUp
<1>4. CASE PrUpdated \/ PrCreated \/ PrRecovers \/ PrRecreated
  BY <1>4 DEF DeliveryRuns, PrUpdated, PrCreated, PrRecovers, PrRecreated, Update, Create, Shown, PrCrashes
<1>5. CASE BranchConflicts \/ AgentThrows \/ Finalize \/ Killed
  BY <1>5 DEF BranchConflicts, AgentThrows, Finalize, Killed, Aborts
<1>6. CASE PersonPushes \/ PersonMerges \/ GitHubConfuses
  BY <1>6 DEF PersonPushes, PersonMerges, GitHubConfuses
<1> QED
  BY <1>1, <1>2, <1>3, <1>4, <1>5, <1>6 DEF DeliveryNext

\* How a run ended has its type.
LEMMA OutcomeType ==
  ASSUME run \in DeliveryRuns, NEW exit \in ExitCodes \cup {137}, NEW finished \in BOOLEAN
  PROVE  RunOutcome(exit, finished) \in Endings
BY DEF RunOutcome, Endings, DeliveryRuns, Replies

\* Every step keeps the types of what is outside the run.
LEMMA WorldKept ==
  ASSUME run \in DeliveryRuns, WorldTyped, RunPlaced, DeliveryNext
  PROVE  WorldTyped'
<1> DEFINE Far == <<origin, trunk, pull, phantom, people>>
           Near == <<label, task, ended>>
<1>j. run.job \in 0..MaxRuns /\ run.exit \in ExitCodes /\ run.trunk \subseteq Commits
  BY DEF DeliveryRuns
<1>k. MaxRuns \in Nat /\ MaxPeople \in Nat
  BY DeliveryAssumption
<1>a. ASSUME Aborts PROVE label' \in Labels /\ ended' \in Endings
  BY <1>a, OutcomeType, Members DEF Aborts, Unstamped, WorldTyped, Labels
<1>1. CASE Begin
  BY <1>1 DEF Begin, WorldTyped, Branches, Labels, outside
<1>2. CASE Branch
  <2>1. TakesRemote => origin \cup run.trunk \subseteq Commits
    BY <1>j DEF TakesRemote, WorldTyped, Branches
  <2>2. clone' \in Branches
    BY <1>2, <1>j, <2>1 DEF Branch, Branches, WorldTyped
  <2> QED
    BY <1>2, <2>2 DEF Branch, WorldTyped, outside, told
<1>3. CASE BranchConflicts
  BY <1>3, <1>a DEF BranchConflicts, WorldTyped, outside
<1>4. CASE AgentThrows
  BY <1>4, <1>a DEF AgentThrows, WorldTyped, outside
<1>5. CASE CommitWork
  <2>1. run.job \in Runs
    BY <1>5 DEF CommitWork, RunPlaced
  <2>2. clone' \in Branches /\ unchecked' \subseteq Runs
    BY <1>5, <2>1 DEF CommitWork, Branches, WorldTyped, Commits, Gone
  <2> QED
    BY <1>5, <2>2 DEF CommitWork, WorldTyped, outside, told
<1>6. CASE PushRebases
  <2>1. clone # Gone /\ origin # Gone
    BY <1>6 DEF PushRebases, Pushing, FastForward, RunPlaced
  <2>2. clone' \in Branches
    BY <1>6, <2>1 DEF PushRebases, Branches, WorldTyped
  <2> QED
    BY <1>6, <2>2 DEF PushRebases, WorldTyped, outside, told
<1>7. CASE PushLands \/ PushGivesUp
  BY <1>7 DEF PushLands, PushGivesUp, WorldTyped, outside, told
<1>8. CASE PrUpdated \/ PrCreated \/ PrExists \/ PrRecovers \/ PrRecreated
  BY <1>8 DEF PrUpdated, PrCreated, PrExists, PrRecovers, PrRecreated, Update, Create, WorldTyped, outside, told, Branches
<1>9. CASE Comment
  BY <1>9 DEF Comment, WorldTyped, outside, Labels
<1>10. CASE SaveTask
  <2>1. HasPr \in BOOLEAN
    BY DEF HasPr, WorldTyped
  <2> QED
    BY <1>10, <2>1 DEF SaveTask, WorldTyped, outside
<1>11. CASE Finalize
  <2>1. label' \in Labels
    BY <1>11 DEF Finalize, Unstamped, Labels, WorldTyped
  <2>2. ended' \in Endings
    BY <1>11, <1>j, OutcomeType DEF Finalize
  <2>3. task' \in [status : {"none", "succeeded", "failed"}, pr : BOOLEAN]
    BY <1>11 DEF Finalize, WorldTyped
  <2> QED
    BY <1>11, <2>1, <2>2, <2>3 DEF Finalize, WorldTyped, outside
<1>12. CASE Killed
  BY <1>12, OutcomeType DEF Killed, WorldTyped, outside, told, Branches
<1>13. CASE PersonPushes
  <2>1. MaxRuns + people + 1 \in Commits /\ people + 1 \in 0..MaxPeople
    BY <1>13, <1>k DEF PersonPushes, WorldTyped, Commits, Persons
  <2>2. origin \subseteq Commits
    BY <1>13 DEF PersonPushes, WorldTyped, Branches
  <2> QED
    BY <1>13, <2>1, <2>2 DEF PersonPushes, WorldTyped, Branches, told
<1>14. CASE PersonMerges
  BY <1>14 DEF PersonMerges, WorldTyped, Branches, told
<1>15. CASE UNCHANGED <<origin, trunk, pull, clone, Near, unchecked, people>> /\ (phantom' = phantom \/ phantom' = TRUE)
  BY <1>15 DEF WorldTyped
<1> QED
  BY <1>1, <1>2, <1>3, <1>4, <1>5, <1>6, <1>7, <1>8, <1>9, <1>10, <1>11, <1>12, <1>13, <1>14, <1>15
  DEF DeliveryNext, AgentRuns, Verify, Cover, CommitBlocked, CommitReplays, CommitNothing, CommitCrashes, Require,
    PrSkipped, GitHubConfuses, outside, told

\* A branch of commits is not a missing one.
LEMMA NotGone == Gone # {} /\ \A c \in SUBSET Commits : c # Gone /\ 0 \notin c
BY DeliveryAssumption DEF Gone, Commits, Runs, Persons

\* What a run is about, and that it has the branch.
LEMMA PlaceKept ==
  ASSUME run \in DeliveryRuns, run' \in DeliveryRuns, WorldTyped, RunPlaced, DeliveryNext
  PROVE  RunPlaced'
<1>1. CASE Begin
  <2>1. PICK p \in Profiles : run' = [Idle(run.job + 1) EXCEPT !.at = "branch", !.profile = p, !.trunk = trunk]
    BY <1>1 DEF Begin
  <2>2. run'.at = "branch" /\ run'.profile = p /\ run'.job = run.job + 1
    BY <2>1 DEF Idle
  <2>3. run.job + 1 \in Runs
    BY <1>1, DeliveryAssumption DEF Begin, DeliveryRuns, Runs
  <2> QED
    BY <2>2, <2>3 DEF RunPlaced
<1>2. CASE run' = Idle(run.job)
  BY <1>2 DEF RunPlaced, Idle
<1>3. ASSUME run'.job = run.job, run'.profile = run.profile, ~Begin, run'.at # "idle"
      PROVE  RunPlaced'
  <2>1. run.at # "idle"
    <3>1. SUFFICES ASSUME run.at = "idle" PROVE run' = run
      BY <1>3
    <3> QED
      BY <1>3, <3>1 DEF DeliveryNext, PersonPushes, PersonMerges, GitHubConfuses, Branch, BranchConflicts, AgentRuns,
        AgentThrows, Verify, Cover, CommitBlocked, CommitReplays, CommitNothing, CommitCrashes, CommitWork, PushLands,
        PushRebases, PushGivesUp, Pushing, Require, PrSkipped, PrUpdated, PrCreated, PrExists, PrRecovers, PrRecreated,
        Comment, SaveTask, Finalize, Killed
  <2>2. run'.at \notin {"idle", "branch"} => clone' # Gone
    <3> SUFFICES ASSUME run'.at \notin {"idle", "branch"} PROVE clone' # Gone
      OBVIOUS
    <3>1. CASE Branch
      <4>1. TakesRemote => origin \cup run.trunk \subseteq Commits
        BY DEF TakesRemote, WorldTyped, Branches, DeliveryRuns
      <4>2. clone' \subseteq Commits
        BY <3>1, <4>1 DEF Branch, WorldTyped, Branches, DeliveryRuns
      <4> QED
        BY <4>2, NotGone
    <3>2. CASE CommitWork
      <4>1. run.job \in clone' /\ run.job \in Runs
        BY <3>2 DEF CommitWork, RunPlaced
      <4> QED
        BY <4>1, NotGone DEF Gone, Commits
    <3>3. CASE PushRebases
      <4>1. clone' \subseteq Commits
        BY <3>3 DEF PushRebases, Pushing, FastForward, RunPlaced, WorldTyped, Branches
      <4> QED
        BY <4>1, NotGone
    <3>4. CASE run' = Idle(run.job)
      BY <3>4, <1>3 DEF Idle
    <3>5. CASE clone' = clone /\ run.at # "branch"
      BY <2>1, <3>5 DEF RunPlaced
    <3>6. run.at = "branch" => Branch \/ run' = Idle(run.job) \/ run' = run
      BY <1>3 DEF DeliveryNext, PersonPushes, PersonMerges, GitHubConfuses, BranchConflicts, Aborts, AgentRuns,
        AgentThrows, Verify, Cover, CommitBlocked, CommitReplays, CommitNothing, CommitCrashes, CommitWork, PushLands,
        PushRebases, PushGivesUp, Pushing, Require, PrSkipped, PrUpdated, PrCreated, PrExists, PrRecovers, PrRecreated,
        Comment, SaveTask, Finalize, Killed
    <3>7. \/ Branch \/ CommitWork \/ PushRebases \/ run' = Idle(run.job) \/ clone' = clone
      BY <1>3 DEF DeliveryNext, PersonPushes, PersonMerges, GitHubConfuses, BranchConflicts, Aborts, AgentRuns,
        AgentThrows, Verify, Cover, CommitBlocked, CommitReplays, CommitNothing, CommitCrashes, PushLands,
        PushGivesUp, Require, PrSkipped, PrUpdated, PrCreated, PrExists, PrRecovers, PrRecreated,
        Comment, SaveTask, Finalize, Killed
    <3> QED
      BY <1>3, <3>1, <3>2, <3>3, <3>4, <3>5, <3>6, <3>7
  <2> QED
    BY <1>3, <2>1, <2>2 DEF RunPlaced
<1> QED
  BY <1>1, <1>2, <1>3, SameRun DEF RunPlaced

-----------------------------------------------------------------------------
(* What is shown.                                                          *)

Unflawed == ~CoverageRules => unchecked = {}
HonestInv == DeliveryTyped /\ Course /\ WorkIsCommitted /\ Unflawed /\ OutcomeIsShown

\* What is shown holds at first.
LEMMA DeliveryStarts == DeliveryInit => HonestInv
<1> SUFFICES ASSUME DeliveryInit PROVE HonestInv
  OBVIOUS
<1>1. run \in DeliveryRuns
  BY IdleType, DeliveryAssumption DEF DeliveryInit
<1>2. sentinels \in [Profiles -> Sentinels]
  BY DEF DeliveryInit, Sentinels
<1>3. WorldTyped
  <2>1. 0 \in 0..MaxRuns /\ 0 \in 0..MaxPeople /\ 0 \in ExitCodes
    BY Members, DeliveryAssumption
  <2>2. ended \in Endings
    BY <2>1 DEF DeliveryInit, Endings
  <2> QED
    BY <2>1, <2>2 DEF DeliveryInit, WorldTyped, Branches, Labels
<1>4. RunPlaced /\ Course /\ WorkIsCommitted
  BY DEF DeliveryInit, Idle, RunPlaced, Course, WorkIsCommitted, Made, Asked
<1> QED
  BY <1>1, <1>2, <1>3, <1>4 DEF HonestInv, DeliveryTyped, Unflawed, OutcomeIsShown, DeliveryInit

\* Only checked work is committed, when nothing sends the agent back.
LEMMA WorkIsChecked ==
  ASSUME run \in DeliveryRuns, Course, Unflawed, DeliveryNext
  PROVE  Unflawed'
<1>1. CASE CommitWork
  BY <1>1 DEF CommitWork, CommitRefused, Course, Unflawed, DeliveryRuns, CheckResults
<1>2. CASE unchecked' = unchecked
  BY <1>2 DEF Unflawed
<1> QED
  BY <1>1, <1>2 DEF DeliveryNext, PersonPushes, PersonMerges, GitHubConfuses, Begin, Branch, BranchConflicts, AgentRuns,
        AgentThrows, Verify, Cover, CommitBlocked, CommitReplays, CommitNothing, CommitCrashes, PushLands,
        PushRebases, PushGivesUp, Require, PrSkipped, PrUpdated, PrCreated, PrExists, PrRecovers, PrRecreated,
        Comment, SaveTask, Finalize, Killed

\* A run goes on, ends, or others act.
LEMMA StillRunning ==
  ASSUME run \in DeliveryRuns, DeliveryNext
  PROVE  run'.at # "idle" \/ Finalize \/ Aborts \/ Killed \/ PersonPushes \/ PersonMerges \/ GitHubConfuses
<1>1. CASE Begin
  BY <1>1 DEF Begin, Idle
<1>2. CASE Branch \/ AgentRuns \/ Verify \/ Cover \/ CommitBlocked \/ CommitReplays \/ CommitNothing \/ CommitCrashes
  BY <1>2 DEF DeliveryRuns, Branch, AgentRuns, Verify, Cover, CommitBlocked, CommitReplays, CommitNothing, CommitCrashes
<1>3. CASE CommitWork \/ PushRebases \/ Require \/ PrSkipped \/ PrExists \/ Comment \/ SaveTask
  BY <1>3 DEF DeliveryRuns, CommitWork, PushRebases, Pushing, Require, PrSkipped, PrExists, Comment, SaveTask
<1>5. CASE PushLands \/ PushGivesUp
  BY <1>5, PushSteps DEF PushLands, PushGivesUp, Pushing
<1>6. CASE PrUpdated \/ PrCreated \/ PrRecovers \/ PrRecreated
  BY <1>6 DEF DeliveryRuns, PrUpdated, PrCreated, PrRecovers, PrRecreated, Update, Create, Shown, PrCrashes
<1> QED
  BY <1>1, <1>2, <1>3, <1>5, <1>6 DEF DeliveryNext, BranchConflicts, AgentThrows

\* The label follows the exit code.
LEMMA LabelFollows ==
  ASSUME run \in DeliveryRuns, Course, OutcomeIsShown, DeliveryNext
  PROVE  OutcomeIsShown'
<1>1. CASE Finalize
  <2>1. run.exit = 0 <=> Succeeded
    BY <1>1 DEF Finalize, Course, Succeeded, HasPr, OnShow
  <2> QED
    BY <1>1, <2>1 DEF Finalize, OutcomeIsShown, RunOutcome, Unstamped
<1>2. CASE Aborts \/ Killed
  BY <1>2 DEF Aborts, Killed, OutcomeIsShown, RunOutcome
<1>3. CASE run'.at # "idle"
  BY <1>3 DEF OutcomeIsShown, NoRun
<1>4. CASE run' = run /\ UNCHANGED <<ended, label>>
  BY <1>4 DEF OutcomeIsShown, NoRun
<1> QED
  BY <1>1, <1>2, <1>3, <1>4, StillRunning DEF PersonPushes, PersonMerges, GitHubConfuses, told

\* What is shown is kept by every step.
LEMMA HonestSteps == HonestInv /\ [DeliveryNext]_deliveryVars => HonestInv'
<1> SUFFICES ASSUME HonestInv, [DeliveryNext]_deliveryVars PROVE HonestInv'
  OBVIOUS
<1>1. CASE DeliveryNext
  <2>1. run \in DeliveryRuns /\ sentinels \in [Profiles -> Sentinels] /\ WorldTyped /\ RunPlaced
    BY DEF HonestInv, DeliveryTyped
  <2>2. trunk \subseteq Commits /\ (run.at # "idle" => run.profile \in Profiles)
    BY <2>1 DEF WorldTyped, RunPlaced
  <2>3. run' \in DeliveryRuns /\ Course' /\ WorkIsCommitted'
    BY <1>1, <2>1, <2>2, RunSteps DEF HonestInv
  <2> QED
    BY <1>1, <2>1, <2>3, DiskKept, WorldKept, PlaceKept, WorkIsChecked, LabelFollows DEF HonestInv, DeliveryTyped
<1>2. CASE UNCHANGED deliveryVars
  BY <1>2 DEF deliveryVars, HonestInv, DeliveryTyped, WorldTyped, RunPlaced, Course, WorkIsCommitted, Unflawed, OutcomeIsShown,
    OnShow, Failure, NoRun
<1> QED
  BY <1>1, <1>2

\* What is shown always holds.
LEMMA HonestAlways == DeliverySpec => []HonestInv
BY DeliveryStarts, HonestSteps, PTL DEF DeliverySpec

\* The variables of Delivery keep their types, whatever fails.
THEOREM DeliveryTypeCorrect == DeliverySpec => []DeliveryTypeOK
<1>1. HonestInv => DeliveryTypeOK
  <2> SUFFICES ASSUME HonestInv PROVE DeliveryTypeOK
    OBVIOUS
  <2>1. run.job \in 0..MaxRuns /\ run.tries \in 0..PushAttempts /\ run.exit \in {0, 1, 3, 4, 99}
    BY DEF HonestInv, DeliveryTyped, DeliveryRuns, ExitCodes
  <2>2. WorldTyped
    BY DEF HonestInv, DeliveryTyped
  <2> QED
    BY <2>1, <2>2 DEF WorldTyped, Branches, Labels, Commits, DeliveryTypeOK
<1> QED
  BY <1>1, HonestAlways, PTL

\* What is delivered was checked, when no coverage rule sends the agent back
\* after the checks, and the label tells how a run ended: for any number of
\* runs, people, failures and lost runners.
THEOREM DeliveryStaysHonest ==
  ASSUME ~CoverageRules
  PROVE  DeliverySpec => []DeliveryIsHonest
<1>1. HonestInv => DeliveryIsHonest
  BY DEF HonestInv, Unflawed, DeliveryIsHonest, CheckedContent
<1> QED
  BY <1>1, HonestAlways, PTL

\* Pushing never takes a commit off the remote branch.
THEOREM OthersAreKept == DeliverySpec => OthersKept
<1>1. DeliveryTyped /\ [DeliveryNext]_deliveryVars => [run.at = "recover" \/ (origin \ Gone) \subseteq origin']_deliveryVars
  BY DEF DeliveryNext, PersonPushes, PersonMerges, GitHubConfuses, Begin, Branch, BranchConflicts, AgentRuns,
        AgentThrows, Verify, Cover, CommitBlocked, CommitReplays, CommitNothing, CommitCrashes, CommitWork, PushLands,
        FastForward, PushRebases, PushGivesUp, Require, PrSkipped, PrUpdated, PrCreated, PrExists, PrRecovers, PrRecreated,
        Comment, SaveTask, Finalize, Killed, outside
<1>2. HonestInv => DeliveryTyped
  BY DEF HonestInv
<1> QED
  BY <1>1, <1>2, HonestAlways, PTL DEF DeliverySpec, OthersKept

-----------------------------------------------------------------------------
(* What is delivered.                                                      *)

GreenInv == CloneHasAll /\ FreshDisk /\ CommitsArrive /\ GreenMeansReviewable

\* What showing the work may change.
LEMMA PrSteps ==
  ASSUME run \in DeliveryRuns, PrUpdated \/ PrCreated \/ PrRecovers \/ PrRecreated
  PROVE  /\ run.at \in Asked \cup {"pr"} /\ run'.at \in {"comment", "repush"}
         /\ run'.job = run.job /\ run'.trunk = run.trunk /\ run'.committed = run.committed
         /\ run'.pushed = run.pushed /\ run'.ahead = run.ahead
         /\ run'.exit \in {run.exit, 4}
         /\ run'.at = "repush" \/ origin' = origin
         /\ origin' \in {origin, Gone}
         /\ run'.at = "comment" /\ run'.pr \in {"created", "updated"} => pull' # "none"
         /\ UNCHANGED <<clone, trunk, sentinels, ended>>
<1> DEFINE Good(to) == /\ run'.at = to
                       /\ run'.job = run.job /\ run'.trunk = run.trunk /\ run'.committed = run.committed
                       /\ run'.pushed = run.pushed /\ run'.ahead = run.ahead /\ run'.exit \in {run.exit, 4}
<1>1. ASSUME PrCrashes PROVE Good("comment") /\ run'.pr = "crashed"
  BY <1>1 DEF PrCrashes, DeliveryRuns
<1>2. ASSUME NEW outcome \in {"created", "updated"}, Shown(outcome) PROVE Good("comment")
  BY <1>2 DEF Shown, DeliveryRuns
<1>3. ASSUME run' = [run EXCEPT !.at = "repush", !.tries = 1] PROVE Good("repush")
  BY <1>3 DEF DeliveryRuns
<1> HIDE DEF Good
<1>4. CASE PrUpdated
  BY <1>1, <1>2, <1>4 DEF PrUpdated, Update, Good, Asked
<1>5. CASE PrCreated
  BY <1>1, <1>2, <1>5 DEF PrCreated, Create, Good, Asked
<1>6. CASE PrRecovers
  BY <1>1, <1>3, <1>6 DEF PrRecovers, Good, Asked
<1>7. CASE PrRecreated
  BY <1>1, <1>2, <1>7 DEF PrRecreated, Create, Good, Asked
<1> QED
  BY <1>4, <1>5, <1>6, <1>7

\* The disk of a runner that starts has no result of an earlier run.
LEMMA DiskIsFresh ==
  ASSUME ~Chained, run \in DeliveryRuns, FreshDisk, DeliveryNext
  PROVE  FreshDisk'
<1>1. CASE Begin
  BY <1>1 DEF Begin, FreshDisk
<1>2. CASE Branch \/ AgentRuns \/ Verify \/ Cover \/ CommitBlocked \/ CommitReplays \/ CommitNothing \/ CommitCrashes
  BY <1>2 DEF DeliveryRuns, Branch, AgentRuns, Verify, Cover, CommitBlocked, CommitReplays, CommitNothing, CommitCrashes, FreshDisk, Made
<1>3. CASE CommitWork \/ PushRebases \/ Require
  BY <1>3 DEF DeliveryRuns, CommitWork, PushRebases, Pushing, Require, FreshDisk, Made
<1>4. CASE PrSkipped \/ PrExists \/ Comment \/ SaveTask
  BY <1>4 DEF DeliveryRuns, PrSkipped, PrExists, Comment, SaveTask, FreshDisk, Made
<1>5. CASE PushLands \/ PushGivesUp
  <2>1. PICK ok \in BOOLEAN : PushEnds(ok)
    BY <1>5 DEF PushLands, PushGivesUp
  <2> QED
    BY <1>5, <2>1, PushSteps DEF PushLands, PushGivesUp, Pushing, FreshDisk, Made
<1>6. CASE PrUpdated \/ PrCreated \/ PrRecovers \/ PrRecreated
  BY <1>6, PrSteps DEF FreshDisk, Made
<1>7. CASE run' = Idle(run.job)
  BY <1>7 DEF Idle, FreshDisk, Made
<1>8. CASE PersonPushes \/ PersonMerges \/ GitHubConfuses
  BY <1>8 DEF PersonPushes, PersonMerges, GitHubConfuses, FreshDisk
<1> QED
  BY <1>1, <1>2, <1>3, <1>4, <1>5, <1>6, <1>7, <1>8 DEF DeliveryNext, BranchConflicts, AgentThrows, Aborts, Finalize, Killed

\* Nobody but runs brings the commits of runs.
LEMMA PeoplesCommits ==
  ASSUME WorldTyped, PersonPushes
  PROVE  origin' \cap Runs = origin \cap Runs /\ origin \subseteq origin'
BY DeliveryAssumption DEF PersonPushes, WorldTyped, Runs

\* The clone has what runs pushed, and the commit of its own run.
LEMMA CloneKeepsAll ==
  ASSUME ~Chained, run \in DeliveryRuns, WorldTyped, RunPlaced, Course, FreshDisk, CloneHasAll, DeliveryNext
  PROVE  CloneHasAll'
<1> DEFINE Same == run'.trunk = run.trunk /\ run'.job = run.job /\ run'.committed = run.committed /\ run'.at \notin {"idle", "branch"}
<1>1. CASE Begin
  <2>1. PICK p \in Profiles : run' = [Idle(run.job + 1) EXCEPT !.at = "branch", !.profile = p, !.trunk = trunk]
    BY <1>1 DEF Begin
  <2>2. run'.at = "branch" /\ run'.trunk = trunk /\ run'.committed = FALSE
    BY <2>1 DEF Idle
  <2> QED
    BY <1>1, <2>2 DEF Begin, CloneHasAll, outside
<1>2. CASE Branch
  <2>1. run'.at = "agent" /\ run'.trunk = run.trunk /\ ~run'.committed
    BY <1>2 DEF Branch, DeliveryRuns, Course, Made
  <2>2. origin \cap Runs \subseteq clone'
    BY <1>2, DeliveryAssumption DEF Branch, TakesRemote, CloneHasAll, Gone, Runs
  <2> QED
    BY <1>2, <2>1, <2>2 DEF Branch, CloneHasAll, outside
<1>3. ASSUME Same, UNCHANGED outside, clone' = clone, run.at \notin {"idle", "branch"}
      PROVE  CloneHasAll'
  BY <1>3 DEF CloneHasAll, outside
<1>4. CASE AgentRuns \/ Verify \/ Cover \/ CommitBlocked \/ CommitNothing \/ CommitCrashes \/ Require
  BY <1>3, <1>4 DEF AgentRuns, Verify, Cover, CommitBlocked, CommitNothing, CommitCrashes, Require, DeliveryRuns
<1>5. CASE PrSkipped \/ PrExists \/ Comment \/ SaveTask
  BY <1>3, <1>5 DEF PrSkipped, PrExists, Comment, SaveTask, DeliveryRuns
<1>6. CASE CommitReplays
  BY <1>6 DEF CommitReplays, FreshDisk, Made, RunPlaced
<1>7. CASE CommitWork
  <2>1. Same \/ run'.committed = TRUE
    BY <1>7 DEF CommitWork, DeliveryRuns
  <2>2. run'.at = "push" /\ run'.trunk = run.trunk /\ run'.job = run.job
    BY <1>7 DEF CommitWork, DeliveryRuns
  <2>3. 0 \notin Runs
    BY DeliveryAssumption DEF Runs
  <2> QED
    BY <1>7, <2>2, <2>3 DEF CommitWork, CloneHasAll, outside, Gone
<1>8. CASE PushRebases
  <2>1. Same
    BY <1>8 DEF PushRebases, Pushing, DeliveryRuns
  <2> QED
    BY <1>8, <2>1 DEF PushRebases, Pushing, CloneHasAll, outside
<1>9. ASSUME Pushing, NEW ok \in BOOLEAN, PushEnds(ok) PROVE Same
  BY <1>9, PushSteps DEF Pushing
<1>10. CASE PushLands
  <2>1. Same /\ run.at \notin {"idle", "branch"}
    BY <1>9, <1>10 DEF PushLands, Pushing
  <2> QED
    BY <1>10, <2>1 DEF PushLands, CloneHasAll
<1>11. CASE PushGivesUp
  <2>1. Same /\ run.at \notin {"idle", "branch"}
    BY <1>9, <1>11 DEF PushGivesUp, Pushing
  <2> QED
    BY <1>3, <1>11, <2>1 DEF PushGivesUp
<1>12. CASE PrUpdated \/ PrCreated \/ PrRecovers \/ PrRecreated
  <2>1. Same /\ run.at \notin {"idle", "branch"}
    BY <1>12, PrSteps DEF Asked
  <2>2. clone' = clone /\ trunk' = trunk /\ (origin' = origin \/ origin' = Gone)
    BY <1>12, PrSteps
  <2>3. Gone \cap Runs = {}
    BY DeliveryAssumption DEF Gone, Runs
  <2> QED
    BY <2>1, <2>2, <2>3 DEF CloneHasAll
<1>13. CASE run' = Idle(run.job)
  BY <1>13 DEF Idle, CloneHasAll
<1>14. CASE PersonPushes
  <2>1. UNCHANGED <<run, clone, trunk>>
    BY <1>14 DEF PersonPushes
  <2> QED
    BY <1>14, <2>1, PeoplesCommits DEF CloneHasAll
<1>15. CASE PersonMerges \/ GitHubConfuses
  BY <1>15 DEF PersonMerges, GitHubConfuses, CloneHasAll
<1> QED
  BY <1>1, <1>2, <1>4, <1>5, <1>6, <1>7, <1>8, <1>10, <1>11, <1>12, <1>13, <1>14, <1>15
  DEF DeliveryNext, BranchConflicts, AgentThrows, Aborts, Finalize, Killed

\* What a run says it pushed is there, and what is there is in front of people.
LEMMA WorkArrives ==
  ASSUME ~Chained, "stage" \notin DeliveryFaults, run \in DeliveryRuns, WorldTyped, RunPlaced, Course, FreshDisk, CloneHasAll,
         CommitsArrive, DeliveryNext
  PROVE  CommitsArrive'
<1> DEFINE Same == /\ run'.job = run.job /\ run'.trunk = run.trunk /\ run'.committed = run.committed
                   /\ run'.pushed = run.pushed /\ run'.ahead = run.ahead
<1>0. 0 \notin Runs
  BY DeliveryAssumption DEF Runs
<1>1. CASE run'.at \in Made \cup {"push", "idle"} /\ ~run'.pushed
  BY <1>1 DEF CommitsArrive, Made, Told
<1>2. CASE CommitNothing
  <2>1. /\ run'.at = "require" /\ run'.ahead = Ahead(clone) /\ run'.committed = FALSE /\ run'.trunk = run.trunk
    BY <1>2 DEF CommitNothing, DeliveryRuns, Course, Made
  <2>2. ~Ahead(clone) => origin \cap Runs \subseteq run.trunk
    BY <1>0, <1>2 DEF CommitNothing, Ahead, Gone, CloneHasAll
  <2> QED
    BY <1>2, <2>1, <2>2 DEF CommitNothing, CommitsArrive, Told, outside
<1>3. CASE CommitBlocked
  <2>1. run'.at = "require" /\ run'.exit # 0
    BY <1>3 DEF CommitBlocked, DeliveryRuns
  <2> QED
    BY <2>1 DEF CommitsArrive, Told
<1>4. CASE CommitCrashes
  BY <1>4 DEF CommitCrashes, DeliveryFails
<1>5. CASE CommitReplays
  BY <1>5 DEF CommitReplays, FreshDisk, Made, RunPlaced
<1>6. CASE PushLands
  <2>1. run.at = "push" \/ run.at = "repush"
    BY <1>6 DEF PushLands, Pushing
  <2>2. run'.job = run.job /\ run'.committed = run.committed /\ run'.at \in {"require", "recreate"}
    BY <1>6, <2>1, PushSteps DEF PushLands
  <2>3. run.committed => run.job \in origin'
    BY <1>6, <2>1 DEF PushLands, CloneHasAll
  <2>4. run.at = "push" => run.committed
    BY DEF Course
  <2>5. run.at = "repush" => (run'.ahead = run.ahead /\ (run.committed \/ run.ahead))
    BY <1>6, PushSteps DEF PushLands, Course, Asked
  <2> QED
    BY <2>1, <2>2, <2>3, <2>4, <2>5 DEF CommitsArrive, Told
<1>7. CASE PushGivesUp
  <2>1. run'.exit = 4 /\ (run'.at = "require" \/ run'.pr = "crashed")
    BY <1>7, PushSteps DEF PushGivesUp, Pushing
  <2> QED
    BY <2>1 DEF CommitsArrive, Told, OnShow
<1>8. CASE PrUpdated \/ PrCreated \/ PrRecovers \/ PrRecreated
  <2>1. run'.exit = 0 => run.exit = 0
    BY <1>8, PrSteps
  <2>2. run.at # "repush"
    BY <1>8 DEF PrUpdated, PrCreated, PrRecovers, PrRecreated
  <2>3. origin' = Gone => origin' \cap Runs \subseteq run.trunk
    BY <1>0 DEF Gone
  <2> QED
    BY <1>8, <2>1, <2>2, <2>3, PrSteps DEF CommitsArrive, Told, OnShow, Made, Asked
<1>9. ASSUME UNCHANGED outside, Same, run.at \notin Made \cup {"push", "idle", "repush"}, run'.at # "repush", run'.exit = 0 => run.exit = 0,
             run'.at \in Told /\ run'.pr \in {"created", "updated"} => run.at \in Told /\ run'.pr = run.pr
      PROVE  CommitsArrive'
  BY <1>9 DEF CommitsArrive, OnShow, outside
<1>10. CASE Require
  <2>1. Same /\ run'.at = "pr" /\ (run'.exit = 0 => run.exit = 0)
    BY <1>10 DEF Require, DeliveryRuns
  <2> QED
    BY <1>9, <1>10, <2>1 DEF Require, Made, Told
<1>11. CASE PrSkipped \/ PrExists
  <2>1. /\ Same /\ run'.exit = run.exit /\ run.at = "pr"
        /\ run'.at = "recover" \/ (run'.at = "comment" /\ run'.pr \in {"none", "skipped"})
    BY <1>11 DEF PrSkipped, PrExists, DeliveryRuns
  <2> QED
    BY <1>9, <1>11, <2>1 DEF PrSkipped, PrExists, Made, Told
<1>12. CASE Comment \/ SaveTask
  <2>1. CASE Comment
    <3>1. PICK exit \in ExitCodes, unneeded \in BOOLEAN :
            /\ run' = [run EXCEPT !.at = "save", !.exit = exit, !.unneeded = unneeded]
            /\ exit = 0 => run.exit = 0
      BY <2>1, CommentSteps
    <3> QED
      BY <1>9, <2>1, <3>1 DEF Comment, DeliveryRuns, Made, Told
  <2>2. CASE SaveTask
    <3>1. Same /\ run'.at = "finalize" /\ run'.pr = run.pr /\ run.at = "save" /\ (run'.exit = 0 => run.exit = 0)
      BY <2>2 DEF SaveTask, DeliveryRuns
    <3> QED
      BY <1>9, <2>2, <3>1 DEF SaveTask, Made, Told
  <2> QED
    BY <1>12, <2>1, <2>2
<1>13. CASE PersonPushes
  <2>1. UNCHANGED <<run, trunk, pull>>
    BY <1>13 DEF PersonPushes
  <2> QED
    BY <1>13, <2>1, PeoplesCommits DEF CommitsArrive, OnShow
<1>14. CASE PersonMerges
  BY <1>14 DEF PersonMerges, CommitsArrive, OnShow
<1>15. CASE GitHubConfuses
  BY <1>15 DEF GitHubConfuses, CommitsArrive, OnShow
<1>16. CASE PushRebases
  <2>1. Same /\ run'.at = run.at /\ run'.exit = run.exit /\ run.at \in {"push", "repush"}
    BY <1>16 DEF PushRebases, Pushing, DeliveryRuns
  <2> QED
    BY <1>16, <2>1 DEF PushRebases, CommitsArrive, Told, outside
<1>17. CASE run' = Idle(run.job) \/ Begin
  <2>1. run'.at \in {"idle", "branch"} /\ ~run'.pushed
    <3>1. CASE Begin
      <4>1. PICK p \in Profiles : run' = [Idle(run.job + 1) EXCEPT !.at = "branch", !.profile = p, !.trunk = trunk]
        BY <3>1 DEF Begin
      <4> QED
        BY <4>1 DEF Idle
    <3>2. CASE run' = Idle(run.job)
      BY <3>2 DEF Idle
    <3> QED
      BY <1>17, <3>1, <3>2
  <2> QED
    BY <1>1, <2>1 DEF Made
<1>18. CASE Branch \/ AgentRuns \/ Verify \/ Cover \/ CommitWork
  <2>1. run'.at \in Made \cup {"push"} /\ ~run'.pushed
    BY <1>18 DEF Branch, AgentRuns, Verify, Cover, CommitWork, DeliveryRuns, Course, Made
  <2> QED
    BY <1>1, <2>1
<1> QED
  BY <1>2, <1>3, <1>4, <1>5, <1>6, <1>7, <1>8, <1>10, <1>11, <1>12, <1>13, <1>14, <1>15, <1>16, <1>17, <1>18
  DEF DeliveryNext, BranchConflicts, AgentThrows, Aborts, Finalize, Killed

\* A run that ends green delivered.
LEMMA GreenStays ==
  ASSUME "stage" \notin DeliveryFaults, run \in DeliveryRuns, WorldTyped, Course, WorkIsCommitted, CloneHasAll, CommitsArrive,
         GreenMeansReviewable, DeliveryNext
  PROVE  GreenMeansReviewable'
<1>1. CASE Finalize
  <2>1. SUFFICES ASSUME run.exit = 0
                 PROVE  /\ run.reply.work /\ run.done => run.job \in origin \cup trunk
                        /\ (origin \cap Runs) \subseteq trunk \/ pull # "none"
    BY <1>1 DEF Finalize, GreenMeansReviewable, GreenRun, RunOutcome, outside
  <2>2. run.at = "finalize" /\ ~Failure
    BY <1>1, <2>1 DEF Finalize, Course
  <2>3. run.reply.work /\ run.done => run.committed
    BY <2>1, <2>2 DEF WorkIsCommitted, Failure, Made
  <2>4. run.committed => run.job \in origin \cup trunk
    BY <2>1, <2>2 DEF Course, CommitsArrive
  <2>5. OnShow => (origin \cap Runs) \subseteq trunk \/ pull # "none"
    BY <2>2 DEF CommitsArrive, Told
  <2>6. ~OnShow => (origin \cap Runs) \subseteq trunk
    BY <2>1, <2>2 DEF Course, CommitsArrive, CloneHasAll, Made
  <2> QED
    BY <2>3, <2>4, <2>5, <2>6
<1>2. CASE PersonPushes
  BY <1>2, PeoplesCommits DEF PersonPushes, GreenMeansReviewable, GreenRun, NoRun
<1>3. CASE PersonMerges \/ GitHubConfuses
  BY <1>3 DEF PersonMerges, GitHubConfuses, GreenMeansReviewable, GreenRun, NoRun
<1>4. CASE Aborts \/ Killed
  BY <1>4 DEF Aborts, Killed, RunOutcome, GreenMeansReviewable, GreenRun
<1>5. CASE run'.at # "idle"
  BY <1>5 DEF GreenMeansReviewable, GreenRun, NoRun
<1> QED
  BY <1>1, <1>2, <1>3, <1>4, <1>5, StillRunning

\* After a run that ended green its work is on the remote and what Kody pushed
\* is in front of people: for any number of runs, people, failures and lost
\* runners, when a run starts with a fresh clone and staging does not fail.
THEOREM GreenIsReviewable ==
  ASSUME ~Chained, "stage" \notin DeliveryFaults
  PROVE  DeliverySpec => []GreenMeansReviewable
<1> DEFINE Green == HonestInv /\ GreenInv
<1>1. DeliveryInit => Green
  BY DeliveryStarts, DeliveryAssumption DEF DeliveryInit, Idle, Gone, Runs, Made, Told, GreenInv, CloneHasAll, FreshDisk, CommitsArrive,
    GreenMeansReviewable, GreenRun
<1>2. Green /\ [DeliveryNext]_deliveryVars => Green'
  <2> SUFFICES ASSUME Green, [DeliveryNext]_deliveryVars PROVE Green'
    OBVIOUS
  <2>1. HonestInv'
    BY HonestSteps
  <2>2. /\ run \in DeliveryRuns /\ WorldTyped /\ RunPlaced /\ Course /\ WorkIsCommitted
        /\ FreshDisk /\ CloneHasAll /\ CommitsArrive /\ GreenMeansReviewable
    BY DEF HonestInv, DeliveryTyped, GreenInv
  <2>3. CASE DeliveryNext
    BY <2>1, <2>2, <2>3, DiskIsFresh, CloneKeepsAll, WorkArrives, GreenStays DEF GreenInv
  <2>4. CASE UNCHANGED deliveryVars
    BY <2>1, <2>2, <2>4 DEF deliveryVars, GreenInv, FreshDisk, CloneHasAll, CommitsArrive, OnShow, GreenMeansReviewable, GreenRun, NoRun
  <2> QED
    BY <2>3, <2>4
<1>3. Green => GreenMeansReviewable
  BY DEF GreenInv
<1> QED
  BY <1>1, <1>2, <1>3, PTL DEF DeliverySpec

-----------------------------------------------------------------------------
(* The preview of a pull request.                                          *)

BuildState == [at : {"new", "context", "app", "image", "list", "destroy", "create", "lookup", "post", "patch", "ended"},
               nth : Nat, stale : SUBSET Builds, tries : Nat, exit : Nat, clean : BOOLEAN, alone : BOOLEAN]
PreviewTyped ==
  /\ PreviewTypeOK
  /\ previewBuild \in [Builds -> BuildState] /\ previewComments \in Seq(Builds)

\* What a build has done by the place it is at.
Pushed == {"list", "destroy", "create", "lookup", "post", "patch"}
ImagesAreThere == \A b \in Builds : previewBuild[b].at \in Pushed => b \in images
MachinesStay ==
  \A b \in Builds :
    previewBuild[b].at \in {"lookup", "post", "patch"} \/ (BuildAt(b, "ended") /\ previewBuild[b].exit = 0)
      => b \in machinesUp \/ images \ {b} # {}

\* The last build to start that found no other at work is by itself.
IsLast(b) == previewBuild[b].nth = Cardinality(Begun)
Undisturbed(b) == b \in Begun /\ previewBuild[b].alone /\ IsLast(b)
BuildsAreCounted == \A b \in Builds : previewBuild[b].nth <= Cardinality(Begun)
UndisturbedIsByItself == \A b, x \in Builds : Undisturbed(b) /\ x # b => ~BuildRuns(x)
CleanBuildsAdvance ==
  \A b \in Builds : Undisturbed(b) /\ previewBuild[b].clean =>
    /\ BuildAt(b, "destroy") => machinesUp \subseteq previewBuild[b].stale
    /\ BuildAt(b, "create") => machinesUp = {}
    /\ previewBuild[b].at \in {"lookup", "post", "patch", "ended"} => machinesUp = {b}
    /\ BuildAt(b, "post") => previewComments = <<>>
    /\ BuildAt(b, "patch") => previewComments # <<>>
    /\ BuildAt(b, "ended") => previewComments[1] = b

PreviewInv ==
  PreviewTyped /\ ImagesAreThere /\ MachinesStay /\ BuildsAreCounted /\ UndisturbedIsByItself /\ CleanBuildsAdvance

\* A build that starts, and a build that goes on.
LEMMA BegunCounted == IsFiniteSet(Begun) /\ Cardinality(Begun) \in Nat
<1>1. Begun \subseteq Builds
  BY DEF Begun
<1> QED
  BY <1>1, PreviewAssumption, FS_Subset, FS_CardinalityType

BuildPlaces == {"context", "app", "image", "list", "destroy", "create", "lookup", "post", "patch", "ended"}

\* Build b is at another place, and the rest of it and the others stay.
Became(b, at, stale, tries, exit, clean) ==
  /\ previewBuild' \in [Builds -> BuildState]
  /\ \A x \in Builds : x # b => previewBuild'[x] = previewBuild[x]
  /\ previewBuild'[b].at = at /\ previewBuild'[b].stale = stale /\ previewBuild'[b].tries = tries
  /\ previewBuild'[b].exit = exit /\ previewBuild'[b].clean = clean
  /\ previewBuild'[b].nth = previewBuild[b].nth /\ previewBuild'[b].alone = previewBuild[b].alone

LEMMA NewState ==
  ASSUME PreviewTyped, NEW b \in Builds, NEW new \in BuildState, previewBuild' = [previewBuild EXCEPT ![b] = new],
         new.nth = previewBuild[b].nth, new.alone = previewBuild[b].alone
  PROVE  Became(b, new.at, new.stale, new.tries, new.exit, new.clean)
BY DEF PreviewTyped, Became

LEMMA Goes ==
  ASSUME PreviewTyped, NEW b \in Builds, NEW at \in BuildPlaces, BuildGoes(b, at)
  PROVE  Became(b, at, previewBuild[b].stale, previewBuild[b].tries, previewBuild[b].exit, previewBuild[b].clean)
<1> DEFINE r == previewBuild[b]
           new == [r EXCEPT !.at = at]
<1>1. r \in BuildState
  BY DEF PreviewTyped
<1>2. /\ new \in BuildState /\ new.at = at /\ new.stale = r.stale /\ new.tries = r.tries /\ new.exit = r.exit
      /\ new.clean = r.clean /\ new.nth = r.nth /\ new.alone = r.alone
  <2> HIDE DEF r
  <2> QED
    BY <1>1 DEF BuildState, BuildPlaces
<1>3. previewBuild' = [previewBuild EXCEPT ![b] = new]
  BY DEF BuildGoes
<1> HIDE DEF new
<1> QED
  BY <1>2, <1>3, NewState

LEMMA Ends ==
  ASSUME PreviewTyped, NEW b \in Builds, NEW code \in Nat, Exits(b, code)
  PROVE  Became(b, "ended", previewBuild[b].stale, previewBuild[b].tries, code, FALSE)
<1> DEFINE r == previewBuild[b]
           new == [r EXCEPT !.at = "ended", !.exit = code, !.clean = FALSE]
<1>1. r \in BuildState
  BY DEF PreviewTyped
<1>2. /\ new \in BuildState /\ new.at = "ended" /\ new.stale = r.stale /\ new.tries = r.tries /\ new.exit = code
      /\ new.clean = FALSE /\ new.nth = r.nth /\ new.alone = r.alone
  <2> HIDE DEF r
  <2> QED
    BY <1>1 DEF BuildState
<1>3. previewBuild' = [previewBuild EXCEPT ![b] = new]
  BY DEF Exits
<1> HIDE DEF new
<1> QED
  BY <1>2, <1>3, NewState

LEMMA PassesOn ==
  ASSUME PreviewTyped, NEW b \in Builds, NEW at \in BuildPlaces, Passes(b, at)
  PROVE  Became(b, at, previewBuild[b].stale, previewBuild[b].tries, previewBuild[b].exit, FALSE)
<1> DEFINE r == previewBuild[b]
           new == [r EXCEPT !.at = at, !.clean = FALSE]
<1>1. r \in BuildState
  BY DEF PreviewTyped
<1>2. /\ new \in BuildState /\ new.at = at /\ new.stale = r.stale /\ new.tries = r.tries /\ new.exit = r.exit
      /\ new.clean = FALSE /\ new.nth = r.nth /\ new.alone = r.alone
  <2> HIDE DEF r
  <2> QED
    BY <1>1 DEF BuildState, BuildPlaces
<1>3. previewBuild' = [previewBuild EXCEPT ![b] = new]
  BY DEF Passes
<1> HIDE DEF new
<1> QED
  BY <1>2, <1>3, NewState

LEMMA BuildGoesOn ==
  ASSUME PreviewTyped, NEW b \in Builds, BuildRuns(b), NEW at \in BuildPlaces, NEW stale, NEW tries, NEW exit, NEW clean,
         Became(b, at, stale, tries, exit, clean)
  PROVE  /\ Begun' = Begun /\ \A x \in Builds : (Undisturbed(x)' <=> Undisturbed(x))
         /\ \A x \in Builds : BuildRuns(x)' => BuildRuns(x)
         /\ \A x \in Builds : previewBuild'[x].nth = previewBuild[x].nth
<1>0. previewBuild \in [Builds -> BuildState] /\ previewBuild[b].at # "new" /\ at # "new" /\ previewBuild' \in [Builds -> BuildState]
  BY DEF PreviewTyped, BuildRuns, Became, BuildPlaces
<1>1. Begun' = Begun
  BY <1>0 DEF Begun, Became
<1>2. \A x \in Builds : previewBuild'[x].nth = previewBuild[x].nth /\ previewBuild'[x].alone = previewBuild[x].alone
  BY DEF Became
<1> QED
  BY <1>0, <1>1, <1>2 DEF Undisturbed, IsLast, BuildRuns, Became

\* What a step of build b owes the others and itself.
LEMMA StepKeeps ==
  ASSUME PreviewInv, NEW b \in Builds, BuildRuns(b),
         NEW at \in BuildPlaces, NEW stale \in SUBSET Builds, NEW tries, tries < CreateTries, NEW exit, NEW clean,
         Became(b, at, stale, tries, exit, clean),
         machinesUp' \subseteq Builds, images \subseteq images', images' \subseteq Builds, previewComments' \in Seq(Builds),
         at \in Pushed => b \in images',
         \A x \in machinesUp \ machinesUp' : x # b => b \in images',
         at \in {"lookup", "post", "patch"} \/ (at = "ended" /\ exit = 0) => b \in machinesUp' \/ images' \ {b} # {},
         Undisturbed(b) /\ clean =>
           /\ at = "destroy" => machinesUp' \subseteq stale
           /\ at = "create" => machinesUp' = {}
           /\ at \in {"lookup", "post", "patch", "ended"} => machinesUp' = {b}
           /\ at = "post" => previewComments' = <<>>
           /\ at = "patch" => previewComments' # <<>>
           /\ at = "ended" => previewComments'[1] = b
  PROVE  PreviewInv'
<1>1. /\ Begun' = Begun /\ \A x \in Builds : (Undisturbed(x)' <=> Undisturbed(x))
      /\ \A x \in Builds : BuildRuns(x)' => BuildRuns(x)
      /\ \A x \in Builds : previewBuild'[x].nth = previewBuild[x].nth
  BY BuildGoesOn DEF PreviewInv
<1>2. /\ previewBuild'[b].at = at /\ previewBuild'[b].stale = stale /\ previewBuild'[b].tries = tries
      /\ previewBuild'[b].exit = exit /\ previewBuild'[b].clean = clean
      /\ \A x \in Builds : x # b => previewBuild'[x] = previewBuild[x]
      /\ previewBuild' \in [Builds -> BuildState]
  BY DEF Became
<1>3. PreviewTyped'
  BY <1>2 DEF PreviewInv, PreviewTyped, PreviewTypeOK
<1>4. ImagesAreThere'
  BY <1>2 DEF PreviewInv, ImagesAreThere
<1>5. MachinesStay'
  <2> SUFFICES ASSUME NEW x \in Builds,
                      previewBuild'[x].at \in {"lookup", "post", "patch"} \/ (previewBuild'[x].at = "ended" /\ previewBuild'[x].exit = 0)
               PROVE  x \in machinesUp' \/ images' \ {x} # {}
    BY DEF MachinesStay, BuildAt
  <2>1. CASE x = b
    BY <1>2, <2>1
  <2>2. CASE x # b
    BY <1>2, <2>2 DEF PreviewInv, MachinesStay, BuildAt
  <2> QED
    BY <2>1, <2>2
<1>6. BuildsAreCounted'
  BY <1>1 DEF PreviewInv, BuildsAreCounted
<1>7. UndisturbedIsByItself'
  BY <1>1 DEF PreviewInv, UndisturbedIsByItself
<1>8. CleanBuildsAdvance'
  <2> SUFFICES ASSUME NEW x \in Builds, Undisturbed(x)', previewBuild'[x].clean
               PROVE  /\ previewBuild'[x].at = "destroy" => machinesUp' \subseteq previewBuild'[x].stale
                      /\ previewBuild'[x].at = "create" => machinesUp' = {}
                      /\ previewBuild'[x].at \in {"lookup", "post", "patch", "ended"} => machinesUp' = {x}
                      /\ previewBuild'[x].at = "post" => previewComments' = <<>>
                      /\ previewBuild'[x].at = "patch" => previewComments' # <<>>
                      /\ previewBuild'[x].at = "ended" => previewComments'[1] = x
    BY DEF CleanBuildsAdvance, BuildAt
  <2>1. Undisturbed(x) /\ x = b
    BY <1>1 DEF PreviewInv, UndisturbedIsByItself
  <2> QED
    BY <1>2, <2>1
<1> QED
  BY <1>3, <1>4, <1>5, <1>6, <1>7, <1>8 DEF PreviewInv

\* A build that starts while others may run.
LEMMA StartKeeps == ASSUME PreviewInv, NEW b \in Builds, BuildStarts(b) PROVE PreviewInv'
<1> DEFINE others == {x \in Builds : BuildRuns(x)}
<1>0. /\ previewBuild \in [Builds -> BuildState] /\ Cardinality(Begun) \in Nat /\ IsFiniteSet(Begun) /\ b \notin Begun
      /\ previewBuild[b].at = "new" /\ UNCHANGED <<machinesUp, images, previewComments>> /\ b \notin others
  BY BegunCounted DEF PreviewInv, PreviewTyped, BuildStarts, BuildAt, Begun, BuildRuns
<1>1. /\ previewBuild' \in [Builds -> BuildState]
      /\ \A x \in Builds : x # b => /\ previewBuild'[x].at = previewBuild[x].at /\ previewBuild'[x].nth = previewBuild[x].nth
                                    /\ previewBuild'[x].stale = previewBuild[x].stale /\ previewBuild'[x].tries = previewBuild[x].tries
                                    /\ previewBuild'[x].exit = previewBuild[x].exit
      /\ previewBuild'[b].at = "context" /\ previewBuild'[b].nth = Cardinality(Begun) + 1 /\ previewBuild'[b].stale = {}
      /\ previewBuild'[b].tries = 0 /\ previewBuild'[b].alone = (others = {})
  <2>1. previewBuild' = [x \in Builds |->
          IF x = b THEN [NewBuild EXCEPT !.at = "context", !.nth = Cardinality(Begun) + 1, !.alone = others = {}]
          ELSE IF x \in others THEN [previewBuild[x] EXCEPT !.alone = FALSE] ELSE previewBuild[x]]
    BY DEF BuildStarts
  <2> HIDE DEF others
  <2>2. ASSUME NEW r \in BuildState
        PROVE  /\ [r EXCEPT !.alone = FALSE] \in BuildState
               /\ [r EXCEPT !.alone = FALSE].at = r.at /\ [r EXCEPT !.alone = FALSE].nth = r.nth
               /\ [r EXCEPT !.alone = FALSE].stale = r.stale /\ [r EXCEPT !.alone = FALSE].tries = r.tries
               /\ [r EXCEPT !.alone = FALSE].exit = r.exit
    BY DEF BuildState
  <2>3. ASSUME NEW nth \in Nat, NEW alone \in BOOLEAN
        PROVE  /\ [NewBuild EXCEPT !.at = "context", !.nth = nth, !.alone = alone] \in BuildState
               /\ [NewBuild EXCEPT !.at = "context", !.nth = nth, !.alone = alone].at = "context"
               /\ [NewBuild EXCEPT !.at = "context", !.nth = nth, !.alone = alone].nth = nth
               /\ [NewBuild EXCEPT !.at = "context", !.nth = nth, !.alone = alone].stale = {}
               /\ [NewBuild EXCEPT !.at = "context", !.nth = nth, !.alone = alone].tries = 0
               /\ [NewBuild EXCEPT !.at = "context", !.nth = nth, !.alone = alone].alone = alone
    BY DEF NewBuild, BuildState
  <2>4. Cardinality(Begun) + 1 \in Nat /\ (others = {}) \in BOOLEAN
    BY <1>0
  <2> DEFINE new == [NewBuild EXCEPT !.at = "context", !.nth = Cardinality(Begun) + 1, !.alone = (others = {})]
             shared(x) == [previewBuild[x] EXCEPT !.alone = FALSE]
  <2>5. /\ new \in BuildState /\ new.at = "context" /\ new.nth = Cardinality(Begun) + 1 /\ new.stale = {}
        /\ new.tries = 0 /\ new.alone = (others = {})
    BY <2>3, <2>4
  <2>6. \A x \in Builds :
          /\ shared(x) \in BuildState /\ shared(x).at = previewBuild[x].at /\ shared(x).nth = previewBuild[x].nth
          /\ shared(x).stale = previewBuild[x].stale /\ shared(x).tries = previewBuild[x].tries
          /\ shared(x).exit = previewBuild[x].exit
    BY <1>0, <2>2
  <2>7. previewBuild' = [x \in Builds |-> IF x = b THEN new ELSE IF x \in others THEN shared(x) ELSE previewBuild[x]]
    BY <2>1
  <2> HIDE DEF new, shared
  <2> QED
    BY <1>0, <2>5, <2>6, <2>7
<1>2. Begun' = Begun \cup {b}
  BY <1>0, <1>1 DEF Begun
<1>3. Cardinality(Begun') = Cardinality(Begun) + 1
  BY <1>0, <1>2, FS_AddElement
<1>4. \A x \in Builds : Undisturbed(x)' => x = b /\ others = {}
  <2> SUFFICES ASSUME NEW x \in Builds, Undisturbed(x)' PROVE x = b /\ others = {}
    OBVIOUS
  <2>1. previewBuild'[x].nth = Cardinality(Begun) + 1 /\ previewBuild'[x].alone
    BY <1>3 DEF Undisturbed, IsLast
  <2>2. previewBuild[x].nth <= Cardinality(Begun) /\ previewBuild[x].nth \in Nat
    BY <1>0 DEF PreviewInv, BuildsAreCounted, BuildState
  <2>3. x = b
    BY <1>0, <1>1, <2>1, <2>2
  <2> QED
    BY <1>1, <2>1, <2>3
<1>5. PreviewTyped'
  BY <1>0, <1>1, PreviewAssumption DEF PreviewInv, PreviewTyped, PreviewTypeOK
<1>6. ImagesAreThere'
  BY <1>0, <1>1 DEF PreviewInv, ImagesAreThere, Pushed
<1>7. MachinesStay'
  <2> SUFFICES ASSUME NEW x \in Builds,
                      previewBuild'[x].at \in {"lookup", "post", "patch"} \/ (previewBuild'[x].at = "ended" /\ previewBuild'[x].exit = 0)
               PROVE  x \in machinesUp' \/ images' \ {x} # {}
    BY DEF MachinesStay, BuildAt
  <2> QED
    BY <1>0, <1>1 DEF PreviewInv, MachinesStay, BuildAt
<1>8. BuildsAreCounted'
  <2> SUFFICES ASSUME NEW x \in Builds PROVE previewBuild'[x].nth <= Cardinality(Begun')
    BY DEF BuildsAreCounted
  <2>1. previewBuild[x].nth <= Cardinality(Begun) /\ previewBuild[x].nth \in Nat
    BY <1>0 DEF PreviewInv, BuildsAreCounted, BuildState
  <2> QED
    BY <1>0, <1>1, <1>3, <2>1
<1>9. UndisturbedIsByItself'
  <2> SUFFICES ASSUME NEW y \in Builds, NEW x \in Builds, Undisturbed(y)', x # y PROVE ~BuildRuns(x)'
    BY DEF UndisturbedIsByItself
  <2>1. y = b /\ ~BuildRuns(x)
    BY <1>4
  <2> QED
    BY <1>1, <2>1 DEF BuildRuns
<1>10. CleanBuildsAdvance'
  BY <1>1, <1>4 DEF CleanBuildsAdvance, BuildAt
<1> QED
  BY <1>5, <1>6, <1>7, <1>8, <1>9, <1>10 DEF PreviewInv

\* A build that fails leaves a machine of its own at most, and only its exit.
LEMMA FailKeeps ==
  ASSUME PreviewInv, NEW b \in Builds, BuildRuns(b), NEW code \in Nat, code # 0, Exits(b, code),
         images' = images, machinesUp \subseteq machinesUp', machinesUp' \subseteq Builds, previewComments' \in Seq(Builds)
  PROVE  PreviewInv'
<1> DEFINE r == previewBuild[b]
<1>0. PreviewTyped
  BY DEF PreviewInv
<1>1. Became(b, "ended", r.stale, r.tries, code, FALSE)
  BY <1>0, Ends
<1>2. r.stale \in SUBSET Builds /\ r.tries < CreateTries /\ images \subseteq Builds /\ "ended" \in BuildPlaces /\ "ended" \notin Pushed
  BY DEF PreviewInv, PreviewTyped, PreviewTypeOK, BuildPlaces, Pushed
<1> HIDE DEF r
<1>3. /\ \A x \in machinesUp \ machinesUp' : x # b => b \in images'
      /\ images \subseteq images' /\ images' \subseteq Builds
  BY <1>2
<1>4. PICK clean : clean = FALSE
  OBVIOUS
<1>5. Became(b, "ended", r.stale, r.tries, code, clean)
  BY <1>1, <1>4
<1>6. Undisturbed(b) /\ clean =>
           /\ "ended" = "destroy" => machinesUp' \subseteq r.stale
           /\ "ended" = "create" => machinesUp' = {}
           /\ "ended" \in {"lookup", "post", "patch", "ended"} => machinesUp' = {b}
           /\ "ended" = "post" => previewComments' = <<>>
           /\ "ended" = "patch" => previewComments' # <<>>
           /\ "ended" = "ended" => previewComments'[1] = b
  BY <1>4
<1>7. "ended" \in {"lookup", "post", "patch"} \/ ("ended" = "ended" /\ code = 0) => b \in machinesUp' \/ images' \ {b} # {}
  OBVIOUS
<1> QED
  BY <1>2, <1>3, <1>5, <1>6, <1>7, StepKeeps

BuildOn(b) ==
  \/ ReadsContext(b) \/ PreparesApp(b) \/ PushesImage(b) \/ ListsStale(b) \/ DestroysStale(b)
  \/ CreatesMachine(b) \/ LooksForComment(b) \/ WritesComment(b) \/ BuildKilled(b)

LEMMA OnKeeps == ASSUME PreviewInv, NEW b \in Builds, BuildOn(b) PROVE PreviewInv'
<1> DEFINE r == previewBuild[b]
<1>0. /\ PreviewTyped /\ r \in BuildState /\ r.tries < CreateTries /\ r.stale \in SUBSET Builds /\ CreateTries \in Nat
      /\ machinesUp \subseteq Builds /\ images \subseteq Builds /\ previewComments \in Seq(Builds)
      /\ r.at \in Pushed => b \in images
      /\ r.tries \in Nat
  BY PreviewAssumption DEF PreviewInv, PreviewTyped, PreviewTypeOK, ImagesAreThere, BuildState
<1>c. Undisturbed(b) /\ r.clean =>
        /\ r.at = "destroy" => machinesUp \subseteq r.stale
        /\ r.at = "create" => machinesUp = {}
        /\ r.at \in {"lookup", "post", "patch", "ended"} => machinesUp = {b}
        /\ r.at = "post" => previewComments = <<>>
        /\ r.at = "patch" => previewComments # <<>>
  BY DEF PreviewInv, CleanBuildsAdvance, BuildAt
<1>m. r.at \in {"lookup", "post", "patch"} => b \in machinesUp \/ images \ {b} # {}
  BY DEF PreviewInv, MachinesStay
<1>g. ASSUME NEW at \in BuildPlaces, BuildGoes(b, at) PROVE Became(b, at, r.stale, r.tries, r.exit, r.clean)
  BY <1>0, <1>g, Goes
<1>p. ASSUME NEW at \in BuildPlaces, Passes(b, at) PROVE Became(b, at, r.stale, r.tries, r.exit, FALSE)
  BY <1>0, <1>p, PassesOn
<1>a. r.at = previewBuild[b].at /\ (BuildRuns(b) <=> r.at \notin {"new", "ended"})
  BY DEF BuildRuns
<1> HIDE DEF r
<1>1. CASE ReadsContext(b)
  <2>1. r.at = "context" /\ BuildRuns(b) /\ UNCHANGED <<machinesUp, images, previewComments>>
    BY <1>1, <1>a DEF ReadsContext, BuildAt
  <2>2. CASE \E code \in {1, 99} : Exits(b, code)
    BY <1>0, <2>1, <2>2, FailKeeps
  <2>3. CASE BuildGoes(b, "app")
    BY <1>0, <1>g, <2>1, <2>3, StepKeeps DEF BuildPlaces, Pushed
  <2> QED
    BY <1>1, <2>2, <2>3 DEF ReadsContext
<1>2. CASE PreparesApp(b)
  <2>1. r.at = "app" /\ BuildRuns(b) /\ UNCHANGED <<machinesUp, images, previewComments>>
    BY <1>2, <1>a DEF PreparesApp, BuildAt
  <2>2. CASE Exits(b, 1)
    BY <1>0, <2>1, <2>2, FailKeeps
  <2>3. CASE BuildGoes(b, "image")
    BY <1>0, <1>g, <2>1, <2>3, StepKeeps DEF BuildPlaces, Pushed
  <2> QED
    BY <1>2, <2>2, <2>3 DEF PreparesApp
<1>3. CASE PushesImage(b)
  <2>1. r.at = "image" /\ BuildRuns(b) /\ UNCHANGED <<machinesUp, previewComments>>
    BY <1>3, <1>a DEF PushesImage, BuildAt
  <2>2. CASE Exits(b, 1) /\ UNCHANGED images
    BY <1>0, <2>1, <2>2, FailKeeps
  <2>3. CASE BuildGoes(b, "list") /\ images' = images \cup {b}
    BY <1>0, <1>g, <2>1, <2>3, StepKeeps DEF BuildPlaces
  <2> QED
    BY <1>3, <2>2, <2>3 DEF PushesImage
<1>4. CASE ListsStale(b)
  <2>1. r.at = "list" /\ BuildRuns(b) /\ UNCHANGED <<machinesUp, images, previewComments>> /\ b \in images
    BY <1>0, <1>4, <1>a DEF ListsStale, BuildAt, Pushed
  <2>2. CASE Exits(b, 1)
    BY <1>0, <2>1, <2>2, FailKeeps
  <2>3. CASE previewBuild' = [previewBuild EXCEPT ![b].at = "destroy", ![b].stale = machinesUp]
    <3> DEFINE new == [r EXCEPT !.at = "destroy", !.stale = machinesUp]
    <3>1. /\ new \in BuildState /\ new.at = "destroy" /\ new.stale = machinesUp /\ new.tries = r.tries /\ new.exit = r.exit
          /\ new.clean = r.clean /\ new.nth = r.nth /\ new.alone = r.alone
      BY <1>0 DEF BuildState
    <3>2. previewBuild' = [previewBuild EXCEPT ![b] = new]
      BY <2>3 DEF r
    <3> HIDE DEF new
    <3>3. Became(b, "destroy", machinesUp, r.tries, r.exit, r.clean)
      <4>1. new.nth = previewBuild[b].nth /\ new.alone = previewBuild[b].alone
        BY <3>1 DEF r
      <4>2. Became(b, new.at, new.stale, new.tries, new.exit, new.clean)
        BY <1>0, <3>1, <3>2, <4>1, NewState
      <4> QED
        BY <4>2, <3>1
    <3> QED
      BY <1>0, <2>1, <3>3, StepKeeps DEF BuildPlaces
  <2> QED
    BY <1>4, <2>2, <2>3 DEF ListsStale, StaleOf
<1>5. CASE DestroysStale(b)
  <2>1. r.at = "destroy" /\ BuildRuns(b) /\ UNCHANGED <<images, previewComments>> /\ b \in images
    BY <1>0, <1>5, <1>a DEF DestroysStale, BuildAt, Pushed
  <2>2. CASE r.stale = {} /\ BuildGoes(b, "create") /\ UNCHANGED machinesUp
    BY <1>0, <1>c, <1>g, <2>1, <2>2, StepKeeps DEF BuildPlaces
  <2>3. ASSUME NEW m \in r.stale, machinesUp' = machinesUp \ {m}, previewBuild' = [previewBuild EXCEPT ![b].stale = @ \ {m}]
        PROVE  PreviewInv'
    <3> DEFINE new == [r EXCEPT !.stale = @ \ {m}]
    <3>1. /\ new \in BuildState /\ new.at = "destroy" /\ new.stale = r.stale \ {m} /\ new.tries = r.tries /\ new.exit = r.exit
          /\ new.clean = r.clean /\ new.nth = r.nth /\ new.alone = r.alone
      BY <1>0, <2>1 DEF BuildState
    <3>2. previewBuild' = [previewBuild EXCEPT ![b] = new]
      BY <2>3 DEF r
    <3> HIDE DEF new
    <3>3. Became(b, "destroy", r.stale \ {m}, r.tries, r.exit, r.clean)
      <4>1. new.nth = previewBuild[b].nth /\ new.alone = previewBuild[b].alone
        BY <3>1 DEF r
      <4>2. Became(b, new.at, new.stale, new.tries, new.exit, new.clean)
        BY <1>0, <3>1, <3>2, <4>1, NewState
      <4> QED
        BY <4>2, <3>1
    <3>4. Undisturbed(b) /\ r.clean => machinesUp' \subseteq r.stale \ {m}
      BY <1>c, <2>1, <2>3
    <3> QED
      BY <1>0, <2>1, <2>3, <3>3, <3>4, StepKeeps DEF BuildPlaces
  <2>4. ASSUME NEW m \in r.stale, UNCHANGED machinesUp,
               previewBuild' = [previewBuild EXCEPT ![b].stale = @ \ {m}, ![b].clean = FALSE]
        PROVE  PreviewInv'
    <3> DEFINE new == [r EXCEPT !.stale = @ \ {m}, !.clean = FALSE]
    <3>1. /\ new \in BuildState /\ new.at = "destroy" /\ new.stale = r.stale \ {m} /\ new.tries = r.tries /\ new.exit = r.exit
          /\ new.clean = FALSE /\ new.nth = r.nth /\ new.alone = r.alone
      BY <1>0, <2>1 DEF BuildState
    <3>2. previewBuild' = [previewBuild EXCEPT ![b] = new]
      BY <2>4 DEF r
    <3> HIDE DEF new
    <3>3. Became(b, "destroy", r.stale \ {m}, r.tries, r.exit, FALSE)
      <4>1. new.nth = previewBuild[b].nth /\ new.alone = previewBuild[b].alone
        BY <3>1 DEF r
      <4>2. Became(b, new.at, new.stale, new.tries, new.exit, new.clean)
        BY <1>0, <3>1, <3>2, <4>1, NewState
      <4> QED
        BY <4>2, <3>1
    <3> QED
      BY <1>0, <2>1, <2>4, <3>3, StepKeeps DEF BuildPlaces
  <2> QED
    BY <1>5, <2>2, <2>3, <2>4 DEF DestroysStale, r
<1>6. CASE CreatesMachine(b)
  <2>1. r.at = "create" /\ BuildRuns(b) /\ UNCHANGED <<images, previewComments>> /\ b \in images
    BY <1>0, <1>6, <1>a DEF CreatesMachine, BuildAt
  <2>2. CASE Exits(b, 1) /\ (machinesUp' = machinesUp \cup {b} \/ machinesUp' = machinesUp)
    BY <1>0, <2>1, <2>2, FailKeeps
  <2>3. CASE BuildGoes(b, "lookup") /\ machinesUp' = machinesUp \cup {b}
    BY <1>0, <1>c, <1>g, <2>1, <2>3, StepKeeps DEF BuildPlaces
  <2>4. CASE previewBuild' = [previewBuild EXCEPT ![b].tries = @ + 1] /\ r.tries + 1 < CreateTries /\ UNCHANGED machinesUp
    <3> DEFINE new == [r EXCEPT !.tries = @ + 1]
    <3>1. /\ new \in BuildState /\ new.at = "create" /\ new.stale = r.stale /\ new.tries = r.tries + 1 /\ new.exit = r.exit
          /\ new.clean = r.clean /\ new.nth = r.nth /\ new.alone = r.alone
      BY <1>0, <2>1 DEF BuildState
    <3>2. previewBuild' = [previewBuild EXCEPT ![b] = new]
      BY <2>4 DEF r
    <3> HIDE DEF new
    <3>3. Became(b, "create", r.stale, r.tries + 1, r.exit, r.clean)
      <4>1. new.nth = previewBuild[b].nth /\ new.alone = previewBuild[b].alone
        BY <3>1 DEF r
      <4>2. Became(b, new.at, new.stale, new.tries, new.exit, new.clean)
        BY <1>0, <3>1, <3>2, <4>1, NewState
      <4> QED
        BY <4>2, <3>1
    <3> QED
      BY <1>0, <1>c, <2>1, <2>4, <3>3, StepKeeps DEF BuildPlaces
  <2> QED
    BY <1>6, <2>2, <2>3, <2>4 DEF CreatesMachine, r
<1>7. CASE LooksForComment(b)
  <2>1. r.at = "lookup" /\ BuildRuns(b) /\ UNCHANGED <<machinesUp, images, previewComments>> /\ b \in images
    BY <1>0, <1>7, <1>a DEF LooksForComment, BuildAt, Pushed
  <2>2. CASE Passes(b, "post")
    BY <1>0, <1>m, <1>p, <2>1, <2>2, StepKeeps DEF BuildPlaces
  <2>3. CASE BuildGoes(b, "post") /\ previewComments = <<>>
    BY <1>0, <1>c, <1>m, <1>g, <2>1, <2>3, StepKeeps DEF BuildPlaces
  <2>4. CASE BuildGoes(b, "patch") /\ previewComments # <<>>
    BY <1>0, <1>c, <1>m, <1>g, <2>1, <2>4, StepKeeps DEF BuildPlaces
  <2> QED
    BY <1>7, <2>2, <2>3, <2>4 DEF LooksForComment
<1>8. CASE WritesComment(b)
  <2>1. r.at \in {"post", "patch"} /\ BuildRuns(b) /\ UNCHANGED <<machinesUp, images>> /\ b \in images
    BY <1>0, <1>8, <1>a DEF WritesComment, Pushed
  <2>2. /\ Commented(b) \in Seq(Builds)
        /\ r.at = "post" /\ previewComments = <<>> => Commented(b)[1] = b
        /\ r.at = "patch" /\ previewComments # <<>> => Commented(b)[1] = b
    <3>1. CASE r.at = "patch"
      <4>1. Commented(b) = [previewComments EXCEPT ![1] = b]
        BY <1>a, <3>1 DEF Commented, BuildAt
      <4>2. previewComments # <<>> => 1 \in DOMAIN previewComments
        BY <1>0
      <4>3. PICK n \in Nat : previewComments \in [1 .. n -> Builds]
        BY <1>0
      <4>4. Commented(b) \in [1 .. n -> Builds]
        BY <4>1, <4>3
      <4>5. Commented(b) \in Seq(Builds)
        BY <4>3, <4>4
      <4> QED
        BY <3>1, <4>1, <4>2, <4>5
    <3>2. CASE r.at = "post"
      <4>1. Commented(b) = Append(previewComments, b)
        BY <1>a, <3>2 DEF Commented, BuildAt
      <4>2. previewComments = <<>> => Len(previewComments) = 0
        OBVIOUS
      <4> QED
        BY <1>0, <3>2, <4>1, <4>2
    <3> QED
      BY <2>1, <3>1, <3>2
  <2>3. CASE Exits(b, 1) /\ previewComments' \in {previewComments, Commented(b)}
    BY <1>0, <2>1, <2>2, <2>3, FailKeeps
  <2>4. CASE Passes(b, "ended") /\ UNCHANGED previewComments
    BY <1>0, <1>m, <1>p, <2>1, <2>4, StepKeeps DEF BuildPlaces, Pushed
  <2>5. CASE BuildGoes(b, "ended") /\ previewComments' = Commented(b)
    <3>1. Undisturbed(b) /\ r.clean => machinesUp' = {b} /\ previewComments'[1] = b
      BY <1>c, <2>1, <2>2, <2>5
    <3> QED
      BY <1>0, <1>m, <1>g, <2>1, <2>2, <2>5, <3>1, StepKeeps DEF BuildPlaces, Pushed
  <2> QED
    BY <1>8, <2>3, <2>4, <2>5 DEF WritesComment
<1>9. CASE BuildKilled(b)
  BY <1>0, <1>9, FailKeeps DEF BuildKilled
<1> QED
  BY <1>1, <1>2, <1>3, <1>4, <1>5, <1>6, <1>7, <1>8, <1>9 DEF BuildOn

LEMMA PreviewInitHolds == PreviewInit => PreviewInv
<1> SUFFICES ASSUME PreviewInit PROVE PreviewInv
  OBVIOUS
<1>1. NewBuild \in BuildState /\ NewBuild.at = "new" /\ NewBuild.nth = 0 /\ NewBuild.stale = {} /\ NewBuild.tries = 0
  BY DEF NewBuild, BuildState
<1>2. \A b \in Builds : previewBuild[b] = NewBuild
  BY DEF PreviewInit
<1>3. Begun = {} /\ 0 <= Cardinality(Begun)
  BY <1>1, <1>2, BegunCounted DEF Begun
<1>4. PreviewTyped
  BY <1>1, <1>2, PreviewAssumption DEF PreviewInit, PreviewTyped, PreviewTypeOK
<1>5. ImagesAreThere /\ MachinesStay
  BY <1>1, <1>2 DEF ImagesAreThere, MachinesStay, BuildAt, Pushed
<1>6. BuildsAreCounted /\ UndisturbedIsByItself /\ CleanBuildsAdvance
  BY <1>1, <1>2, <1>3 DEF BuildsAreCounted, UndisturbedIsByItself, CleanBuildsAdvance, Undisturbed, BuildAt
<1> QED
  BY <1>4, <1>5, <1>6 DEF PreviewInv

LEMMA PreviewStep == PreviewInv /\ [PreviewNext]_previewVars => PreviewInv'
<1>1. ASSUME PreviewInv, PreviewNext PROVE PreviewInv'
  BY <1>1, StartKeeps, OnKeeps DEF PreviewNext, BuildOn
<1>2. ASSUME PreviewInv, UNCHANGED previewVars PROVE PreviewInv'
  BY <1>2 DEF previewVars, PreviewInv, PreviewTyped, PreviewTypeOK, ImagesAreThere, MachinesStay, BuildsAreCounted,
     UndisturbedIsByItself, CleanBuildsAdvance, Undisturbed, IsLast, Begun, BuildRuns, BuildAt
<1> QED
  BY <1>1, <1>2

\* A pull request's preview: a build none of whose calls failed and that ran
\* alone leaves its machine as the only one and the comment naming it, and what
\* ended well is up until another image can replace it, over any builds and faults.
THEOREM PreviewsHold == PreviewSpec => [](PreviewTypeOK /\ PreviewHolds)
<1>1. PreviewInv => PreviewTypeOK /\ PreviewHolds
  <2> SUFFICES ASSUME PreviewInv PROVE PreviewTypeOK /\ PreviewHolds
    OBVIOUS
  <2>1. CleanBuildIsThePreview
    BY DEF PreviewInv, CleanBuildsAdvance, CleanBuildIsThePreview, Undisturbed, IsLast, Begun, BuildAt
  <2>2. MachinesAreReplaced
    BY DEF PreviewInv, MachinesStay, MachinesAreReplaced
  <2> QED
    BY <2>1, <2>2 DEF PreviewInv, PreviewTyped, PreviewHolds
<1> QED
  BY <1>1, PreviewInitHolds, PreviewStep, PTL DEF PreviewSpec

-----------------------------------------------------------------------------
(* The records of a run: log, rows and reports.                            *)
EventNames ==
  {"goal.tick.start", "goal.tick.dispatch", "goal.tick.done", "goal.tick.idle", "goal.tick.wait", "goal.tick.blocked",
   "loop.tick.dispatch", "loop.tick.idle", "goal.evidence.applied", "goal.evidence.unchanged", "goal.evidence.rejected",
   "goal.decision.done"}
EventWords ==
  {"none", "dispatch", "dispatchWorkflow", "done", "idle", "wait", "blocked", "pass", "fail", "noop", "rejected",
   "accept-evidence", "no-state-change", "reject-evidence"}
RowModes == {"none", "scheduled", "manual", "local", "event"}
RecordEvent == [name : EventNames, status : EventWords, decision : EventWords]
RowStatus == {"none", "running", "success", "failed", "blocked", "waiting", "recorded"}
RecordPlaces == {"work", "save", "report", "flush", "finish", "rows", "ended"}
RunKinds == {"none", "tick", "results"}
RunExits == {0, 1, 99}
Starts == RecordStarts \cup {"nothing"}
RunState ==
  [kind : RunKinds, at : RecordPlaces, i : DOMAIN RecordGoals, f : Nat \ {0}, start : Starts, exit : RunExits,
   wanted : BOOLEAN, thrown : BOOLEAN]
LogEntry == [goal : Goal, event : EventNames]
IndexRow == [status : RowStatus, mode : RowModes, waits : BOOLEAN]
RecordsTyped ==
  /\ recordRun \in RunState /\ staged \in [Goal -> Seq(RecordEvent)] /\ runLog \in Seq(LogEntry)
  /\ indexRow \in [Goal \cup {"job"} -> IndexRow] /\ stagedRow \in [Goal -> IndexRow]
  /\ goalReport = [g \in Goal |-> goalReport[g]] /\ recordFaults \in Nat

\* Of a goal whose turn has not come there is nothing.
Untold(g) == staged[g] = <<>> /\ InLog(g) = {} /\ indexRow[g].status = "none" /\ stagedRow[g] = NoRow /\ goalReport[g] = NoGoalReport
OthersAreUntold ==
  \A j \in DOMAIN RecordGoals : j > recordRun.i \/ (j = recordRun.i /\ recordRun.at = "work") => Untold(RecordGoals[j])

\* What is staged was staged once, and only a Loop tells of a Loop's tick.
StagedNames(g) == {staged[g][k].name : k \in DOMAIN staged[g]}
LoopNames == {"loop.tick.dispatch", "loop.tick.idle"}
StagedOnce ==
  \A g \in Goal :
    /\ \A k, n \in DOMAIN staged[g] : staged[g][k].name = staged[g][n].name => k = n
    /\ StagedNames(g) \cap LoopNames # {} => g \in GoalTargetLoops

\* What failed may be stored once more, and is staged until it is stored.
LoggedAs(g, name) == {n \in DOMAIN runLog : runLog[n].goal = g /\ runLog[n].event = name}
StoredOnce ==
  \A g \in Goal, name \in EventNames :
    Cardinality(LoggedAs(g, name)) + (IF name \in StagedNames(g) THEN 1 ELSE 0) <= 1 + recordFaults

\* Where no call failed: what is staged is about to be stored, what is stored
\* has its row, and the row and the report tell the same.
RunMode == TriggerMode(TriggerOf(recordRun.start))
RowEnds(g) == {ExitStatus(recordRun.exit)} \cup IF g \in GoalTargetLoops /\ recordRun.exit = 0 THEN {"waiting"} ELSE {}
LastLogged(g, name) == \E n \in InLog(g) : runLog[n].event = name /\ \A k \in InLog(g) : k <= n
ToldOf(g, e) == IF staged[g] # <<>> THEN e = staged[g][Len(staged[g])] ELSE LastLogged(g, e.name)
CleanGoal(g) ==
  /\ staged[g] # <<>> =>
       g = RunGoal /\ recordRun.at \in {"save", "report", "flush"} /\ (recordRun.at = "flush" => recordRun.f <= recordRun.i)
  /\ indexRow[g].status # "none" <=> InLog(g) # {}
  /\ indexRow[g].status # "none" =>
       /\ indexRow[g].mode = RunMode
       /\ stagedRow[g] # NoRow \/ (recordRun.at \in {"rows", "ended"} /\ indexRow[g].status \in RowEnds(g))
  /\ stagedRow[g] # NoRow =>
       /\ indexRow[g].status # "none" /\ stagedRow[g].mode = RunMode /\ (stagedRow[g].waits => g \in GoalTargetLoops)
       /\ recordRun.at # "ended"
  /\ goalReport[g] # NoGoalReport => \E e \in RecordEvent :
       goalReport[g].event = e.name /\ goalReport[g].mode = ContextMode(e) /\ ToldOf(g, e)
CleanRun ==
  /\ recordRun.at \in {"save", "report"} => staged[RunGoal] # <<>>
  /\ recordRun.at \in {"rows", "ended"} /\ recordRun.kind # "none" => indexRow["job"].status = ExitStatus(recordRun.exit)
RecordInv ==
  /\ RecordsTyped /\ OthersAreUntold /\ StagedOnce /\ StoredOnce
  /\ recordFaults = 0 => CleanRun /\ \A g \in Goal : CleanGoal(g)

LEMMA GoalsAreOrdered ==
  /\ DOMAIN RecordGoals = 1 .. Len(RecordGoals) /\ Len(RecordGoals) \in Nat /\ Len(RecordGoals) > 0 /\ 1 \in DOMAIN RecordGoals
  /\ \A j \in DOMAIN RecordGoals : RecordGoals[j] \in Goal
  /\ \A g \in Goal : \E j \in DOMAIN RecordGoals : g = RecordGoals[j]
  BY RecordsAssumption DEF Goal

LEMMA NoNames == \A g : staged[g] = <<>> => StagedNames(g) = {}
<1>1. DOMAIN <<>> = {}
  OBVIOUS
<1> QED
  BY <1>1 DEF StagedNames

LEMMA RecordsStartEmpty == RecordsInit => RecordInv
<1> SUFFICES ASSUME RecordsInit PROVE RecordInv
  OBVIOUS
<1>1. /\ recordRun = NoRecordRun /\ staged = [g \in Goal |-> <<>>] /\ runLog = <<>>
      /\ indexRow = [x \in Goal \cup {"job"} |-> NoRow] /\ stagedRow = [g \in Goal |-> NoRow]
      /\ goalReport = [g \in Goal |-> NoGoalReport] /\ recordFaults = 0
  BY DEF RecordsInit
<1>2. NoRow \in IndexRow /\ NoRow.status = "none"
  <2>1. "none" \in RowStatus /\ "none" \in RowModes
    BY DEF RowStatus, RowModes
  <2> QED
    BY <2>1 DEF NoRow, IndexRow
<1>3. NoRecordRun \in RunState /\ NoRecordRun.at = "ended" /\ NoRecordRun.kind = "none"
  <2>1. "ended" \in RecordPlaces /\ "none" \in RunKinds /\ "nothing" \in Starts /\ 0 \in RunExits /\ 1 \in Nat \ {0}
    BY DEF RecordPlaces, RunKinds, Starts, RunExits
  <2> QED
    BY <2>1, GoalsAreOrdered DEF NoRecordRun, RunState
<1>4. RecordsTyped
  BY <1>1, <1>2, <1>3 DEF RecordsTyped
<1>5. \A g \in Goal : Untold(g) /\ staged[g] = <<>> /\ InLog(g) = {}
  BY <1>1, <1>2 DEF Untold, InLog
<1>6. OthersAreUntold
  BY <1>5, GoalsAreOrdered DEF OthersAreUntold
<1>7. StagedOnce
  BY <1>5, NoNames DEF StagedOnce
<1>8. StoredOnce
  <2>1. \A g, name : LoggedAs(g, name) = {}
    BY <1>1 DEF LoggedAs
  <2>2. Cardinality({}) = 0
    BY FS_EmptySet
  <2> QED
    <3> SUFFICES ASSUME NEW g \in Goal, NEW name \in EventNames
                 PROVE  Cardinality(LoggedAs(g, name)) + (IF name \in StagedNames(g) THEN 1 ELSE 0) <= 1 + recordFaults
      BY DEF StoredOnce
    <3>1. StagedNames(g) = {} /\ Cardinality(LoggedAs(g, name)) = 0
      BY <1>5, <2>1, <2>2, NoNames
    <3> QED
      BY <1>1, <3>1
<1>9. CleanRun
  BY <1>1, <1>3 DEF CleanRun
<1>10. \A g \in Goal : CleanGoal(g)
  BY <1>1, <1>2, <1>5 DEF CleanGoal, Untold
<1> QED
  BY <1>4, <1>6, <1>7, <1>8, <1>9, <1>10 DEF RecordInv

\* What is stored at once is stored once.
LEMMA LogGrows ==
  ASSUME RecordInv, NEW g \in Goal, NEW n \in 0 .. Len(staged[g]),
         runLog' = runLog \o [k \in 1 .. n |-> [goal |-> g, event |-> staged[g][k].name]]
  PROVE  /\ runLog' \in Seq(LogEntry)
         /\ \A x \in Goal : x # g => InLog(x)' = InLog(x)
         /\ \A x \in Goal, name \in EventNames :
              /\ Cardinality(LoggedAs(x, name)') \in Nat /\ Cardinality(LoggedAs(x, name)) \in Nat
              /\ Cardinality(LoggedAs(x, name)') <=
                   Cardinality(LoggedAs(x, name)) + (IF x = g /\ name \in StagedNames(g) THEN 1 ELSE 0)
         /\ \A name \in EventNames : n > 0 /\ name = staged[g][n].name => LastLogged(g, name)'
<1> DEFINE more == [k \in 1 .. n |-> [goal |-> g, event |-> staged[g][k].name]]
           L == Len(runLog)
<1>1. staged[g] \in Seq(RecordEvent) /\ runLog \in Seq(LogEntry) /\ n \in Nat /\ n <= Len(staged[g]) /\ L \in Nat
  BY DEF RecordInv, RecordsTyped
<1>2. \A k \in 1 .. n : staged[g][k].name \in EventNames /\ k \in DOMAIN staged[g]
  <2> SUFFICES ASSUME NEW k \in 1 .. n PROVE staged[g][k].name \in EventNames /\ k \in DOMAIN staged[g]
    OBVIOUS
  <2>1. k \in DOMAIN staged[g] /\ staged[g][k] \in RecordEvent
    BY <1>1
  <2> QED
    BY <2>1 DEF RecordEvent
<1>3. more \in Seq(LogEntry) /\ Len(more) = n
  BY <1>1, <1>2 DEF LogEntry
<1>4. \A k \in 1 .. n : more[k].goal = g /\ more[k].event = staged[g][k].name
  OBVIOUS
<1> HIDE DEF more
<1>5. /\ runLog' \in Seq(LogEntry) /\ Len(runLog') = L + n /\ DOMAIN runLog' = 1 .. L + n
      /\ \A k \in 1 .. L : runLog'[k] = runLog[k]
      /\ \A k \in 1 .. n : runLog'[L + k] = more[k]
  BY <1>1, <1>3 DEF more
<1>6. \A k \in L + 1 .. L + n : k - L \in 1 .. n /\ runLog'[k] = more[k - L] /\ runLog'[k].goal = g
  <2> SUFFICES ASSUME NEW k \in L + 1 .. L + n
               PROVE  k - L \in 1 .. n /\ runLog'[k] = more[k - L] /\ runLog'[k].goal = g
    OBVIOUS
  <2>1. k - L \in 1 .. n /\ L + (k - L) = k
    BY <1>1
  <2> QED
    BY <1>4, <1>5, <2>1
<1>7. DOMAIN runLog = 1 .. L /\ (\A k \in DOMAIN runLog' : k \in DOMAIN runLog \/ k \in L + 1 .. L + n) /\ DOMAIN runLog \subseteq DOMAIN runLog'
  BY <1>1, <1>5
<1>8. ASSUME NEW x \in Goal, x # g PROVE InLog(x)' = InLog(x)
  BY <1>5, <1>6, <1>7, <1>8 DEF InLog
<1>9. ASSUME NEW x \in Goal, NEW name \in EventNames
      PROVE  /\ Cardinality(LoggedAs(x, name)') \in Nat /\ Cardinality(LoggedAs(x, name)) \in Nat
             /\ Cardinality(LoggedAs(x, name)') <=
                  Cardinality(LoggedAs(x, name)) + (IF x = g /\ name \in StagedNames(g) THEN 1 ELSE 0)
  <2> DEFINE A == LoggedAs(x, name)
             N == {k \in L + 1 .. L + n : x = g /\ more[k - L].event = name}
  <2>1. LoggedAs(x, name)' = A \cup N
    <3> DEFINE In(k) == k \in DOMAIN runLog' /\ runLog'[k].goal = x /\ runLog'[k].event = name
    <3>1. \A k \in DOMAIN runLog : k \in DOMAIN runLog' /\ runLog'[k] = runLog[k]
      BY <1>5, <1>7
    <3>2. \A k \in L + 1 .. L + n : k \in DOMAIN runLog'
      BY <1>1, <1>5
    <3>3. \A k \in DOMAIN runLog : (k \in A <=> In(k))
      BY <3>1 DEF LoggedAs
    <3>4. \A k \in L + 1 .. L + n : (k \in N <=> In(k))
      BY <1>6, <3>2
    <3>5. A \subseteq DOMAIN runLog /\ N \subseteq L + 1 .. L + n
      BY DEF LoggedAs
    <3>6. \A k : (k \in LoggedAs(x, name)' <=> In(k))
      BY DEF LoggedAs
    <3> HIDE DEF A, N, In
    <3>7. \A k : In(k) => k \in DOMAIN runLog \/ k \in L + 1 .. L + n
      BY <1>7 DEF In
    <3>8. ASSUME NEW k PROVE In(k) <=> k \in A \/ k \in N
      BY <3>3, <3>4, <3>5, <3>7
    <3>9. \A k : (k \in LoggedAs(x, name)' <=> k \in A \/ k \in N)
      BY <3>6, <3>8
    <3> QED
      BY <3>9
  <2>2. A \subseteq 1 .. L /\ IsFiniteSet(1 .. L)
    <3>1. A \subseteq 1 .. L
      BY <1>7 DEF LoggedAs
    <3>2. L \in Int
      BY <1>1
    <3> QED
      BY <3>1, <3>2, FS_Interval
  <2>3. IsFiniteSet(A) /\ Cardinality(A) \in Nat
    BY <2>2, FS_Subset, FS_CardinalityType
  <2>4. \A k, m \in N : k = m
    <3> SUFFICES ASSUME NEW k \in N, NEW m \in N PROVE k = m
      OBVIOUS
    <3>1. k - L \in 1 .. n /\ m - L \in 1 .. n /\ more[k - L].event = name /\ more[m - L].event = name
      BY <1>6
    <3>2. staged[g][k - L].name = staged[g][m - L].name
      BY <1>4, <3>1
    <3>3. k - L = m - L
      BY <1>2, <3>1, <3>2 DEF RecordInv, StagedOnce
    <3> QED
      BY <1>1, <3>3
  <2>5. ASSUME NEW k \in N PROVE x = g /\ name \in StagedNames(g)
    <3>1. k - L \in 1 .. n /\ more[k - L].event = name
      BY <1>6
    <3> QED
      BY <1>2, <1>4, <3>1 DEF StagedNames
  <2> HIDE DEF A, N
  <2>6. CASE N = {}
    <3>1. LoggedAs(x, name)' = A
      BY <2>1, <2>6
    <3> QED
      BY <2>3, <3>1 DEF A
  <2>7. CASE N # {}
    <3> PICK k \in N : TRUE
      BY <2>7
    <3>1. N = {k}
      BY <2>4
    <3>2. IsFiniteSet(A \cup {k}) /\ Cardinality(A \cup {k}) = IF k \in A THEN Cardinality(A) ELSE Cardinality(A) + 1
      BY <2>3, FS_AddElement
    <3>3. Cardinality(A \cup {k}) \in {Cardinality(A), Cardinality(A) + 1}
      BY <3>2
    <3>4. Cardinality(A \cup {k}) \in Nat /\ Cardinality(A \cup {k}) <= Cardinality(A) + 1
      BY <2>3, <3>3
    <3> QED
      BY <2>1, <2>3, <2>5, <3>1, <3>4 DEF A
  <2> QED
    BY <2>6, <2>7
<1>10. ASSUME NEW name \in EventNames, n > 0, name = staged[g][n].name PROVE LastLogged(g, name)'
  <2>1. L + n \in DOMAIN runLog' /\ runLog'[L + n].goal = g /\ runLog'[L + n].event = name
    BY <1>1, <1>4, <1>5, <1>10
  <2>2. \A k \in DOMAIN runLog' : k <= L + n
    BY <1>1, <1>5
  <2> QED
    <3>1. L + n \in InLog(g)' /\ \A k \in InLog(g)' : k <= L + n
      BY <2>1, <2>2 DEF InLog
    <3> QED
      BY <2>1, <3>1 DEF LastLogged
<1> QED
  BY <1>5, <1>8, <1>9, <1>10

LEMMA EventsAreDistinct ==
  ASSUME NEW g \in Goal, NEW events \in TickEvents(g) \cup ResultEvents
  PROVE  /\ events \in Seq(RecordEvent) /\ events # <<>>
         /\ \A k, n \in DOMAIN events : events[k].name = events[n].name => k = n
         /\ \A k \in DOMAIN events : events[k].name \in LoopNames => g \in GoalTargetLoops
<1>1. ASSUME NEW a \in EventNames, NEW b \in EventWords, NEW c \in EventWords
      PROVE  LoggedEvent(a, b, c) \in RecordEvent /\ LoggedEvent(a, b, c).name = a
  BY DEF LoggedEvent, RecordEvent
<1>2. CASE events \in TickEvents(g)
  <2> DEFINE start == LoggedEvent("goal.tick.start", "none", "none")
  <2>1. start \in RecordEvent /\ start.name = "goal.tick.start"
    BY <1>1 DEF EventNames, EventWords
  <2>2. ASSUME NEW d \in {"dispatch", "idle"}
        PROVE  LoopDecided(d) \in RecordEvent /\ LoopDecided(d).name \in LoopNames
    <3>1. (IF d = "dispatch" THEN "loop.tick.dispatch" ELSE "loop.tick.idle") \in EventNames \cap LoopNames /\ d \in EventWords
      BY DEF EventNames, EventWords, LoopNames
    <3> QED
      BY <1>1, <3>1 DEF LoopDecided
  <2>3. ASSUME NEW d \in {"dispatch", "dispatchWorkflow", "done", "idle", "wait", "blocked"}
        PROVE  Decided(d) \in RecordEvent /\ Decided(d).name \notin LoopNames \cup {"goal.tick.start"}
    <3> DEFINE a == CASE d = "dispatch" -> "goal.tick.dispatch" [] d = "dispatchWorkflow" -> "goal.tick.dispatch"
                      [] d = "done" -> "goal.tick.done" [] d = "idle" -> "goal.tick.idle"
                      [] d = "wait" -> "goal.tick.wait" [] d = "blocked" -> "goal.tick.blocked"
    <3>1. a \in {"goal.tick.dispatch", "goal.tick.done", "goal.tick.idle", "goal.tick.wait", "goal.tick.blocked"}
      OBVIOUS
    <3>2. d \in EventWords
      BY DEF EventWords
    <3>3. Decided(d) = LoggedEvent(a, d, d)
      BY DEF Decided
    <3> HIDE DEF a
    <3>4. a \in EventNames /\ a \notin LoopNames \cup {"goal.tick.start"}
      BY <3>1 DEF EventNames, LoopNames
    <3> QED
      BY <1>1, <3>2, <3>3, <3>4
  <2>4. PICK e : /\ events = <<start, e>> /\ e \in RecordEvent /\ e.name # "goal.tick.start"
                 /\ e.name \in LoopNames => g \in GoalTargetLoops
    <3>1. CASE g \in GoalTargetLoops
      <4>1. PICK e \in {LoopDecided("dispatch"), LoopDecided("idle"), Decided("wait"), Decided("blocked")} : events = <<start, e>>
        BY <1>2, <3>1 DEF TickEvents
      <4>2. e \in RecordEvent /\ e.name # "goal.tick.start"
        BY <2>2, <2>3 DEF LoopNames
      <4> QED
        BY <3>1, <4>1, <4>2
    <3>2. CASE g \notin GoalTargetLoops
      <4>1. PICK d \in {"dispatch", "dispatchWorkflow", "done", "idle", "wait", "blocked"} : events = <<start, Decided(d)>>
        BY <1>2, <3>2 DEF TickEvents
      <4> QED
        BY <2>3, <4>1
    <3> QED
      BY <3>1, <3>2
  <2> HIDE DEF start
  <2>5. "goal.tick.start" \notin LoopNames
    BY DEF LoopNames
  <2> QED
    BY <2>1, <2>4, <2>5
<1>3. CASE events \in ResultEvents
  <2> DEFINE done == LoggedEvent("goal.decision.done", "done", "done")
  <2>1. done \in RecordEvent /\ done.name = "goal.decision.done"
    BY <1>1 DEF EventNames, EventWords
  <2>2. PICK s \in {"pass", "fail", "noop"} : \E e \in AppliedEvents(s) : events = <<e>> \/ events = <<e, done>>
    BY <1>3 DEF ResultEvents
  <2> PICK e \in AppliedEvents(s) : events = <<e>> \/ events = <<e, done>>
    BY <2>2
  <2>3. e \in RecordEvent /\ e.name \in {"goal.evidence.applied", "goal.evidence.unchanged"}
    <3>1. /\ {"goal.evidence.applied", "goal.evidence.unchanged"} \subseteq EventNames
          /\ {s, "accept-evidence", "no-state-change"} \subseteq EventWords
      BY DEF EventNames, EventWords
    <3> QED
      BY <1>1, <3>1 DEF AppliedEvents
  <2>4. e.name \notin LoopNames /\ e.name # "goal.decision.done" /\ "goal.decision.done" \notin LoopNames
    BY <2>3 DEF LoopNames
  <2> HIDE DEF done
  <2> QED
    <3>1. CASE events = <<e>>
      BY <2>3, <2>4, <3>1
    <3>2. CASE events = <<e, done>>
      BY <2>1, <2>3, <2>4, <3>2
    <3> QED
      BY <3>1, <3>2
<1> QED
  BY <1>2, <1>3

LEMMA ModesOfARun ==
  ASSUME NEW start
  PROVE  /\ TriggerMode(TriggerOf(start)) \in RowModes
         /\ TriggerMode(TriggerOf(start)) = "scheduled" <=> DispatchMode(TriggerOf(start)) = "automated"
         /\ TriggerMode(TriggerOf(start)) = "manual" <=> DispatchMode(TriggerOf(start)) = "manual"
         /\ DispatchMode(TriggerOf(start)) # "none"
<1> DEFINE kind == TriggerOf(start)
<1>1. CASE kind = "none"
  BY <1>1 DEF TriggerMode, DispatchMode, RowModes
<1>2. CASE kind = "schedule"
  BY <1>2 DEF TriggerMode, DispatchMode, RowModes
<1>3. CASE kind = "manual-workflow-dispatch"
  BY <1>3 DEF TriggerMode, DispatchMode, RowModes
<1>4. CASE kind \notin {"none", "schedule", "manual-workflow-dispatch"}
  <2> HIDE DEF kind
  <2>1. TriggerMode(kind) \in {"local", "event"} /\ DispatchMode(kind) = "event-driven"
    BY <1>4 DEF TriggerMode, DispatchMode
  <2> QED
    BY <2>1 DEF RowModes, kind
<1> QED
  BY <1>1, <1>2, <1>3, <1>4

LEMMA RunTypes ==
  ASSUME RecordInv
  PROVE  /\ recordRun \in RunState /\ recordRun.i \in DOMAIN RecordGoals /\ recordRun.i \in Nat /\ recordRun.i >= 1
         /\ recordRun.f \in Nat /\ recordRun.f >= 1 /\ RunGoal \in Goal /\ recordFaults \in Nat
         /\ recordRun.at \in RecordPlaces
<1>1. recordRun \in RunState /\ recordFaults \in Nat
  BY DEF RecordInv, RecordsTyped
<1>2. recordRun.i \in DOMAIN RecordGoals /\ recordRun.f \in Nat \ {0} /\ recordRun.at \in RecordPlaces
  BY <1>1 DEF RunState
<1> QED
  BY <1>1, <1>2, GoalsAreOrdered DEF RunGoal

\* Nothing comes to a goal before its turn.
LEMMA UntoldStays ==
  ASSUME RecordInv, recordRun'.i \in {recordRun.i, recordRun.i + 1}, recordRun'.at = "work" => recordRun'.i = recordRun.i + 1,
         \A x \in Goal : x # RunGoal /\ Untold(x) => Untold(x)'
  PROVE  OthersAreUntold'
<1> SUFFICES ASSUME NEW j \in DOMAIN RecordGoals, j > recordRun'.i \/ (j = recordRun'.i /\ recordRun'.at = "work")
             PROVE  Untold(RecordGoals[j])'
  BY DEF OthersAreUntold
<1>1. j \in Nat /\ recordRun.i \in Nat /\ RecordGoals[j] \in Goal /\ recordRun.i \in DOMAIN RecordGoals
  BY RunTypes, GoalsAreOrdered
<1>2. j > recordRun.i
  BY <1>1
<1>3. RecordGoals[j] # RunGoal
  BY <1>1, <1>2, RecordsAssumption DEF RunGoal
<1>4. Untold(RecordGoals[j])
  BY <1>1, <1>2 DEF RecordInv, OthersAreUntold
<1> QED
  BY <1>1, <1>3, <1>4

\* What is staged and stored stays.
LEMMA LogStays ==
  ASSUME RecordInv, RecordsTyped', OthersAreUntold', UNCHANGED <<staged, runLog>>, recordFaults <= recordFaults',
         recordFaults' = 0 => CleanRun' /\ \A g \in Goal : CleanGoal(g)'
  PROVE  RecordInv'
<1>1. StagedOnce'
  BY DEF RecordInv, StagedOnce, StagedNames
<1>2. StoredOnce'
  <2> SUFFICES ASSUME NEW g \in Goal, NEW name \in EventNames
               PROVE  Cardinality(LoggedAs(g, name)) + (IF name \in StagedNames(g) THEN 1 ELSE 0) <= 1 + recordFaults'
    BY DEF StoredOnce, LoggedAs, StagedNames
  <2>1. Cardinality(LoggedAs(g, name)) + (IF name \in StagedNames(g) THEN 1 ELSE 0) <= 1 + recordFaults
    BY DEF RecordInv, StoredOnce
  <2>2. Cardinality(LoggedAs(g, name)) \in Nat
    <3>1. Len(runLog) \in Nat /\ DOMAIN runLog = 1 .. Len(runLog)
      BY DEF RecordInv, RecordsTyped
    <3>2. IsFiniteSet(1 .. Len(runLog)) /\ LoggedAs(g, name) \subseteq 1 .. Len(runLog)
      BY <3>1, FS_Interval DEF LoggedAs
    <3> QED
      BY <3>2, FS_Subset, FS_CardinalityType
  <2>3. recordFaults \in Nat /\ recordFaults' \in Nat
    BY DEF RecordInv, RecordsTyped
  <2> QED
    BY <2>1, <2>2, <2>3
<1> QED
  BY <1>1, <1>2 DEF RecordInv

\* A run that goes on without a fault keeps its goals clean.
LEMMA CleanMoves ==
  ASSUME RecordInv, recordFaults = 0, recordRun'.start = recordRun.start, recordRun.at \notin {"rows", "ended"}, recordRun'.at # "ended",
         UNCHANGED <<staged, runLog, stagedRow, goalReport>>, \A g \in Goal : indexRow'[g] = indexRow[g],
         \A g \in Goal : staged[g] # <<>> =>
           g = RunGoal' /\ recordRun'.at \in {"save", "report", "flush"} /\ (recordRun'.at = "flush" => recordRun'.f <= recordRun'.i)
  PROVE  \A g \in Goal : CleanGoal(g)'
<1> SUFFICES ASSUME NEW g \in Goal PROVE CleanGoal(g)'
  OBVIOUS
<1>1. CleanGoal(g)
  BY DEF RecordInv
<1>2. RunMode' = RunMode /\ (\A e : ContextMode(e)' = ContextMode(e)) /\ (\A e : ToldOf(g, e)' <=> ToldOf(g, e)) /\ InLog(g)' = InLog(g)
  BY DEF RunMode, ContextMode, ToldOf, LastLogged, InLog
<1>3. indexRow[g].status # "none" => stagedRow[g] # NoRow /\ indexRow[g].mode = RunMode
  BY <1>1 DEF CleanGoal
<1> QED
  BY <1>1, <1>2, <1>3 DEF CleanGoal

LEMMA RecordsAreBegun ==
  ASSUME RecordInv, NEW kind \in {"tick", "results"}, NEW start \in RecordStarts, NEW wanted \in BOOLEAN, NEW exit \in {0, 1},
         StartRecords(kind, start, wanted, exit)
  PROVE  RecordInv'
<1> DEFINE r == [NoRecordRun EXCEPT !.kind = kind, !.at = "work", !.start = start, !.wanted = wanted, !.exit = exit]
           mode == TriggerMode(TriggerOf(IF start = "actor" THEN "nothing" ELSE start))
           job == [NoRow EXCEPT !.status = "running", !.mode = mode]
<1>1. /\ recordRun' = r /\ staged' = [g \in Goal |-> <<>>] /\ runLog' = <<>>
      /\ indexRow' = [x \in Goal \cup {"job"} |-> IF x # "job" THEN NoRow ELSE job] /\ stagedRow' = [g \in Goal |-> NoRow]
      /\ goalReport' = [g \in Goal |-> NoGoalReport] /\ recordFaults' = 0
  BY DEF StartRecords
<1>2. NoRow \in IndexRow /\ NoRow.status = "none"
  <2>1. "none" \in RowStatus /\ "none" \in RowModes
    BY DEF RowStatus, RowModes
  <2> QED
    BY <2>1 DEF NoRow, IndexRow
<1>3. job \in IndexRow
  <2>1. mode \in RowModes /\ "running" \in RowStatus
    BY ModesOfARun DEF RowStatus
  <2> HIDE DEF mode
  <2> QED
    BY <1>2, <2>1 DEF IndexRow
<1>4. r \in RunState /\ r.at = "work" /\ r.i = 1
  <2>1. "work" \in RecordPlaces /\ kind \in RunKinds /\ start \in Starts /\ exit \in RunExits /\ 1 \in Nat \ {0}
    BY DEF RecordPlaces, RunKinds, Starts, RunExits
  <2> QED
    BY <2>1, GoalsAreOrdered DEF NoRecordRun, RunState
<1> HIDE DEF r, job
<1>5. RecordsTyped'
  BY <1>1, <1>2, <1>3, <1>4 DEF RecordsTyped
<1>6. \A g \in Goal : Untold(g)'
  <2> SUFFICES ASSUME NEW g \in Goal PROVE Untold(g)'
    OBVIOUS
  <2>1. indexRow'[g] = NoRow
    BY <1>1, RecordsAssumption
  <2> QED
    BY <1>1, <1>2, <2>1 DEF Untold, InLog
<1>7. OthersAreUntold'
  BY <1>6, GoalsAreOrdered DEF OthersAreUntold
<1>8. \A g \in Goal : staged'[g] = <<>> /\ StagedNames(g)' = {}
  <2>1. DOMAIN <<>> = {}
    OBVIOUS
  <2> QED
    BY <1>1, <2>1 DEF StagedNames
<1>9. StagedOnce'
  BY <1>8 DEF StagedOnce
<1>10. StoredOnce'
  <2> SUFFICES ASSUME NEW g \in Goal, NEW name \in EventNames
               PROVE  (Cardinality(LoggedAs(g, name)) + (IF name \in StagedNames(g) THEN 1 ELSE 0) <= 1 + recordFaults)'
    BY DEF StoredOnce
  <2>1. LoggedAs(g, name)' = {} /\ Cardinality({}) = 0
    BY <1>1, FS_EmptySet DEF LoggedAs
  <2> QED
    BY <1>1, <1>8, <2>1
<1>11. CleanRun' /\ \A g \in Goal : CleanGoal(g)'
  BY <1>1, <1>4, <1>6 DEF CleanRun, CleanGoal, Untold
<1> QED
  BY <1>5, <1>7, <1>9, <1>10, <1>11 DEF RecordInv

\* What a tick or a result tells of its goal is staged when the goal's turn comes.
LEMMA EventsAreStaged ==
  ASSUME RecordInv, RunAt("work"), NEW events \in Seq(RecordEvent), events # <<>>,
         \A k, n \in DOMAIN events : events[k].name = events[n].name => k = n,
         \A k \in DOMAIN events : events[k].name \in LoopNames => RunGoal \in GoalTargetLoops,
         staged' = [staged EXCEPT ![RunGoal] = events], recordRun' \in RunState, recordRun'.i = recordRun.i,
         recordRun'.start = recordRun.start, recordRun'.at = "save" \/ (recordRun'.at = "flush" /\ recordRun'.f = 1),
         UNCHANGED <<runLog, indexRow, stagedRow, goalReport, recordFaults>>
  PROVE  RecordInv'
<1>1. PICK g \in Goal : g = RunGoal
  BY RunTypes
<1>2. RunGoal' = g
  BY <1>1 DEF RunGoal
<1>3. Untold(g)
  BY <1>1, RunTypes DEF RecordInv, OthersAreUntold, RunAt, RunGoal
<1>4. RecordsTyped' /\ staged \in [Goal -> Seq(RecordEvent)]
  BY <1>1 DEF RecordInv, RecordsTyped
<1>5. staged'[g] = events /\ \A x \in Goal : x # g => staged'[x] = staged[x]
  BY <1>1, <1>4
<1>6. OthersAreUntold'
  <2>1. \A x \in Goal : x # RunGoal /\ Untold(x) => Untold(x)'
    BY <1>1, <1>5 DEF Untold, InLog
  <2> QED
    BY <2>1, UntoldStays
<1>7. StagedOnce'
  <2>1. StagedNames(g)' = {events[k].name : k \in DOMAIN events}
    BY <1>5 DEF StagedNames
  <2>2. ASSUME NEW x \in Goal, x # g PROVE StagedNames(x)' = StagedNames(x)
    BY <1>5, <2>2 DEF StagedNames
  <2> SUFFICES ASSUME NEW x \in Goal
               PROVE  /\ \A k, n \in DOMAIN staged'[x] : staged'[x][k].name = staged'[x][n].name => k = n
                      /\ StagedNames(x)' \cap LoopNames # {} => x \in GoalTargetLoops
    BY DEF StagedOnce
  <2>3. CASE x = g
    BY <1>1, <1>5, <2>1, <2>3
  <2>4. CASE x # g
    BY <1>5, <2>2, <2>4 DEF RecordInv, StagedOnce
  <2> QED
    BY <2>3, <2>4
<1>8. StoredOnce'
  <2> SUFFICES ASSUME NEW x \in Goal, NEW name \in EventNames
               PROVE  (Cardinality(LoggedAs(x, name)) + (IF name \in StagedNames(x) THEN 1 ELSE 0) <= 1 + recordFaults)'
    BY DEF StoredOnce
  <2>1. LoggedAs(x, name)' = LoggedAs(x, name) /\ recordFaults \in Nat
    BY RunTypes DEF LoggedAs
  <2>2. CASE x = g
    <3>1. LoggedAs(x, name) = {} /\ Cardinality({}) = 0
      BY <1>3, <2>2, FS_EmptySet DEF LoggedAs, Untold, InLog
    <3> QED
      BY <2>1, <3>1
  <2>3. CASE x # g
    <3>1. StagedNames(x)' = StagedNames(x)
      BY <1>5, <2>3 DEF StagedNames
    <3> QED
      BY <2>1, <3>1 DEF RecordInv, StoredOnce
  <2> QED
    BY <2>2, <2>3
<1>9. ASSUME recordFaults = 0 PROVE CleanRun' /\ \A x \in Goal : CleanGoal(x)'
  <2>1. CleanRun'
    BY <1>2, <1>5 DEF CleanRun
  <2>2. RunMode' = RunMode /\ (\A e : ContextMode(e)' = ContextMode(e))
    BY DEF RunMode, ContextMode
  <2>3. ASSUME NEW x \in Goal, x # g PROVE CleanGoal(x)'
    <3>1. CleanGoal(x) /\ recordRun.at = "work"
      BY <1>9 DEF RecordInv, RunAt
    <3>2. staged[x] = <<>> /\ staged'[x] = <<>>
      BY <1>5, <2>3, <3>1 DEF CleanGoal
    <3>3. InLog(x)' = InLog(x) /\ \A e : ToldOf(x, e)' <=> ToldOf(x, e)
      BY <3>2 DEF InLog, ToldOf, LastLogged
    <3> QED
      BY <2>2, <3>1, <3>2, <3>3 DEF CleanGoal
  <2>4. CleanGoal(g)'
    <3>1. InLog(g)' = {} /\ indexRow'[g].status = "none" /\ stagedRow'[g] = NoRow /\ goalReport'[g] = NoGoalReport
      BY <1>3 DEF Untold, InLog
    <3>2. recordRun'.at = "flush" => recordRun'.f <= recordRun'.i
      BY RunTypes
    <3> QED
      BY <1>2, <3>1, <3>2 DEF CleanGoal
  <2> QED
    BY <2>1, <2>3, <2>4
<1> QED
  BY <1>4, <1>6, <1>7, <1>8, <1>9 DEF RecordInv

LEMMA ResultIsStaged ==
  ASSUME RecordInv, StageEvents \/ StageRejection
  PROVE  RecordInv'
<1>1. RunGoal \in Goal /\ recordRun \in RunState /\ staged[RunGoal] = <<>> /\ staged \in [Goal -> Seq(RecordEvent)] /\ RunAt("work")
  BY RunTypes DEF RecordInv, RecordsTyped, OthersAreUntold, Untold, RunAt, RunGoal, StageEvents, StageRejection
<1>2. \A s \in Seq(RecordEvent) : <<>> \o s = s
  OBVIOUS
<1>3. CASE StageEvents
  <2>1. PICK events \in TickEvents(RunGoal) \cup ResultEvents : staged' = [staged EXCEPT ![RunGoal] = @ \o events]
    BY <1>3 DEF StageEvents
  <2>2. /\ events \in Seq(RecordEvent) /\ events # <<>>
        /\ \A k, n \in DOMAIN events : events[k].name = events[n].name => k = n
        /\ \A k \in DOMAIN events : events[k].name \in LoopNames => RunGoal \in GoalTargetLoops
    BY <1>1, EventsAreDistinct
  <2>3. staged' = [staged EXCEPT ![RunGoal] = events]
    BY <1>1, <1>2, <2>1, <2>2
  <2>4. recordRun' = [recordRun EXCEPT !.at = "save"] /\ UNCHANGED <<runLog, indexRow, stagedRow, goalReport, recordFaults>>
    BY <1>3 DEF StageEvents, RunGoes
  <2>5. recordRun' \in RunState /\ recordRun'.i = recordRun.i /\ recordRun'.start = recordRun.start /\ recordRun'.at = "save"
    <3>1. "save" \in RecordPlaces
      BY DEF RecordPlaces
    <3> QED
      BY <1>1, <2>4, <3>1 DEF RunState
  <2> QED
    BY <1>1, <2>2, <2>3, <2>4, <2>5, EventsAreStaged
<1>4. CASE StageRejection
  <2> DEFINE events == <<RejectedEvent>>
  <2>1. RejectedEvent \in RecordEvent /\ RejectedEvent.name \notin LoopNames
    <3>1. "goal.evidence.rejected" \in EventNames /\ {"rejected", "reject-evidence"} \subseteq EventWords
      BY DEF EventNames, EventWords
    <3>2. "goal.evidence.rejected" \notin LoopNames
      BY DEF LoopNames
    <3> QED
      BY <3>1, <3>2 DEF RejectedEvent, LoggedEvent, RecordEvent
  <2>2. /\ events \in Seq(RecordEvent) /\ events # <<>>
        /\ \A k, n \in DOMAIN events : events[k].name = events[n].name => k = n
        /\ \A k \in DOMAIN events : events[k].name \in LoopNames => RunGoal \in GoalTargetLoops
    BY <2>1
  <2>3. staged' = [staged EXCEPT ![RunGoal] = events]
    BY <1>1, <1>4, <2>1 DEF StageRejection
  <2>4. recordRun' = [recordRun EXCEPT !.at = "flush", !.f = 1] /\ UNCHANGED <<runLog, indexRow, stagedRow, goalReport, recordFaults>>
    BY <1>4 DEF StageRejection, Flushing
  <2>5. /\ recordRun' \in RunState /\ recordRun'.i = recordRun.i /\ recordRun'.start = recordRun.start
        /\ recordRun'.at = "flush" /\ recordRun'.f = 1
    <3>1. "flush" \in RecordPlaces /\ 1 \in Nat \ {0}
      BY DEF RecordPlaces
    <3> QED
      BY <1>1, <2>4, <3>1 DEF RunState
  <2> HIDE DEF events
  <2> QED
    BY <1>1, <2>2, <2>3, <2>4, <2>5, EventsAreStaged
<1> QED
  BY <1>3, <1>4

LEMMA RunMoves ==
  ASSUME RecordInv, NEW at \in {"save", "report", "flush", "finish", "rows", "ended"}
  PROVE  /\ [recordRun EXCEPT !.at = at] \in RunState
         /\ [recordRun EXCEPT !.f = @ + 1] \in RunState
         /\ Flushing \in RunState /\ Flushing.i = recordRun.i /\ Flushing.start = recordRun.start /\ Flushing.at = "flush" /\ Flushing.f = 1
         /\ Flushing.exit = recordRun.exit /\ ExitOf(recordRun.exit) \in RunExits
<1>1. recordRun \in RunState
  BY RunTypes
<1>2. at \in RecordPlaces /\ "flush" \in RecordPlaces /\ 1 \in Nat \ {0} /\ recordRun.f + 1 \in Nat \ {0}
  BY RunTypes DEF RecordPlaces
<1>3. recordRun.exit \in RunExits
  BY <1>1 DEF RunState
<1>4. ExitOf(recordRun.exit) \in RunExits
  BY <1>3 DEF ExitOf, RunExits
<1> QED
  BY <1>1, <1>2, <1>4 DEF RunState, Flushing

\* A flush ends: the next result's turn comes, or the run's end.
LEMMA FlushEnds ==
  ASSUME RecordInv, RunAt("flush")
  PROVE  /\ AfterFlush \in RunState /\ AfterFlush.start = recordRun.start /\ AfterFlush.at \in {"work", "finish"}
         /\ AfterFlush.i \in {recordRun.i, recordRun.i + 1} /\ (AfterFlush.at = "work" => AfterFlush.i = recordRun.i + 1)
<1>1. recordRun \in RunState /\ recordRun.i \in Nat
  BY RunTypes
<1>2. "work" \in RecordPlaces /\ "finish" \in RecordPlaces /\ ExitOf(recordRun.exit) \in RunExits
  BY RunMoves DEF RecordPlaces
<1>3. CASE recordRun.thrown
  BY <1>1, <1>2, <1>3 DEF AfterFlush, RunState
<1>4. CASE ~recordRun.thrown /\ recordRun.kind = "results" /\ recordRun.i < Len(RecordGoals)
  <2>1. recordRun.i + 1 \in DOMAIN RecordGoals
    BY <1>1, <1>4, GoalsAreOrdered
  <2>2. AfterFlush = [recordRun EXCEPT !.at = "work", !.i = @ + 1]
    BY <1>4 DEF AfterFlush
  <2> QED
    BY <1>1, <1>2, <2>1, <2>2 DEF RunState
<1>5. CASE ~recordRun.thrown /\ ~(recordRun.kind = "results" /\ recordRun.i < Len(RecordGoals))
  <2>1. AfterFlush = [recordRun EXCEPT !.at = "finish"]
    BY <1>5 DEF AfterFlush
  <2> QED
    BY <1>1, <1>2, <2>1 DEF RunState
<1> QED
  BY <1>3, <1>4, <1>5

\* The run goes on, and nothing it writes changes.
LEMMA OnlyTheRunMoves ==
  ASSUME RecordInv, recordRun' \in RunState, recordRun'.i \in {recordRun.i, recordRun.i + 1}, recordFaults' \in Nat,
         recordRun'.at = "work" => recordRun'.i = recordRun.i + 1, recordFaults <= recordFaults',
         UNCHANGED <<staged, runLog, indexRow, stagedRow, goalReport>>,
         recordFaults' = 0 => CleanRun' /\ \A g \in Goal : CleanGoal(g)'
  PROVE  RecordInv'
<1>1. RecordsTyped'
  BY DEF RecordInv, RecordsTyped
<1>2. OthersAreUntold'
  <2>1. \A x \in Goal : x # RunGoal /\ Untold(x) => Untold(x)'
    BY DEF Untold, InLog
  <2> QED
    BY <2>1, UntoldStays
<1> QED
  BY <1>1, <1>2, LogStays

LEMMA FaultsCount ==
  ASSUME RecordInv, NEW what, RecordFails(what)
  PROVE  recordFaults' \in Nat /\ recordFaults' # 0 /\ recordFaults <= recordFaults'
  BY RunTypes DEF RecordFails

\* Between a decision and the flush a run holds what it staged.
LEMMA HoldsUntilFlush ==
  ASSUME RecordInv, recordRun.at \in {"save", "report"}, UNCHANGED <<staged, runLog, indexRow, stagedRow, goalReport>>,
         recordRun' \in RunState, recordRun'.i = recordRun.i, recordRun'.start = recordRun.start,
         recordRun'.at = "report" \/ (recordRun'.at = "flush" /\ recordRun'.f = 1),
         recordFaults' \in Nat, recordFaults <= recordFaults'
  PROVE  RecordInv'
<1>1. RunGoal' = RunGoal /\ recordRun.i \in Nat /\ recordRun.i >= 1 /\ recordFaults \in Nat
  BY RunTypes DEF RunGoal
<1>2. ASSUME recordFaults' = 0 PROVE CleanRun' /\ \A g \in Goal : CleanGoal(g)'
  <2>1. recordFaults = 0
    BY <1>1, <1>2
  <2>2. CleanRun'
    BY <1>1, <2>1 DEF RecordInv, CleanRun
  <2>3. \A g \in Goal : staged[g] # <<>> =>
          g = RunGoal' /\ recordRun'.at \in {"save", "report", "flush"} /\ (recordRun'.at = "flush" => recordRun'.f <= recordRun'.i)
    BY <1>1, <2>1 DEF RecordInv, CleanGoal
  <2>4. \A g \in Goal : CleanGoal(g)'
    BY <2>1, <2>3, CleanMoves
  <2> QED
    BY <2>2, <2>4
<1> QED
  BY <1>2, OnlyTheRunMoves

LEMMA GoalIsKept ==
  ASSUME RecordInv, StoreGoal
  PROVE  RecordInv'
<1>1. recordRun \in RunState /\ recordRun.at = "save" /\ UNCHANGED <<staged, runLog, indexRow, stagedRow, goalReport>>
  BY RunTypes DEF StoreGoal, RunAt
<1>2. recordFaults' \in Nat /\ recordFaults <= recordFaults'
  BY RunTypes, FaultsCount DEF StoreGoal
<1>3. /\ recordRun' \in RunState /\ recordRun'.i = recordRun.i /\ recordRun'.start = recordRun.start
      /\ recordRun'.at = "report" \/ (recordRun'.at = "flush" /\ recordRun'.f = 1)
  <2>1. CASE recordRun' = [recordRun EXCEPT !.at = "report"]
    <3>1. recordRun' \in RunState
      BY <2>1, RunMoves
    <3> QED
      BY <1>1, <2>1, <3>1 DEF RunState
  <2>2. CASE recordRun' = Flushing
    BY <2>2, RunMoves
  <2>3. CASE recordRun' = [Flushing EXCEPT !.thrown = recordRun.kind = "results"]
    <3>1. /\ Flushing \in RunState /\ Flushing.i = recordRun.i /\ Flushing.start = recordRun.start
          /\ Flushing.at = "flush" /\ Flushing.f = 1
      BY RunMoves
    <3>2. (recordRun.kind = "results") \in BOOLEAN
      OBVIOUS
    <3> QED
      BY <2>3, <3>1, <3>2 DEF RunState
  <2> QED
    BY <2>1, <2>2, <2>3 DEF StoreGoal
<1> QED
  BY <1>1, <1>2, <1>3, HoldsUntilFlush

LEMMA LatestIsAnEvent ==
  ASSUME RecordInv, NEW g \in Goal, staged[g] # <<>>
  PROVE  /\ LatestStaged(g) = staged[g][Len(staged[g])] /\ LatestStaged(g) \in RecordEvent /\ LatestStaged(g).name \in StagedNames(g)
         /\ LatestStaged(g).name \in EventNames /\ Len(staged[g]) \in Nat /\ Len(staged[g]) > 0
<1>1. staged[g] \in Seq(RecordEvent)
  BY DEF RecordInv, RecordsTyped
<1>2. Len(staged[g]) \in DOMAIN staged[g] /\ staged[g][Len(staged[g])] \in RecordEvent /\ Len(staged[g]) \in Nat /\ Len(staged[g]) > 0
  BY <1>1
<1>3. LatestStaged(g) = staged[g][Len(staged[g])]
  BY DEF LatestStaged
<1>4. LatestStaged(g).name \in EventNames
  BY <1>2, <1>3 DEF RecordEvent
<1> QED
  BY <1>2, <1>3, <1>4 DEF StagedNames

LEMMA ReportIsSaved ==
  ASSUME RecordInv, SaveGoalReport
  PROVE  RecordInv'
<1>1. recordRun \in RunState /\ recordRun.at = "report" /\ UNCHANGED <<staged, runLog, indexRow, stagedRow>>
  BY RunTypes DEF SaveGoalReport, RunAt
<1>2. /\ Flushing \in RunState /\ Flushing.i = recordRun.i /\ Flushing.start = recordRun.start /\ Flushing.at = "flush" /\ Flushing.f = 1
      /\ Flushing.exit = recordRun.exit /\ ExitOf(recordRun.exit) \in RunExits
  BY RunMoves
<1>3. CASE recordRun' = [Flushing EXCEPT !.exit = ExitOf(@)] /\ UNCHANGED goalReport /\ (RecordFails("report") \/ UNCHANGED recordFaults)
  <2>1. recordRun' \in RunState /\ recordRun'.i = recordRun.i /\ recordRun'.start = recordRun.start
        /\ recordRun'.at = "flush" /\ recordRun'.f = 1
    BY <1>2, <1>3 DEF RunState
  <2>2. recordFaults' \in Nat /\ recordFaults <= recordFaults'
    BY <1>3, RunTypes, FaultsCount
  <2> QED
    BY <1>1, <1>3, <2>1, <2>2, HoldsUntilFlush
<1>4. ASSUME NEW left \in 0 .. 1, NEW blocked \in BOOLEAN, recordRun' = Flushing, UNCHANGED recordFaults,
             goalReport' = [goalReport EXCEPT ![RunGoal] =
               [event |-> LatestStaged(RunGoal).name, next |-> ReportedStep(LatestStaged(RunGoal), left, blocked),
                mode |-> ContextMode(LatestStaged(RunGoal))]]
      PROVE  RecordInv'
  <2>1. PICK g \in Goal : g = RunGoal
    BY RunTypes
  <2> DEFINE event == LatestStaged(RunGoal)
             new == [event |-> event.name, next |-> ReportedStep(event, left, blocked), mode |-> ContextMode(event)]
  <2>2. /\ goalReport' = [x \in Goal |-> goalReport'[x]] /\ goalReport'[g] = new /\ new.event = event.name /\ new.mode = ContextMode(event)
        /\ \A x \in Goal : x # g => goalReport'[x] = goalReport[x]
    <3>1. goalReport = [x \in Goal |-> goalReport[x]]
      BY DEF RecordInv, RecordsTyped
    <3>2. goalReport' = [goalReport EXCEPT ![g] = new]
      BY <1>4, <2>1
    <3> HIDE DEF new
    <3>3. /\ goalReport' = [x \in Goal |-> goalReport'[x]] /\ goalReport'[g] = new
          /\ \A x \in Goal : x # g => goalReport'[x] = goalReport[x]
      BY <3>1, <3>2
    <3> QED
      BY <3>3 DEF new
  <2> HIDE DEF new, event
  <2>3. RecordsTyped'
    BY <1>1, <1>2, <1>4, <2>2 DEF RecordInv, RecordsTyped
  <2>4. OthersAreUntold'
    <3>1. \A x \in Goal : x # RunGoal /\ Untold(x) => Untold(x)'
      BY <1>1, <2>1, <2>2 DEF Untold, InLog
    <3> QED
      BY <1>2, <1>4, <3>1, UntoldStays
  <2>5. ASSUME recordFaults' = 0 PROVE CleanRun' /\ \A x \in Goal : CleanGoal(x)'
    <3>1. recordFaults = 0 /\ RunGoal' = g /\ recordRun.i >= 1 /\ recordRun.i \in Nat
      BY <1>2, <1>4, <2>1, <2>5, RunTypes DEF RunGoal
    <3>2. CleanRun'
      BY <1>2, <1>4 DEF CleanRun
    <3>3. RunMode' = RunMode /\ \A e : ContextMode(e)' = ContextMode(e)
      BY <1>2, <1>4 DEF RunMode, ContextMode
    <3>4. \A x \in Goal : CleanGoal(x) /\ InLog(x)' = InLog(x) /\ \A e : ToldOf(x, e)' <=> ToldOf(x, e)
      BY <1>1, <3>1 DEF RecordInv, InLog, ToldOf, LastLogged
    <3>5. ASSUME NEW x \in Goal, x # g PROVE CleanGoal(x)'
      <4>1. staged[x] = <<>> /\ (indexRow[x].status # "none" => stagedRow[x] # NoRow)
        BY <1>1, <2>1, <3>4, <3>5 DEF CleanGoal
      <4> QED
        BY <1>1, <1>2, <1>4, <2>2, <3>3, <3>4, <3>5, <4>1 DEF CleanGoal
    <3>6. CleanGoal(g)'
      <4>1. staged[g] # <<>> /\ (indexRow[g].status # "none" => stagedRow[g] # NoRow)
        BY <1>1, <2>1, <3>1, <3>4 DEF RecordInv, CleanRun, CleanGoal
      <4>2. event \in RecordEvent /\ event = staged[g][Len(staged[g])]
        BY <2>1, <4>1, LatestIsAnEvent DEF event
      <4>3. \E e \in RecordEvent : goalReport'[g].event = e.name /\ goalReport'[g].mode = ContextMode(e)' /\ ToldOf(g, e)'
        BY <1>1, <2>2, <3>3, <4>1, <4>2 DEF ToldOf
      <4>4. recordRun'.at = "flush" /\ recordRun'.f <= recordRun'.i
        BY <1>2, <1>4, <3>1
      <4> QED
        BY <1>1, <3>1, <3>3, <3>4, <4>1, <4>3, <4>4 DEF CleanGoal
    <3> QED
      BY <3>2, <3>5, <3>6
  <2>6. recordFaults <= recordFaults'
    BY <1>4, RunTypes
  <2> QED
    BY <1>1, <2>3, <2>4, <2>5, <2>6, LogStays
<1> QED
  BY <1>3, <1>4 DEF SaveGoalReport

\* The rest of a run writes rows and ends.
LEMMA FlushGoesOnKeeps ==
  ASSUME RecordInv, FlushGoesOn
  PROVE  RecordInv'
<1>1. recordRun \in RunState /\ RunAt("flush") /\ UNCHANGED <<staged, runLog, indexRow, stagedRow, goalReport, recordFaults>>
      /\ recordRun.i \in Nat /\ recordRun.f \in Nat /\ recordRun.i \in DOMAIN RecordGoals /\ recordFaults \in Nat
      /\ recordRun' = (IF MoreToFlush THEN [recordRun EXCEPT !.f = @ + 1] ELSE AfterFlush)
      /\ (MoreToFlush => staged[FlushGoal] = <<>>)
  BY RunTypes DEF FlushGoesOn
<1>2. CASE MoreToFlush
  <2>1. /\ recordRun' \in RunState /\ recordRun'.i = recordRun.i /\ recordRun'.start = recordRun.start /\ recordRun'.at = "flush"
        /\ recordRun'.f = recordRun.f + 1
    <3>1. recordRun' = [recordRun EXCEPT !.f = @ + 1] /\ recordRun' \in RunState
      BY <1>1, <1>2, RunMoves
    <3> QED
      BY <1>1, <3>1 DEF RunState, RunAt
  <2>2. ASSUME recordFaults' = 0 PROVE CleanRun' /\ \A g \in Goal : CleanGoal(g)'
    <3>1. recordFaults = 0
      BY <1>1, <2>2
    <3>2. \A g \in Goal : staged[g] # <<>> =>
            g = RunGoal' /\ recordRun'.at \in {"save", "report", "flush"} /\ (recordRun'.at = "flush" => recordRun'.f <= recordRun'.i)
      <4> SUFFICES ASSUME NEW g \in Goal, staged[g] # <<>> PROVE g = RunGoal' /\ recordRun'.f <= recordRun'.i
        BY <2>1
      <4>1. g = RunGoal /\ recordRun.f <= recordRun.i
        BY <1>1, <3>1 DEF RecordInv, CleanGoal, RunAt
      <4>2. recordRun.f # recordRun.i
        BY <1>1, <1>2, <4>1 DEF FlushGoal, RunGoal
      <4> QED
        BY <1>1, <2>1, <4>1, <4>2 DEF RunGoal
    <3>3. \A g \in Goal : CleanGoal(g)'
      BY <1>1, <2>1, <3>1, <3>2, CleanMoves DEF RunAt
    <3> QED
      BY <2>1, <3>3 DEF CleanRun
  <2> QED
    BY <1>1, <2>1, <2>2, OnlyTheRunMoves
<1>3. CASE ~MoreToFlush
  <2>1. /\ recordRun' \in RunState /\ recordRun'.start = recordRun.start /\ recordRun'.at \in {"work", "finish"}
        /\ recordRun'.i \in {recordRun.i, recordRun.i + 1} /\ (recordRun'.at = "work" => recordRun'.i = recordRun.i + 1)
    BY <1>1, <1>3, FlushEnds
  <2>2. ASSUME recordFaults' = 0 PROVE CleanRun' /\ \A g \in Goal : CleanGoal(g)'
    <3>1. recordFaults = 0
      BY <1>1, <2>2
    <3>2. \A g \in Goal : staged[g] = <<>>
      <4>1. ~(recordRun.f <= Len(RecordGoals)) /\ recordRun.i <= Len(RecordGoals) /\ Len(RecordGoals) \in Nat
        BY <1>1, <1>3, GoalsAreOrdered DEF MoreToFlush
      <4>2. ~(recordRun.f <= recordRun.i)
        BY <1>1, <4>1
      <4> QED
        BY <1>1, <3>1, <4>2 DEF RecordInv, CleanGoal, RunAt
    <3>3. \A g \in Goal : CleanGoal(g)'
      BY <1>1, <2>1, <3>1, <3>2, CleanMoves DEF RunAt
    <3> QED
      BY <2>1, <3>3 DEF CleanRun
  <2> QED
    BY <1>1, <2>1, <2>2, OnlyTheRunMoves
<1> QED
  BY <1>2, <1>3

LEMMA LogKeeps ==
  ASSUME RecordInv, NEW g \in Goal, runLog' = runLog \o [k \in 1 .. Len(staged[g]) |-> [goal |-> g, event |-> staged[g][k].name]]
  PROVE  \A x : \A k \in InLog(x) : runLog'[k] = runLog[k]
<1> DEFINE more == [k \in 1 .. Len(staged[g]) |-> [goal |-> g, event |-> staged[g][k].name]]
<1>1. runLog \in Seq(LogEntry) /\ staged[g] \in Seq(RecordEvent)
  BY DEF RecordInv, RecordsTyped
<1>2. more \in Seq(LogEntry)
  <2>1. \A k \in 1 .. Len(staged[g]) : staged[g][k] \in RecordEvent
    BY <1>1
  <2> QED
    BY <1>1, <2>1 DEF RecordEvent, LogEntry
<1> HIDE DEF more
<1>3. \A k \in DOMAIN runLog : runLog'[k] = runLog[k]
  BY <1>1, <1>2 DEF more
<1> QED
  BY <1>3 DEF InLog

LEMMA FlushedGoal ==
  ASSUME RecordInv, MoreToFlush
  PROVE  FlushGoal \in Goal /\ recordRun.at = "flush"
BY RunTypes, GoalsAreOrdered DEF MoreToFlush, FlushGoal, RunAt

\* What a flush that failed stored may be stored once more.
LEMMA FlushStopsKeeps ==
  ASSUME RecordInv, FlushStops
  PROVE  RecordInv'
<1>1. PICK g \in Goal : g = FlushGoal
  BY FlushedGoal DEF FlushStops
<1>2. PICK n \in 0 .. Len(staged[g]) - 1 : runLog' = runLog \o [k \in 1 .. n |-> [goal |-> g, event |-> staged[g][k].name]]
  BY <1>1 DEF FlushStops, Stored
<1>3. staged[g] \in Seq(RecordEvent) /\ Len(staged[g]) \in Nat /\ n \in 0 .. Len(staged[g]) /\ staged[g] # <<>>
  <2>1. staged[g] \in Seq(RecordEvent)
    BY DEF RecordInv, RecordsTyped
  <2>2. Len(staged[g]) \in Nat /\ n \in 0 .. Len(staged[g]) - 1
    BY <2>1
  <2>3. Len(staged[g]) > 0
    BY <2>2
  <2> QED
    BY <2>1, <2>2, <2>3
<1>4. UNCHANGED <<staged, indexRow, stagedRow, goalReport>> /\ recordRun' = AfterFlush /\ RunAt("flush")
  BY DEF FlushStops, MoreToFlush
<1>5. recordFaults' = recordFaults + 1 /\ recordFaults \in Nat
  BY RunTypes DEF FlushStops, RecordFails
<1>6. /\ runLog' \in Seq(LogEntry)
      /\ \A x \in Goal : x # g => InLog(x)' = InLog(x)
      /\ \A x \in Goal, name \in EventNames :
           /\ Cardinality(LoggedAs(x, name)') \in Nat /\ Cardinality(LoggedAs(x, name)) \in Nat
           /\ Cardinality(LoggedAs(x, name)') <=
                Cardinality(LoggedAs(x, name)) + (IF x = g /\ name \in StagedNames(g) THEN 1 ELSE 0)
  BY <1>2, <1>3, LogGrows
<1>7. /\ AfterFlush \in RunState /\ AfterFlush.start = recordRun.start /\ AfterFlush.at \in {"work", "finish"}
      /\ AfterFlush.i \in {recordRun.i, recordRun.i + 1} /\ (AfterFlush.at = "work" => AfterFlush.i = recordRun.i + 1)
  BY <1>4, FlushEnds
<1>8. RecordsTyped'
  BY <1>4, <1>5, <1>6, <1>7 DEF RecordInv, RecordsTyped
<1>9. OthersAreUntold'
  <2>1. \A x \in Goal : x # RunGoal /\ Untold(x) => Untold(x)'
    <3> SUFFICES ASSUME NEW x \in Goal, Untold(x) PROVE Untold(x)'
      OBVIOUS
    <3>1. InLog(x)' = InLog(x)
      BY <1>3, <1>6 DEF Untold
    <3> QED
      BY <1>4, <3>1 DEF Untold
  <2> QED
    BY <1>4, <1>7, <2>1, UntoldStays
<1>10. StagedOnce' /\ \A x : StagedNames(x)' = StagedNames(x)
  BY <1>4 DEF RecordInv, StagedOnce, StagedNames
<1>11. StoredOnce'
  <2> SUFFICES ASSUME NEW x \in Goal, NEW name \in EventNames
               PROVE  Cardinality(LoggedAs(x, name)') + (IF name \in StagedNames(x) THEN 1 ELSE 0) <= 1 + recordFaults'
    BY <1>10 DEF StoredOnce
  <2>1. Cardinality(LoggedAs(x, name)) + (IF name \in StagedNames(x) THEN 1 ELSE 0) <= 1 + recordFaults
    BY DEF RecordInv, StoredOnce
  <2> DEFINE a == Cardinality(LoggedAs(x, name)')
             b == Cardinality(LoggedAs(x, name))
  <2>2. a \in Nat /\ b \in Nat /\ a <= b + 1
    BY <1>6
  <2> HIDE DEF a, b
  <2>3. CASE name \in StagedNames(x)
    <3>1. b + 1 <= 1 + recordFaults
      BY <2>1, <2>3 DEF b
    <3>2. a + 1 <= 1 + recordFaults'
      BY <1>5, <2>2, <3>1
    <3> QED
      BY <2>3, <3>2 DEF a
  <2>4. CASE name \notin StagedNames(x)
    <3>1. b + 0 <= 1 + recordFaults
      BY <2>1, <2>4 DEF b
    <3>2. a + 0 <= 1 + recordFaults'
      BY <1>5, <2>2, <3>1
    <3> QED
      BY <2>4, <3>2 DEF a
  <2> QED
    BY <2>3, <2>4
<1>12. recordFaults' # 0
  BY <1>5
<1> QED
  BY <1>8, <1>9, <1>10, <1>11, <1>12 DEF RecordInv

LEMMA RowIsARow ==
  ASSUME RecordInv, NEW g \in Goal, staged[g] # <<>>
  PROVE  /\ RowOf(g) \in IndexRow /\ RowOf(g).status # "none" /\ RowOf(g) # NoRow /\ RowOf(g).mode = RunMode
         /\ RowOf(g).waits => g \in GoalTargetLoops
<1> DEFINE e == LatestStaged(g)
<1>1. e.name \in StagedNames(g)
  BY LatestIsAnEvent
<1>2. EventStatus(e) \in RowStatus \ {"none"}
  <2>1. EventStatus(e) \in {"success", "blocked", "waiting", "running", "recorded"}
    BY DEF EventStatus
  <2> QED
    BY <2>1 DEF RowStatus
<1>3. RunMode \in RowModes
  BY ModesOfARun DEF RunMode
<1>4. RowOf(g) = [status |-> EventStatus(e), mode |-> RunMode, waits |-> e.name \in LoopNames]
  BY DEF RowOf, RunMode, LoopNames
<1>5. (e.name \in LoopNames) \in BOOLEAN /\ (e.name \in LoopNames => g \in GoalTargetLoops)
  BY <1>1 DEF RecordInv, StagedOnce
<1>6. PICK status \in RowStatus \ {"none"} : status = EventStatus(e)
  BY <1>2
<1>7. PICK waits \in BOOLEAN : waits = (e.name \in LoopNames)
  BY <1>5
<1>8. PICK mode \in RowModes : mode = RunMode
  BY <1>3
<1>9. RowOf(g) = [status |-> status, mode |-> mode, waits |-> waits]
  BY <1>4, <1>6, <1>7, <1>8
<1> HIDE DEF e
<1>10. RowOf(g) \in IndexRow /\ RowOf(g).status = status /\ RowOf(g).mode = mode /\ RowOf(g).waits = waits
  BY <1>9 DEF IndexRow
<1>11. NoRow.status = "none"
  BY DEF NoRow
<1>12. waits => g \in GoalTargetLoops
  BY <1>5, <1>7 DEF e
<1> QED
  BY <1>6, <1>8, <1>10, <1>11, <1>12

LEMMA FaultsBound ==
  ASSUME NEW a \in Nat, NEW b \in Nat, NEW c \in Nat, NEW before \in Nat, NEW after \in Nat,
         b + c <= 1 + before, before <= after
  PROVE  /\ a <= b + c => a + 0 <= 1 + after
         /\ a <= b + 0 => a + c <= 1 + after
OBVIOUS

\* What is stored is staged no longer, and its row follows.
LEMMA EventsAreFlushed ==
  ASSUME RecordInv, FlushEvents
  PROVE  RecordInv'
<1>1. PICK g \in Goal : g = FlushGoal
  BY FlushedGoal DEF FlushEvents
<1> DEFINE n == Len(staged[g])
           row == RowOf(g)
<1>2. /\ recordRun.at = "flush" /\ staged[g] # <<>> /\ recordRun' = [recordRun EXCEPT !.f = @ + 1] /\ UNCHANGED goalReport
      /\ runLog' = runLog \o [k \in 1 .. n |-> [goal |-> g, event |-> staged[g][k].name]]
      /\ staged' = [staged EXCEPT ![g] = <<>>] /\ stagedRow' = [stagedRow EXCEPT ![g] = row]
      /\ \/ indexRow' = [indexRow EXCEPT ![g] = row] /\ UNCHANGED recordFaults
         \/ RecordFails("index") /\ UNCHANGED indexRow
  BY <1>1, FlushedGoal DEF FlushEvents, Stored, Emptied
<1>3. /\ LatestStaged(g) = staged[g][n] /\ LatestStaged(g) \in RecordEvent /\ LatestStaged(g).name \in EventNames
      /\ n \in Nat /\ n > 0 /\ n \in 0 .. n
  BY <1>2, LatestIsAnEvent
<1>4. row \in IndexRow /\ row.status # "none" /\ row # NoRow /\ row.mode = RunMode /\ (row.waits => g \in GoalTargetLoops)
  BY <1>2, RowIsARow
<1>5. /\ runLog' \in Seq(LogEntry)
      /\ \A x \in Goal : x # g => InLog(x)' = InLog(x)
      /\ \A x \in Goal, name \in EventNames :
           /\ Cardinality(LoggedAs(x, name)') \in Nat /\ Cardinality(LoggedAs(x, name)) \in Nat
           /\ Cardinality(LoggedAs(x, name)') <=
                Cardinality(LoggedAs(x, name)) + (IF x = g /\ name \in StagedNames(g) THEN 1 ELSE 0)
      /\ \A name \in EventNames : n > 0 /\ name = staged[g][n].name => LastLogged(g, name)'
  BY <1>2, <1>3, LogGrows
<1>6. PICK event \in RecordEvent : event = staged[g][n] /\ LastLogged(g, event.name)'
  <2>1. PICK event \in RecordEvent : event = staged[g][n] /\ event.name \in EventNames
    BY <1>3
  <2>2. LastLogged(g, event.name)'
    BY <1>3, <1>5, <2>1
  <2> QED
    BY <2>1, <2>2
<1>7. /\ staged \in [Goal -> Seq(RecordEvent)] /\ indexRow \in [Goal \cup {"job"} -> IndexRow] /\ stagedRow \in [Goal -> IndexRow]
      /\ recordRun \in RunState /\ recordRun.i \in Nat /\ recordRun.f \in Nat
  BY RunTypes DEF RecordInv, RecordsTyped
<1>8. /\ recordRun' \in RunState /\ recordRun'.i = recordRun.i /\ recordRun'.start = recordRun.start /\ recordRun'.at = "flush"
      /\ recordRun'.f = recordRun.f + 1
  <2>1. recordRun' \in RunState
    BY <1>2, RunMoves
  <2> QED
    BY <1>2, <1>7, <2>1 DEF RunState
<1>9. recordFaults' \in Nat /\ recordFaults <= recordFaults' /\ recordFaults \in Nat
      /\ (recordFaults' = 0 => recordFaults = 0 /\ indexRow' = [indexRow EXCEPT ![g] = row])
  BY <1>2, RunTypes, FaultsCount
<1>10. PICK saved \in IndexRow : saved = row
  BY <1>4
<1> HIDE DEF n, row
<1>11. /\ staged'[g] = <<>> /\ stagedRow'[g] = saved
       /\ \A x \in Goal : x # g => staged'[x] = staged[x] /\ stagedRow'[x] = stagedRow[x] /\ indexRow'[x] = indexRow[x]
  BY <1>2, <1>7, <1>10
<1>12. RecordsTyped'
  <2>1. <<>> \in Seq(RecordEvent)
    OBVIOUS
  <2>2. staged' \in [Goal -> Seq(RecordEvent)]
    BY <1>2, <1>7, <2>1
  <2>3. indexRow' \in [Goal \cup {"job"} -> IndexRow] /\ stagedRow' \in [Goal -> IndexRow]
    BY <1>2, <1>7, <1>10
  <2> QED
    BY <1>2, <1>5, <1>8, <1>9, <2>2, <2>3 DEF RecordInv, RecordsTyped
<1>13. OthersAreUntold'
  <2>1. \A x \in Goal : x # RunGoal /\ Untold(x) => Untold(x)'
    <3> SUFFICES ASSUME NEW x \in Goal, Untold(x) PROVE Untold(x)'
      OBVIOUS
    <3>1. x # g
      BY <1>2 DEF Untold
    <3> QED
      BY <1>2, <1>5, <1>11, <3>1 DEF Untold
  <2> QED
    BY <1>8, <2>1, UntoldStays
<1>14. StagedNames(g)' = {} /\ \A x \in Goal : x # g => StagedNames(x)' = StagedNames(x)
  <2>1. DOMAIN <<>> = {}
    OBVIOUS
  <2> QED
    BY <1>11, <2>1 DEF StagedNames
<1>15. StagedOnce'
  <2> SUFFICES ASSUME NEW x \in Goal
               PROVE  /\ \A k, m \in DOMAIN staged'[x] : staged'[x][k].name = staged'[x][m].name => k = m
                      /\ StagedNames(x)' \cap LoopNames # {} => x \in GoalTargetLoops
    BY DEF StagedOnce
  <2>1. CASE x = g
    BY <1>11, <1>14, <2>1
  <2>2. CASE x # g
    BY <1>11, <1>14, <2>2 DEF RecordInv, StagedOnce
  <2> QED
    BY <2>1, <2>2
<1>16. StoredOnce'
  <2> SUFFICES ASSUME NEW x \in Goal, NEW name \in EventNames
               PROVE  Cardinality(LoggedAs(x, name)') + (IF name \in StagedNames(x)' THEN 1 ELSE 0) <= 1 + recordFaults'
    BY DEF StoredOnce
  <2> DEFINE a == Cardinality(LoggedAs(x, name)')
             b == Cardinality(LoggedAs(x, name))
             c == IF name \in StagedNames(x) THEN 1 ELSE 0
  <2>1. b + c <= 1 + recordFaults
    BY DEF RecordInv, StoredOnce
  <2>2. a \in Nat /\ b \in Nat /\ c \in Nat
    BY <1>5
  <2>3. recordFaults \in Nat /\ recordFaults' \in Nat /\ recordFaults <= recordFaults'
    BY <1>9
  <2> HIDE DEF a, b, c
  <2>4. CASE x = g
    <3>1. a <= b + c
      BY <1>5, <2>4 DEF a, b, c
    <3>2. a + 0 <= 1 + recordFaults'
      BY <2>1, <2>2, <2>3, <3>1, FaultsBound
    <3> QED
      BY <1>14, <2>4, <3>2 DEF a
  <2>5. CASE x # g
    <3>1. a <= b + 0 /\ (IF name \in StagedNames(x)' THEN 1 ELSE 0) = c
      BY <1>5, <1>14, <2>5 DEF a, b, c
    <3>2. a + c <= 1 + recordFaults'
      BY <2>1, <2>2, <2>3, <3>1, FaultsBound
    <3> QED
      BY <3>1, <3>2 DEF a
  <2> QED
    BY <2>4, <2>5
<1>17. ASSUME recordFaults' = 0 PROVE CleanRun' /\ \A x \in Goal : CleanGoal(x)'
  <2>1. recordFaults = 0 /\ indexRow'[g] = saved
    BY <1>7, <1>9, <1>10, <1>17
  <2>2. \A x \in Goal : CleanGoal(x)
    BY <2>1 DEF RecordInv
  <2>3. RunMode' = RunMode /\ \A e : ContextMode(e)' = ContextMode(e)
    BY <1>8 DEF RunMode, ContextMode
  <2>4. CleanRun'
    BY <1>8 DEF CleanRun
  <2>5. ASSUME NEW x \in Goal, x # g PROVE CleanGoal(x)'
    <3>1. staged[x] = <<>> /\ staged'[x] = <<>>
      BY <1>2, <1>11, <2>2, <2>5 DEF CleanGoal
    <3>2. InLog(x)' = InLog(x)
      BY <1>5, <2>5
    <3>3. \A e : ToldOf(x, e)' <=> ToldOf(x, e)
      <4> SUFFICES ASSUME NEW e PROVE LastLogged(x, e.name)' <=> LastLogged(x, e.name)
        BY <3>1 DEF ToldOf
      <4>1. \A k \in InLog(x) : runLog'[k] = runLog[k]
        BY <1>2, LogKeeps DEF n
      <4> QED
        BY <3>2, <4>1 DEF LastLogged
    <3>4. indexRow[x].status # "none" => stagedRow[x] # NoRow
      BY <1>2, <2>2 DEF CleanGoal
    <3> QED
      BY <1>2, <1>8, <1>11, <2>2, <2>3, <2>5, <3>1, <3>2, <3>3, <3>4 DEF CleanGoal
  <2>6. CleanGoal(g)'
    <3>1. InLog(g)' # {}
      BY <1>6 DEF LastLogged
    <3>2. saved.status # "none" /\ saved # NoRow /\ saved.mode = RunMode /\ (saved.waits => g \in GoalTargetLoops)
      BY <1>4, <1>10
    <3>3. goalReport[g] # NoGoalReport => goalReport[g].event = event.name /\ goalReport[g].mode = ContextMode(event)
      BY <1>2, <1>6, <2>2 DEF CleanGoal, ToldOf, n
    <3>4. ToldOf(g, event)'
      BY <1>6, <1>11 DEF ToldOf
    <3> QED
      BY <1>2, <1>8, <1>11, <2>1, <2>3, <3>1, <3>2, <3>3, <3>4 DEF CleanGoal
  <2> QED
    BY <2>4, <2>5, <2>6
<1> QED
  BY <1>12, <1>13, <1>15, <1>16, <1>17 DEF RecordInv

\* The job's own row tells the run's end.
LEMMA JobRowIsFinished ==
  ASSUME RecordInv, FinishJobRow
  PROVE  RecordInv'
<1>1. /\ recordRun \in RunState /\ recordRun.at = "finish" /\ recordRun' = [recordRun EXCEPT !.at = "rows"] /\ recordFaults \in Nat
      /\ UNCHANGED <<staged, runLog, stagedRow, goalReport>>
  BY RunTypes DEF FinishJobRow, RunAt, RunGoes
<1>2. /\ recordRun' \in RunState /\ recordRun'.i = recordRun.i /\ recordRun'.start = recordRun.start /\ recordRun'.at = "rows"
      /\ recordRun'.exit = recordRun.exit /\ recordRun'.kind = recordRun.kind
  <2>1. recordRun' \in RunState
    BY <1>1, RunMoves
  <2> QED
    BY <1>1, <2>1 DEF RunState
<1>3. CASE RecordFails("index") /\ UNCHANGED indexRow
  <2>1. recordFaults' \in Nat /\ recordFaults' # 0 /\ recordFaults <= recordFaults'
    BY <1>3, FaultsCount
  <2> QED
    BY <1>1, <1>2, <1>3, <2>1, OnlyTheRunMoves
<1>4. CASE indexRow' = [indexRow EXCEPT !["job"].status = ExitStatus(recordRun.exit)] /\ UNCHANGED recordFaults
  <2>1. PICK status \in RowStatus : status = ExitStatus(recordRun.exit)
    BY DEF ExitStatus, RowStatus
  <2>2. indexRow \in [Goal \cup {"job"} -> IndexRow] /\ "job" \notin Goal
    BY RecordsAssumption DEF RecordInv, RecordsTyped
  <2>3. PICK row \in IndexRow : row = indexRow["job"]
    BY <2>2
  <2>4. [row EXCEPT !.status = status] \in IndexRow /\ [row EXCEPT !.status = status].status = status
    BY <2>3 DEF IndexRow
  <2>5. indexRow' = [indexRow EXCEPT !["job"] = [row EXCEPT !.status = status]]
    BY <1>4, <2>1, <2>2, <2>3
  <2>6. PICK new \in IndexRow : new = [row EXCEPT !.status = status] /\ new.status = status
    BY <2>4
  <2>7. indexRow' \in [Goal \cup {"job"} -> IndexRow] /\ indexRow'["job"].status = status /\ \A g \in Goal : indexRow'[g] = indexRow[g]
    BY <2>2, <2>5, <2>6
  <2>8. RecordsTyped'
    BY <1>1, <1>2, <1>4, <2>7 DEF RecordInv, RecordsTyped
  <2>9. OthersAreUntold'
    <3>1. \A x \in Goal : x # RunGoal /\ Untold(x) => Untold(x)'
      BY <1>1, <2>7 DEF Untold, InLog
    <3> QED
      BY <1>2, <3>1, UntoldStays
  <2>10. ASSUME recordFaults' = 0 PROVE CleanRun' /\ \A g \in Goal : CleanGoal(g)'
    <3>1. recordFaults = 0
      BY <1>4, <2>10
    <3>2. \A g \in Goal : staged[g] = <<>>
      BY <1>1, <3>1 DEF RecordInv, CleanGoal
    <3>3. \A g \in Goal : CleanGoal(g)'
      BY <1>1, <1>2, <2>7, <3>1, <3>2, CleanMoves
    <3>4. CleanRun'
      BY <1>2, <2>1, <2>7 DEF CleanRun
    <3> QED
      BY <3>3, <3>4
  <2>11. recordFaults <= recordFaults'
    BY <1>1, <1>4
  <2> QED
    BY <1>1, <2>8, <2>9, <2>10, <2>11, LogStays
<1> QED
  BY <1>3, <1>4 DEF FinishJobRow

\* A goal's row tells it too, or that its Loop waits.
LEMMA RowIsFinal ==
  ASSUME RecordInv, NEW g \in Goal, FinaliseRow(g)
  PROVE  RecordInv'
<1>1. /\ recordRun \in RunState /\ recordRun.at = "rows" /\ recordFaults \in Nat /\ stagedRow[g] # NoRow
      /\ UNCHANGED <<recordRun, staged, runLog, goalReport>> /\ stagedRow' = [stagedRow EXCEPT ![g] = NoRow]
      /\ recordRun.exit \in RunExits
  BY RunTypes DEF FinaliseRow, RunAt, RunState
<1>2. /\ stagedRow \in [Goal -> IndexRow] /\ indexRow \in [Goal \cup {"job"} -> IndexRow] /\ "job" \notin Goal
      /\ NoRow \in IndexRow /\ NoRow.status = "none"
  <2>1. "none" \in RowStatus /\ "none" \in RowModes
    BY DEF RowStatus, RowModes
  <2> QED
    BY <2>1, RecordsAssumption DEF RecordInv, RecordsTyped, NoRow, IndexRow
<1>3. PICK row \in IndexRow : row = stagedRow[g]
  BY <1>2
<1>4. PICK status \in RowStatus \ {"none"} : status = EndStatus(row.waits) /\ ((row.waits => g \in GoalTargetLoops) => status \in RowEnds(g))
  <2>1. EndStatus(row.waits) \in {"success", "failed", "waiting"}
    BY DEF EndStatus, ExitStatus
  <2>2. (row.waits => g \in GoalTargetLoops) => EndStatus(row.waits) \in RowEnds(g)
    BY DEF EndStatus, RowEnds
  <2> QED
    BY <2>1, <2>2 DEF RowStatus
<1>5. PICK new \in IndexRow : new = FinalRow(row) /\ new.status = status /\ new.mode = row.mode
  <2>1. FinalRow(row) = [row EXCEPT !.status = status]
    BY <1>4 DEF FinalRow
  <2> QED
    BY <1>3, <1>4, <2>1 DEF IndexRow
<1>6. stagedRow' \in [Goal -> IndexRow] /\ stagedRow'[g] = NoRow /\ \A x \in Goal : x # g => stagedRow'[x] = stagedRow[x]
  BY <1>1, <1>2
<1>7. \/ indexRow' = [indexRow EXCEPT ![g] = new] /\ UNCHANGED recordFaults
      \/ RecordFails("index") /\ UNCHANGED indexRow
  BY <1>3, <1>5 DEF FinaliseRow
<1>8. indexRow' \in [Goal \cup {"job"} -> IndexRow] /\ \A x \in Goal \cup {"job"} : x # g => indexRow'[x] = indexRow[x]
  BY <1>2, <1>7
<1>9. recordFaults' \in Nat /\ recordFaults <= recordFaults' /\ (recordFaults' = 0 => indexRow'[g] = new /\ recordFaults = 0)
  <2>1. CASE RecordFails("index")
    BY <1>1, <2>1, FaultsCount
  <2>2. CASE indexRow' = [indexRow EXCEPT ![g] = new] /\ UNCHANGED recordFaults
    BY <1>1, <1>2, <2>2
  <2> QED
    BY <1>7, <2>1, <2>2
<1>10. RecordsTyped'
  BY <1>1, <1>6, <1>8, <1>9 DEF RecordInv, RecordsTyped
<1>11. OthersAreUntold'
  <2>1. \A x \in Goal : x # RunGoal /\ Untold(x) => Untold(x)'
    BY <1>1, <1>6, <1>8 DEF Untold, InLog
  <2> QED
    BY <1>1, <2>1, UntoldStays
<1>12. ASSUME recordFaults' = 0 PROVE CleanRun' /\ \A x \in Goal : CleanGoal(x)'
  <2>1. recordFaults = 0 /\ CleanRun /\ \A x \in Goal : CleanGoal(x)
    BY <1>9, <1>12 DEF RecordInv
  <2>2. CleanRun'
    BY <1>1, <1>2, <1>8, <2>1 DEF CleanRun
  <2>3. /\ RunMode' = RunMode /\ (\A e : ContextMode(e)' = ContextMode(e)) /\ RunGoal' = RunGoal
        /\ \A x : RowEnds(x)' = RowEnds(x) /\ InLog(x)' = InLog(x) /\ \A e : ToldOf(x, e)' <=> ToldOf(x, e)
    BY <1>1 DEF RunMode, ContextMode, RowEnds, ToldOf, LastLogged, InLog, RunGoal
  <2>4. ASSUME NEW x \in Goal, x # g PROVE CleanGoal(x)'
    BY <1>1, <1>6, <1>8, <2>1, <2>3, <2>4 DEF CleanGoal
  <2>5. CleanGoal(g)'
    <3>1. /\ indexRow'[g].status # "none" /\ indexRow'[g].mode = RunMode /\ indexRow'[g].status \in RowEnds(g) /\ InLog(g) # {}
          /\ staged[g] = <<>>
      BY <1>1, <1>3, <1>4, <1>5, <1>9, <1>12, <2>1 DEF CleanGoal
    <3> QED
      BY <1>1, <1>6, <2>1, <2>3, <3>1 DEF CleanGoal
  <2> QED
    BY <2>2, <2>4, <2>5
<1> QED
  BY <1>1, <1>9, <1>10, <1>11, <1>12, LogStays

\* The run ends, or is killed.
LEMMA RunIsOver ==
  ASSUME RecordInv, EndRecords \/ RecordsKilled
  PROVE  RecordInv'
<1>1. /\ recordRun \in RunState /\ recordRun' = [recordRun EXCEPT !.at = "ended"] /\ recordFaults \in Nat
      /\ UNCHANGED <<staged, runLog, indexRow, stagedRow, goalReport>>
  BY RunTypes DEF EndRecords, RecordsKilled, RunGoes
<1>2. /\ recordRun' \in RunState /\ recordRun'.i = recordRun.i /\ recordRun'.start = recordRun.start /\ recordRun'.at = "ended"
      /\ recordRun'.exit = recordRun.exit /\ recordRun'.kind = recordRun.kind
  <2>1. recordRun' \in RunState
    BY <1>1, RunMoves
  <2> QED
    BY <1>1, <2>1 DEF RunState
<1>3. CASE RecordsKilled
  <2>1. recordFaults' \in Nat /\ recordFaults' # 0 /\ recordFaults <= recordFaults'
    BY <1>3, FaultsCount DEF RecordsKilled
  <2> QED
    BY <1>1, <1>2, <2>1, OnlyTheRunMoves
<1>4. CASE EndRecords
  <2>1. UNCHANGED recordFaults /\ recordRun.at = "rows" /\ \A g \in Goal : stagedRow[g] = NoRow
    BY <1>4 DEF EndRecords, RunAt
  <2>2. ASSUME recordFaults' = 0 PROVE CleanRun' /\ \A g \in Goal : CleanGoal(g)'
    <3>1. recordFaults = 0 /\ CleanRun /\ \A g \in Goal : CleanGoal(g)
      BY <2>1, <2>2 DEF RecordInv
    <3>2. CleanRun'
      BY <1>1, <1>2, <2>1, <3>1 DEF CleanRun
    <3>3. ASSUME NEW g \in Goal PROVE CleanGoal(g)'
      <4>1. /\ RunMode' = RunMode /\ (\A e : ContextMode(e)' = ContextMode(e)) /\ RowEnds(g)' = RowEnds(g)
            /\ InLog(g)' = InLog(g) /\ \A e : ToldOf(g, e)' <=> ToldOf(g, e)
        BY <1>1, <1>2 DEF RunMode, ContextMode, RowEnds, ToldOf, LastLogged, InLog
      <4>2. staged[g] = <<>> /\ stagedRow[g] = NoRow
        BY <2>1, <3>1 DEF CleanGoal
      <4> QED
        BY <1>1, <1>2, <2>1, <3>1, <4>1, <4>2 DEF CleanGoal
    <3> QED
      BY <3>2, <3>3
  <2>3. recordFaults' \in Nat /\ recordFaults <= recordFaults'
    BY <1>1, <2>1
  <2> QED
    BY <1>1, <1>2, <2>2, <2>3, OnlyTheRunMoves
<1> QED
  BY <1>3, <1>4

LEMMA RecordInvariance == RecordsSpec => []RecordInv
<1>1. RecordInv /\ [RecordsNext]_recordVars => RecordInv'
  <2> SUFFICES ASSUME RecordInv, [RecordsNext]_recordVars PROVE RecordInv'
    OBVIOUS
  <2>1. ASSUME NEW start \in RecordStarts, NEW wanted \in BOOLEAN, StartRecords("tick", start, wanted, 0)
        PROVE  RecordInv'
    <3>1. "tick" \in {"tick", "results"} /\ 0 \in {0, 1}
      OBVIOUS
    <3> QED
      BY <2>1, <3>1, RecordsAreBegun
  <2>2. ASSUME NEW start \in RecordStarts, NEW wanted \in BOOLEAN, NEW exit \in {0, 1}, StartRecords("results", start, wanted, exit)
        PROVE  RecordInv'
    <3>1. "results" \in {"tick", "results"}
      OBVIOUS
    <3> QED
      BY <2>2, <3>1, RecordsAreBegun
  <2>3. CASE StageEvents \/ StageRejection
    BY <2>3, ResultIsStaged
  <2>4. CASE StoreGoal
    BY <2>4, GoalIsKept
  <2>5. CASE SaveGoalReport
    BY <2>5, ReportIsSaved
  <2>6. CASE FlushStops
    BY <2>6, FlushStopsKeeps
  <2>7. CASE FlushEvents
    BY <2>7, EventsAreFlushed
  <2>8. CASE FlushGoesOn
    BY <2>8, FlushGoesOnKeeps
  <2>9. CASE FinishJobRow
    BY <2>9, JobRowIsFinished
  <2>10. ASSUME NEW g \in Goal, FinaliseRow(g) PROVE RecordInv'
    BY <2>10, RowIsFinal
  <2>11. CASE EndRecords \/ RecordsKilled
    BY <2>11, RunIsOver
  <2>12. CASE UNCHANGED recordVars
    <3>1. UNCHANGED <<recordRun, staged, runLog, indexRow, stagedRow, goalReport, recordFaults>>
      BY <2>12 DEF recordVars
    <3>2. RecordsTyped' /\ recordFaults' \in Nat /\ recordFaults <= recordFaults'
      BY <3>1, RunTypes DEF RecordInv, RecordsTyped
    <3>3. OthersAreUntold'
      BY <3>1 DEF RecordInv, OthersAreUntold, Untold, InLog
    <3>4. CleanRun' <=> CleanRun
      BY <3>1 DEF CleanRun, RunGoal
    <3>5. ASSUME NEW g \in Goal PROVE CleanGoal(g)' <=> CleanGoal(g)
      <4>1. /\ RunMode' = RunMode /\ (\A e : ContextMode(e)' = ContextMode(e)) /\ RowEnds(g)' = RowEnds(g) /\ RunGoal' = RunGoal
            /\ InLog(g)' = InLog(g) /\ \A e : ToldOf(g, e)' <=> ToldOf(g, e)
        BY <3>1 DEF RunMode, ContextMode, RowEnds, ToldOf, LastLogged, InLog, RunGoal
      <4> QED
        BY <3>1, <4>1 DEF CleanGoal
    <3> QED
      BY <3>1, <3>2, <3>3, <3>4, <3>5, LogStays DEF RecordInv
  <2> QED
    BY <2>1, <2>2, <2>3, <2>4, <2>5, <2>6, <2>7, <2>8, <2>9, <2>10, <2>11, <2>12 DEF RecordsNext
<1> QED
  BY <1>1, RecordsStartEmpty, PTL DEF RecordsSpec

(* The type invariant of a run's records, whatever is started, and however *)
(* often a write of it fails.                                              *)
THEOREM RecordsTypeCorrect == RecordsSpec => []RecordsTypeOK
<1>1. RecordInv => RecordsTypeOK
  <2> SUFFICES ASSUME RecordInv PROVE RecordsTypeOK
    OBVIOUS
  <2>1. recordRun \in RunState /\ indexRow \in [Goal \cup {"job"} -> IndexRow]
    BY DEF RecordInv, RecordsTyped
  <2>2. recordRun.exit \in RunExits /\ recordRun.i \in DOMAIN RecordGoals
    BY <2>1 DEF RunState
  <2>3. \A x \in DOMAIN indexRow : indexRow[x].status \in RowStatus
    BY <2>1 DEF IndexRow
  <2> QED
    BY <2>2, <2>3 DEF RecordsTypeOK, RunExits, RowStatus
<1> QED
  BY <1>1, RecordInvariance, PTL

LEMMA RowsTell == RecordInv => RowsTellTheEnd
<1> SUFFICES ASSUME RecordInv, Quiet, recordRun.kind # "none", NEW x \in DOMAIN indexRow
             PROVE  /\ x = "job" \/ InLog(x) # {} => indexRow[x].status # "none"
                    /\ indexRow[x].status # "none" =>
                         indexRow[x].status \in {ExitStatus(recordRun.exit)} \cup
                           IF x \in GoalTargetLoops /\ recordRun.exit = 0 THEN {"waiting"} ELSE {}
  BY DEF RowsTellTheEnd
<1>1. recordRun.at = "ended" /\ recordFaults = 0 /\ CleanRun /\ x \in Goal \cup {"job"}
  BY DEF RecordInv, RecordsTyped, Quiet, RunAt
<1>2. CASE x = "job"
  <2>1. indexRow[x].status = ExitStatus(recordRun.exit)
    BY <1>1, <1>2 DEF CleanRun
  <2>2. ExitStatus(recordRun.exit) # "none"
    BY DEF ExitStatus
  <2> QED
    BY <2>1, <2>2
<1>3. CASE x \in Goal
  <2>1. CleanGoal(x)
    BY <1>1, <1>3 DEF RecordInv
  <2>2. InLog(x) # {} <=> indexRow[x].status # "none"
    BY <2>1 DEF CleanGoal
  <2>3. indexRow[x].status # "none" => indexRow[x].status \in RowEnds(x)
    BY <1>1, <2>1 DEF CleanGoal
  <2>4. x # "job"
    BY <1>3, RecordsAssumption
  <2> QED
    BY <2>2, <2>3, <2>4 DEF RowEnds
<1> QED
  BY <1>1, <1>2, <1>3

LEMMA LogIsWhole == RecordInv => LogIsComplete
<1> SUFFICES ASSUME RecordInv PROVE LogIsComplete
  OBVIOUS
<1>1. Quiet => \A g \in Goal : staged[g] = <<>>
  BY DEF RecordInv, CleanGoal, Quiet, RunAt
<1>2. ASSUME NEW g \in Goal, NEW n \in InLog(g)
      PROVE  Cardinality({k \in InLog(g) : runLog[k].event = runLog[n].event}) <= 1 + recordFaults
  <2>1. runLog \in Seq(LogEntry) /\ n \in DOMAIN runLog
    BY DEF RecordInv, RecordsTyped, InLog
  <2>2. PICK name \in EventNames : name = runLog[n].event
    <3>1. runLog[n] \in LogEntry
      BY <2>1
    <3> QED
      BY <3>1 DEF LogEntry
  <2>3. {k \in InLog(g) : runLog[k].event = runLog[n].event} = LoggedAs(g, name)
    BY <2>2 DEF InLog, LoggedAs
  <2>4. Cardinality(LoggedAs(g, name)) \in Nat
    <3>1. Len(runLog) \in Nat /\ DOMAIN runLog = 1 .. Len(runLog)
      BY <2>1
    <3>2. IsFiniteSet(1 .. Len(runLog)) /\ LoggedAs(g, name) \subseteq 1 .. Len(runLog)
      BY <3>1, FS_Interval DEF LoggedAs
    <3> QED
      BY <3>2, FS_Subset, FS_CardinalityType
  <2>5. Cardinality(LoggedAs(g, name)) + (IF name \in StagedNames(g) THEN 1 ELSE 0) <= 1 + recordFaults
    BY DEF RecordInv, StoredOnce
  <2>6. Cardinality(LoggedAs(g, name)) <= 1 + recordFaults
    BY <2>4, <2>5, RunTypes
  <2> QED
    BY <2>3, <2>6
<1> QED
  BY <1>1, <1>2 DEF LogIsComplete

LEMMA ReportTells == RecordInv => ReportTellsTheLog
<1> SUFFICES ASSUME RecordInv, Quiet, NEW g \in Goal, goalReport[g] # NoGoalReport
             PROVE  /\ \E n \in InLog(g) : runLog[n].event = goalReport[g].event /\ \A k \in InLog(g) : k <= n
                    /\ goalReport[g].mode = "automated" <=> goalReport[g].mode # "none" /\ indexRow[g].mode = "scheduled"
                    /\ goalReport[g].mode = "manual" <=> goalReport[g].mode # "none" /\ indexRow[g].mode = "manual"
  BY DEF ReportTellsTheLog
<1>1. CleanGoal(g) /\ recordRun.at = "ended"
  BY DEF RecordInv, Quiet, RunAt
<1>2. staged[g] = <<>>
  BY <1>1 DEF CleanGoal
<1>3. PICK e \in RecordEvent : goalReport[g].event = e.name /\ goalReport[g].mode = ContextMode(e) /\ ToldOf(g, e)
  BY <1>1 DEF CleanGoal
<1>4. LastLogged(g, e.name)
  BY <1>2, <1>3 DEF ToldOf
<1>5. InLog(g) # {}
  BY <1>4 DEF LastLogged
<1>6. indexRow[g].mode = RunMode
  BY <1>1, <1>5 DEF CleanGoal
<1>7. goalReport[g].mode \in {"none", DispatchMode(TriggerOf(recordRun.start))}
  BY <1>3 DEF ContextMode
<1>8. /\ indexRow[g].mode = "scheduled" <=> DispatchMode(TriggerOf(recordRun.start)) = "automated"
      /\ indexRow[g].mode = "manual" <=> DispatchMode(TriggerOf(recordRun.start)) = "manual"
      /\ DispatchMode(TriggerOf(recordRun.start)) # "none"
  BY <1>6, ModesOfARun DEF RunMode
<1>9. \E n \in InLog(g) : runLog[n].event = goalReport[g].event /\ \A k \in InLog(g) : k <= n
  BY <1>3, <1>4 DEF LastLogged
<1> QED
  BY <1>7, <1>8, <1>9

(* When nothing failed, the log, the index and the reports of a run agree  *)
(* at its end; and a failed call puts an event into the log at most once   *)
(* more (flushGoalRunLogEventsAsync, finalizeStagedRunIndexRowsAsync,      *)
(* latestGoalRunLogEvent).                                                 *)
THEOREM RecordsAgreeEach == RecordsSpec => []RecordsAgree
BY RecordInvariance, RowsTell, LogIsWhole, ReportTells, PTL DEF RecordsAgree
=============================================================================
