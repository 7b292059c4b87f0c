------------------------------ MODULE MCTaskFlow ------------------------------
(***************************************************************************)
(* Instances of the executor's parts that work on one issue: a container's *)
(* children, the planned jobs and one stage.                               *)
(***************************************************************************)
EXTENDS Container, TaskJobs, Stage, TLC

CONSTANTS j1, j2

(* Two children on the issue, then three on the pull request the second of *)
(* them opens, with a branch between them.                                 *)
ChildOf(name, target, next) == [name |-> name, target |-> target, next |-> next]
Stages ==
  <<ChildOf("plan", "issue", ("COMPLETED" :> "run") @@ ("*" :> "abort")),
    ChildOf("run", "issue", ("COMPLETED" :> "review") @@ ("*" :> "abort")),
    ChildOf("review", "pr", ("PASS" :> "done") @@ ("CONCERNS" :> "fix")),
    ChildOf("fix", "pr", ("COMPLETED" :> "recheck") @@ ("*" :> "abort")),
    ChildOf("recheck", "pr", ("PASS" :> "done") @@ ("*" :> "abort"))>>
Ended(exit, says, opens) == [exit |-> exit, says |-> says, opens |-> opens]
StageResults ==
     ("plan" :> {Ended(0, "COMPLETED", FALSE), Ended(1, "FAILED", FALSE), Ended(1, "none", FALSE)})
  @@ ("run" :> {Ended(0, "COMPLETED", TRUE), Ended(1, "FAILED", FALSE)})
  @@ ("review" :> {Ended(0, "PASS", FALSE), Ended(0, "CONCERNS", FALSE), Ended(1, "FAILED", FALSE)})
  @@ ("fix" :> {Ended(0, "COMPLETED", FALSE), Ended(1, "none", FALSE)})
  @@ ("recheck" :> {Ended(0, "PASS", FALSE), Ended(0, "CONCERNS", FALSE)})

(* Two jobs, whose runs end in every way, also without a stored status.    *)
Plan == <<j1, j2>>
JobEnd(exit, says, saves) == [exit |-> exit, says |-> says, saves |-> saves]
JobEnds == {JobEnd(0, "succeeded", TRUE), JobEnd(1, "failed", TRUE), JobEnd(1, "succeeded", TRUE),
            JobEnd(1, "failed", FALSE), JobEnd(0, "running", TRUE)}

(* Two scripts and a shell script; a commit, a pull request, a comment.    *)
Entries == <<[kind |-> "script", label |-> TRUE], [kind |-> "script", label |-> FALSE],
             [kind |-> "shell", label |-> FALSE]>>
PostEntry(mutates, then) == [mutates |-> mutates, afterFailedAgent |-> then]
PostEntries == <<PostEntry(FALSE, "nothing"), PostEntry(TRUE, "nothing"), PostEntry(TRUE, "draft"),
                 PostEntry(FALSE, "works")>>

(* What is done on an issue is done once: a container's children and the   *)
(* planned jobs.                                                           *)
IssueWorkIsDoneOnce == ContainerKeepsCourse /\ PlannedJobsRunOnce
=============================================================================
