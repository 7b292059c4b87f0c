------------------------------- MODULE MCFair -------------------------------
(***************************************************************************)
(* Liveness, on small instances side by side: a behaviour is one of the    *)
(* pool, a workflow run, the chat, a managed goal or an agent, as "part"   *)
(* says, under the fairness that its module states.                        *)
(***************************************************************************)
EXTENDS MCWorkflowRun, PoolManager

VARIABLES
  part,
  log, chat, watermark, prompt, late, idle, ended, view, starts, chatFaults,
  doc, gp, tracker, trusted, tries, soft, unstored, ticks, goalFaults,
  agent, heard, session, file, effects

chatVars == <<log, chat, watermark, prompt, late, idle, ended, view, starts, chatFaults>>
goalVars == <<doc, gp, tracker, trusted, tries, soft, unstored, ticks, goalFaults>>
agentVars == <<agent, heard, session, file, effects>>
mcVars == <<part, vars, poolVars, chatVars, goalVars, agentVars>>

Chat == INSTANCE ChatSession WITH
  None <- NoOne, Statuses <- {"committed"}, PostsInTurn <- FALSE, OpenAI <- FALSE, Broken <- {},
  FailingCalls <- {"top", "poll", "turn", "agent", "append", "lost", "emit", "mark"},
  MaxPosts <- 3, MaxHandoffs <- 0, MaxStarts <- 2, MaxFaults <- 2, faults <- chatFaults, pc <- chat

(* Two capabilities; every result is good, three calls may fail.           *)
Goal == INSTANCE ManagedGoal WITH
  GoalProc <- {"tick"}, Exclusive <- TRUE, Evidence <- <<"built", "tested">>,
  Policy <- [e \in {"built", "tested"} |-> [pending |-> "wait", failure |-> "retry", max |-> 2]],
  Attached <- {"built", "tested"}, Needs <- [built |-> {}, tested |-> {"pr"}],
  GoalResult <- {[class |-> "succeeded", value |-> "none", brings |-> {"pr"}]},
  NoGoalItem <- NoOne, MaxHops <- 5, MaxTicks <- 4, OperatorActs <- {}, MaxGoalFaults <- 3

Agent == INSTANCE AgentSession WITH
  AgentTools <- {"edit", "read"}, Stateful <- TRUE, Contracted <- FALSE, Deadlined <- FALSE,
  MaxRetries <- 2, MaxToolUses <- 1, MaxTurnEnds <- 1

MCInit ==
  /\ part \in {"pool", "run", "chat", "goal", "agent"}
  /\ Init /\ PoolInit /\ Chat!Init /\ Goal!GoalInit /\ Agent!AgentInit
OthersRest ==
  /\ part # "pool" => UNCHANGED poolVars
  /\ part # "run" => UNCHANGED vars
  /\ part # "chat" => UNCHANGED chatVars
  /\ part # "goal" => UNCHANGED goalVars
  /\ part # "agent" => UNCHANGED agentVars
MCNext ==
  /\ UNCHANGED part /\ OthersRest
  /\ \/ part = "pool" /\ PoolNext
     \/ part = "run" /\ Next
     \/ part = "chat" /\ Chat!Next
     \/ part = "goal" /\ Goal!GoalNext
     \/ part = "agent" /\ Agent!AgentNext

MCSpec ==
  /\ MCInit /\ [][MCNext]_mcVars
  /\ WF_poolVars(part = "pool" /\ Refill)
  /\ \A c \in Claim : WF_poolVars(part = "pool" /\ Serve(c))
  /\ \A t \in Sweep : WF_poolVars(part = "pool" /\ Clean(t)) /\ WF_poolVars(part = "pool" /\ Start(t))
  /\ \A m \in Machine : WF_poolVars(part = "pool" /\ JobEnds(m))
  /\ \A r \in Runner : WF_vars(part = "run" /\ Work(r))
  /\ WF_chatVars(part = "chat" /\ Chat!Run) /\ WF_chatVars(part = "chat" /\ Chat!HardCap)
  /\ WF_goalVars(part = "goal" /\ (Goal!StartGoalTick("tick") \/ Goal!Goes("tick")))
  /\ WF_agentVars(part = "agent" /\ (Agent!StartAttempt \/ Agent!Stalls \/ Agent!Retry \/ Agent!Return))

(* A chat runner comes to its end, by the hard cap if by nothing else.     *)
RunnerEnds == Chat!RunnerEnds

(* An invocation of the agent returns, however its sessions go.            *)
AgentReturns == part = "agent" => Agent!AgentReturns

(* A goal whose capabilities succeed is done in the end, although calls    *)
(* fail and processes die, as long as ticks outnumber them.                *)
GoalIsReached == part = "goal" ~> doc.state = "done"
=============================================================================
