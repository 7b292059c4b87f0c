---------------------------- MODULE ExecutorProofs ----------------------------
(***************************************************************************)
(* The executor's parts: an agent's attempts, the stage around them, the   *)
(* children of a container and the planned jobs of an issue.               *)
(***************************************************************************)
EXTENDS AgentSession, MCTaskFlow, WellFoundedInduction, TLAPS

(* An invocation of the agent.                                             *)

Outcomes == {"completed", "failed"}
FailureKinds == {"generic_failed", "ok", "model_error", "stalled", "rate_limit", "out_of_turns", "tool_error"}
Errors == {"none", "setup", "result", "connection", "429", "abort", "stalled", "rate_limit", "refused", "hollow"}
Hearings ==
  [outcome : Outcomes, kind : FailureKinds, error : Errors, mutating : BOOLEAN, success : BOOLEAN,
   tokens : BOOLEAN, text : {"none", "text", "json", "login", "apiError"}, login : BOOLEAN,
   last : {"none", "text", "json", "nothing", "login", "apiError", "error"}, stopped : BOOLEAN]

AgentTyped ==
  /\ agent \in [at : {"start", "reading", "judge", "returned"}, attempt : 0..MaxRetries,
                active : BOOLEAN, chance : BOOLEAN, closing : BOOLEAN]
  /\ heard \in Hearings
  /\ session \in [uses : 0..MaxToolUses, ends : 0..MaxTurnEnds, submitted : BOOLEAN]
  /\ file \in {"missing", "invalid", "valid"} /\ effects \subseteq 0..MaxRetries

\* What was changed was changed by this attempt, which knows that it may have.
ChangesAreKnown ==
  /\ \A a \in effects : a = agent.attempt /\ heard.mutating
  /\ agent.at = "start" => effects = {}

\* An answer that was an attempt's last word, unless the attempt was stopped.
Answered == heard.last \in {"text", "json"} /\ ~heard.stopped
AnswersCount == agent.at \in {"reading", "judge"} /\ Answered => heard.outcome = "completed" /\ heard.tokens /\ heard.success

AgentInv == AgentTyped /\ AnswersCount /\ OutcomeIsHonest
NoDispatch == "dispatch" \notin AgentTools

\* The verdict on a session has the type of what was heard.
LEMMA VerdictType ==
  ASSUME AgentTyped
  PROVE  /\ SessionVerdict \in Hearings
         /\ \A f \in {"mutating", "success", "tokens", "login", "stopped", "last", "text"} : SessionVerdict[f] = heard[f]
         /\ SessionVerdict.outcome = "completed" =>
              heard.outcome = "completed" /\ ~ProviderRefused /\ (Useful \/ heard.mutating)
         /\ Answered /\ ~heard.login /\ heard.outcome = "completed" /\ heard.tokens => SessionVerdict.outcome = "completed"
<1> DEFINE refused == [heard EXCEPT !.outcome = "failed", !.kind = "model_error", !.error = "refused"]
           hollow == [heard EXCEPT !.outcome = "failed", !.kind = "model_error", !.error = IF @ = "none" THEN "hollow" ELSE @]
<1>1. heard \in Hearings
  BY DEF AgentTyped
<1>2. /\ refused \in Hearings /\ refused.outcome = "failed"
      /\ \A f \in {"mutating", "success", "tokens", "login", "stopped", "last", "text"} : refused[f] = heard[f]
  BY <1>1 DEF Hearings, Outcomes, FailureKinds, Errors
<1>3. /\ hollow \in Hearings /\ hollow.outcome = "failed"
      /\ \A f \in {"mutating", "success", "tokens", "login", "stopped", "last", "text"} : hollow[f] = heard[f]
  BY <1>1 DEF Hearings, Outcomes, FailureKinds, Errors
<1>4. SessionVerdict = IF heard.outcome = "completed" /\ ProviderRefused THEN refused ELSE IF HollowSuccess THEN hollow ELSE heard
  BY DEF SessionVerdict
<1> HIDE DEF refused, hollow
<1>5. SessionVerdict.outcome = "completed" => SessionVerdict = heard
  BY <1>2, <1>3, <1>4
<1>6. /\ SessionVerdict \in Hearings
      /\ \A f \in {"mutating", "success", "tokens", "login", "stopped", "last", "text"} : SessionVerdict[f] = heard[f]
  BY <1>1, <1>2, <1>3, <1>4
<1>7. SessionVerdict.outcome = "completed" =>
        heard.outcome = "completed" /\ ~ProviderRefused /\ (Useful \/ heard.mutating)
  BY <1>2, <1>3, <1>4, <1>5 DEF HollowSuccess
<1>8. Answered /\ ~heard.login /\ heard.outcome = "completed" /\ heard.tokens => SessionVerdict.outcome = "completed"
  BY <1>4 DEF ProviderRefused, HollowSuccess, Useful
<1> QED
  BY <1>6, <1>7, <1>8

\* Every step keeps the types.
LEMMA AgentTypesKept ==
  ASSUME AgentTyped, AgentNext
  PROVE  AgentTyped'
<1> USE AgentAssumption
<1>1. CASE StartAttempt
  BY <1>1 DEF StartAttempt, AgentTyped, Unheard, NewSession, Hearings, Outcomes, FailureKinds, Errors
<1>2. CASE SetupFails
  <2>1. heard' \in Hearings
    BY <1>2 DEF SetupFails, AgentTyped, Hearings, FailureKinds, Errors
  <2> QED
    BY <1>2, <2>1 DEF SetupFails, AgentTyped
<1>3. CASE UseTool
  <2>1. PICK t \in AgentTools :
          /\ heard' = [heard EXCEPT !.mutating = @ \/ Mutates(t)]
          /\ session' = [session EXCEPT !.uses = @ + 1, !.submitted = @ \/ (~Blocked(t) /\ t = "submit")]
          /\ agent' = [agent EXCEPT !.active = @ \/ (~Blocked(t) /\ t # "submit")]
          /\ effects' \subseteq effects \cup {agent.attempt}
          /\ file' \in IF ~Blocked(t) /\ t = "output" THEN {"invalid", "valid"} ELSE {file}
    BY <1>3 DEF UseTool
  <2>2. Blocked(t) \in BOOLEAN /\ Mutates(t) \in BOOLEAN /\ session.uses < MaxToolUses
    BY <1>3 DEF UseTool, AgentTyped, Blocked, Mutates
  <2>3. heard' \in Hearings
    BY <2>1, <2>2 DEF AgentTyped, Hearings
  <2>6. session.uses + 1 \in 0..MaxToolUses
    BY <2>2 DEF AgentTyped
  <2> DEFINE submitted == session.submitted \/ (~Blocked(t) /\ t = "submit")
             active == agent.active \/ (~Blocked(t) /\ t # "submit")
  <2>7. submitted \in BOOLEAN /\ active \in BOOLEAN
    BY <2>2 DEF AgentTyped
  <2>8. session' = [session EXCEPT !.uses = session.uses + 1, !.submitted = submitted] /\ agent' = [agent EXCEPT !.active = active]
    BY <2>1 DEF AgentTyped
  <2> HIDE DEF submitted, active
  <2>4. session' \in [uses : 0..MaxToolUses, ends : 0..MaxTurnEnds, submitted : BOOLEAN]
    BY <2>6, <2>7, <2>8 DEF AgentTyped
  <2>5. agent' \in [at : {"start", "reading", "judge", "returned"}, attempt : 0..MaxRetries,
                    active : BOOLEAN, chance : BOOLEAN, closing : BOOLEAN]
    BY <2>7, <2>8 DEF AgentTyped
  <2> QED
    BY <2>1, <2>3, <2>4, <2>5 DEF AgentTyped
<1>4. CASE CutOff
  BY <1>4 DEF CutOff, AgentTyped
<1>5. CASE WantsToStop
  <2>1. AsksForState \in BOOLEAN /\ session.ends < MaxTurnEnds
    BY <1>5 DEF WantsToStop, AsksForState, AgentTyped
  <2> QED
    BY <1>5, <2>1 DEF WantsToStop, AgentTyped
<1>6. CASE Succeeds
  <2>1. PICK reply \in {"text", "json", "nothing", "login", "apiError"} :
          heard' = [heard EXCEPT !.outcome = "completed", !.kind = "ok", !.success = TRUE, !.last = reply,
                                 !.tokens = reply \in {"text", "json"}, !.login = @ \/ reply = "login",
                                 !.text = IF @ = "none" /\ reply # "nothing" THEN reply ELSE @]
    BY <1>6 DEF Succeeds
  <2> DEFINE tokens == reply \in {"text", "json"}
             login == heard.login \/ reply = "login"
             text == IF heard.text = "none" /\ reply # "nothing" THEN reply ELSE heard.text
  <2>3. tokens \in BOOLEAN /\ login \in BOOLEAN /\ text \in {"none", "text", "json", "login", "apiError"}
    BY DEF AgentTyped, Hearings
  <2>4. heard' = [heard EXCEPT !.outcome = "completed", !.kind = "ok", !.success = TRUE, !.last = reply,
                               !.tokens = tokens, !.login = login, !.text = text]
    BY <2>1 DEF AgentTyped, Hearings
  <2> HIDE DEF tokens, login, text
  <2>2. heard' \in Hearings
    BY <2>1, <2>3, <2>4 DEF AgentTyped, Hearings, Outcomes, FailureKinds
  <2> QED
    BY <1>6, <2>2 DEF Succeeds, AgentTyped
<1>7. CASE Errs
  <2>2. PICK k \in {"out_of_turns", "rate_limit", "tool_error", "model_error"} :
          heard' = [heard EXCEPT !.outcome = "failed", !.kind = k, !.error = "result", !.last = "error", !.tokens = FALSE]
    BY <1>7 DEF Errs
  <2>1. heard' \in Hearings
    BY <2>2 DEF AgentTyped, Hearings, Outcomes, FailureKinds, Errors
  <2> QED
    BY <1>7, <2>1 DEF Errs, AgentTyped
<1>8. CASE StreamEnds
  BY <1>8 DEF StreamEnds, Judges, AgentTyped
<1>9. CASE Throws
  <2>2. PICK e \in {"connection", "429", "abort"} :
          heard' = IF heard.success THEN [heard EXCEPT !.error = e]
                   ELSE [heard EXCEPT !.outcome = "failed", !.error = e,
                                      !.kind = IF e = "429" THEN "rate_limit" ELSE "model_error"]
    BY <1>9 DEF Throws
  <2>3. [heard EXCEPT !.error = e] \in Hearings
    BY DEF AgentTyped, Hearings, Errors
  <2>4. [heard EXCEPT !.outcome = "failed", !.error = e,
                      !.kind = IF e = "429" THEN "rate_limit" ELSE "model_error"] \in Hearings
    BY DEF AgentTyped, Hearings, Errors, Outcomes, FailureKinds
  <2>1. heard' \in Hearings
    BY <2>2, <2>3, <2>4
  <2> QED
    BY <1>9, <2>1 DEF Throws, Judges, AgentTyped
<1>10. CASE Stalls \/ RateLimited
  <2>2. PICK k \in {"stalled", "rate_limit"} : BreaksOff(k)
    BY <1>10 DEF Stalls, RateLimited
  <2>1. heard' \in Hearings
    BY <2>2 DEF BreaksOff, AgentTyped, Hearings, Outcomes, FailureKinds, Errors
  <2> QED
    BY <1>10, <2>1 DEF Stalls, RateLimited, BreaksOff, Judges, AgentTyped
<1>11. CASE Retry \/ Return
  <2>1. /\ heard' = SessionVerdict /\ UNCHANGED <<session, file>>
        /\ \/ agent' = [agent EXCEPT !.at = "start", !.attempt = @ + 1] /\ agent.attempt < MaxRetries
           \/ agent' = [agent EXCEPT !.at = "returned"]
    BY <1>11 DEF Retry, Return, Retries
  <2>3. agent.attempt < MaxRetries => agent.attempt + 1 \in 0..MaxRetries
    BY DEF AgentTyped
  <2>4. [agent EXCEPT !.at = "returned"]
          \in [at : {"start", "reading", "judge", "returned"}, attempt : 0..MaxRetries,
               active : BOOLEAN, chance : BOOLEAN, closing : BOOLEAN]
    BY DEF AgentTyped
  <2>5. agent.attempt < MaxRetries =>
          [agent EXCEPT !.at = "start", !.attempt = agent.attempt + 1]
            \in [at : {"start", "reading", "judge", "returned"}, attempt : 0..MaxRetries,
                 active : BOOLEAN, chance : BOOLEAN, closing : BOOLEAN]
    BY <2>3 DEF AgentTyped
  <2>2. agent' \in [at : {"start", "reading", "judge", "returned"}, attempt : 0..MaxRetries,
                    active : BOOLEAN, chance : BOOLEAN, closing : BOOLEAN]
    BY <2>1, <2>4, <2>5
  <2>6. UNCHANGED effects
    BY <1>11 DEF Retry, Return
  <2> QED
    BY <2>1, <2>2, <2>6, VerdictType DEF AgentTyped
<1> QED
  BY <1>1, <1>2, <1>3, <1>4, <1>5, <1>6, <1>7, <1>8, <1>9, <1>10, <1>11 DEF AgentNext

\* Every step keeps what an attempt's answer came to.
LEMMA AnswersKept ==
  ASSUME AgentInv, AgentNext
  PROVE  AnswersCount' /\ OutcomeIsHonest'
<1> USE DEF AgentInv
<1>1. CASE StartAttempt
  BY <1>1 DEF StartAttempt, AgentTyped, Unheard, AnswersCount, Answered, OutcomeIsHonest
<1>2. CASE SetupFails \/ Stalls \/ RateLimited
  BY <1>2 DEF SetupFails, Stalls, RateLimited, BreaksOff, Judges, AgentTyped, Hearings, AnswersCount, Answered, OutcomeIsHonest
<1>3. CASE UseTool
  <2>1. /\ agent.at = "reading" /\ agent'.at = "reading"
        /\ \A f \in {"outcome", "tokens", "success", "last", "stopped"} : heard'[f] = heard[f]
    BY <1>3 DEF UseTool, AgentTyped, Hearings
  <2> QED
    BY <2>1 DEF AnswersCount, Answered, OutcomeIsHonest
<1>4. CASE CutOff
  <2>1. agent.at # "returned" /\ agent'.at = agent.at /\ heard' = heard
    BY <1>4 DEF CutOff, AgentTyped
  <2> QED
    BY <2>1 DEF AnswersCount, Answered, OutcomeIsHonest
<1>5. CASE WantsToStop
  BY <1>5 DEF WantsToStop, AgentTyped, AnswersCount, Answered, OutcomeIsHonest
<1>6. CASE Succeeds
  <2>1. PICK reply \in {"text", "json", "nothing", "login", "apiError"} :
          heard' = [heard EXCEPT !.outcome = "completed", !.kind = "ok", !.success = TRUE, !.last = reply,
                                 !.tokens = reply \in {"text", "json"}, !.login = @ \/ reply = "login",
                                 !.text = IF @ = "none" /\ reply # "nothing" THEN reply ELSE @]
    BY <1>6 DEF Succeeds
  <2>2. heard'.outcome = "completed" /\ heard'.success /\ heard'.last = reply /\ heard'.tokens = (reply \in {"text", "json"})
    BY <2>1 DEF AgentTyped, Hearings
  <2>3. agent.at = "reading" /\ agent' = agent
    BY <1>6 DEF Succeeds
  <2> QED
    BY <2>2, <2>3 DEF AnswersCount, Answered, OutcomeIsHonest
<1>7. CASE Errs
  BY <1>7 DEF Errs, AgentTyped, Hearings, AnswersCount, Answered, OutcomeIsHonest
<1>8. CASE StreamEnds
  BY <1>8 DEF StreamEnds, Judges, AgentTyped, AnswersCount, Answered, OutcomeIsHonest
<1>9. CASE Throws
  BY <1>9 DEF Throws, Judges, AgentTyped, Hearings, AnswersCount, Answered, OutcomeIsHonest
<1>10. CASE Retry
  <2>1. /\ agent.at = "judge" /\ agent'.at = "start" /\ heard' = SessionVerdict /\ SessionVerdict.outcome = "failed"
    BY <1>10 DEF Retry, Retries, AgentTyped
  <2>2. ~(Answered /\ ~heard.login)
    BY <2>1, VerdictType DEF AnswersCount
  <2> QED
    BY <2>1, <2>2, VerdictType DEF AnswersCount, Answered, OutcomeIsHonest
<1>11. CASE Return
  <2>1. agent.at = "judge" /\ agent'.at = "returned" /\ heard' = SessionVerdict /\ UNCHANGED session
    BY <1>11 DEF Return, AgentTyped
  <2>2. Answered /\ ~heard.login => SessionVerdict.outcome = "completed"
    BY <2>1, VerdictType DEF AnswersCount
  <2>3. SessionVerdict.outcome = "completed" => ~ProviderRefused' /\ (Useful' \/ heard'.mutating)
    BY <2>1, VerdictType DEF ProviderRefused, Useful
  <2> QED
    BY <2>1, <2>2, <2>3, VerdictType DEF AnswersCount, Answered, OutcomeIsHonest
<1> QED
  BY <1>1, <1>2, <1>3, <1>4, <1>5, <1>6, <1>7, <1>8, <1>9, <1>10, <1>11 DEF AgentNext

\* Every step keeps that changes are known, when no tool starts a run unseen.
LEMMA ChangesKept ==
  ASSUME AgentInv, ChangesAreKnown, NoDispatch, AgentNext
  PROVE  ChangesAreKnown'
<1> USE DEF AgentInv
<1>1. CASE UseTool
  <2>1. PICK t \in AgentTools :
          /\ heard' = [heard EXCEPT !.mutating = @ \/ Mutates(t)]
          /\ effects' = IF ~Blocked(t) /\ Durable(t) THEN effects \cup {agent.attempt} ELSE effects
    BY <1>1 DEF UseTool
  <2>2. agent.at = "reading" /\ agent'.at = "reading" /\ agent'.attempt = agent.attempt
    BY <1>1 DEF UseTool, AgentTyped
  <2>3. Durable(t) => Mutates(t)
    BY <2>1, NoDispatch DEF Durable, Mutates, NoDispatch
  <2>4. heard'.mutating = (heard.mutating \/ Mutates(t))
    BY <2>1 DEF AgentTyped, Hearings
  <2> QED
    BY <2>1, <2>2, <2>3, <2>4 DEF ChangesAreKnown
<1>2. CASE StartAttempt
  BY <1>2 DEF StartAttempt, AgentTyped, ChangesAreKnown
<1>3. CASE Retry \/ Return
  <2>1. effects' = effects /\ heard'.mutating = heard.mutating
    BY <1>3, VerdictType DEF Retry, Return
  <2>2. Retry => effects = {}
    BY DEF Retry, Retries, ChangesAreKnown
  <2>3. Return => agent'.attempt = agent.attempt /\ agent'.at = "returned"
    BY DEF Return, AgentTyped
  <2> QED
    BY <1>3, <2>1, <2>2, <2>3 DEF ChangesAreKnown
<1>4. CASE CutOff \/ WantsToStop \/ StreamEnds
  <2>1. /\ effects' = effects /\ heard' = heard /\ agent'.attempt = agent.attempt
        /\ agent'.at = "start" => agent.at = "start"
    BY <1>4 DEF CutOff, WantsToStop, StreamEnds, Judges, AgentTyped
  <2> QED
    BY <2>1 DEF ChangesAreKnown
<1>5. CASE SetupFails \/ Succeeds \/ Errs \/ Throws \/ Stalls \/ RateLimited
  <2>1. effects' = effects /\ agent'.attempt = agent.attempt /\ agent'.at # "start"
    BY <1>5 DEF SetupFails, Succeeds, Errs, Throws, Stalls, RateLimited, BreaksOff, Judges, AgentTyped
  <2>2. heard'.mutating = heard.mutating
    BY <1>5 DEF SetupFails, Succeeds, Errs, Throws, Stalls, RateLimited, BreaksOff, AgentTyped, Hearings
  <2> QED
    BY <2>1, <2>2 DEF ChangesAreKnown
<1> QED
  BY <1>1, <1>2, <1>3, <1>4, <1>5 DEF AgentNext

\* What an invocation comes to is honest in every run, whatever its tools.
LEMMA OutcomesAreHonest == AgentSpec => []AgentInv
<1>1. AgentInit => AgentInv
  BY AgentAssumption
     DEF AgentInit, AgentInv, AgentTyped, Unheard, NewSession, Hearings, Outcomes, FailureKinds, Errors,
         AnswersCount, Answered, OutcomeIsHonest
<1>2. AgentInv /\ [AgentNext]_agentVars => AgentInv'
  <2> SUFFICES ASSUME AgentInv, [AgentNext]_agentVars PROVE AgentInv'
    OBVIOUS
  <2>1. CASE AgentNext
    BY <2>1, AgentTypesKept, AnswersKept DEF AgentInv
  <2>2. CASE UNCHANGED agentVars
    BY <2>2 DEF agentVars, AgentInv, AgentTyped, AnswersCount, Answered, OutcomeIsHonest, ProviderRefused, Useful
  <2> QED
    BY <2>1, <2>2
<1> QED
  BY <1>1, <1>2, PTL DEF AgentSpec

\* The variables of an invocation keep their types (runAgent, src/agent.ts),
\* and its attempts stay below the limit.
THEOREM AgentTypeCorrect == AgentSpec => []AgentTypeOK
<1>1. AgentInv => AgentTypeOK
  BY DEF AgentInv, AgentTyped, AgentTypeOK, Hearings, Outcomes
<1> QED
  BY <1>1, OutcomesAreHonest, PTL

\* Whatever the tools, an answer that was the last word of an attempt stands,
\* and completed means work to show (runAgent, src/agent.ts).
THEOREM OutcomesStayHonest == AgentSpec => []OutcomeIsHonest
<1>1. AgentInv => OutcomeIsHonest
  BY DEF AgentInv
<1> QED
  BY <1>1, OutcomesAreHonest, PTL

\* A session that changed something is never repeated, an answer that was the
\* last word of an attempt stands, and completed means work to show (src/agent.ts);
\* for tools whose effects toolMayMutate sees.
THEOREM AttemptsStayHonest ==
  ASSUME NoDispatch
  PROVE  AgentSpec => []AttemptsAreHonest
<1>1. AgentInit => ChangesAreKnown
  BY DEF AgentInit, ChangesAreKnown
<1>2. AgentInv /\ ChangesAreKnown /\ [AgentNext]_agentVars => ChangesAreKnown'
  <2> SUFFICES ASSUME AgentInv, ChangesAreKnown, [AgentNext]_agentVars PROVE ChangesAreKnown'
    OBVIOUS
  <2>1. CASE AgentNext
    BY <2>1, ChangesKept, NoDispatch
  <2>2. CASE UNCHANGED agentVars
    BY <2>2 DEF agentVars, ChangesAreKnown
  <2> QED
    BY <2>1, <2>2
<1>3. AgentInv /\ ChangesAreKnown => AttemptsAreHonest
  BY DEF AgentInv, ChangesAreKnown, AttemptsAreHonest, ReplaysNothing
<1> QED
  BY <1>1, <1>2, <1>3, OutcomesAreHonest, PTL DEF AgentSpec
-----------------------------------------------------------------------------
(* A stage.                                                                *)

StageRuns ==
  [at : {"resolve", "index", "prepare", "preflight", "postflight", "finish", "returned", "thrown", "killed"},
   kind : {"agent", "container"}, pc : Nat \ {0}, exit : {0, 1, 64, 99, 124}, skip : BOOLEAN, failed : StageSteps,
   rowed : BOOLEAN, cleaned : BOOLEAN]
LeftBehind ==
  [row : {"none", "running", "success", "failed"}, label : BOOLEAN, proxy : BOOLEAN,
   artifacts : {"none", "local", "stored"}, spoilt : BOOLEAN]
StageTyped ==
  /\ stage \in StageRuns /\ leaves \in LeftBehind
  /\ stageLog \in [faults : 0..MaxStageFaults, kinds : SUBSET StageFaults]

\* A failure has an exit code, unless it is the agent's.
FailuresHaveCodes(run) == run.failed \notin {"nothing", "agent"} => run.exit # 0
\* What the two ends of a run did.
RowIsWritten ==
  stage.rowed => stage.at \in {"finish", "returned", "killed"} /\ (RowShowsOutcome \/ "index" \in stageLog.kinds)
IsCleanedUp ==
  stage.cleaned =>
    /\ stage.at \in {"finish", "returned", "killed"}
    /\ ~leaves.label /\ ~leaves.proxy /\ leaves.artifacts = "stored"
\* A run is over when both ends are reached, or its beginning failed.
OverWhenBothAre ==
  /\ stage.at = "returned" => stage.failed = "input" \/ (stage.rowed /\ stage.cleaned)
  /\ stage.at = "thrown" => {"hydrate", "prepare"} \cap stageLog.kinds # {}
  /\ stage.at = "resolve" => stage.failed = "nothing" /\ stage.exit = 0

StageInv ==
  /\ StageTyped /\ FailuresHaveCodes(stage) /\ RowIsWritten /\ IsCleanedUp /\ OverWhenBothAre
  /\ WorksOnCleanRuns

\* After a failed agent a postflight that changes something opens a draft at most.
DraftsAtMost == \A i \in DOMAIN Postflights : Postflights[i].mutates => Postflights[i].afterFailedAgent # "works"

\* What a failing step makes of a run.
LEMMA FailedType ==
  ASSUME NEW run \in StageRuns, FailuresHaveCodes(run), NEW exit \in {1, 64, 99, 124}, NEW step \in StageSteps
  PROVE  /\ Failed(run, exit, step) \in StageRuns /\ FailuresHaveCodes(Failed(run, exit, step))
         /\ Failed(run, exit, step).exit # 0
         /\ Failed(run, exit, step).at = run.at /\ Failed(run, exit, step).pc = run.pc
         /\ Failed(run, exit, step).rowed = run.rowed /\ Failed(run, exit, step).cleaned = run.cleaned
         /\ run.failed = "nothing" => Failed(run, exit, step).failed = step
<1> DEFINE code == IF run.exit = 0 THEN exit ELSE run.exit
           first == IF run.failed = "nothing" THEN step ELSE run.failed
<1>1. code \in {0, 1, 64, 99, 124} /\ code # 0 /\ first \in StageSteps
  BY DEF StageRuns
<1>2. Failed(run, exit, step) = [run EXCEPT !.exit = code, !.failed = first]
  BY DEF Failed
<1>3. run.failed = "nothing" => first = step
  OBVIOUS
<1> HIDE DEF code, first
<1> DEFINE r == [run EXCEPT !.exit = code, !.failed = first]
<1>4. r \in StageRuns
  BY <1>1 DEF StageRuns
<1>5. /\ r.exit = code /\ r.failed = first /\ r.at = run.at /\ r.pc = run.pc
      /\ r.rowed = run.rowed /\ r.cleaned = run.cleaned
  BY DEF StageRuns
<1>6. Failed(run, exit, step) = r
  BY <1>2
<1> HIDE DEF r
<1> QED
  BY <1>1, <1>3, <1>4, <1>5, <1>6 DEF FailuresHaveCodes

\* What a step that leaves the rest out makes of it.
LEMMA ReturnsType ==
  ASSUME NEW run \in StageRuns, FailuresHaveCodes(run), NEW exit \in {1, 64, 99, 124}, NEW step \in StageSteps
  PROVE  /\ Returns(run, exit, step) \in StageRuns /\ FailuresHaveCodes(Returns(run, exit, step))
         /\ Returns(run, exit, step).at = "finish"
         /\ Returns(run, exit, step).rowed = run.rowed /\ Returns(run, exit, step).cleaned = run.cleaned
<1> DEFINE r == Failed(run, exit, step)
<1>1. r \in StageRuns /\ r.rowed = run.rowed /\ r.cleaned = run.cleaned
  BY FailedType
<1>2. Returns(run, exit, step) = [r EXCEPT !.at = "finish", !.exit = exit]
  BY DEF Returns
<1> DEFINE q == [r EXCEPT !.at = "finish", !.exit = exit]
<1> HIDE DEF r
<1>3. q \in StageRuns
  BY <1>1 DEF StageRuns
<1>4. q.exit = exit /\ q.at = "finish" /\ q.rowed = r.rowed /\ q.cleaned = r.cleaned
  BY <1>1 DEF StageRuns
<1>5. Returns(run, exit, step) = q
  BY <1>2
<1> HIDE DEF q
<1> QED
  BY <1>1, <1>3, <1>4, <1>5 DEF FailuresHaveCodes

\* What the next entry of a list finds.
LEMMA AdvancesType ==
  ASSUME NEW run \in StageRuns, FailuresHaveCodes(run)
  PROVE  /\ Advances(run) \in StageRuns /\ FailuresHaveCodes(Advances(run))
         /\ Advances(run).at = run.at /\ Advances(run).rowed = run.rowed /\ Advances(run).cleaned = run.cleaned
  BY DEF Advances, StageRuns, FailuresHaveCodes

\* What the first postflight finds.
LEMMA ToPostflightsType ==
  ASSUME NEW run \in StageRuns, FailuresHaveCodes(run)
  PROVE  /\ ToPostflights(run) \in StageRuns /\ FailuresHaveCodes(ToPostflights(run))
         /\ ToPostflights(run).at = "postflight"
         /\ ToPostflights(run).rowed = run.rowed /\ ToPostflights(run).cleaned = run.cleaned
<1> DEFINE r == [run EXCEPT !.at = "postflight", !.pc = 1]
<1>1. ToPostflights(run) = r
  BY DEF ToPostflights
<1>2. r \in StageRuns
  <2>1. [run EXCEPT !.at = "postflight"] \in StageRuns
    BY DEF StageRuns
  <2>2. 1 \in Nat \ {0}
    OBVIOUS
  <2> QED
    BY <2>2 DEF StageRuns
<1>3. r.at = "postflight" /\ r.exit = run.exit /\ r.failed = run.failed /\ r.rowed = run.rowed /\ r.cleaned = run.cleaned
  BY DEF StageRuns
<1> HIDE DEF r
<1> QED
  BY <1>1, <1>2, <1>3 DEF FailuresHaveCodes

\* What a step at a place before the ends does to the run.
Middle == {"resolve", "index", "prepare", "preflight", "postflight"}
LEMMA MiddleSteps ==
  ASSUME StageInv, StageTyped', stage.at \in Middle, stage'.at \in (Middle \ {"resolve"}) \cup {"finish"},
         stage'.rowed = stage.rowed, stage'.cleaned = stage.cleaned, FailuresHaveCodes(stage'),
         leaves'.spoilt = leaves.spoilt
  PROVE  StageInv'
<1>1. ~stage.rowed /\ ~stage.cleaned
  BY DEF StageInv, RowIsWritten, IsCleanedUp, Middle
<1>2. ~stage'.rowed /\ ~stage'.cleaned
  BY <1>1
<1>3. FailuresHaveCodes(stage)'
  BY DEF FailuresHaveCodes
<1> QED
  BY <1>2, <1>3 DEF StageInv, RowIsWritten, IsCleanedUp, OverWhenBothAre, WorksOnCleanRuns, Middle

\* A fault is counted and noted.
LEMMA FaultType ==
  ASSUME StageTyped, NEW f, StageFault(f)
  PROVE  /\ stageLog' \in [faults : 0..MaxStageFaults, kinds : SUBSET StageFaults]
         /\ f \in stageLog'.kinds /\ stageLog.kinds \subseteq stageLog'.kinds
  BY StageAssumption DEF StageFault, StageTyped

\* Every step keeps the invariant, when drafts are the most.
LEMMA StageStep ==
  ASSUME StageInv, DraftsAtMost, StageNext
  PROVE  StageInv'
<1>1. StageTyped /\ stage \in StageRuns /\ leaves \in LeftBehind /\ FailuresHaveCodes(stage)
  BY DEF StageInv, StageTyped
<1>2. CASE ResolveStage
  <2>1. stage.at = "resolve" /\ UNCHANGED leaves /\ stage.failed = "nothing" /\ stage.exit = 0 /\ ~stage.rowed /\ ~stage.cleaned
    BY <1>2 DEF ResolveStage, StageInv, OverWhenBothAre, RowIsWritten, IsCleanedUp
  <2>2. CASE \E exit \in InputExits :
               stage' = [Failed(stage, exit, "input") EXCEPT !.at = "returned"] /\ UNCHANGED stageLog
    <3>1. PICK exit \in {64, 99} :
            stage' = [Failed(stage, exit, "input") EXCEPT !.at = "returned"] /\ UNCHANGED stageLog
      BY <2>2 DEF InputExits
    <3> DEFINE r == Failed(stage, exit, "input")
    <3>2. r \in StageRuns /\ r.failed = "input" /\ r.exit # 0 /\ r.rowed = stage.rowed /\ r.cleaned = stage.cleaned
      BY <1>1, <2>1, FailedType DEF StageSteps
    <3>3. stage' = [r EXCEPT !.at = "returned"]
      BY <3>1
    <3> HIDE DEF r
    <3>4. /\ stage' \in StageRuns /\ stage'.at = "returned" /\ stage'.failed = "input" /\ stage'.exit # 0
          /\ ~stage'.rowed /\ ~stage'.cleaned
      BY <2>1, <3>2, <3>3 DEF StageRuns
    <3> QED
      BY <2>1, <3>1, <3>4
         DEF StageInv, StageTyped, FailuresHaveCodes, RowIsWritten, IsCleanedUp, OverWhenBothAre, WorksOnCleanRuns
  <2>3. CASE \E kind \in StageKinds : stage' = [stage EXCEPT !.at = "index", !.kind = kind] /\ UNCHANGED stageLog
    <3>1. PICK kind \in {"agent", "container"} :
            stage' = [stage EXCEPT !.at = "index", !.kind = kind] /\ UNCHANGED stageLog
      BY <2>3, StageAssumption DEF StageAssumption
    <3>2. /\ stage' \in StageRuns /\ stage'.at = "index" /\ stage'.rowed = stage.rowed /\ stage'.cleaned = stage.cleaned
          /\ FailuresHaveCodes(stage')
      BY <1>1, <3>1 DEF StageRuns, FailuresHaveCodes
    <3> QED
      BY <1>1, <2>1, <3>1, <3>2, MiddleSteps DEF StageTyped, Middle
  <2>4. CASE StageFault("hydrate") /\ stage' = [stage EXCEPT !.at = "thrown"]
    <3>1. /\ stage' \in StageRuns /\ stage'.at = "thrown" /\ ~stage'.rowed /\ ~stage'.cleaned
          /\ FailuresHaveCodes(stage')
      BY <1>1, <2>1, <2>4 DEF StageRuns, FailuresHaveCodes
    <3>2. "hydrate" \in stageLog'.kinds /\ StageTyped'
      BY <1>1, <2>1, <2>4, <3>1, FaultType DEF StageTyped
    <3> QED
      BY <2>1, <3>1, <3>2 DEF StageInv, FailuresHaveCodes, RowIsWritten, IsCleanedUp, OverWhenBothAre, WorksOnCleanRuns
  <2> QED
    BY <1>2, <2>2, <2>3, <2>4 DEF ResolveStage
<1>3. CASE IndexRunning
  <2>1. stage.at = "index" /\ stage' = [stage EXCEPT !.at = "prepare"]
    BY <1>3 DEF IndexRunning
  <2>2. /\ stage' \in StageRuns /\ stage'.at = "prepare" /\ stage'.rowed = stage.rowed /\ stage'.cleaned = stage.cleaned
        /\ FailuresHaveCodes(stage')
    BY <1>1, <2>1 DEF StageRuns, FailuresHaveCodes
  <2>3. leaves' \in LeftBehind /\ leaves'.spoilt = leaves.spoilt
    BY <1>1, <1>3 DEF IndexRunning, LeftBehind
  <2>4. stageLog' \in [faults : 0..MaxStageFaults, kinds : SUBSET StageFaults]
    BY <1>1, <1>3, FaultType DEF IndexRunning, StageTyped
  <2> QED
    BY <2>1, <2>2, <2>3, <2>4, MiddleSteps DEF StageTyped, Middle
<1>4. CASE PrepareStage
  <2>1. stage.at = "prepare"
    BY <1>4 DEF PrepareStage
  <2>2. CASE /\ stage' = [stage EXCEPT !.at = "preflight"] /\ UNCHANGED stageLog
             /\ leaves' = [leaves EXCEPT !.artifacts = "local"]
    <3>1. /\ stage' \in StageRuns /\ stage'.at = "preflight" /\ stage'.rowed = stage.rowed /\ stage'.cleaned = stage.cleaned
          /\ FailuresHaveCodes(stage')
      BY <1>1, <2>2 DEF StageRuns, FailuresHaveCodes
    <3>2. leaves' \in LeftBehind /\ leaves'.spoilt = leaves.spoilt
      BY <1>1, <2>2 DEF LeftBehind
    <3> QED
      BY <1>1, <2>1, <2>2, <3>1, <3>2, MiddleSteps DEF StageTyped, Middle
  <2>3. CASE StageFault("prepare") /\ stage' = [stage EXCEPT !.at = "thrown"] /\ UNCHANGED leaves
    <3>1. /\ stage' \in StageRuns /\ stage'.at = "thrown" /\ stage'.rowed = stage.rowed /\ stage'.cleaned = stage.cleaned
          /\ FailuresHaveCodes(stage')
      BY <1>1, <2>3 DEF StageRuns, FailuresHaveCodes
    <3>2. "prepare" \in stageLog'.kinds /\ StageTyped'
      BY <1>1, <2>3, <3>1, FaultType DEF StageTyped
    <3> QED
      BY <2>1, <2>3, <3>1, <3>2 DEF StageInv, FailuresHaveCodes, RowIsWritten, IsCleanedUp, OverWhenBothAre, WorksOnCleanRuns
  <2> QED
    BY <1>4, <2>2, <2>3 DEF PrepareStage
<1>5. CASE ScriptPreflight \/ ShellPreflight
  <2>1. stage.at = "preflight"
    BY <1>5 DEF ScriptPreflight, ShellPreflight
  <2>2. /\ stage' \in StageRuns /\ stage'.at \in {"preflight", "finish"} /\ FailuresHaveCodes(stage')
        /\ stage'.rowed = stage.rowed /\ stage'.cleaned = stage.cleaned
    <3>1. CASE \E skip, refuses \in BOOLEAN :
                 LET ran == [(IF refuses THEN Failed(stage, 1, "script") ELSE stage) EXCEPT !.skip = @ \/ skip] IN
                 stage' = IF ran.skip /\ ran.exit # 0 THEN Returns(ran, ran.exit, "script") ELSE Advances(ran)
      <4>1. PICK skip, refuses \in BOOLEAN :
              LET ran == [(IF refuses THEN Failed(stage, 1, "script") ELSE stage) EXCEPT !.skip = @ \/ skip] IN
              stage' = IF ran.skip /\ ran.exit # 0 THEN Returns(ran, ran.exit, "script") ELSE Advances(ran)
        BY <3>1
      <4> DEFINE r == IF refuses THEN Failed(stage, 1, "script") ELSE stage
                 skips == r.skip \/ skip
                 ran == [r EXCEPT !.skip = skips]
      <4>2. r \in StageRuns /\ FailuresHaveCodes(r) /\ r.at = "preflight" /\ r.rowed = stage.rowed /\ r.cleaned = stage.cleaned
        BY <1>1, <2>1, FailedType DEF StageSteps
      <4>3. stage' = IF ran.skip /\ ran.exit # 0 THEN Returns(ran, ran.exit, "script") ELSE Advances(ran)
        BY <4>1
      <4> HIDE DEF r
      <4>4. skips \in BOOLEAN
        BY <4>2 DEF StageRuns
      <4> HIDE DEF skips
      <4>5. /\ ran \in StageRuns /\ FailuresHaveCodes(ran) /\ ran.at = "preflight"
            /\ ran.rowed = stage.rowed /\ ran.cleaned = stage.cleaned
        BY <4>2, <4>4 DEF StageRuns, FailuresHaveCodes
      <4> HIDE DEF ran
      <4>6. ran.exit # 0 => ran.exit \in {1, 64, 99, 124}
        BY <4>5 DEF StageRuns
      <4>7. "script" \in StageSteps
        BY DEF StageSteps
      <4>8. CASE ran.skip /\ ran.exit # 0
        <5>1. stage' = Returns(ran, ran.exit, "script") /\ ran.exit \in {1, 64, 99, 124}
          BY <4>3, <4>6, <4>8
        <5>2. PICK exit \in {1, 64, 99, 124} : stage' = Returns(ran, exit, "script")
          BY <5>1
        <5> QED
          BY <4>5, <4>7, <5>2, ReturnsType
      <4>9. CASE ~(ran.skip /\ ran.exit # 0)
        BY <4>3, <4>5, <4>9, AdvancesType
      <4> QED
        BY <4>8, <4>9
    <3>2. CASE stage' = Caught("script")
      BY <1>1, <3>2, ReturnsType DEF Caught, StageSteps
    <3>3. CASE \E skip \in BOOLEAN : stage' = Advances([stage EXCEPT !.skip = @ \/ skip])
      <4>1. PICK skip \in BOOLEAN : stage' = Advances([stage EXCEPT !.skip = @ \/ skip])
        BY <3>3
      <4> DEFINE skips == stage.skip \/ skip
      <4>2. skips \in BOOLEAN /\ stage' = Advances([stage EXCEPT !.skip = skips])
        BY <1>1, <4>1 DEF StageRuns
      <4> HIDE DEF skips
      <4>3. /\ [stage EXCEPT !.skip = skips] \in StageRuns /\ FailuresHaveCodes([stage EXCEPT !.skip = skips])
            /\ [stage EXCEPT !.skip = skips].at = "preflight"
            /\ [stage EXCEPT !.skip = skips].rowed = stage.rowed /\ [stage EXCEPT !.skip = skips].cleaned = stage.cleaned
        BY <1>1, <2>1, <4>2 DEF StageRuns, FailuresHaveCodes
      <4> QED
        BY <4>2, <4>3, AdvancesType
    <3>4. CASE \E exit \in {1, 124} : stage' = Advances([Failed(stage, exit, "shell") EXCEPT !.skip = TRUE])
      <4>1. PICK exit \in {1, 124} : stage' = Advances([Failed(stage, exit, "shell") EXCEPT !.skip = TRUE])
        BY <3>4
      <4> DEFINE r == Failed(stage, exit, "shell")
      <4>2. r \in StageRuns /\ FailuresHaveCodes(r) /\ r.at = "preflight" /\ r.rowed = stage.rowed /\ r.cleaned = stage.cleaned
        BY <1>1, <2>1, FailedType DEF StageSteps
      <4>3. stage' = Advances([r EXCEPT !.skip = TRUE])
        BY <4>1
      <4> HIDE DEF r
      <4>4. /\ [r EXCEPT !.skip = TRUE] \in StageRuns /\ FailuresHaveCodes([r EXCEPT !.skip = TRUE])
            /\ [r EXCEPT !.skip = TRUE].at = "preflight"
            /\ [r EXCEPT !.skip = TRUE].rowed = stage.rowed /\ [r EXCEPT !.skip = TRUE].cleaned = stage.cleaned
        BY <4>2 DEF StageRuns, FailuresHaveCodes
      <4> QED
        BY <4>3, <4>4, AdvancesType
    <3> QED
      BY <1>5, <3>1, <3>2, <3>3, <3>4 DEF ScriptPreflight, ShellPreflight
  <2>3. leaves' \in LeftBehind /\ leaves'.spoilt = leaves.spoilt
    <3>1. CASE UNCHANGED leaves
      BY <1>1, <3>1
    <3>2. CASE ScriptPreflight
      <4> DEFINE label == leaves.label \/ Preflight.label
      <4>1. label \in BOOLEAN /\ leaves' = [leaves EXCEPT !.label = label]
        BY <1>1, <3>2 DEF ScriptPreflight, LeftBehind
      <4> HIDE DEF label
      <4> QED
        BY <1>1, <4>1 DEF LeftBehind
    <3> QED
      BY <1>5, <3>1, <3>2 DEF ShellPreflight
  <2>4. stageLog' \in [faults : 0..MaxStageFaults, kinds : SUBSET StageFaults]
    BY <1>1, <1>5, FaultType DEF ScriptPreflight, ShellPreflight, StageTyped
  <2> QED
    BY <2>1, <2>2, <2>3, <2>4, MiddleSteps DEF StageTyped, Middle
<1>6. CASE StageAgent \/ StageChildren
  <2>1. stage.at = "preflight"
    BY <1>6 DEF StageAgent, StageChildren, PreflightsDone
  <2>2. /\ stage' \in StageRuns /\ stage'.at \in {"postflight", "finish"} /\ FailuresHaveCodes(stage')
        /\ stage'.rowed = stage.rowed /\ stage'.cleaned = stage.cleaned
    <3>1. CASE \E failed \in BOOLEAN :
                 stage' = ToPostflights(IF failed THEN [stage EXCEPT !.failed = "agent"] ELSE stage)
      <4>1. PICK failed \in BOOLEAN : stage' = ToPostflights(IF failed THEN [stage EXCEPT !.failed = "agent"] ELSE stage)
        BY <3>1
      <4> DEFINE r == IF failed THEN [stage EXCEPT !.failed = "agent"] ELSE stage
      <4>2. r \in StageRuns /\ FailuresHaveCodes(r) /\ r.rowed = stage.rowed /\ r.cleaned = stage.cleaned
        BY <1>1 DEF StageRuns, FailuresHaveCodes, StageSteps
      <4>3. stage' = ToPostflights(r)
        BY <4>1
      <4> HIDE DEF r
      <4> QED
        BY <4>2, <4>3, ToPostflightsType
    <3>2. CASE stage' = Returns(stage, 99, "prompt") \/ stage' = Returns(stage, 99, "model")
      BY <1>1, <3>2, ReturnsType DEF StageSteps
    <3>3. CASE stage' = ToPostflights(stage)
      BY <1>1, <3>3, ToPostflightsType
    <3>4. CASE stage' = ToPostflights([Failed(stage, 1, "children") EXCEPT !.exit = 1])
      <4> DEFINE r == Failed(stage, 1, "children")
      <4>1. r \in StageRuns /\ r.rowed = stage.rowed /\ r.cleaned = stage.cleaned
        BY <1>1, FailedType DEF StageSteps
      <4>2. stage' = ToPostflights([r EXCEPT !.exit = 1])
        BY <3>4
      <4> HIDE DEF r
      <4>3. /\ [r EXCEPT !.exit = 1] \in StageRuns /\ FailuresHaveCodes([r EXCEPT !.exit = 1])
            /\ [r EXCEPT !.exit = 1].rowed = stage.rowed /\ [r EXCEPT !.exit = 1].cleaned = stage.cleaned
        BY <4>1 DEF StageRuns, FailuresHaveCodes
      <4> QED
        BY <4>2, <4>3, ToPostflightsType
    <3> QED
      BY <1>6, <3>1, <3>2, <3>3, <3>4 DEF StageAgent, StageChildren, ModelFails
  <2>3. leaves' \in LeftBehind /\ leaves'.spoilt = leaves.spoilt
    BY <1>1, <1>6 DEF StageAgent, StageChildren, ModelFails, LeftBehind
  <2>4. stageLog' \in [faults : 0..MaxStageFaults, kinds : SUBSET StageFaults]
    BY <1>1, <1>6, FaultType DEF StageAgent, StageChildren, ModelFails, StageTyped
  <2> QED
    BY <2>1, <2>2, <2>3, <2>4, MiddleSteps DEF StageTyped, Middle
<1>7. CASE RunPostflight
  <2>1. stage.at = "postflight" /\ stage.pc \in DOMAIN Postflights /\ Postflight.mutates \in BOOLEAN
    <3>1. stage.at = "postflight" /\ stage.pc <= Len(Postflights) /\ stage.pc \in Nat \ {0}
      BY <1>1, <1>7 DEF RunPostflight, StageRuns
    <3> DEFINE n == stage.pc
               Entry == [mutates : BOOLEAN, afterFailedAgent : {"nothing", "draft", "works"}]
    <3>2. Postflights \in Seq(Entry)
      BY StageAssumption
    <3> HIDE DEF Entry
    <3>5. DOMAIN Postflights = 1..Len(Postflights) /\ Len(Postflights) \in Nat
      BY <3>2
    <3>6. n \in Nat /\ n # 0 /\ n <= Len(Postflights)
      BY <3>1
    <3> HIDE DEF n
    <3>7. n \in 1..Len(Postflights)
      BY <3>5, <3>6
    <3>3. n \in DOMAIN Postflights
      BY <3>5, <3>7
    <3>4. Postflights[n] \in Entry
      BY <3>2, <3>3
    <3> QED
      BY <3>1, <3>3, <3>4 DEF n, Entry, Postflight
  <2>2. ASSUME NEW exit \in {1, 99}, stage' = Advances(Failed(stage, exit, "postflight"))
        PROVE  /\ stage' \in StageRuns /\ stage'.at = "postflight" /\ FailuresHaveCodes(stage')
               /\ stage'.rowed = stage.rowed /\ stage'.cleaned = stage.cleaned
    <3> DEFINE r == Failed(stage, exit, "postflight")
    <3>1. /\ r \in StageRuns /\ FailuresHaveCodes(r) /\ r.at = "postflight"
          /\ r.rowed = stage.rowed /\ r.cleaned = stage.cleaned
      BY <1>1, <2>1, FailedType DEF StageSteps
    <3>2. stage' = Advances(r)
      BY <2>2
    <3> HIDE DEF r
    <3> QED
      BY <3>1, <3>2, AdvancesType
  <2>4. \/ stage' = Advances(stage)
        \/ stage' = Advances(Failed(stage, 1, "postflight"))
        \/ stage' = Advances(Failed(stage, 99, "postflight"))
    BY <1>7 DEF RunPostflight
  <2>5. /\ stage' \in StageRuns /\ stage'.at = "postflight" /\ FailuresHaveCodes(stage')
        /\ stage'.rowed = stage.rowed /\ stage'.cleaned = stage.cleaned
    BY <1>1, <2>1, <2>2, <2>4, AdvancesType
  <2>6. Postflight.mutates /\ ~SparesWork => stage.failed = "nothing"
    BY <1>1, <2>1, DraftsAtMost DEF SparesWork, HeldBack, Postflight, FailuresHaveCodes, DraftsAtMost
  <2>7. leaves' \in LeftBehind /\ leaves'.spoilt = leaves.spoilt
    <3> DEFINE spoilt == leaves.spoilt \/ (Postflight.mutates /\ ~SparesWork /\ stage.failed # "nothing")
    <3>1. spoilt = leaves.spoilt
      BY <1>1, <2>6 DEF LeftBehind
    <3>2. leaves' = [leaves EXCEPT !.spoilt = spoilt]
      BY <1>7 DEF RunPostflight
    <3> HIDE DEF spoilt
    <3> QED
      BY <1>1, <3>1, <3>2 DEF LeftBehind
  <2>8. stageLog' \in [faults : 0..MaxStageFaults, kinds : SUBSET StageFaults]
    BY <1>1, <1>7, FaultType DEF RunPostflight, StageTyped
  <2> QED
    BY <2>1, <2>5, <2>7, <2>8, MiddleSteps DEF StageTyped, Middle
<1>8. CASE CheckOutput
  <2>1. stage.at = "postflight" /\ UNCHANGED <<leaves, stageLog>>
    BY <1>8 DEF CheckOutput
  <2>2. CASE stage' = [stage EXCEPT !.at = "finish"]
    <3>1. /\ stage' \in StageRuns /\ stage'.at = "finish" /\ FailuresHaveCodes(stage')
          /\ stage'.rowed = stage.rowed /\ stage'.cleaned = stage.cleaned
      BY <1>1, <2>2 DEF StageRuns, FailuresHaveCodes
    <3> QED
      BY <1>1, <2>1, <3>1, MiddleSteps DEF StageTyped, Middle
  <2>3. CASE stage' = Returns(stage, 99, "contract")
    <3>1. /\ stage' \in StageRuns /\ stage'.at = "finish" /\ FailuresHaveCodes(stage')
          /\ stage'.rowed = stage.rowed /\ stage'.cleaned = stage.cleaned
      BY <1>1, <2>3, ReturnsType DEF StageSteps
    <3> QED
      BY <1>1, <2>1, <3>1, MiddleSteps DEF StageTyped, Middle
  <2> QED
    BY <1>8, <2>2, <2>3 DEF CheckOutput
<1>9. CASE FinishRow
  <2> DEFINE r == [stage EXCEPT !.rowed = TRUE]
  <2>1. stage.at = "finish" /\ stage' = Settles(r)
    BY <1>9 DEF FinishRow
  <2>2. /\ r \in StageRuns /\ r.at = "finish" /\ r.rowed /\ r.cleaned = stage.cleaned
        /\ r.exit = stage.exit /\ r.failed = stage.failed
    BY <1>1, <2>1 DEF StageRuns
  <2> HIDE DEF r
  <2>3. stage' = IF r.cleaned THEN [r EXCEPT !.at = "returned"] ELSE r
    BY <2>1, <2>2 DEF Settles
  <2>4. /\ stage' \in StageRuns /\ stage'.at = (IF stage.cleaned THEN "returned" ELSE "finish")
        /\ stage'.rowed /\ stage'.cleaned = stage.cleaned
        /\ stage'.exit = stage.exit /\ stage'.failed = stage.failed
    BY <2>2, <2>3 DEF StageRuns
  <2>5. CASE leaves' = [leaves EXCEPT !.row = IF stage.exit = 0 THEN "success" ELSE "failed"] /\ UNCHANGED stageLog
    <3>1. /\ leaves' \in LeftBehind /\ leaves'.row = (IF stage.exit = 0 THEN "success" ELSE "failed")
          /\ leaves'.label = leaves.label /\ leaves'.proxy = leaves.proxy
          /\ leaves'.artifacts = leaves.artifacts /\ leaves'.spoilt = leaves.spoilt
      BY <1>1, <2>5 DEF LeftBehind
    <3>2. RowShowsOutcome'
      BY <2>4, <3>1 DEF RowShowsOutcome
    <3> QED
      BY <2>1, <2>4, <2>5, <3>1, <3>2
         DEF StageInv, StageTyped, FailuresHaveCodes, RowIsWritten, IsCleanedUp, OverWhenBothAre, WorksOnCleanRuns
  <2>6. CASE StageFault("index") /\ UNCHANGED leaves
    <3>1. "index" \in stageLog'.kinds /\ StageTyped'
      BY <1>1, <2>4, <2>6, FaultType DEF StageTyped
    <3> QED
      BY <2>1, <2>4, <2>6, <3>1
         DEF StageInv, FailuresHaveCodes, RowIsWritten, IsCleanedUp, OverWhenBothAre, WorksOnCleanRuns
  <2> QED
    BY <1>9, <2>5, <2>6 DEF FinishRow
<1>10. CASE CleanUp
  <2> DEFINE r == [stage EXCEPT !.cleaned = TRUE]
  <2>1. stage.at = "finish" /\ stage' = Settles(r) /\ UNCHANGED stageLog
    BY <1>10 DEF CleanUp
  <2>2. /\ r \in StageRuns /\ r.at = "finish" /\ r.cleaned /\ r.rowed = stage.rowed
        /\ r.exit = stage.exit /\ r.failed = stage.failed
    BY <1>1, <2>1 DEF StageRuns
  <2> HIDE DEF r
  <2>3. stage' = IF r.rowed THEN [r EXCEPT !.at = "returned"] ELSE r
    BY <2>1, <2>2 DEF Settles
  <2>4. /\ stage' \in StageRuns /\ stage'.at = (IF stage.rowed THEN "returned" ELSE "finish")
        /\ stage'.cleaned /\ stage'.rowed = stage.rowed
        /\ stage'.exit = stage.exit /\ stage'.failed = stage.failed
    BY <2>2, <2>3 DEF StageRuns
  <2>5. /\ leaves' \in LeftBehind /\ leaves'.row = leaves.row /\ ~leaves'.label /\ ~leaves'.proxy
        /\ leaves'.artifacts = "stored" /\ leaves'.spoilt = leaves.spoilt
    BY <1>1, <1>10 DEF CleanUp, LeftBehind
  <2>6. RowShowsOutcome' = RowShowsOutcome
    BY <2>4, <2>5 DEF RowShowsOutcome
  <2> QED
    BY <2>1, <2>4, <2>5, <2>6
       DEF StageInv, StageTyped, FailuresHaveCodes, RowIsWritten, IsCleanedUp, OverWhenBothAre, WorksOnCleanRuns
<1>11. CASE StageKilled
  <2>1. /\ stage' = [stage EXCEPT !.at = "killed"] /\ UNCHANGED leaves /\ StageFault("killed")
    BY <1>11 DEF StageKilled
  <2>2. /\ stage' \in StageRuns /\ stage'.at = "killed" /\ stage'.rowed = stage.rowed /\ stage'.cleaned = stage.cleaned
        /\ stage'.exit = stage.exit /\ stage'.failed = stage.failed
    BY <1>1, <2>1 DEF StageRuns
  <2>3. stageLog.kinds \subseteq stageLog'.kinds /\ StageTyped'
    BY <1>1, <2>1, <2>2, FaultType DEF StageTyped
  <2>4. RowShowsOutcome' = RowShowsOutcome
    BY <2>1, <2>2 DEF RowShowsOutcome
  <2> QED
    BY <2>1, <2>2, <2>3, <2>4
       DEF StageInv, FailuresHaveCodes, RowIsWritten, IsCleanedUp, OverWhenBothAre, WorksOnCleanRuns
<1> QED
  BY <1>2, <1>3, <1>4, <1>5, <1>6, <1>7, <1>8, <1>9, <1>10, <1>11 DEF StageNext

\* The invariant of a stage.
LEMMA StageInvariance ==
  ASSUME DraftsAtMost
  PROVE  StageSpec => []StageInv
<1>1. StageInit => StageInv
  BY StageAssumption
     DEF StageInit, StageInv, StageTyped, StageRuns, LeftBehind, StageSteps, FailuresHaveCodes, RowIsWritten,
         IsCleanedUp, OverWhenBothAre, WorksOnCleanRuns
<1>2. StageInv /\ [StageNext]_stageVars => StageInv'
  <2> SUFFICES ASSUME StageInv, [StageNext]_stageVars PROVE StageInv'
    OBVIOUS
  <2>1. CASE StageNext
    BY <2>1, StageStep, DraftsAtMost
  <2>2. CASE UNCHANGED stageVars
    BY <2>2 DEF stageVars, StageInv, StageTyped, FailuresHaveCodes, RowIsWritten, RowShowsOutcome, IsCleanedUp,
                OverWhenBothAre, WorksOnCleanRuns
  <2> QED
    BY <2>1, <2>2
<1> QED
  BY <1>1, <1>2, PTL DEF StageSpec

\* However a stage ends, its row shows the outcome, nothing of it is left, and
\* what changes the repository or a pull request worked on a clean run only
\* (runImplementation, src/executor.ts); for scripts that open a draft at most
\* after a failed agent.
THEOREM StagesEndCleanly ==
  ASSUME DraftsAtMost
  PROVE  StageSpec => [](StageTypeOK /\ StageEndsCleanly)
<1>1. StageInv => StageTypeOK /\ StageEndsCleanly
  <2> SUFFICES ASSUME StageInv PROVE StageTypeOK /\ StageEndsCleanly
    OBVIOUS
  <2>1. StageTypeOK
    BY DEF StageInv, StageTyped, StageRuns, LeftBehind, StageTypeOK
  <2>2. StageIsSettled
    BY DEF StageInv, RowIsWritten, IsCleanedUp, OverWhenBothAre, StageIsSettled
  <2> QED
    BY <2>1, <2>2 DEF StageInv, StageEndsCleanly
<1> QED
  BY <1>1, StageInvariance, DraftsAtMost, PTL
-----------------------------------------------------------------------------
(* The planned jobs of an issue.                                           *)

AllKeys == JobKeys \cup {OtherKey}
JobStates == [AllKeys -> JobStatus]
Planners ==
  [at : {"idle", "plan", "store", "load", "work", "return", "ended"}, hops : Seq(Nat), job : AllKeys,
   seen : JobStates, exit : {0, 1, 99}]
JobsTyped ==
  /\ issueJobs \in JobStates /\ planner \in Planners
  /\ other \in [at : {"idle", "work"}, seen : JobStates]
  /\ jobsLog \in [triggers : Nat, faults : Nat, recorded : SUBSET JobKeys]
  /\ planner.at \notin {"idle", "ended"} => planner.hops # <<>>

\* One run of the issue at a time, which knows what is stored.
OneRun == planner.at = "idle" \/ other.at = "idle"
RunsKnow ==
  /\ planner.at \in {"store", "work"} => planner.seen = issueJobs
  /\ other.at = "work" => other.seen = issueJobs
\* A success that was stored stays, and no job that has one is chosen.
SuccessStays == \A k \in jobsLog.recorded : issueJobs[k] = "succeeded"
ChosenIsOpen == planner.at \in {"load", "work"} => planner.job \in JobKeys /\ issueJobs[planner.job] # "succeeded"
EndIsComplete == planner.at = "ended" /\ planner.exit = 0 => \A k \in JobKeys : issueJobs[k] = "succeeded"

JobsInv == JobsTyped /\ OneRun /\ RunsKnow /\ SuccessStays /\ ChosenIsOpen /\ EndIsComplete

\* A set of numbers that is not empty has a least one.
LEMMA LeastIndex ==
  ASSUME NEW T \in SUBSET Nat, T # {}
  PROVE  \E x \in T : \A y \in T : x <= y
<1> DEFINE Less == OpToRel(<, Nat)
<1>1. IsWellFoundedOn(Less, Nat)
  BY NatLessThanWellFounded
<1>2. \A x, y \in Nat : <<y, x>> \in Less <=> y < x
  BY DEF OpToRel
<1> HIDE DEF Less
<1>3. PICK x \in T : \A y \in T : <<y, x>> \notin Less
  BY <1>1, WFMin
<1>4. \A y \in T : ~(y < x)
  BY <1>2, <1>3
<1> QED
  BY <1>3, <1>4

\* The job that is next is a planned one that has not succeeded.
LEMMA NextJob ==
  ASSUME NEW jobs \in JobStates, Unfinished(jobs) # {}
  PROVE  First(Unfinished(jobs)) \in JobKeys /\ jobs[First(Unfinished(jobs))] # "succeeded"
<1> DEFINE U == Unfinished(jobs)
           i == CHOOSE i \in U : \A j \in U : i <= j
<1>1. U \subseteq DOMAIN PlannedJobs /\ DOMAIN PlannedJobs \subseteq Nat
  BY TaskJobsAssumption DEF Unfinished
<1>2. \E x \in U : \A y \in U : x <= y
  BY <1>1, LeastIndex
<1> HIDE DEF U
<1>3. i \in U
  BY <1>2
<1>4. First(U) = PlannedJobs[i]
  BY DEF First
<1> HIDE DEF i
<1>5. i \in DOMAIN PlannedJobs /\ jobs[PlannedJobs[i]] # "succeeded"
  BY <1>3 DEF U, Unfinished
<1> QED
  BY <1>4, <1>5 DEF U, JobKeys

\* Storing the plan changes no success.
LEMMA UpsertedKeeps ==
  ASSUME NEW jobs \in JobStates
  PROVE  /\ Upserted(jobs) \in JobStates
         /\ \A k \in AllKeys : Upserted(jobs)[k] = "succeeded" <=> jobs[k] = "succeeded"
  BY DEF Upserted, JobStates, JobStatus

\* A process that ends, and one that is gone.
LEMMA EndsType ==
  ASSUME JobsTyped, NEW exit \in {0, 1, 99}, PlannerEnds(exit)
  PROVE  planner' \in Planners /\ planner'.at = "ended" /\ planner'.exit = exit
<1>1. planner \in Planners /\ planner' = [planner EXCEPT !.at = "ended", !.exit = exit]
  BY DEF PlannerEnds, JobsTyped
<1> DEFINE p == [planner EXCEPT !.at = "ended", !.exit = exit]
<1>2. p \in Planners
  BY <1>1 DEF Planners
<1>3. p.at = "ended" /\ p.exit = exit
  BY <1>1 DEF Planners
<1> QED
  BY <1>1, <1>2, <1>3
\* It has read nothing.
LEMMA NoPlannerType ==
  NoPlanner \in Planners /\ NoPlanner.at = "idle" /\ NoJobs \in JobStates
<1>1. NoJobs \in JobStates
  BY DEF NoJobs, JobStates, AllKeys, JobStatus
<1>2. OtherKey \in AllKeys /\ <<>> \in Seq(Nat)
  BY DEF AllKeys
<1> QED
  BY <1>1, <1>2 DEF NoPlanner, Planners

\* Every step keeps the invariant, when no other run of the issue overlaps.
LEMMA JobsStep ==
  ASSUME JobsInv, ~Overlap, TaskJobsNext
  PROVE  JobsInv'
<1>1. /\ issueJobs \in JobStates /\ planner \in Planners /\ planner.seen \in JobStates /\ planner.job \in AllKeys
      /\ other \in [at : {"idle", "work"}, seen : JobStates] /\ other.seen \in JobStates
      /\ jobsLog \in [triggers : Nat, faults : Nat, recorded : SUBSET JobKeys] /\ JobsTyped
      /\ planner.hops \in Seq(Nat)
  BY DEF JobsInv, JobsTyped, Planners
<1> DEFINE Logs == [triggers : Nat, faults : Nat, recorded : SUBSET JobKeys]
<1>2. JobFault => jobsLog' \in Logs /\ jobsLog'.recorded = jobsLog.recorded
  BY <1>1 DEF JobFault
<1>3. CASE TriggerPlanner
  <2>1. planner.at = "idle" /\ other.at = "idle" /\ UNCHANGED <<issueJobs, other>>
    BY <1>3 DEF TriggerPlanner
  <2>2. <<0>> \in Seq(Nat) /\ <<0>> # <<>>
    OBVIOUS
  <2>3. planner' \in Planners /\ planner'.at = "plan" /\ planner'.hops = <<0>>
    BY <1>3, <2>2, NoPlannerType DEF TriggerPlanner, Planners
  <2>4. jobsLog' \in Logs /\ jobsLog'.recorded = jobsLog.recorded
    BY <1>1, <1>3 DEF TriggerPlanner
  <2> QED
    BY <1>1, <2>1, <2>2, <2>3, <2>4
       DEF JobsInv, JobsTyped, OneRun, RunsKnow, SuccessStays, ChosenIsOpen, EndIsComplete
<1>4. CASE ReadPlan \/ LoadJob
  <2>1. UNCHANGED <<issueJobs, other>> /\ planner.at \in {"plan", "load"} /\ other.at = "idle"
    BY <1>4 DEF ReadPlan, LoadJob, JobsInv, OneRun
  <2>2. CASE PlannerEnds(99) /\ JobFault
    <3>1. planner' \in Planners /\ planner'.at = "ended" /\ planner'.exit = 99
      BY <1>1, <2>2, EndsType
    <3> QED
      BY <1>1, <1>2, <2>1, <2>2, <3>1
         DEF JobsInv, JobsTyped, OneRun, RunsKnow, SuccessStays, ChosenIsOpen, EndIsComplete
  <2>3. CASE planner' = [planner EXCEPT !.at = "store", !.seen = issueJobs] /\ UNCHANGED jobsLog
    <3>1. planner' \in Planners
      BY <1>1, <2>3 DEF Planners
    <3>2. planner'.at = "store" /\ planner'.seen = issueJobs /\ planner'.hops = planner.hops
      BY <1>1, <2>3 DEF Planners
    <3> QED
      BY <1>1, <2>1, <2>3, <3>1, <3>2
         DEF JobsInv, JobsTyped, OneRun, RunsKnow, SuccessStays, ChosenIsOpen, EndIsComplete
  <2>4. CASE planner' = [planner EXCEPT !.at = "work", !.seen = issueJobs] /\ UNCHANGED jobsLog /\ planner.at = "load"
    <3>1. planner' \in Planners
      BY <1>1, <2>4 DEF Planners
    <3>2. /\ planner'.at = "work" /\ planner'.seen = issueJobs /\ planner'.hops = planner.hops
          /\ planner'.job = planner.job
      BY <1>1, <2>4 DEF Planners
    <3> QED
      BY <1>1, <2>1, <2>4, <3>1, <3>2
         DEF JobsInv, JobsTyped, OneRun, RunsKnow, SuccessStays, ChosenIsOpen, EndIsComplete
  <2> QED
    BY <1>4, <2>2, <2>3, <2>4 DEF ReadPlan, LoadJob
<1>5. CASE StorePlan
  <2>1. UNCHANGED other /\ planner.at = "store" /\ other.at = "idle" /\ planner.seen = issueJobs /\ planner.hops # <<>>
    BY <1>5 DEF StorePlan, JobsInv, JobsTyped, OneRun, RunsKnow
  <2>2. CASE Failing("write") /\ PlannerEnds(99) /\ JobFault /\ UNCHANGED issueJobs
    <3>1. planner' \in Planners /\ planner'.at = "ended" /\ planner'.exit = 99
      BY <1>1, <2>2, EndsType
    <3> QED
      BY <1>1, <1>2, <2>1, <2>2, <3>1
         DEF JobsInv, JobsTyped, OneRun, RunsKnow, SuccessStays, ChosenIsOpen, EndIsComplete
  <2> DEFINE jobs == Upserted(planner.seen)
             U == Unfinished(jobs)
  <2>3. CASE /\ issueJobs' = jobs /\ UNCHANGED jobsLog
             /\ IF U = {} THEN PlannerEnds(0)
                ELSE planner' = [planner EXCEPT !.at = "load", !.job = First(U), !.hops = Hop(@)]
    <3>1. jobs \in JobStates /\ \A k \in AllKeys : jobs[k] = "succeeded" <=> issueJobs[k] = "succeeded"
      BY <1>1, <2>1, UpsertedKeeps
    <3>2. SuccessStays'
      BY <1>1, <2>3, <3>1 DEF JobsInv, SuccessStays, AllKeys
    <3>3. CASE U = {}
      <4>1. planner' \in Planners /\ planner'.at = "ended"
        BY <1>1, <2>3, <3>3, EndsType
      <4>2. \A k \in JobKeys : issueJobs'[k] = "succeeded"
        BY <2>3, <3>3 DEF Unfinished, JobKeys
      <4> QED
        BY <1>1, <2>1, <2>3, <3>1, <3>2, <4>1, <4>2
           DEF JobsInv, JobsTyped, OneRun, RunsKnow, ChosenIsOpen, EndIsComplete
    <3>4. CASE U # {}
      <4>1. First(U) \in JobKeys /\ jobs[First(U)] # "succeeded"
        BY <3>1, <3>4, NextJob
      <4> DEFINE n == Len(planner.hops)
                 hops == Hop(planner.hops)
      <4>2. n \in DOMAIN planner.hops /\ planner.hops[n] \in Nat
        BY <1>1, <2>1
      <4>3. hops \in Seq(Nat) /\ hops # <<>>
        BY <1>1, <2>1, <4>2 DEF Hop
      <4> DEFINE job == First(U)
      <4>4. planner' = [planner EXCEPT !.at = "load", !.job = job, !.hops = hops] /\ job \in AllKeys
        BY <2>3, <3>4, <4>1 DEF AllKeys
      <4> HIDE DEF hops, U, job
      <4>5. planner' \in Planners
        BY <1>1, <4>3, <4>4 DEF Planners
      <4>6. planner'.at = "load" /\ planner'.job = job /\ planner'.hops = hops
        BY <1>1, <4>4 DEF Planners
      <4>7. job \in JobKeys /\ issueJobs'[job] # "succeeded"
        BY <2>3, <4>1 DEF job
      <4> QED
        BY <1>1, <2>1, <2>3, <3>1, <3>2, <4>3, <4>5, <4>6, <4>7
           DEF JobsInv, JobsTyped, OneRun, RunsKnow, ChosenIsOpen, EndIsComplete
    <3> QED
      BY <3>3, <3>4
  <2> QED
    BY <1>5, <2>2, <2>3 DEF StorePlan
<1>6. CASE SaveJob
  <2>1. /\ UNCHANGED other /\ planner.at = "work" /\ other.at = "idle" /\ planner.seen = issueJobs
        /\ planner.hops # <<>> /\ planner.job \in JobKeys /\ issueJobs[planner.job] # "succeeded"
    BY <1>6 DEF SaveJob, JobsInv, JobsTyped, OneRun, RunsKnow, ChosenIsOpen
  <2>2. PICK result \in JobResults :
          \/ /\ planner' = [planner EXCEPT !.at = "return", !.exit = result.exit]
             /\ issueJobs' = IF result.saves THEN [planner.seen EXCEPT ![planner.job] = result.says] ELSE issueJobs
             /\ jobsLog' = [jobsLog EXCEPT !.recorded = IF result.saves /\ result.says = "succeeded"
                                                        THEN @ \cup {planner.job} ELSE @]
          \/ /\ JobFault
             /\ planner' = [planner EXCEPT !.at = "return", !.exit = IF result.exit = 0 THEN 99 ELSE result.exit]
             /\ UNCHANGED issueJobs
    BY <1>6 DEF SaveJob
  <2>3. result.exit \in {0, 1} /\ result.says \in JobStatus
    BY TaskJobsAssumption
  <2>4. ASSUME NEW exit \in {0, 1, 99}, planner' = [planner EXCEPT !.at = "return", !.exit = exit]
        PROVE  planner' \in Planners /\ planner'.at = "return" /\ planner'.hops = planner.hops
    <3>1. [planner EXCEPT !.at = "return", !.exit = exit] \in Planners
      BY <1>1 DEF Planners
    <3> QED
      BY <1>1, <2>4, <3>1 DEF Planners
  <2>5. planner' \in Planners /\ planner'.at = "return" /\ planner'.hops = planner.hops
    <3> DEFINE exit == IF result.exit = 0 THEN 99 ELSE result.exit
    <3>1. exit \in {0, 1, 99} /\ result.exit \in {0, 1, 99}
      BY <2>3
    <3>2. planner' = [planner EXCEPT !.at = "return", !.exit = exit] \/ planner' = [planner EXCEPT !.at = "return", !.exit = result.exit]
      BY <2>2
    <3> HIDE DEF exit
    <3> QED
      BY <2>4, <3>1, <3>2
  <2>6. CASE JobFault /\ UNCHANGED issueJobs
    BY <1>1, <1>2, <2>1, <2>5, <2>6
       DEF JobsInv, JobsTyped, OneRun, RunsKnow, SuccessStays, ChosenIsOpen, EndIsComplete
  <2>7. CASE /\ issueJobs' = IF result.saves THEN [planner.seen EXCEPT ![planner.job] = result.says] ELSE issueJobs
             /\ jobsLog' = [jobsLog EXCEPT !.recorded = IF result.saves /\ result.says = "succeeded"
                                                        THEN @ \cup {planner.job} ELSE @]
    <3>1. issueJobs' \in JobStates
      BY <1>1, <2>3, <2>7 DEF JobStates
    <3>2. \A k \in AllKeys : issueJobs'[k] = IF result.saves /\ k = planner.job THEN result.says ELSE issueJobs[k]
      BY <1>1, <2>1, <2>7 DEF JobStates
    <3>3. /\ jobsLog' \in Logs
          /\ jobsLog'.recorded = IF result.saves /\ result.says = "succeeded"
                                 THEN jobsLog.recorded \cup {planner.job} ELSE jobsLog.recorded
      BY <1>1, <2>1, <2>7
    <3>4. planner.job \notin jobsLog.recorded
      BY <2>1 DEF JobsInv, SuccessStays
    <3>5. SuccessStays'
      BY <1>1, <2>1, <3>2, <3>3, <3>4 DEF JobsInv, SuccessStays, AllKeys
    <3> QED
      BY <1>1, <2>1, <2>5, <3>1, <3>3, <3>5
         DEF JobsInv, JobsTyped, OneRun, RunsKnow, ChosenIsOpen, EndIsComplete
  <2> QED
    BY <2>2, <2>6, <2>7
<1>7. CASE ReturnToPlanner
  <2>1. UNCHANGED <<issueJobs, other, jobsLog>> /\ planner.at = "return" /\ other.at = "idle"
    BY <1>7 DEF ReturnToPlanner, JobsInv, OneRun
  <2> DEFINE hops == Append(planner.hops, 0)
  <2>2. hops \in Seq(Nat) /\ hops # <<>> /\ planner' = [planner EXCEPT !.at = "plan", !.hops = hops]
    BY <1>1, <1>7 DEF ReturnToPlanner
  <2> HIDE DEF hops
  <2>3. planner' \in Planners
    BY <1>1, <2>2 DEF Planners
  <2>4. planner'.at = "plan" /\ planner'.hops = hops
    BY <1>1, <2>2 DEF Planners
  <2> QED
    BY <1>1, <2>1, <2>2, <2>3, <2>4
       DEF JobsInv, JobsTyped, OneRun, RunsKnow, SuccessStays, ChosenIsOpen, EndIsComplete
<1>8. CASE ChainFails
  <2>1. /\ UNCHANGED <<issueJobs, other, jobsLog>> /\ planner.at = "return" /\ other.at = "idle"
        /\ planner.exit # 0 /\ planner.exit \in {0, 1, 99} /\ PlannerEnds(planner.exit)
    BY <1>1, <1>8 DEF ChainFails, JobsInv, OneRun, Planners
  <2>2. planner' \in Planners /\ planner'.at = "ended" /\ planner'.exit # 0
    BY <1>1, <2>1, EndsType
  <2> QED
    BY <1>1, <2>1, <2>2 DEF JobsInv, JobsTyped, OneRun, RunsKnow, SuccessStays, ChosenIsOpen, EndIsComplete
<1>9. CASE PlannerExits \/ PlannerKilled
  <2>1. /\ UNCHANGED <<issueJobs, other>> /\ planner' = NoPlanner
        /\ jobsLog' \in Logs /\ jobsLog'.recorded = jobsLog.recorded
    BY <1>1, <1>2, <1>9 DEF PlannerExits, PlannerKilled
  <2>2. planner.at # "idle" /\ other.at = "idle"
    BY <1>9 DEF PlannerExits, PlannerKilled, JobsInv, OneRun
  <2> QED
    BY <1>1, <2>1, <2>2, NoPlannerType
       DEF JobsInv, JobsTyped, OneRun, RunsKnow, SuccessStays, ChosenIsOpen, EndIsComplete
<1>10. CASE OtherLoads
  <2>1. /\ planner.at = "idle" /\ UNCHANGED <<issueJobs, planner, jobsLog>> /\ other' = [at |-> "work", seen |-> issueJobs]
    BY <1>10 DEF OtherLoads
  <2> QED
    BY <1>1, <2>1 DEF JobsInv, JobsTyped, OneRun, RunsKnow, SuccessStays, ChosenIsOpen, EndIsComplete
<1>11. CASE OtherSaves
  <2>1. /\ planner.at = "idle" /\ other.seen = issueJobs /\ UNCHANGED <<planner, jobsLog>>
        /\ other' = [at |-> "idle", seen |-> NoJobs]
    BY <1>11 DEF OtherSaves, JobsInv, OneRun, RunsKnow
  <2>2. PICK status \in {"succeeded", "failed"} : issueJobs' = [other.seen EXCEPT ![OtherKey] = status]
    BY <1>11 DEF OtherSaves
  <2>3. issueJobs' \in JobStates /\ \A k \in JobKeys : issueJobs'[k] = issueJobs[k]
    BY <1>1, <2>1, <2>2, TaskJobsAssumption DEF JobStates, AllKeys, JobStatus
  <2>4. SuccessStays'
    BY <1>1, <2>1, <2>3 DEF JobsInv, SuccessStays
  <2> QED
    BY <1>1, <2>1, <2>3, <2>4, NoPlannerType DEF JobsInv, JobsTyped, OneRun, RunsKnow, ChosenIsOpen, EndIsComplete
<1> QED
  BY <1>3, <1>4, <1>5, <1>6, <1>7, <1>8, <1>9, <1>10, <1>11 DEF TaskJobsNext

\* A chain that ends with 0 has the success of every planned job stored, and no
\* job runs again after its success was (dispatchNextTaskJob.ts, state.ts), for
\* any plan, results, failing calls and killed processes, when no other run of
\* the issue overlaps.
THEOREM JobsRunOnce ==
  ASSUME ~Overlap
  PROVE  TaskJobsSpec => [](TaskJobsTypeOK /\ PlannedJobsRunOnce)
<1>1. TaskJobsInit => JobsInv
  BY NoPlannerType
     DEF TaskJobsInit, JobsInv, JobsTyped, OneRun, RunsKnow, SuccessStays, ChosenIsOpen, EndIsComplete
<1>2. JobsInv /\ [TaskJobsNext]_taskJobsVars => JobsInv'
  <2> SUFFICES ASSUME JobsInv, [TaskJobsNext]_taskJobsVars PROVE JobsInv'
    OBVIOUS
  <2>1. CASE TaskJobsNext
    BY <2>1, JobsStep
  <2>2. CASE UNCHANGED taskJobsVars
    BY <2>2 DEF taskJobsVars, JobsInv, JobsTyped, OneRun, RunsKnow, SuccessStays, ChosenIsOpen, EndIsComplete
  <2> QED
    BY <2>1, <2>2
<1>3. JobsInv => TaskJobsTypeOK /\ PlannedJobsRunOnce
  <2> SUFFICES ASSUME JobsInv PROVE TaskJobsTypeOK /\ PlannedJobsRunOnce
    OBVIOUS
  <2>1. TaskJobsTypeOK
    BY DEF JobsInv, JobsTyped, JobStates, AllKeys, Planners, TaskJobsTypeOK
  <2>2. planner.at \in {"load", "work"} => planner.job \notin jobsLog.recorded
    BY DEF JobsInv, ChosenIsOpen, SuccessStays
  <2> QED
    BY <2>1, <2>2 DEF JobsInv, EndIsComplete, PlannedJobsRunOnce
<1> QED
  BY <1>1, <1>2, <1>3, PTL DEF TaskJobsSpec
-----------------------------------------------------------------------------
(* The children of a container.                                            *)

TaskStates == [last : [ChildNames -> Actions], attempts : [ChildNames -> Nat], pr : BOOLEAN]
Processes ==
  [at : {"idle", "next", "child", "back", "route", "ended"}, idx : 0..Len(Children),
   iteration : 0..ContainerMaxIterations, known : BOOLEAN, cached : TaskStates, prior : TaskStates,
   says : Actions, exit : {0, 1}, action : Actions, outcome : {"none", "done", "aborted"}]
ContainerTyped ==
  /\ taskStates \in [{"issue", "pr"} -> TaskStates] /\ childLoop \in Processes
  /\ childLoop.at # "idle" => childLoop.idx \in DOMAIN Children
  /\ containerLog \in [starts : Nat, faults : Nat, finished : SUBSET ChildNames]

OnIssue(i) == Children[i].target = "issue"
Name(i) == Children[i].name
LastOnIssue(i) == OnIssue(i) /\ \A k \in DOMAIN Children : k > i => ~OnIssue(k)

\* A pipeline: children on the issue in order, each handed on to by the one
\* before only when that completed, of which the last opens the pull request;
\* then any graph of children on the pull request.
Pipeline ==
  /\ "abort" \notin ChildNames
  /\ \A i, j \in DOMAIN Children : i # j => Name(i) # Name(j)
  /\ \A i, j \in DOMAIN Children : i < j /\ OnIssue(j) => OnIssue(i)
  /\ \A i, j \in DOMAIN Children : \A a \in DOMAIN Children[i].next :
       Children[i].next[a] = Name(j) =>
         IF OnIssue(i) THEN j <= i \/ (a = "COMPLETED" /\ (j = i + 1 \/ LastOnIssue(i))) ELSE ~OnIssue(j)
  /\ \A i \in DOMAIN Children : \A r \in ChildResults[Name(i)] :
       /\ r.opens => LastOnIssue(i) /\ r.says = "COMPLETED"
       /\ OnIssue(i) /\ r.says = "none" => r.exit # 0

\* What the stored states say of the children that completed.
Opened == taskStates["issue"].pr
Finished(i) == Name(i) \in containerLog.finished
IssueDone(state) == \A i \in DOMAIN Children : OnIssue(i) => state.last[Name(i)] = "COMPLETED"
StatesAgree ==
  /\ taskStates["pr"].pr = Opened
  /\ Opened => IssueDone(taskStates["issue"]) /\ IssueDone(taskStates["pr"])
  /\ \A i \in DOMAIN Children : Finished(i) =>
       /\ taskStates[Children[i].target].last[Name(i)] = "COMPLETED"
       /\ ~OnIssue(i) => Opened

\* What the container holds of them.
CopyAgrees(state) ==
  /\ state.pr = Opened
  /\ Opened => IssueDone(state)
  /\ \A i \in DOMAIN Children : OnIssue(i) /\ Finished(i) => state.last[Name(i)] = "COMPLETED"
HoldsCopy == childLoop.at \in {"next", "child", "route", "ended"} => CopyAgrees(childLoop.cached)
KnowsOpened == childLoop.at # "idle" /\ childLoop.known => Opened

\* A child on the issue has all before it completed.
InOrder ==
  childLoop.at \in {"next", "child", "back", "route"} /\ OnIssue(childLoop.idx) =>
    /\ \A j \in DOMAIN Children : j < childLoop.idx => taskStates["issue"].last[Name(j)] = "COMPLETED"
    /\ childLoop.at = "route" /\ childLoop.action = "COMPLETED" => taskStates["issue"].last[Child.name] = "COMPLETED"

\* A child that runs has not completed; what it ends in is in its target's state.
Grew(n) == taskStates[Child.target].attempts[Child.name] = childLoop.prior.attempts[Child.name] + n
AtChild ==
  childLoop.at = "child" => ~Finished(childLoop.idx) /\ (OnIssue(childLoop.idx) <=> ~Opened) /\ Grew(0)
AtBack ==
  childLoop.at = "back" =>
    /\ ~OnIssue(childLoop.idx) => Opened /\ childLoop.cached.pr
    /\ childLoop.says # "none" => taskStates[Child.target].last[Child.name] = childLoop.says /\ Grew(1)
    /\ childLoop.says = "none" => Grew(0) /\ (OnIssue(childLoop.idx) => childLoop.exit # 0)

ContainerInv ==
  /\ ContainerTyped /\ StatesAgree /\ HoldsCopy /\ KnowsOpened /\ InOrder /\ AtChild /\ AtBack /\ RoutedByReport

\* What a child's place says of it.
LEMMA ChildFacts ==
  ASSUME ContainerTyped, childLoop.at # "idle"
  PROVE  /\ childLoop.idx \in DOMAIN Children /\ Child = Children[childLoop.idx] /\ Child.name = Name(childLoop.idx)
         /\ Child.name \in ChildNames /\ Child.target \in {"issue", "pr"}
         /\ OnIssue(childLoop.idx) <=> Child.target = "issue"
         /\ taskStates["issue"] \in TaskStates /\ taskStates["pr"] \in TaskStates
         /\ childLoop.cached \in TaskStates /\ childLoop.prior \in TaskStates
  BY ContainerAssumption DEF ContainerTyped, Child, Name, OnIssue, ChildNames, Processes

\* Where a child's outcome is looked for is where it was written.
LEMMA ReadsTarget ==
  ASSUME ContainerInv, Pipeline, "read" \notin ContainerFaults, childLoop.at # "idle",
         NEW n, NEW failing \in ReadFaults(n)
  PROVE  /\ failing = 0 /\ StateRead(failing) = taskStates[Thread] /\ Thread \in {"issue", "pr"}
         /\ OnIssue(childLoop.idx) => Thread = "issue"
         /\ ~OnIssue(childLoop.idx) /\ childLoop.cached.pr => Thread = "pr"
         /\ StateRead(failing) \in TaskStates
         /\ StateRead(failing).pr = Opened
<1>1. failing = 0
  BY DEF ReadFaults
<1>2. StateRead(failing) = taskStates[Thread]
  BY <1>1 DEF StateRead
<1>3. ContainerTyped
  BY DEF ContainerInv
<1>4. /\ Thread \in {"issue", "pr"} /\ (OnIssue(childLoop.idx) => Thread = "issue")
      /\ ~OnIssue(childLoop.idx) /\ childLoop.cached.pr => Thread = "pr"
  BY <1>3, ChildFacts DEF Thread
<1>5. taskStates[Thread] \in TaskStates
  BY <1>3, <1>4 DEF ContainerTyped
<1>6. taskStates[Thread].pr = Opened
  BY <1>4 DEF ContainerInv, StatesAgree, Opened
<1> QED
  BY <1>1, <1>2, <1>4, <1>5, <1>6

\* No process: a copy of nothing.
LEMMA NoLoopType ==
  /\ EmptyTaskState \in TaskStates /\ NoLoop \in Processes
  /\ NoLoop.at = "idle" /\ NoLoop.known = FALSE /\ NoLoop.says = "none"
<1>1. EmptyTaskState \in TaskStates
  BY DEF EmptyTaskState, TaskStates, Actions
<1>2. 0 \in 0..Len(Children) /\ 0 \in 0..ContainerMaxIterations /\ "none" \in Actions
  BY ContainerAssumption DEF Actions
<1> HIDE DEF EmptyTaskState
<1> QED
  BY <1>1, <1>2 DEF NoLoop, Processes

\* While the stored states stay, what they say of the children does.
LEMMA StatesStay ==
  ASSUME UNCHANGED <<taskStates, containerLog>> \/ (UNCHANGED taskStates /\ containerLog'.finished = containerLog.finished)
  PROVE  /\ StatesAgree' = StatesAgree /\ Opened' = Opened /\ \A i : Finished(i)' = Finished(i)
         /\ \A state : CopyAgrees(state)' = CopyAgrees(state)
  BY DEF StatesAgree, Opened, Finished, CopyAgrees, IssueDone

\* A process ends with the copy it holds.
LEMMA EndKeeps ==
  ASSUME ContainerInv, UNCHANGED taskStates, containerLog' \in [starts : Nat, faults : Nat, finished : SUBSET ChildNames],
         containerLog'.finished = containerLog.finished, childLoop.at \in {"next", "child", "route"},
         childLoop' \in Processes, childLoop'.at = "ended", childLoop'.idx = childLoop.idx,
         childLoop'.cached = childLoop.cached, childLoop'.known => Opened
  PROVE  ContainerInv'
<1>1. /\ StatesAgree' /\ Opened' = Opened /\ CopyAgrees(childLoop.cached)' = CopyAgrees(childLoop.cached)
  BY StatesStay DEF ContainerInv
<1>2. CopyAgrees(childLoop.cached)
  BY DEF ContainerInv, HoldsCopy
<1>3. HoldsCopy'
  BY <1>1, <1>2 DEF HoldsCopy, CopyAgrees, IssueDone
<1> QED
  BY <1>1, <1>3 DEF ContainerInv, ContainerTyped, KnowsOpened, InOrder, AtChild, AtBack, RoutedByReport

\* A container starts with the issue's state.
LEMMA StartKeeps ==
  ASSUME ContainerInv, StartContainer
  PROVE  ContainerInv'
<1> DEFINE copy == taskStates["issue"]
           q == [NoLoop EXCEPT !.at = "next", !.idx = 1, !.cached = copy]
<1>1. childLoop' = q /\ UNCHANGED taskStates /\ copy \in TaskStates
  BY DEF StartContainer, ContainerInv, ContainerTyped
<1>2. /\ containerLog' \in [starts : Nat, faults : Nat, finished : SUBSET ChildNames]
      /\ containerLog'.finished = containerLog.finished
  BY DEF StartContainer, ContainerInv, ContainerTyped
<1>3. 1 \in 0..Len(Children) /\ 1 \in DOMAIN Children
  BY ContainerAssumption
<1> HIDE DEF copy
<1>4. q \in Processes
  BY <1>1, <1>3, NoLoopType DEF Processes
<1>5. q.at = "next" /\ q.idx = 1 /\ q.cached = copy /\ q.known = FALSE /\ q.says = "none"
  BY NoLoopType DEF Processes
<1> HIDE DEF q
<1>6. StatesAgree' /\ Opened' = Opened /\ \A i : Finished(i)' = Finished(i)
  BY <1>1, <1>2, StatesStay DEF ContainerInv
<1>7. CopyAgrees(copy)
  <2>1. StatesAgree
    BY DEF ContainerInv
  <2>2. \A i \in DOMAIN Children : OnIssue(i) /\ Finished(i) => copy.last[Name(i)] = "COMPLETED"
    BY <2>1 DEF copy, StatesAgree, OnIssue
  <2> QED
    BY <2>1, <2>2 DEF copy, CopyAgrees, StatesAgree, Opened
<1>8. HoldsCopy'
  BY <1>1, <1>5, <1>6, <1>7 DEF HoldsCopy, CopyAgrees, IssueDone
<1>9. ContainerTyped'
  BY <1>1, <1>2, <1>3, <1>4, <1>5 DEF ContainerInv, ContainerTyped
<1>10. \A j \in DOMAIN Children : ~(j < 1)
  BY ContainerAssumption
<1> QED
  BY <1>1, <1>5, <1>6, <1>8, <1>9, <1>10
     DEF ContainerInv, KnowsOpened, InOrder, AtChild, AtBack, RoutedByReport

\* The next child is skipped, ends the container, or runs, and then has not completed.
LEMMA NextKeeps ==
  ASSUME ContainerInv, Pipeline, "read" \notin ContainerFaults, NextChild
  PROVE  ContainerInv'
<1>1. childLoop.at = "next" /\ UNCHANGED taskStates
  BY DEF NextChild
<1>2. PICK failing \in ReadFaults(containerLog.faults) :
       LET prior == StateRead(failing)
           known == childLoop.known \/ prior.pr
           process == [childLoop EXCEPT !.iteration = @ + 1, !.known = known, !.prior = prior, !.says = "none"]
       IN  /\ childLoop' = IF TooMany THEN Ends(childLoop, 1)
                      ELSE IF SkipsChild(prior) THEN [process EXCEPT !.at = "route", !.action = "COMPLETED"]
                      ELSE IF Child.target = "pr" /\ ~known THEN Ends(process, 1)
                      ELSE [process EXCEPT !.at = "child"]
           /\ containerLog' = [containerLog EXCEPT !.faults = @ + failing]
  BY DEF NextChild
<1> DEFINE prior == StateRead(failing)
           known == childLoop.known \/ prior.pr
           i == childLoop.idx
           q == [childLoop EXCEPT !.iteration = @ + 1, !.known = known, !.prior = prior, !.says = "none"]
<1>3. /\ failing = 0 /\ prior = taskStates[Thread] /\ prior \in TaskStates /\ prior.pr = Opened
      /\ OnIssue(i) => Thread = "issue"
      /\ ~OnIssue(i) /\ childLoop.cached.pr => Thread = "pr"
  BY <1>1, ReadsTarget
<1>4. /\ i \in DOMAIN Children /\ Child = Children[i] /\ Child.name = Name(i) /\ Child.name \in ChildNames
      /\ Child.target \in {"issue", "pr"} /\ (OnIssue(i) <=> Child.target = "issue")
      /\ childLoop \in Processes
  BY <1>1, ChildFacts DEF ContainerInv, ContainerTyped
<1>5. /\ containerLog' \in [starts : Nat, faults : Nat, finished : SUBSET ChildNames]
      /\ containerLog'.finished = containerLog.finished
  BY <1>2, <1>3 DEF ContainerInv, ContainerTyped
<1>6. known \in BOOLEAN /\ (known => Opened)
  BY <1>1, <1>3, <1>4 DEF ContainerInv, KnowsOpened, Processes, TaskStates
<1>7. childLoop' = IF TooMany THEN Ends(childLoop, 1)
                      ELSE IF SkipsChild(prior) THEN [q EXCEPT !.at = "route", !.action = "COMPLETED"]
                      ELSE IF Child.target = "pr" /\ ~known THEN Ends(q, 1)
                      ELSE [q EXCEPT !.at = "child"]
  BY <1>2
<1>8. StatesAgree' /\ Opened' = Opened /\ \A k : Finished(k)' = Finished(k)
  BY <1>1, <1>5, StatesStay DEF ContainerInv
<1>9. CopyAgrees(childLoop.cached) /\ childLoop.cached.pr = Opened
  BY <1>1 DEF ContainerInv, HoldsCopy, CopyAgrees
<1> HIDE DEF prior, known
<1>10. CASE TooMany
  <2>1. childLoop' = [childLoop EXCEPT !.at = "ended", !.exit = 1]
    BY <1>7, <1>10 DEF Ends
  <2>2. childLoop' \in Processes
    BY <1>4, <2>1 DEF Processes
  <2>3. childLoop'.at = "ended" /\ childLoop'.idx = i /\ childLoop'.cached = childLoop.cached /\ childLoop'.known = childLoop.known
    BY <1>4, <2>1 DEF Processes
  <2> QED
    BY <1>1, <1>5, <2>2, <2>3, EndKeeps DEF ContainerInv, KnowsOpened
<1>11. ASSUME ~TooMany
       PROVE  /\ q \in Processes /\ q.idx = i /\ q.cached = childLoop.cached /\ q.known = known
              /\ q.prior = prior /\ q.says = "none"
  <2>1. childLoop.iteration + 1 \in 0..ContainerMaxIterations
    BY <1>4, <1>11, ContainerAssumption DEF TooMany, Processes
  <2> DEFINE count == childLoop.iteration + 1
  <2>2. q = [childLoop EXCEPT !.iteration = count, !.known = known, !.prior = prior, !.says = "none"] /\ "none" \in Actions
    BY DEF Actions
  <2> HIDE DEF count, q
  <2>3. q \in Processes
    BY <1>3, <1>4, <1>6, <2>1, <2>2 DEF count, Processes
  <2>4. q.idx = i /\ q.cached = childLoop.cached /\ q.known = known /\ q.prior = prior /\ q.says = "none"
    BY <1>4, <2>2 DEF Processes
  <2> QED
    BY <2>3, <2>4
<1> HIDE DEF q
<1>12. CASE ~TooMany /\ SkipsChild(prior)
  <2>1. childLoop' = [q EXCEPT !.at = "route", !.action = "COMPLETED"] /\ "COMPLETED" \in Actions
    BY <1>7, <1>12 DEF Actions
  <2>2. childLoop' \in Processes
    BY <1>11, <1>12, <2>1 DEF Processes
  <2>3. /\ childLoop'.at = "route" /\ childLoop'.idx = i /\ childLoop'.cached = childLoop.cached
        /\ childLoop'.known = known /\ childLoop'.says = "none" /\ childLoop'.action = "COMPLETED"
    BY <1>11, <1>12, <2>1 DEF Processes
  <2>4. OnIssue(i) => taskStates["issue"].last[Name(i)] = "COMPLETED"
    BY <1>3, <1>4, <1>12 DEF SkipsChild
  <2>5. Child' = Children[i]
    BY <2>3 DEF Child
  <2>6. InOrder'
    BY <1>1, <1>4, <2>3, <2>4, <2>5 DEF ContainerInv, InOrder
  <2>7. HoldsCopy'
    BY <1>8, <1>9, <2>3 DEF HoldsCopy, CopyAgrees, IssueDone
  <2>8. ContainerTyped'
    BY <1>1, <1>4, <1>5, <2>2, <2>3 DEF ContainerInv, ContainerTyped
  <2> QED
    BY <1>6, <1>8, <2>3, <2>6, <2>7, <2>8 DEF ContainerInv, KnowsOpened, AtChild, AtBack, RoutedByReport
<1>13. CASE ~TooMany /\ ~SkipsChild(prior) /\ Child.target = "pr" /\ ~known
  <2>1. childLoop' = [q EXCEPT !.at = "ended", !.exit = 1]
    BY <1>7, <1>13 DEF Ends
  <2>2. childLoop' \in Processes
    BY <1>11, <1>13, <2>1 DEF Processes
  <2>3. childLoop'.at = "ended" /\ childLoop'.idx = i /\ childLoop'.cached = childLoop.cached /\ childLoop'.known = known
    BY <1>11, <1>13, <2>1 DEF Processes
  <2> QED
    BY <1>1, <1>5, <1>6, <2>2, <2>3, EndKeeps
<1>14. CASE ~TooMany /\ ~SkipsChild(prior) /\ ~(Child.target = "pr" /\ ~known)
  <2>1. childLoop' = [q EXCEPT !.at = "child"]
    BY <1>7, <1>14
  <2>2. childLoop' \in Processes
    BY <1>11, <1>14, <2>1 DEF Processes
  <2>3. /\ childLoop'.at = "child" /\ childLoop'.idx = i /\ childLoop'.cached = childLoop.cached
        /\ childLoop'.known = known /\ childLoop'.says = "none" /\ childLoop'.prior = prior
    BY <1>11, <1>14, <2>1 DEF Processes
  <2>4. Thread = Child.target /\ prior = taskStates[Child.target]
    BY <1>3, <1>4, <1>6, <1>9, <1>14
  <2>5. prior.last[Name(i)] # "COMPLETED"
    BY <1>4, <1>14 DEF SkipsChild
  <2>6. ~Finished(i)
    BY <1>4, <2>4, <2>5 DEF ContainerInv, StatesAgree
  <2>7. OnIssue(i) <=> ~Opened
    BY <1>4, <1>6, <1>14, <2>4, <2>5 DEF ContainerInv, StatesAgree, IssueDone
  <2>8. Child' = Children[i] /\ taskStates[Child.target].attempts[Name(i)] = childLoop'.prior.attempts[Name(i)] + 0
    <3>1. taskStates[Child.target].attempts[Name(i)] \in Nat
      BY <1>3, <1>4, <2>4 DEF TaskStates
    <3> QED
      BY <2>3, <2>4, <3>1 DEF Child
  <2>9. AtChild'
    <3>1. Grew(0)'
      <4>1. Child'.name = Name(i) /\ Child'.target = Child.target
        BY <1>4, <2>8
      <4> QED
        BY <1>1, <2>8, <4>1 DEF Grew
    <3>2. Finished(i)' = Finished(i)
      BY <1>5, <2>3 DEF Finished
    <3> QED
      BY <1>8, <2>3, <2>6, <2>7, <3>1, <3>2 DEF AtChild, Finished
  <2>10. InOrder'
    BY <1>1, <2>3 DEF ContainerInv, InOrder
  <2>11. HoldsCopy'
    BY <1>8, <1>9, <2>3 DEF HoldsCopy, CopyAgrees, IssueDone
  <2>12. ContainerTyped'
    BY <1>1, <1>4, <1>5, <2>2, <2>3 DEF ContainerInv, ContainerTyped
  <2> QED
    BY <1>6, <1>8, <2>3, <2>9, <2>10, <2>11, <2>12 DEF ContainerInv, KnowsOpened, AtBack, RoutedByReport
<1> QED
  BY <1>10, <1>12, <1>13, <1>14

\* A child that runs records what it came to in its target's state, and the one
\* that opens the pull request in both.
LEMMA RunKeeps ==
  ASSUME ContainerInv, Pipeline, Mirrors, RunChild
  PROVE  ContainerInv'
<1> DEFINE i == childLoop.idx
           target == Child.target
<1>1. childLoop.at = "child"
  BY DEF RunChild
<1>2. /\ i \in DOMAIN Children /\ Child = Children[i] /\ Child.name = Name(i) /\ Name(i) \in ChildNames
      /\ target \in {"issue", "pr"} /\ (OnIssue(i) <=> target = "issue") /\ target = Children[i].target
      /\ childLoop \in Processes /\ taskStates["issue"] \in TaskStates /\ taskStates["pr"] \in TaskStates
  BY <1>1, ChildFacts DEF ContainerInv, ContainerTyped
<1>3. PICK result \in ChildResults[Child.name] :
       LET saved == Recorded(taskStates[target], Child.name, result) IN
       /\ taskStates' = [t \in DOMAIN taskStates |->
                           IF t = target \/ (Mirrors /\ result.opens) THEN saved ELSE taskStates[t]]
       /\ childLoop' = [childLoop EXCEPT !.at = "back", !.says = result.says, !.exit = result.exit]
       /\ containerLog' = [containerLog EXCEPT !.finished = IF result.says = "COMPLETED" THEN @ \cup {Child.name} ELSE @]
  BY DEF RunChild
<1> DEFINE state == taskStates[target]
           saved == Recorded(state, Name(i), result)
<1>4. /\ result.exit \in {0, 1} /\ result.says \in Actions /\ result.opens \in BOOLEAN
      /\ result.opens => LastOnIssue(i) /\ result.says = "COMPLETED"
      /\ OnIssue(i) /\ result.says = "none" => result.exit # 0
  BY <1>2, ContainerAssumption DEF Pipeline
<1>5. state \in TaskStates /\ state.pr = Opened
  BY <1>2 DEF ContainerInv, StatesAgree, Opened
<1>6. /\ saved \in TaskStates /\ saved.pr = (Opened \/ result.opens)
      /\ \A c \in ChildNames : c # Name(i) => saved.last[c] = state.last[c]
      /\ result.says # "none" =>
           saved.last[Name(i)] = result.says /\ saved.attempts[Name(i)] = state.attempts[Name(i)] + 1
      /\ result.says = "none" => saved = state
  <2>1. CASE result.says = "none"
    <3>1. ~result.opens
      BY <1>4, <2>1
    <3> QED
      BY <1>4, <1>5, <2>1, <3>1 DEF Recorded, TaskStates
  <2>2. CASE result.says # "none"
    <3> DEFINE last == [state.last EXCEPT ![Name(i)] = result.says]
               attempts == [state.attempts EXCEPT ![Name(i)] = @ + 1]
               pr == state.pr \/ result.opens
    <3>1. last \in [ChildNames -> Actions] /\ attempts \in [ChildNames -> Nat] /\ pr \in BOOLEAN
      BY <1>2, <1>4, <1>5 DEF TaskStates
    <3>2. /\ \A c \in ChildNames : c # Name(i) => last[c] = state.last[c]
          /\ last[Name(i)] = result.says /\ attempts[Name(i)] = state.attempts[Name(i)] + 1
      BY <1>2, <1>5 DEF TaskStates
    <3>3. pr = (Opened \/ result.opens)
      BY <1>5
    <3>4. saved = [state EXCEPT !.last = last, !.attempts = attempts, !.pr = pr]
      BY <1>2, <1>5, <2>2 DEF Recorded, TaskStates
    <3> HIDE DEF last, attempts, pr
    <3>5. saved \in TaskStates /\ saved.last = last /\ saved.attempts = attempts /\ saved.pr = pr
      BY <1>5, <3>1, <3>4 DEF TaskStates
    <3> QED
      BY <2>2, <3>2, <3>3, <3>5
  <2> QED
    BY <2>1, <2>2
<1>7. /\ taskStates' \in [{"issue", "pr"} -> TaskStates] /\ taskStates'[target] = saved
      /\ result.opens => taskStates'["issue"] = saved /\ taskStates'["pr"] = saved
      /\ ~result.opens => \A t \in {"issue", "pr"} : t # target => taskStates'[t] = taskStates[t]
  <2>1. DOMAIN taskStates = {"issue", "pr"}
    BY DEF ContainerInv, ContainerTyped
  <2>2. taskStates' = [t \in {"issue", "pr"} |-> IF t = target \/ result.opens THEN saved ELSE taskStates[t]]
    BY <1>2, <1>3, <2>1
  <2> HIDE DEF saved
  <2> QED
    BY <1>2, <1>6, <2>2
<1>8. /\ childLoop' \in Processes /\ childLoop'.at = "back" /\ childLoop'.idx = i /\ childLoop'.says = result.says
      /\ childLoop'.exit = result.exit /\ childLoop'.cached = childLoop.cached /\ childLoop'.prior = childLoop.prior
      /\ childLoop'.known = childLoop.known
  <2>1. childLoop' = [childLoop EXCEPT !.at = "back", !.says = result.says, !.exit = result.exit]
    BY <1>3
  <2>2. childLoop' \in Processes
    BY <1>2, <1>4, <2>1 DEF Processes
  <2> QED
    BY <1>2, <2>1, <2>2 DEF Processes
<1>9. /\ containerLog' \in [starts : Nat, faults : Nat, finished : SUBSET ChildNames]
      /\ \A k \in DOMAIN Children :
           Name(k) \in containerLog'.finished <=> Finished(k) \/ (k = i /\ result.says = "COMPLETED")
  <2>1. containerLog \in [starts : Nat, faults : Nat, finished : SUBSET ChildNames]
    BY DEF ContainerInv, ContainerTyped
  <2>2. /\ containerLog' \in [starts : Nat, faults : Nat, finished : SUBSET ChildNames]
        /\ containerLog'.finished = IF result.says = "COMPLETED" THEN containerLog.finished \cup {Name(i)}
                                    ELSE containerLog.finished
    BY <1>2, <1>3, <2>1
  <2> QED
    BY <1>2, <2>2 DEF Finished, Pipeline
<1> HIDE DEF saved, state
<1>10. \A k \in DOMAIN Children : Name(k) \in ChildNames /\ (k # i => Name(k) # Name(i))
  BY <1>2 DEF Pipeline, Name, ChildNames
<1>11. (OnIssue(i) <=> ~Opened) /\ ~Finished(i) /\ Grew(0)
  BY <1>1 DEF ContainerInv, AtChild
<1>12. Opened' = (Opened \/ result.opens) /\ Opened \in BOOLEAN
  <2>0. Opened \in BOOLEAN /\ result.opens \in BOOLEAN
    BY <1>2, <1>4 DEF Opened, TaskStates
  <2>1. CASE result.opens
    BY <1>6, <1>7, <2>0, <2>1 DEF Opened
  <2>2. CASE ~result.opens /\ target = "issue"
    BY <1>6, <1>7, <2>0, <2>2 DEF Opened
  <2>3. CASE ~result.opens /\ target = "pr"
    <3>1. taskStates'["issue"] = taskStates["issue"]
      BY <1>7, <2>3
    <3> QED
      BY <2>0, <2>3, <3>1 DEF Opened
  <2> QED
    BY <1>2, <2>0, <2>1, <2>2, <2>3
<1>13. StatesAgree'
  <2>1. CASE OnIssue(i)
    <3>1. target = "issue" /\ state = taskStates["issue"] /\ taskStates'["issue"] = saved
      BY <1>2, <1>7, <2>1 DEF state
    <3>2. taskStates'["pr"].pr = Opened'
      <4>1. taskStates["pr"].pr = Opened /\ result.opens \in BOOLEAN
        BY <1>4 DEF ContainerInv, StatesAgree
      <4>2. CASE result.opens
        BY <1>6, <1>7, <1>12, <4>2
      <4>3. CASE ~result.opens
        BY <1>7, <1>12, <3>1, <4>1, <4>3
      <4> QED
        BY <4>1, <4>2, <4>3
    <3>3. Opened' => IssueDone(saved) /\ taskStates'["pr"] = saved
      <4> SUFFICES ASSUME Opened' PROVE IssueDone(saved) /\ taskStates'["pr"] = saved
        OBVIOUS
      <4>1. result.opens /\ LastOnIssue(i) /\ result.says = "COMPLETED"
        BY <1>4, <1>11, <1>12, <2>1
      <4>2. \A k \in DOMAIN Children : OnIssue(k) => k = i \/ k < i
        BY <1>2, <4>1, ContainerAssumption DEF LastOnIssue
      <4>3. \A k \in DOMAIN Children : k < i => state.last[Name(k)] = "COMPLETED"
        BY <1>1, <2>1, <3>1 DEF ContainerInv, InOrder
      <4>4. \A k \in DOMAIN Children : k < i => k # i
        BY <1>2, ContainerAssumption
      <4>5. IssueDone(saved)
        BY <1>6, <1>10, <4>1, <4>2, <4>3, <4>4 DEF IssueDone
      <4> QED
        BY <1>7, <4>1, <4>5
    <3>4. ASSUME NEW k \in DOMAIN Children, Name(k) \in containerLog'.finished
          PROVE  taskStates'[Children[k].target].last[Name(k)] = "COMPLETED" /\ (~OnIssue(k) => Opened')
      <4>1. CASE k = i
        BY <1>2, <1>6, <1>9, <1>11, <3>1, <3>4, <2>1, <4>1
      <4>2. CASE k # i
        <5>1. Finished(k) /\ OnIssue(k) /\ taskStates["issue"].last[Name(k)] = "COMPLETED"
          BY <1>9, <1>11, <2>1, <3>4, <4>2 DEF ContainerInv, StatesAgree, OnIssue
        <5> QED
          BY <1>6, <1>10, <3>1, <4>2, <5>1 DEF OnIssue
      <4> QED
        BY <4>1, <4>2
    <3> QED
      BY <3>1, <3>2, <3>3, <3>4 DEF StatesAgree, Finished
  <2>2. CASE ~OnIssue(i)
    <3>1. /\ target = "pr" /\ state = taskStates["pr"] /\ taskStates'["pr"] = saved /\ ~result.opens
          /\ taskStates'["issue"] = taskStates["issue"] /\ Opened
      BY <1>2, <1>4, <1>7, <1>11, <2>2 DEF state, LastOnIssue
    <3>2. taskStates'["pr"].pr = Opened'
      BY <1>6, <1>12, <3>1
    <3>3. IssueDone(saved)
      <4>1. IssueDone(state)
        BY <3>1 DEF ContainerInv, StatesAgree
      <4>2. \A k \in DOMAIN Children : OnIssue(k) => k # i
        BY <2>2
      <4> QED
        BY <1>6, <1>10, <4>1, <4>2 DEF IssueDone
    <3>4. IssueDone(taskStates["issue"])
      BY <3>1 DEF ContainerInv, StatesAgree
    <3>5. ASSUME NEW k \in DOMAIN Children, Name(k) \in containerLog'.finished
          PROVE  taskStates'[Children[k].target].last[Name(k)] = "COMPLETED"
      <4>1. CASE k = i
        BY <1>2, <1>6, <1>9, <1>11, <3>1, <3>5, <4>1
      <4>2. CASE k # i
        <5>1. Finished(k) /\ taskStates[Children[k].target].last[Name(k)] = "COMPLETED"
          BY <1>9, <3>5, <4>2 DEF ContainerInv, StatesAgree
        <5>2. Children[k].target \in {"issue", "pr"}
          BY ContainerAssumption
        <5> QED
          BY <1>6, <1>10, <3>1, <4>2, <5>1, <5>2
      <4> QED
        BY <4>1, <4>2
    <3> QED
      BY <1>12, <3>1, <3>2, <3>3, <3>4, <3>5 DEF StatesAgree, Finished
  <2> QED
    BY <2>1, <2>2
<1>14. Child' = Child
  BY <1>8 DEF Child
<1>15. InOrder'
  <2> SUFFICES ASSUME OnIssue(i)
               PROVE  \A j \in DOMAIN Children : j < i => taskStates'["issue"].last[Name(j)] = "COMPLETED"
    BY <1>8 DEF InOrder
  <2>1. taskStates'["issue"] = saved /\ state = taskStates["issue"]
    BY <1>2, <1>7 DEF state
  <2>2. \A j \in DOMAIN Children : j < i => state.last[Name(j)] = "COMPLETED" /\ j # i
    BY <1>1, <1>2, <2>1, ContainerAssumption DEF ContainerInv, InOrder
  <2> QED
    BY <1>6, <1>10, <2>1, <2>2
<1>16. AtBack'
  <2>1. state.attempts[Name(i)] = childLoop.prior.attempts[Name(i)] + 0 /\ childLoop.prior \in TaskStates
    BY <1>2, <1>11 DEF Grew, state, Processes
  <2>2. state.attempts[Name(i)] \in Nat /\ childLoop.prior.attempts[Name(i)] \in Nat
    BY <1>2, <1>5, <2>1 DEF TaskStates
  <2>3. result.says # "none" => saved.last[Name(i)] = result.says /\ saved.attempts[Name(i)] = childLoop.prior.attempts[Name(i)] + 1
    BY <1>6, <2>1, <2>2
  <2>4. result.says = "none" => saved.attempts[Name(i)] = childLoop.prior.attempts[Name(i)] + 0
    BY <1>6, <2>1
  <2>5. ~OnIssue(i) => Opened' /\ childLoop.cached.pr
    BY <1>1, <1>11, <1>12 DEF ContainerInv, HoldsCopy, CopyAgrees
  <2> QED
    BY <1>2, <1>4, <1>7, <1>8, <1>14, <2>3, <2>4, <2>5 DEF AtBack, Grew
<1>17. KnowsOpened'
  BY <1>1, <1>8, <1>12 DEF ContainerInv, KnowsOpened
<1>18. ContainerTyped'
  BY <1>2, <1>7, <1>8, <1>9 DEF ContainerTyped
<1> QED
  BY <1>8, <1>13, <1>15, <1>16, <1>17, <1>18 DEF ContainerInv, HoldsCopy, AtChild, RoutedByReport

\* What the container takes a child to have come to is what the child recorded.
LEMMA ReturnedKeeps ==
  ASSUME ContainerInv, Pipeline, "read" \notin ContainerFaults, ChildReturned
  PROVE  ContainerInv'
<1> DEFINE i == childLoop.idx
           c == Child.name
           before == childLoop.prior.attempts[c]
<1>1. childLoop.at = "back" /\ UNCHANGED taskStates
  BY DEF ChildReturned
<1>2. PICK failing \in ReadFaults(containerLog.faults) :
       LET read == StateRead(failing)
           wrote == read.attempts[c] > before /\ read.last[c] # "none"
       IN  /\ childLoop' = [childLoop EXCEPT
                !.at = "route", !.known = @ \/ read.pr,
                !.action = IF wrote THEN read.last[c] ELSE IF childLoop.exit = 0 THEN "COMPLETED" ELSE "FAILED",
                !.cached = IF wrote THEN read ELSE [read EXCEPT !.attempts[c] = before + 1]]
           /\ containerLog' = [containerLog EXCEPT !.faults = @ + failing]
  BY DEF ChildReturned
<1> DEFINE read == StateRead(failing)
           wrote == read.attempts[c] > before /\ read.last[c] # "none"
           action == IF wrote THEN read.last[c] ELSE IF childLoop.exit = 0 THEN "COMPLETED" ELSE "FAILED"
           copy == IF wrote THEN read ELSE [read EXCEPT !.attempts[c] = before + 1]
           known == childLoop.known \/ read.pr
<1>3. /\ i \in DOMAIN Children /\ Child = Children[i] /\ c = Name(i) /\ c \in ChildNames
      /\ Child.target \in {"issue", "pr"} /\ (OnIssue(i) <=> Child.target = "issue")
      /\ childLoop \in Processes /\ childLoop.prior \in TaskStates
  BY <1>1, ChildFacts DEF ContainerInv, ContainerTyped
<1>4. AtBack /\ StatesAgree /\ InOrder /\ KnowsOpened
  BY DEF ContainerInv
<1>5. /\ failing = 0 /\ read = taskStates[Child.target] /\ read \in TaskStates /\ read.pr = Opened
  BY <1>1, <1>3, <1>4, ReadsTarget DEF AtBack
<1>6. /\ containerLog' \in [starts : Nat, faults : Nat, finished : SUBSET ChildNames]
      /\ containerLog'.finished = containerLog.finished
  BY <1>2, <1>5 DEF ContainerInv, ContainerTyped
<1>7. childLoop' = [childLoop EXCEPT !.at = "route", !.known = known, !.action = action, !.cached = copy]
  BY <1>2
<1>8. before \in Nat /\ read.attempts[c] \in Nat /\ read.last[c] \in Actions
  BY <1>3, <1>5 DEF TaskStates
<1>9. /\ childLoop.says # "none" => wrote /\ action = childLoop.says
      /\ childLoop.says = "none" => ~wrote /\ (OnIssue(i) => action = "FAILED")
  BY <1>1, <1>4, <1>5, <1>8 DEF AtBack, Grew
<1>10. copy \in TaskStates /\ copy.last = read.last /\ copy.pr = Opened
  <2> DEFINE attempts == [read.attempts EXCEPT ![c] = before + 1]
  <2>1. attempts \in [ChildNames -> Nat]
    <3> DEFINE n == before + 1
           counts == read.attempts
    <3>1. counts \in [ChildNames -> Nat] /\ n \in Nat /\ attempts = [counts EXCEPT ![c] = n]
      BY <1>5, <1>8 DEF TaskStates
    <3> HIDE DEF n, counts, attempts
    <3> QED
      BY <3>1
  <2>2. [read EXCEPT !.attempts[c] = before + 1] = [read EXCEPT !.attempts = attempts]
    BY <1>5 DEF TaskStates
  <2> HIDE DEF attempts, read
  <2>3. [read EXCEPT !.attempts = attempts] \in TaskStates
    BY <1>5, <2>1 DEF TaskStates
  <2>4. [read EXCEPT !.attempts = attempts].last = read.last /\ [read EXCEPT !.attempts = attempts].pr = read.pr
    BY <1>5 DEF TaskStates
  <2> QED
    BY <1>5, <2>2, <2>3, <2>4
<1>11. action \in Actions /\ known \in BOOLEAN
  BY <1>3, <1>5, <1>8 DEF Actions, Processes, TaskStates
<1>12. CopyAgrees(copy)
  <2>1. Opened => IssueDone(copy)
    BY <1>3, <1>4, <1>5, <1>10 DEF StatesAgree, IssueDone
  <2>2. ASSUME NEW k \in DOMAIN Children, OnIssue(k), Finished(k) PROVE copy.last[Name(k)] = "COMPLETED"
    <3>1. CASE OnIssue(i)
      BY <1>3, <1>4, <1>5, <1>10, <2>2, <3>1 DEF StatesAgree, OnIssue
    <3>2. CASE ~OnIssue(i)
      BY <1>1, <1>4, <2>1, <2>2, <3>2 DEF AtBack, IssueDone
    <3> QED
      BY <3>1, <3>2
  <2> QED
    BY <1>10, <2>1, <2>2 DEF CopyAgrees
<1>13. InOrder'
  <2> SUFFICES ASSUME OnIssue(i)
               PROVE  /\ \A j \in DOMAIN Children : j < i => taskStates["issue"].last[Name(j)] = "COMPLETED"
                      /\ action = "COMPLETED" => taskStates["issue"].last[Name(i)] = "COMPLETED"
    <3> HIDE DEF known, action, copy
    <3>1. childLoop'.idx = i /\ childLoop'.action = action
      BY <1>3, <1>7 DEF Processes
    <3>2. Child'.name = Name(i)
      BY <3>1 DEF Child, Name
    <3> QED
      BY <1>1, <3>1, <3>2 DEF InOrder
  <2>1. \A j \in DOMAIN Children : j < i => taskStates["issue"].last[Name(j)] = "COMPLETED"
    BY <1>1, <1>4 DEF InOrder
  <2>2. action = "COMPLETED" => taskStates["issue"].last[Name(i)] = "COMPLETED"
    BY <1>3, <1>5, <1>9
  <2> QED
    BY <2>1, <2>2
<1>14. known => Opened
  BY <1>1, <1>4, <1>5 DEF KnowsOpened
<1> HIDE DEF known, action, copy, read, wrote, before
<1>15. childLoop' \in Processes
  BY <1>3, <1>7, <1>10, <1>11 DEF Processes
<1>16. /\ childLoop'.at = "route" /\ childLoop'.idx = i /\ childLoop'.known = known /\ childLoop'.action = action
       /\ childLoop'.cached = copy /\ childLoop'.says = childLoop.says
  BY <1>3, <1>7 DEF Processes
<1>17. StatesAgree' /\ Opened' = Opened /\ \A k : Finished(k)' = Finished(k)
  BY <1>1, <1>4, <1>6, StatesStay
<1>18. HoldsCopy'
  BY <1>12, <1>16, <1>17 DEF HoldsCopy, CopyAgrees, IssueDone
<1>19. ContainerTyped'
  BY <1>1, <1>3, <1>6, <1>15, <1>16 DEF ContainerInv, ContainerTyped
<1> QED
  BY <1>9, <1>13, <1>14, <1>16, <1>17, <1>18, <1>19
     DEF ContainerInv, KnowsOpened, AtChild, AtBack, RoutedByReport

\* A route to a child on the issue comes from one that completed, or goes back.
LEMMA RouteKeeps ==
  ASSUME ContainerInv, Pipeline, Route
  PROVE  ContainerInv'
<1> DEFINE i == childLoop.idx
           route == RouteOf(childLoop.action)
           j == CHOOSE k \in DOMAIN Children : Children[k].name = route
<1>1. childLoop.at = "route" /\ UNCHANGED <<taskStates, containerLog>>
  BY DEF Route
<1>2. /\ i \in DOMAIN Children /\ Child = Children[i] /\ Child.name = Name(i)
      /\ childLoop \in Processes
  BY <1>1, ChildFacts DEF ContainerInv, ContainerTyped
<1>3. childLoop' = IF route \in ChildNames THEN [childLoop EXCEPT !.at = "next", !.idx = j]
                   ELSE Ends(childLoop, IF route = "done" THEN 0 ELSE 1)
  BY DEF Route
<1>4. StatesAgree /\ HoldsCopy /\ InOrder /\ KnowsOpened
  BY DEF ContainerInv
<1>5. StatesAgree' /\ Opened' = Opened /\ \A state : CopyAgrees(state)' = CopyAgrees(state)
  BY <1>1, <1>4, StatesStay
<1>6. CASE route \in ChildNames
  <2>1. j \in DOMAIN Children /\ Name(j) = route
    BY <1>6 DEF ChildNames, Name
  <2>2. PICK a \in DOMAIN Children[i].next :
         Children[i].next[a] = Name(j) /\ (a = childLoop.action \/ a = "*")
    BY <1>2, <1>6, <2>1 DEF RouteOf, Pipeline
  <2>3. IF OnIssue(i) THEN j <= i \/ (a = "COMPLETED" /\ (j = i + 1 \/ LastOnIssue(i))) ELSE ~OnIssue(j)
    BY <1>2, <2>1, <2>2 DEF Pipeline
  <2> HIDE DEF j
  <2>4. childLoop' = [childLoop EXCEPT !.at = "next", !.idx = j] /\ j \in 0..Len(Children)
    BY <1>3, <1>6, <2>1, ContainerAssumption
  <2>5. childLoop' \in Processes /\ childLoop'.at = "next" /\ childLoop'.idx = j
        /\ childLoop'.cached = childLoop.cached /\ childLoop'.known = childLoop.known
    BY <1>2, <2>4 DEF Processes
  <2>6. OnIssue(j) => \A k \in DOMAIN Children : k < j => taskStates["issue"].last[Name(k)] = "COMPLETED"
    <3> SUFFICES ASSUME OnIssue(j), NEW k \in DOMAIN Children, k < j
                 PROVE  taskStates["issue"].last[Name(k)] = "COMPLETED"
      OBVIOUS
    <3>1. i \in Int /\ j \in Int /\ k \in Int
      BY <1>2, <2>1, ContainerAssumption
    <3>2. CASE k < i
      BY <1>1, <1>4, <2>3, <3>2 DEF InOrder
    <3>3. CASE ~(k < i)
      <4>1. OnIssue(i) /\ a = "COMPLETED" /\ childLoop.action = "COMPLETED" /\ k = i
        BY <2>1, <2>2, <2>3, <3>1, <3>3 DEF LastOnIssue
      <4> QED
        BY <1>1, <1>2, <1>4, <4>1 DEF InOrder
    <3> QED
      BY <3>2, <3>3
  <2>7. HoldsCopy'
    BY <1>1, <1>4, <1>5, <2>5 DEF HoldsCopy, CopyAgrees, IssueDone
  <2>8. ContainerTyped'
    BY <1>1, <2>1, <2>5 DEF ContainerInv, ContainerTyped
  <2> QED
    BY <1>1, <1>4, <1>5, <2>5, <2>6, <2>7, <2>8
       DEF ContainerInv, KnowsOpened, InOrder, AtChild, AtBack, RoutedByReport
<1>7. CASE route \notin ChildNames
  <2> DEFINE exit == IF route = "done" THEN 0 ELSE 1
  <2>1. childLoop' = [childLoop EXCEPT !.at = "ended", !.exit = exit] /\ exit \in {0, 1}
    BY <1>3, <1>7 DEF Ends
  <2> HIDE DEF exit
  <2>2. childLoop' \in Processes
    BY <1>2, <2>1 DEF Processes
  <2>3. childLoop'.at = "ended" /\ childLoop'.idx = i /\ childLoop'.cached = childLoop.cached /\ childLoop'.known = childLoop.known
    BY <1>2, <2>1 DEF Processes
  <2>4. childLoop'.known => Opened
    BY <1>1, <1>4, <2>3 DEF KnowsOpened
  <2>5. containerLog' \in [starts : Nat, faults : Nat, finished : SUBSET ChildNames]
    BY <1>1 DEF ContainerInv, ContainerTyped
  <2> QED
    BY <1>1, <2>2, <2>3, <2>4, <2>5, EndKeeps
<1> QED
  BY <1>6, <1>7

\* A child that throws ends the container, with the copy it has.
LEMMA ThrowKeeps ==
  ASSUME ContainerInv, ChildThrows
  PROVE  ContainerInv'
<1>1. childLoop.at = "child" /\ UNCHANGED taskStates /\ childLoop \in Processes
  BY DEF ChildThrows, ContainerInv, ContainerTyped
<1>2. /\ containerLog' \in [starts : Nat, faults : Nat, finished : SUBSET ChildNames]
      /\ containerLog'.finished = containerLog.finished
  BY DEF ChildThrows, ContainerInv, ContainerTyped
<1>3. childLoop' = [childLoop EXCEPT !.at = "ended", !.exit = 1]
  BY DEF ChildThrows, Ends
<1>4. childLoop' \in Processes
  BY <1>1, <1>3 DEF Processes
<1>5. /\ childLoop'.at = "ended" /\ childLoop'.idx = childLoop.idx
      /\ childLoop'.cached = childLoop.cached /\ childLoop'.known = childLoop.known
  BY <1>1, <1>3 DEF Processes
<1> QED
  BY <1>1, <1>2, <1>4, <1>5, EndKeeps DEF ContainerInv, KnowsOpened

\* The copy that becomes the issue's state says no less than it did.
LEMMA FinishKeeps ==
  ASSUME ContainerInv, FinishFlow
  PROVE  ContainerInv'
<1> DEFINE outcome == IF childLoop.exit = 0 THEN "done" ELSE "aborted"
           copy == childLoop.cached
<1>1. /\ childLoop.at = "ended" /\ UNCHANGED containerLog /\ childLoop \in Processes /\ copy \in TaskStates
      /\ taskStates \in [{"issue", "pr"} -> TaskStates]
  BY DEF FinishFlow, ContainerInv, ContainerTyped, Processes
<1>2. /\ taskStates' = [taskStates EXCEPT !["issue"] = copy]
      /\ childLoop' = [childLoop EXCEPT !.at = "idle", !.outcome = outcome] /\ outcome \in {"none", "done", "aborted"}
  BY DEF FinishFlow
<1>3. CopyAgrees(copy)
  BY <1>1 DEF ContainerInv, HoldsCopy
<1> HIDE DEF copy, outcome
<1>4. childLoop' \in Processes /\ childLoop'.at = "idle"
  BY <1>1, <1>2 DEF Processes
<1>5. /\ taskStates' \in [{"issue", "pr"} -> TaskStates] /\ taskStates'["issue"] = copy
      /\ taskStates'["pr"] = taskStates["pr"]
  BY <1>1, <1>2
<1>6. StatesAgree'
  <2>1. StatesAgree
    BY DEF ContainerInv
  <2>2. Opened' = Opened
    BY <1>3, <1>5 DEF CopyAgrees, Opened
  <2>3. Opened => IssueDone(copy) /\ IssueDone(taskStates["pr"])
    BY <1>3, <2>1 DEF CopyAgrees, StatesAgree
  <2>4. ASSUME NEW k \in DOMAIN Children, Finished(k)
        PROVE  taskStates'[Children[k].target].last[Name(k)] = "COMPLETED" /\ (~OnIssue(k) => Opened)
    <3>1. CASE OnIssue(k)
      BY <1>3, <1>5, <2>4, <3>1 DEF CopyAgrees, OnIssue
    <3>2. CASE ~OnIssue(k)
      <4>1. Children[k].target = "pr"
        BY <3>2, ContainerAssumption DEF OnIssue
      <4> QED
        BY <1>5, <2>1, <2>4, <3>2, <4>1 DEF StatesAgree
    <3> QED
      BY <3>1, <3>2
  <2>5. taskStates'["pr"].pr = Opened
    BY <1>5, <2>1 DEF StatesAgree
  <2>6. \A k \in DOMAIN Children : Finished(k)' = Finished(k)
    BY <1>1 DEF Finished
  <2> QED
    BY <1>5, <2>2, <2>3, <2>4, <2>5, <2>6 DEF StatesAgree, IssueDone
<1> QED
  BY <1>1, <1>4, <1>5, <1>6
     DEF ContainerInv, ContainerTyped, HoldsCopy, KnowsOpened, InOrder, AtChild, AtBack, RoutedByReport

\* A container that is killed leaves the stored states.
LEMMA KilledKeeps ==
  ASSUME ContainerInv, ContainerKilled
  PROVE  ContainerInv'
<1>1. childLoop' = NoLoop /\ UNCHANGED taskStates
  BY DEF ContainerKilled
<1>2. /\ containerLog' \in [starts : Nat, faults : Nat, finished : SUBSET ChildNames]
      /\ containerLog'.finished = containerLog.finished
  BY DEF ContainerKilled, ContainerInv, ContainerTyped
<1>3. StatesAgree'
  BY <1>1, <1>2, StatesStay DEF ContainerInv
<1> QED
  BY <1>1, <1>2, <1>3, NoLoopType
     DEF ContainerInv, ContainerTyped, HoldsCopy, KnowsOpened, InOrder, AtChild, AtBack, RoutedByReport

\* A container routes by what the child it ran recorded, and runs no child again
\* that completed (container.ts, state.ts, mirrorStateToPr.ts), for any children,
\* results, throwing children and killed processes, when the children form a
\* pipeline, the pull request's state starts as the issue's, and no read fails.
THEOREM ContainersKeepCourse ==
  ASSUME Pipeline, Mirrors, "read" \notin ContainerFaults
  PROVE  ContainerSpec => [](ContainerTypeOK /\ ContainerKeepsCourse)
<1>1. ContainerInit => ContainerInv
  <2> SUFFICES ASSUME ContainerInit PROVE ContainerInv
    OBVIOUS
  <2>1. /\ taskStates["issue"] = EmptyTaskState /\ taskStates["pr"] = EmptyTaskState
        /\ taskStates \in [{"issue", "pr"} -> TaskStates]
    BY NoLoopType DEF ContainerInit
  <2>2. childLoop = NoLoop /\ containerLog \in [starts : Nat, faults : Nat, finished : SUBSET ChildNames]
    BY DEF ContainerInit
  <2>3. ~Opened /\ taskStates["pr"].pr = Opened
    BY <2>1 DEF Opened, EmptyTaskState
  <2>4. \A k \in DOMAIN Children : ~Finished(k)
    BY DEF ContainerInit, Finished
  <2>5. StatesAgree
    BY <2>3, <2>4 DEF StatesAgree
  <2> QED
    BY <2>1, <2>2, <2>5, NoLoopType
       DEF ContainerInv, ContainerTyped, HoldsCopy, KnowsOpened, InOrder, AtChild, AtBack, RoutedByReport
<1>2. ContainerInv /\ [ContainerNext]_containerVars => ContainerInv'
  <2> SUFFICES ASSUME ContainerInv, [ContainerNext]_containerVars PROVE ContainerInv'
    OBVIOUS
  <2>1. CASE ContainerNext
    BY <2>1, StartKeeps, NextKeeps, RunKeeps, ThrowKeeps, ReturnedKeeps, RouteKeeps, FinishKeeps, KilledKeeps
       DEF ContainerNext
  <2>2. CASE UNCHANGED containerVars
    <3>1. StatesAgree' /\ Opened' = Opened /\ \A k : Finished(k)' = Finished(k)
      BY <2>2, StatesStay DEF containerVars, ContainerInv
    <3>2. Child' = Child
      BY <2>2 DEF containerVars, Child
    <3>3. CopyAgrees(childLoop.cached)' = CopyAgrees(childLoop.cached)
      BY <2>2 DEF containerVars, CopyAgrees, Opened, IssueDone, Finished
    <3>4. HoldsCopy' /\ KnowsOpened' /\ InOrder' /\ ContainerTyped'
      BY <2>2, <3>1, <3>2, <3>3
         DEF containerVars, ContainerInv, HoldsCopy, KnowsOpened, InOrder, ContainerTyped
    <3>5. AtChild' /\ AtBack' /\ RoutedByReport'
      BY <2>2, <3>1, <3>2
         DEF containerVars, ContainerInv, AtChild, AtBack, Grew, Finished, RoutedByReport
    <3> QED
      BY <3>1, <3>4, <3>5 DEF ContainerInv
  <2> QED
    BY <2>1, <2>2
<1>3. ContainerInv => ContainerTypeOK /\ ContainerKeepsCourse
  <2> SUFFICES ASSUME ContainerInv PROVE ContainerTypeOK /\ ContainerKeepsCourse
    OBVIOUS
  <2>1. ContainerTypeOK
    BY DEF ContainerInv, ContainerTyped, Processes, TaskStates, ContainerTypeOK
  <2>2. NothingIsRedone
    <3> SUFFICES ASSUME childLoop.at = "child" PROVE Child.name \notin containerLog.finished
      BY DEF NothingIsRedone
    <3>1. Child.name = Name(childLoop.idx)
      BY ChildFacts DEF ContainerInv
    <3> QED
      BY <3>1 DEF ContainerInv, AtChild, Finished
  <2> QED
    BY <2>1, <2>2 DEF ContainerInv, ContainerKeepsCourse
<1> QED
  BY <1>1, <1>2, <1>3, PTL DEF ContainerSpec

\* The two ways an issue's work is planned do it once (container.ts,
\* dispatchNextTaskJob.ts): a container and a chain of jobs with the hypotheses
\* of the two theorems.
THEOREM IssueWorkOnce ==
  ASSUME ~Overlap, Pipeline, Mirrors, "read" \notin ContainerFaults
  PROVE  ContainerSpec /\ TaskJobsSpec => []IssueWorkIsDoneOnce
<1>1. ContainerSpec => []ContainerKeepsCourse
  BY ContainersKeepCourse, PTL
<1>2. TaskJobsSpec => []PlannedJobsRunOnce
  BY JobsRunOnce, PTL
<1>3. ContainerKeepsCourse /\ PlannedJobsRunOnce => IssueWorkIsDoneOnce
  BY DEF IssueWorkIsDoneOnce
<1> QED
  BY <1>1, <1>2, <1>3, PTL
=============================================================================
