---------------------------- MODULE AgentSession ----------------------------
(***************************************************************************)
(* One invocation of the agent, runAgent of src/agent.ts: it follows the   *)
(* message stream of an SDK session, judges how it ended and repeats the   *)
(* session after a connection failure; with the hooks that guard its tools *)
(* and its end (src/submitStateGuard.ts, src/submitMcp.ts,                 *)
(* src/outputContractHooks.ts, src/completionGuard.ts).                    *)
(*                                                                         *)
(* The session is external: it uses tools, ends turns, breaks off or falls *)
(* silent as it likes, within what the hooks let it do.                    *)
(***************************************************************************)
EXTENDS Naturals

CONSTANTS
  AgentTools,     \* "edit", "shell" (a writing git or gh command), "read", "submit",
                  \* "output" (Write of the contract's file), "dispatch" (a tool that starts a run)
  Stateful,       \* BOOLEAN: enableSubmitTool
  Contracted,     \* BOOLEAN: an output contract is given
  Deadlined,      \* BOOLEAN: the owning run has a hard deadline
  MaxRetries,     \* MAX_CONNECTION_RETRIES
  MaxToolUses, MaxTurnEnds   \* bounds of one session

ASSUME AgentAssumption ==
  /\ AgentTools \subseteq {"edit", "shell", "read", "submit", "output", "dispatch"}
  /\ Stateful \in BOOLEAN /\ Contracted \in BOOLEAN /\ Deadlined \in BOOLEAN
  /\ MaxRetries \in Nat /\ MaxToolUses \in Nat /\ MaxTurnEnds \in Nat

VARIABLES
  agent,     \* where runAgent is, its attempt, and what outlives an attempt
  heard,     \* what runAgent knows of the attempt in progress
  session,   \* the attempt's session: tools used, turns ended, state submitted
  file,      \* the contract's output file: "missing", "invalid", "valid"
  effects    \* attempts that changed something durable (history)

agentVars == <<agent, heard, session, file, effects>>

(* What the loop starts every attempt with. "last" is history: the last    *)
(* result message of the attempt.                                          *)
Unheard ==
  [outcome |-> "failed", kind |-> "generic_failed", error |-> "none", mutating |-> FALSE,
   success |-> FALSE, tokens |-> FALSE, text |-> "none", login |-> FALSE, last |-> "none", stopped |-> FALSE]
NewSession == [uses |-> 0, ends |-> 0, submitted |-> FALSE]

AgentInit ==
  /\ agent = [at |-> "start", attempt |-> 0, active |-> FALSE, chance |-> FALSE, closing |-> FALSE]
  /\ heard = Unheard /\ session = NewSession /\ file = "missing" /\ effects = {}

(* A connection that breaks, in any of the spellings the retry knows.      *)
Transient(error) == error = "connection"

StartAttempt ==
  /\ agent.at = "start"
  /\ agent' = [agent EXCEPT !.at = "reading"]
  /\ heard' = Unheard /\ session' = NewSession
  /\ UNCHANGED <<file, effects>>

(* The options, hooks and tool servers of the session cannot be put        *)
(* together: the attempt fails without a session.                          *)
SetupFails ==
  /\ agent.at = "reading" /\ session = NewSession /\ heard = Unheard
  /\ heard' = [heard EXCEPT !.kind = "model_error", !.error = "setup", !.stopped = TRUE]
  /\ agent' = [agent EXCEPT !.at = "judge"]
  /\ UNCHANGED <<session, file, effects>>

-----------------------------------------------------------------------------
(* The guards before a tool: nothing after the state is submitted, nothing *)
(* but the output once the reserve before the deadline has begun, and no   *)
(* state before the agent looked at anything.                              *)
Blocked(t) ==
  \/ Stateful /\ session.submitted
  \/ agent.closing /\ ~(Contracted /\ t = "output")
  \/ Stateful /\ t = "submit" /\ ~agent.active

(* toolMayMutate *)
Mutates_Files(t) == t \in {"edit", "output"}  \* mutant: shell commands are replayed
Mutates(t) == t \in {"edit", "output", "shell"}
Durable(t) == t \in {"edit", "output", "shell", "dispatch"}

(* A message announces a tool; it runs unless a guard blocks it.           *)
UseTool ==
  /\ agent.at = "reading" /\ session.uses < MaxToolUses
  /\ \E t \in AgentTools :
       LET runs == ~Blocked(t)
       IN /\ heard' = [heard EXCEPT !.mutating = @ \/ Mutates(t)]
          /\ session' = [session EXCEPT !.uses = @ + 1, !.submitted = @ \/ (runs /\ t = "submit")]
          /\ agent' = [agent EXCEPT !.active = @ \/ (runs /\ t # "submit")]
          /\ effects' = IF runs /\ Durable(t) THEN effects \cup {agent.attempt} ELSE effects
          /\ file' \in IF runs /\ t = "output" THEN {"invalid", "valid"} ELSE {file}

(* The reserve before the hard deadline begins.                            *)
CutOff ==
  /\ Deadlined /\ ~agent.closing /\ agent.at # "returned"
  /\ agent' = [agent EXCEPT !.closing = TRUE]
  /\ UNCHANGED <<heard, session, file, effects>>

(* The session wants to stop: both hooks are asked. The contract's insists,*)
(* though a reply that is the JSON itself is stored for it; the other asks *)
(* once per invocation for a state.                                        *)
StopAllowed(reply) == Contracted => file = "valid" \/ (file = "missing" /\ reply = "json")
AsksForState == Stateful /\ ~session.submitted /\ ~agent.chance

WantsToStop ==
  /\ agent.at = "reading" /\ session.ends < MaxTurnEnds
  /\ \E reply \in {"text", "json"} :
       /\ AsksForState \/ ~StopAllowed(reply)
       /\ agent' = [agent EXCEPT !.chance = @ \/ AsksForState]
       /\ file' = IF Contracted /\ file = "missing" /\ reply = "json" THEN "valid" ELSE file
  /\ session' = [session EXCEPT !.ends = @ + 1]
  /\ UNCHANGED <<heard, effects>>

(* A result message: its usage replaces what was counted, its text is put  *)
(* after the earlier ones. A session may go on and send another one.       *)
Succeeds ==
  /\ agent.at = "reading" /\ session.ends < MaxTurnEnds /\ ~AsksForState
  /\ \E reply \in {"text", "json", "nothing", "login", "apiError"} :
       /\ StopAllowed(reply)
       /\ heard' = [heard EXCEPT !.outcome = "completed", !.kind = "ok", !.success = TRUE, !.last = reply,
                                 !.tokens = reply \in {"text", "json"}, !.login = @ \/ reply = "login",
                                 !.text = IF @ = "none" /\ reply # "nothing" THEN reply ELSE @]
       /\ file' = IF Contracted /\ file = "missing" /\ reply = "json" THEN "valid" ELSE file
  /\ session' = [session EXCEPT !.ends = @ + 1]
  /\ UNCHANGED <<agent, effects>>

Errs ==
  /\ agent.at = "reading" /\ session.ends < MaxTurnEnds
  /\ \E k \in {"out_of_turns", "rate_limit", "tool_error", "model_error"} :
       heard' = [heard EXCEPT !.outcome = "failed", !.kind = k, !.error = "result", !.last = "error", !.tokens = FALSE]
  /\ session' = [session EXCEPT !.ends = @ + 1]
  /\ UNCHANGED <<agent, file, effects>>

-----------------------------------------------------------------------------
Judges == agent' = [agent EXCEPT !.at = "judge"]

StreamEnds ==
  /\ agent.at = "reading"
  /\ Judges
  /\ UNCHANGED <<heard, session, file, effects>>

(* The stream throws: the connection broke, the rate limit, or an abort by *)
(* the owner. A success that came before it stands.                        *)
Throws_Downgrades ==  \* mutant: a late error undoes a success
  /\ agent.at = "reading"
  /\ \E e \in {"connection", "429", "abort"} :
       heard' = [heard EXCEPT !.outcome = "failed", !.error = e,
                              !.kind = IF e = "429" THEN "rate_limit" ELSE "model_error"]
  /\ Judges
  /\ UNCHANGED <<session, file, effects>>
Throws ==
  /\ agent.at = "reading"
  /\ \E e \in {"connection", "429", "abort"} :
       heard' = IF heard.success THEN [heard EXCEPT !.error = e]
                ELSE [heard EXCEPT !.outcome = "failed", !.error = e,
                                   !.kind = IF e = "429" THEN "rate_limit" ELSE "model_error"]
  /\ Judges
  /\ UNCHANGED <<session, file, effects>>

(* No message within the watchdog's time, or a report of a rate limit.     *)
BreaksOff(kind) ==
  /\ agent.at = "reading"
  /\ heard' = [heard EXCEPT !.outcome = "failed", !.kind = kind, !.error = kind, !.stopped = TRUE]
  /\ Judges
  /\ UNCHANGED <<session, file, effects>>
Stalls == BreaksOff("stalled")
RateLimited == BreaksOff("rate_limit")

-----------------------------------------------------------------------------
(* After the stream: a success that is a login prompt, an API error without*)
(* output, or, when nothing was changed, no work at all, is a failure.     *)
ProviderRefused == heard.login \/ (heard.text = "apiError" /\ ~heard.tokens)
Useful == heard.tokens \/ heard.text # "none" \/ session.submitted
HollowSuccess_Never == FALSE  \* mutant: the result's word is taken
HollowSuccess == heard.outcome = "completed" /\ ~ProviderRefused /\ ~heard.mutating /\ ~Useful
SessionVerdict ==
  IF heard.outcome = "completed" /\ ProviderRefused
  THEN [heard EXCEPT !.outcome = "failed", !.kind = "model_error", !.error = "refused"]
  ELSE IF HollowSuccess
  THEN [heard EXCEPT !.outcome = "failed", !.kind = "model_error",
                     !.error = IF @ = "none" THEN "hollow" ELSE @]
  ELSE heard

Retries ==
  /\ SessionVerdict.outcome = "failed" /\ agent.attempt < MaxRetries /\ ~heard.mutating
  /\ Transient(SessionVerdict.error) \/ HollowSuccess

Retry_Endless ==  \* mutant: the attempts are not counted
  /\ agent.at = "judge" /\ Retries
  /\ agent' = [agent EXCEPT !.at = "start"]
  /\ heard' = SessionVerdict
  /\ UNCHANGED <<session, file, effects>>
Retry ==
  /\ agent.at = "judge" /\ Retries
  /\ agent' = [agent EXCEPT !.at = "start", !.attempt = @ + 1]
  /\ heard' = SessionVerdict
  /\ UNCHANGED <<session, file, effects>>

Return ==
  /\ agent.at = "judge" /\ ~Retries
  /\ agent' = [agent EXCEPT !.at = "returned"]
  /\ heard' = SessionVerdict
  /\ UNCHANGED <<session, file, effects>>

AgentNext ==
  \/ StartAttempt \/ SetupFails \/ UseTool \/ CutOff \/ WantsToStop \/ Succeeds \/ Errs
  \/ StreamEnds \/ Throws \/ Stalls \/ RateLimited \/ Retry \/ Return

AgentSpec == AgentInit /\ [][AgentNext]_agentVars

(* runAgent's own steps; what the session does is up to the session.       *)
AgentFairness == WF_agentVars(StartAttempt \/ Stalls \/ Retry \/ Return)
-----------------------------------------------------------------------------
AgentTypeOK ==
  /\ agent \in [at : {"start", "reading", "judge", "returned"}, attempt : 0..MaxRetries,
                active : BOOLEAN, chance : BOOLEAN, closing : BOOLEAN]
  /\ heard.outcome \in {"completed", "failed"} /\ heard.success \in BOOLEAN
  /\ heard.text \in {"none", "text", "json", "login", "apiError"}
  /\ \A f \in {"mutating", "success", "tokens", "login", "stopped"} : heard[f] \in BOOLEAN
  /\ session \in [uses : 0..MaxToolUses, ends : 0..MaxTurnEnds, submitted : BOOLEAN]
  /\ file \in {"missing", "invalid", "valid"} /\ effects \subseteq 0..MaxRetries

(* A session that changed something durable is never repeated, and a run   *)
(* that reports that it may be repeated has changed nothing ("once the     *)
(* session has mutated anything we never blind-replay it", src/agent.ts).  *)
ReplaysNothing ==
  \A a \in effects : a = agent.attempt /\ (agent.at = "returned" => heard.mutating)

(* The outcome is what the session came to: an answer that was the last    *)
(* word of an attempt stands, whatever happened to the connection after it,*)
(* and completed means an answer, a submitted state or a change to show.   *)
OutcomeIsHonest ==
  /\ (/\ agent.at \in {"start", "returned"} /\ ~heard.stopped /\ ~heard.login
      /\ heard.last \in {"text", "json"}) => agent.at = "returned" /\ heard.outcome = "completed"
  /\ agent.at = "returned" /\ heard.outcome = "completed" => ~ProviderRefused /\ (Useful \/ heard.mutating)

(* Retries neither repeat what was done nor lose what was answered.        *)
AttemptsAreHonest == ReplaysNothing /\ OutcomeIsHonest

(* runAgent returns, whatever the session does.                            *)
AgentReturns == <>(agent.at = "returned")
=============================================================================
