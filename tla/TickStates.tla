----------------------------- MODULE TickStates -----------------------------
(***************************************************************************)
(* What a capability remembers between its runs (src/scripts: loadJobFrom- *)
(* File, runTickScript, loadLiveAgent, parseJobStateFromAgentResult,       *)
(* writeJobStateFile, saveLiveAgentState, appendCompanyActivity): a state  *)
(* read before an agent or a script runs, and written back with what it    *)
(* made of it, over the Kody API (src/kody-api-client.ts).  A tick that is *)
(* killed takes no further step.                                           *)
(***************************************************************************)
EXTENDS Integers, Sequences, FiniteSets

CONSTANTS
  TickKinds,     \* kinds of ticks that share a state: sets of "agent" and "script", or of "live"
  TokenLife,     \* how long an identity token is good
  TokenMargin,   \* it is not used in its last moments
  CallTime,      \* a call that takes longer is given up
  TickFaults,    \* of "identity", "refused", "lost request", "lost reply"
  LastTime, MaxTickRuns, MaxTickFaults \* bounds

ASSUME TickAssumption ==
  /\ {TokenLife, TokenMargin, CallTime, LastTime, MaxTickRuns, MaxTickFaults} \subseteq Nat
  /\ CallTime < TokenMargin /\ TokenMargin < TokenLife /\ LastTime > 0
  /\ TickKinds \subseteq {{"live"}} \cup SUBSET {"agent", "script"}

VARIABLES
  sharing, \* the kinds that share the state
  memory,  \* the state: [seq, mark, ledger]: mark is the moment of a job's state, the revision of an
           \* agent's; seq counts the writes, 0 for no document
  jobTick, \* number -> the tick, each in a process of its own
  wrote,   \* history: ticks whose entry was stored
  unaware, \* history: was the state written by someone who could not see what was there?
  activity, \* rows of the activity log
  expired, \* history: was a token refused because its time was over?
  time, tickRuns, tickFaults

tickVars == <<sharing, memory, jobTick, wrote, unaware, activity, expired, time, tickRuns, tickFaults>>

NoMemory == [seq |-> 0, mark |-> 0, ledger |-> {}]
OldState == [seq |-> 1, mark |-> 0, ledger |-> {}]
Ticks == 1 .. MaxTickRuns
\* at: "idle", "load", "work", "save", "log", "over"; a call to the API waits for its
\* token and then for its answer.
NoJobTick == [kind |-> "agent", at |-> "idle", call |-> "token", again |-> FALSE, asked |-> 0,
           until |-> 0, read |-> NoMemory, next |-> {}, stamp |-> 0, exit |-> 0]
TicksInit ==
  /\ sharing \in TickKinds /\ memory \in {NoMemory, OldState}
  /\ jobTick = [n \in Ticks |-> NoJobTick] /\ wrote = {} /\ unaware = FALSE /\ activity = <<>>
  /\ expired = FALSE /\ time = 1 /\ tickRuns = 0 /\ tickFaults = 0
---------------------------------------------------------------------------
TickAt(n, at) == jobTick[n].at = at
\* Of a tick that is over its decision and its exit code count.
Over(t) == [NoJobTick EXCEPT !.kind = t.kind, !.at = "over", !.exit = t.exit, !.next = t.next]
TickGoes(n, t) == jobTick' = [jobTick EXCEPT ![n] = IF t.at = "over" THEN Over(t) ELSE t]
\* githubOidcToken: the token at hand, unless it was just refused or is about
\* to end, which is as good as none; otherwise a new one.
Lasting(t) == t.until - TokenMargin > time
TokenUsable(t) == ~t.again /\ Lasting(t)
Calls(t, at) == [t EXCEPT !.at = at, !.call = "token", !.again = FALSE, !.asked = 0,
                          !.until = IF Lasting(t) THEN @ ELSE 0]
Logs(t) == [Calls(t, "log") EXCEPT !.read = NoMemory, !.stamp = 0]
ExitsWith(t, code) == [t EXCEPT !.exit = IF @ = 0 THEN code ELSE @]
TickFails(what) == what \in TickFaults /\ tickFaults < MaxTickFaults /\ tickFaults' = tickFaults + 1
Remembered == UNCHANGED <<sharing, memory, wrote, unaware, activity>>

StartJobTick(kind) ==
  /\ tickRuns < MaxTickRuns /\ tickRuns' = tickRuns + 1
  /\ TickGoes(tickRuns', Calls([NoJobTick EXCEPT !.kind = kind], "load"))
  /\ UNCHANGED <<expired, time, tickFaults>> /\ Remembered

---------------------------------------------------------------------------
\* What becomes of a call that failed: a load ends the tick, a failed save is
\* an exit code and the activity is still appended, a failed append is passed
\* over.
AfterFailure(t) ==
  CASE t.at = "log" -> [t EXCEPT !.at = "over"]
    [] t.at = "save" /\ t.kind # "live" -> Logs(ExitsWith(t, 99))
    [] OTHER -> [ExitsWith(t, 99) EXCEPT !.at = "over"]

TakeToken(n) ==
  LET t == jobTick[n] With(until) == [t EXCEPT !.call = "sent", !.asked = time, !.until = until] IN
  /\ t.at \in {"load", "save", "log"} /\ t.call = "token"
  /\ \/ TokenUsable(t) /\ TickGoes(n, With(t.until)) /\ UNCHANGED tickFaults
     \/ ~TokenUsable(t) /\ TickGoes(n, With(time + TokenLife)) /\ UNCHANGED tickFaults
     \/ ~TokenUsable(t) /\ TickGoes(n, AfterFailure(t)) /\ TickFails("identity")
  /\ UNCHANGED <<expired, time, tickRuns>> /\ Remembered

\* callKodyApi: refused for its token it is made once more with a new one; any
\* other failure is the caller's.
AfterRefusal(t) == IF t.again THEN AfterFailure(t) ELSE [t EXCEPT !.call = "token", !.again = TRUE, !.asked = 0, !.until = 0]

Waiting(n) == jobTick[n].at \in {"load", "save", "log"} /\ jobTick[n].call = "sent"
Sent(n, at) == Waiting(n) /\ TickAt(n, at)
Accepted(n) == time < jobTick[n].until
CallRefused(n) ==
  /\ Waiting(n)
  /\ \/ ~Accepted(n) /\ expired' = TRUE /\ UNCHANGED tickFaults
     \/ Accepted(n) /\ TickFails("refused") /\ UNCHANGED expired
  /\ TickGoes(n, AfterRefusal(jobTick[n])) /\ UNCHANGED <<time, tickRuns>> /\ Remembered
RequestLost(n) ==
  /\ Waiting(n) /\ TickFails("lost request")
  /\ TickGoes(n, AfterFailure(jobTick[n])) /\ UNCHANGED <<expired, time, tickRuns>> /\ Remembered
\* What was asked is done; the answer may be lost.
Answered(n, t) ==
  /\ \/ TickGoes(n, t) /\ UNCHANGED tickFaults
     \/ TickGoes(n, AfterFailure(jobTick[n])) /\ TickFails("lost reply")
  /\ UNCHANGED <<expired, time, tickRuns>>

---------------------------------------------------------------------------
\* BackendStateBackend.load; a job without a state starts from a seed, a live
\* agent must have one.
Loads(n, kind, found) ==
  /\ Sent(n, "load") /\ Accepted(n) /\ jobTick[n].kind = kind
  /\ Answered(n, IF found THEN [Calls(jobTick[n], "work") EXCEPT !.read = memory] ELSE AfterFailure(jobTick[n]))
  /\ Remembered
LoadJobFromFile(n) == Loads(n, "agent", TRUE)
RunTickScript(n) == Loads(n, "script", TRUE)
LoadLiveAgent(n) == Loads(n, "live", memory.seq # 0)

\* The next state is made from the one that was read; an agent that finished
\* with nothing to say carries that on.
WithEntry(n) == jobTick[n].read.ledger \cup {n}
CarriedOn(t) == t.read.ledger
Saves(t, next) == [Calls(t, "save") EXCEPT !.next = next, !.stamp = time]
Fails(t, code) == [ExitsWith(t, code) EXCEPT !.at = "over"]
Works(n, t) == TickAt(n, "work") /\ TickGoes(n, t) /\ UNCHANGED <<expired, time, tickRuns, tickFaults>> /\ Remembered

\* parseJobStateFromAgentResult.  A reply that cannot be read, or an agent cut
\* off before it said anything, fails the tick: the job's state still goes on,
\* a live agent's is not written.
AgentWorks(n) ==
  LET t == jobTick[n] IN
  /\ t.kind # "script"
  /\ \/ Works(n, Saves(t, WithEntry(n))) \/ Works(n, Saves(t, CarriedOn(t)))
     \/ t.kind = "agent" /\ Works(n, ExitsWith(Saves(t, CarriedOn(t)), 1))
     \/ Works(n, Fails(t, 99))
\* runTickShellAndParse.  A script that could not start, failed, ran too long or
\* said nothing that can be read ends the tick, and nothing is written.
ScriptWorks(n) ==
  LET t == jobTick[n] IN
  /\ t.kind = "script"
  /\ \/ Works(n, Saves(t, WithEntry(n)))
     \/ \E code \in {1, 99} : Works(n, Fails(t, code))

\* The backend stores a state when what the writer read is still there: by its
\* moment, which the writer gives only when it read one, or by its revision.
\* mutant: a moment is never given.
Expected_Nothing(t) == t.kind = "live"
Expected(t) == t.kind = "live" \/ t.read.seq # 0
Seen(t) == t.read.mark = memory.mark
Stores(n, mark, stored) ==
  LET t == jobTick[n] IN
  /\ Sent(n, "save") /\ Accepted(n)
  /\ IF Expected(t) /\ ~Seen(t)
     THEN Answered(n, AfterFailure(t)) /\ Remembered
     ELSE /\ Answered(n, stored)
          /\ memory' = [seq |-> memory.seq + 1, mark |-> mark, ledger |-> t.next]
          /\ wrote' = wrote \cup (t.next \cap {n})
          \* a first state, or one of the same moment as the state that was read
          /\ unaware' = (unaware \/ (t.kind # "live" /\ t.read.seq # memory.seq /\ (t.read.seq = 0 \/ Seen(t))))
          /\ UNCHANGED <<sharing, activity>>
\* The moment the tick fired is part of a job's state, so that no write is
\* skipped as unchanged.
WriteJobStateFile(n) == jobTick[n].kind # "live" /\ Stores(n, jobTick[n].stamp, Logs(jobTick[n]))
SaveLiveAgentState(n) ==
  jobTick[n].kind = "live" /\ Stores(n, jobTick[n].read.mark + 1, [jobTick[n] EXCEPT !.at = "over"])

\* appendCompanyActivity.
AppendActivity(n) ==
  /\ Sent(n, "log") /\ Accepted(n)
  /\ Answered(n, [jobTick[n] EXCEPT !.at = "over"])
  /\ activity' = Append(activity, n) /\ UNCHANGED <<sharing, memory, wrote, unaware>>

\* A call is given up when its time is over.
JobTimePasses ==
  /\ time < LastTime /\ time' = time + 1
  /\ \A n \in Ticks : Waiting(n) => time' - jobTick[n].asked <= CallTime
  /\ UNCHANGED <<jobTick, expired, tickRuns, tickFaults>> /\ Remembered

TicksNext ==
  \/ \E kind \in sharing : StartJobTick(kind)
  \/ \E n \in Ticks :
       \/ TakeToken(n) \/ CallRefused(n) \/ RequestLost(n)
       \/ LoadJobFromFile(n) \/ RunTickScript(n) \/ LoadLiveAgent(n) \/ AgentWorks(n) \/ ScriptWorks(n)
       \/ WriteJobStateFile(n) \/ SaveLiveAgentState(n) \/ AppendActivity(n)
  \/ JobTimePasses
TicksSpec == TicksInit /\ [][TicksNext]_tickVars
---------------------------------------------------------------------------
(* The variables have their types.                                         *)
TicksTypeOK ==
  /\ memory.seq \in Nat /\ memory.mark \in Nat /\ memory.ledger \subseteq 1 .. MaxTickRuns
  /\ \A n \in Ticks : jobTick[n].at \in {"idle", "load", "work", "save", "log", "over"} /\ jobTick[n].exit \in {0, 1, 99}
  /\ unaware \in BOOLEAN /\ expired \in BOOLEAN /\ time \in 1 .. LastTime

(* What a tick stored is never lost to another one, whichever ran between  *)
(* its reading and its writing, failed, or had nothing to say: unless both *)
(* wrote the capability's first state, or at one moment.                   *)
LedgerIsKept == ~unaware => wrote \subseteq memory.ledger

(* A tick that ends well with a decision of its own has stored it; and a   *)
(* tick, however its answers were lost, is in the activity log at most     *)
(* once.                                                                   *)
TicksAreHonest ==
  /\ \A n \in Ticks : TickAt(n, "over") /\ jobTick[n].exit = 0 /\ n \in jobTick[n].next => n \in wrote
  /\ \A i, j \in DOMAIN activity : i # j => activity[i] # activity[j]

(* No token ends while the call that carries it is under way.              *)
TokensLastTheirCall == ~expired

(* The three of them.                                                      *)
TickStatesHold == LedgerIsKept /\ TicksAreHonest /\ TokensLastTheirCall
=============================================================================
