----------------------------- MODULE CodexTurns -----------------------------
(***************************************************************************)
(* Chat turns of one directory through one codex app-server                *)
(* (chat/codex-app-server.ts): the client every session of the directory   *)
(* shares, the file that remembers each session's thread, the waiter of a  *)
(* thread's turn, and the lines the server sends. The turns of one session *)
(* queue (BrainTurns); those of several run side by side. The client of a  *)
(* directory is kept when its process has ended.                           *)
(***************************************************************************)
EXTENDS Naturals, FiniteSets

CONSTANTS
  CodexSessions,                \* chats of the directory
  CodexFaults,                  \* "child", "resume", "start", "reject", "error", "restart"
  MaxCodexTurns,                \* bound: turns of a session
  MaxThreads, MaxCodexFaults    \* bounds

VARIABLES
  codexClient,  \* [is, ready]: is is "none", "up" or "dead"; ready once initialized
  threadMap,    \* the file: session -> its thread, 0 for none
  turnWaiters,  \* thread -> the session that waits for its turn, or NoOne
  codexTurn,    \* session -> [at, n, read, thread, got]: read is the map as it was read,
                \* got the server's turns whose text it was given
  codexWork,    \* the server's turns: [thread, n]
  codexReplies, \* stored replies: [of, n, thread, got, by], by the turn whose end was taken
  codexPast     \* [threads, faults, first, strayed, moved]: what happened so far

codexVars == <<codexClient, threadMap, turnWaiters, codexTurn, codexWork, codexReplies, codexPast>>

NoOne == "no one"
ASSUME CodexAssumption == NoOne \notin CodexSessions /\ MaxThreads \in Nat
Threads == 1 .. MaxThreads
NoThreads == [s \in CodexSessions |-> 0]
IdleTurn(n) == [at |-> "idle", n |-> n, read |-> NoThreads, thread |-> 0, got |-> {}]

CodexInit ==
  /\ codexClient = [is |-> "none", ready |-> FALSE]
  /\ threadMap = NoThreads /\ turnWaiters = [t \in Threads |-> NoOne]
  /\ codexTurn = [s \in CodexSessions |-> IdleTurn(0)]
  /\ codexWork = {} /\ codexReplies = {}
  /\ codexPast = [threads |-> 0, faults |-> 0, first |-> NoThreads, strayed |-> {}, moved |-> {}]
---------------------------------------------------------------------------
TurnAt(s, at) == codexTurn[s].at = at
CodexGoes(s, at) == codexTurn' = [codexTurn EXCEPT ![s].at = at]
TurnEnds(s) == codexTurn' = [codexTurn EXCEPT ![s] = IdleTurn(@.n)]
CodexFails(what) == what \in CodexFaults /\ codexPast.faults < MaxCodexFaults
AFault(past) == [past EXCEPT !.faults = @ + 1]
ClientUp == codexClient.is = "up"

\* The client's next request: the session's thread is resumed, or a new one
\* started; the first request of a process is preceded by an initialize.
NextRequest(s, old) == IF ~ClientUp THEN "hung" ELSE IF ~codexClient.ready THEN "initialize" ELSE IF old THEN "resume" ELSE "start"

\* runCodexChatTurn, up to its first answer. A process that has ended answers
\* nothing.
TurnStarts(s) ==
  /\ TurnAt(s, "idle") /\ codexTurn[s].n < MaxCodexTurns
  /\ codexClient' = IF codexClient.is = "none" THEN [is |-> "up", ready |-> FALSE] ELSE codexClient
  /\ codexTurn' = [codexTurn EXCEPT ![s] =
       [IdleTurn(@.n + 1) EXCEPT !.read = threadMap,
          !.at = IF codexClient.is = "none" THEN "initialize" ELSE NextRequest(s, threadMap[s] # 0)]]
  /\ UNCHANGED <<threadMap, turnWaiters, codexWork, codexReplies, codexPast>>

\* ensureInitialized: two sessions may both ask, and the server refuse the
\* second; a resume that fails so starts a thread, a start fails the turn.
Initialized(s) ==
  /\ TurnAt(s, "initialize") /\ ClientUp
  /\ LET old == codexTurn[s].read[s] # 0
     IN \/ /\ codexClient' = [codexClient EXCEPT !.ready = TRUE]
           /\ CodexGoes(s, IF old THEN "resume" ELSE "start") /\ UNCHANGED codexPast
        \/ /\ codexClient.ready
           /\ IF old THEN CodexGoes(s, "start") /\ codexPast' = [codexPast EXCEPT !.moved = @ \cup {s}]
              ELSE TurnEnds(s) /\ UNCHANGED codexPast
           /\ UNCHANGED codexClient
  /\ UNCHANGED <<threadMap, turnWaiters, codexWork, codexReplies>>

\* runTurn: the waiter, and the request.
RunTurn(s, thread) ==
  /\ turnWaiters' = [turnWaiters EXCEPT ![thread] = s]
  /\ codexWork' = codexWork \cup {[thread |-> thread, n |-> codexTurn[s].n]}
  /\ codexTurn' = [codexTurn EXCEPT ![s].at = "turn", ![s].thread = thread]

Resumed(s) ==
  /\ TurnAt(s, "resume") /\ ClientUp
  /\ \/ RunTurn(s, codexTurn[s].read[s]) /\ UNCHANGED codexPast
     \/ /\ CodexFails("resume") /\ CodexGoes(s, "start")
        /\ codexPast' = AFault([codexPast EXCEPT !.moved = @ \cup {s}]) /\ UNCHANGED <<turnWaiters, codexWork>>
  /\ UNCHANGED <<codexClient, threadMap, codexReplies>>

\* writeThreadMap, of the map as it was read; a session that is in it stays
\* with the thread it had.
\* mutant: the file holds only this session.
WrittenMap_Own(s, thread) == [NoThreads EXCEPT ![s] = thread]
WrittenMap(s, thread) == [codexTurn[s].read EXCEPT ![s] = IF @ = 0 THEN thread ELSE @]
Started(s) ==
  /\ TurnAt(s, "start") /\ ClientUp
  /\ LET thread == codexPast.threads + 1
         overwritten == {x \in CodexSessions \ {s} : threadMap[x] # codexTurn[s].read[x]}
         writes == codexTurn[s].read[s] = 0
     IN \/ /\ thread \in Threads
           /\ threadMap' = IF writes THEN WrittenMap(s, thread) ELSE threadMap
           /\ RunTurn(s, thread)
           /\ codexPast' = [codexPast EXCEPT !.threads = thread, !.first[s] = IF @ = 0 THEN thread ELSE @,
                !.moved = @ \cup IF writes THEN overwritten ELSE {}]
        \/ CodexFails("start") /\ TurnEnds(s) /\ codexPast' = AFault(codexPast) /\ UNCHANGED <<threadMap, turnWaiters, codexWork>>
  /\ UNCHANGED <<codexClient, codexReplies>>

\* The server refuses the turn: its waiter goes.
TurnRejected(s) ==
  /\ TurnAt(s, "turn") /\ CodexFails("reject") /\ codexPast' = AFault(codexPast)
  /\ turnWaiters' = [turnWaiters EXCEPT ![codexTurn[s].thread] = NoOne]
  /\ codexWork' = codexWork \ {[thread |-> codexTurn[s].thread, n |-> codexTurn[s].n]} /\ TurnEnds(s)
  /\ UNCHANGED <<codexClient, threadMap, codexReplies>>
---------------------------------------------------------------------------
\* handleLine: a notification goes to whoever waits for the thread.
TextOf(w) ==
  /\ w \in codexWork /\ turnWaiters[w.thread] # NoOne
  /\ codexTurn' = [codexTurn EXCEPT ![turnWaiters[w.thread]].got = @ \cup {w.n}]
  /\ UNCHANGED <<codexClient, threadMap, turnWaiters, codexWork, codexReplies, codexPast>>

\* turn/completed: the waiter goes; without text the turn has failed.
EndOf(w) ==
  LET s == turnWaiters[w.thread]
  IN /\ codexWork' = codexWork \ {w}
     /\ IF s = NoOne THEN UNCHANGED <<turnWaiters, codexTurn, codexReplies>>
        ELSE /\ turnWaiters' = [turnWaiters EXCEPT ![w.thread] = NoOne] /\ TurnEnds(s)
             /\ codexReplies' = codexReplies \cup IF codexTurn[s].got = {} THEN {}
                  ELSE {[of |-> s, n |-> codexTurn[s].n, thread |-> w.thread, got |-> codexTurn[s].got, by |-> w.n]}
     /\ UNCHANGED <<codexClient, threadMap, codexPast>>

\* error: the waiter goes with it, whether or not the server's turn goes on.
ErrorOf(w) ==
  LET s == turnWaiters[w.thread]
  IN /\ s # NoOne /\ CodexFails("error")
     /\ turnWaiters' = [turnWaiters EXCEPT ![w.thread] = NoOne] /\ TurnEnds(s)
     /\ \/ codexWork' = codexWork \ {w} /\ codexPast' = AFault(codexPast)
        \/ codexPast' = AFault([codexPast EXCEPT !.strayed = @ \cup {w.thread}]) /\ UNCHANGED codexWork
     /\ UNCHANGED <<codexClient, threadMap, codexReplies>>

\* fail: whoever waits is refused; a resume that is refused asks the same
\* process for a new thread, and hears nothing.
AfterExit(s) ==
  LET turn == codexTurn[s]
  IN IF turn.at = "hung" \/ (turn.at \in {"initialize", "resume"} /\ turn.read[s] # 0)
     THEN [turn EXCEPT !.at = "hung"] ELSE IdleTurn(turn.n)
ChildExits ==
  /\ ClientUp /\ CodexFails("child") /\ codexPast' = AFault(codexPast)
  /\ codexClient' = [codexClient EXCEPT !.is = "dead"] /\ codexWork' = {}
  /\ turnWaiters' = [t \in Threads |-> NoOne]
  /\ codexTurn' = [s \in CodexSessions |-> AfterExit(s)]
  /\ UNCHANGED <<threadMap, codexReplies>>

BrainRestarts ==
  /\ CodexFails("restart") /\ codexPast' = AFault(codexPast)
  /\ codexClient' = [is |-> "none", ready |-> FALSE] /\ codexWork' = {}
  /\ turnWaiters' = [t \in Threads |-> NoOne]
  /\ codexTurn' = [s \in CodexSessions |-> IdleTurn(codexTurn[s].n)]
  /\ UNCHANGED <<threadMap, codexReplies>>

CodexNext ==
  \/ \E s \in CodexSessions :
       TurnStarts(s) \/ Initialized(s) \/ Resumed(s) \/ Started(s) \/ TurnRejected(s)
  \/ \E w \in codexWork : TextOf(w) \/ EndOf(w) \/ ErrorOf(w)
  \/ ChildExits \/ BrainRestarts
CodexSpec == CodexInit /\ [][CodexNext]_codexVars
---------------------------------------------------------------------------
(* The client, the file and the waiters keep their types.                  *)
CodexTypeOK ==
  /\ codexClient \in [is : {"none", "up", "dead"}, ready : BOOLEAN]
  /\ threadMap \in [CodexSessions -> 0 .. MaxThreads]
  /\ turnWaiters \in [Threads -> CodexSessions \cup {NoOne}]
  /\ \A w \in codexWork : w.thread \in Threads

(* A reply is the text of the turn that asked for it, stored at that       *)
(* turn's end, unless an earlier turn of its thread went on after its      *)
(* error (handleLine).                                                     *)
RepliesAreTheirTurns ==
  \A r \in codexReplies : r.thread \in codexPast.strayed \/ (r.got = {r.n} /\ r.by = r.n)

(* A session goes on in its first thread, unless that could not be resumed *)
(* or another session's write took it from the file (runCodexChatTurn).    *)
ContextIsKept ==
  \A s \in CodexSessions : TurnAt(s, "turn") => codexTurn[s].thread = codexPast.first[s] \/ s \in codexPast.moved

(* A turn is heard: it has its thread's waiter and a turn of the server    *)
(* that will end it; only a process that has ended leaves turns waiting.   *)
TurnsAreHeard ==
  \A s \in CodexSessions :
    /\ TurnAt(s, "turn") => turnWaiters[codexTurn[s].thread] = s /\ \E w \in codexWork : w.thread = codexTurn[s].thread
    /\ TurnAt(s, "hung") => codexClient.is = "dead"

(* What chats through a codex app-server may rely on.                      *)
CodexTurnsHold == RepliesAreTheirTurns /\ ContextIsKept /\ TurnsAreHeard
=============================================================================
