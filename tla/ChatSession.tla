----------------------------- MODULE ChatSession -----------------------------
(***************************************************************************)
(* A live chat session: the loop of src/chat/modes/interactive.ts over a   *)
(* transcript in the backend, which the dashboard appends to as well.      *)
(*                                                                         *)
(* The runner reads the transcript anew at every step and remembers only   *)
(* how long it was (watermark); between a read and what follows from it    *)
(* the dashboard may post, settle a pending message or hand over to        *)
(* another agent.  The runner may die and be dispatched again.             *)
(***************************************************************************)
EXTENDS Integers, Sequences, FiniteSets

CONSTANTS
  None,
  Statuses,      \* the statuses a user's message is posted with
  PostsInTurn,   \* whether the user posts while a turn is being answered
  OpenAI,        \* the model speaks the OpenAI protocol (runOpenAIChatTurn)
  FailingCalls,  \* the calls that may fail, MaxFaults times in all
  Broken,        \* the calls that may fail again and again
  MaxPosts, MaxHandoffs, MaxStarts, MaxFaults  \* bounds

Calls == {"top", "poll", "turn", "agent", "append", "lost", "emit", "mark"}

ASSUME BoundAssumption ==
  /\ MaxPosts \in Nat /\ MaxHandoffs \in Nat /\ MaxStarts \in Nat /\ MaxFaults \in Nat
ASSUME ChoiceAssumption ==
  /\ Statuses \subseteq {"pending", "committed"}
  /\ PostsInTurn \in BOOLEAN /\ OpenAI \in BOOLEAN
  /\ FailingCalls \subseteq Calls /\ Broken \subseteq Calls
  /\ None \notin {"idle-timeout", "deadline", "fatal", "rejected", "killed"}

VARIABLES
  log,        \* the conversation's entries in the backend
  pc,         \* where the runner is; "off" when there is none
  watermark,  \* next index to look at
  prompt,     \* position in log of the message the turn answers
  late,       \* the hard cap has passed
  idle,       \* the idle window of the current wait has passed
  ended,      \* how the last runner ended
  view,       \* history: Len(log) when the loop last read the transcript
  starts, faults

vars == <<log, pc, watermark, prompt, late, idle, ended, view, starts, faults>>

Positions == 1..Len(log)
Role(r) == {i \in Positions : log[i].role = r}

(* The positions of the current epoch's turns (currentEpochTurns). *)
Turns ==
  {i \in Positions : /\ log[i].role # "handoff"
                     /\ log[i].status # "cancelled"
                     /\ \A j \in i..Len(log) : log[j].role # "handoff"}
Index(i) == Cardinality({j \in Turns : j < i})
IsLast(i) == i \in Turns /\ \A j \in Turns : j <= i

NewFrom(w) == \E i \in Turns \cap Role("user") : Index(i) >= w
TrailingUser == \E i \in Role("user") : IsLast(i)
(* Without the rule for a trailing message. *)
Pending_NewOnly(w) == NewFrom(w)

(* findNextUserTurn(turns, w) # -1 *)
Pending(w) == NewFrom(w) \/ TrailingUser

Entry == [role : {"user"}, status : {"pending", "committed", "cancelled"}]
    \cup [role : {"assistant"}, status : {"committed"}, to : Nat]
    \cup [role : {"handoff"}]

Init ==
  /\ log = << >>
  /\ pc = "off" /\ watermark = 0 /\ prompt = 0
  /\ late = FALSE /\ idle = FALSE
  /\ ended = None /\ view = 0 /\ starts = 0 /\ faults = 0

Fails(call) ==
  \/ call \in FailingCalls /\ faults < MaxFaults /\ faults' = faults + 1
  \/ call \in Broken /\ UNCHANGED faults
Works == UNCHANGED faults
-----------------------------------------------------------------------------
(* The runner.  A throw that runInteractiveMode does not catch rejects it. *)

Rejects == pc' = "off" /\ ended' = "rejected"
Throws == pc' = "fatal" /\ UNCHANGED ended
Leaves(reason) == pc' = "exit" /\ ended' = reason
Goes(l) == pc' = l /\ UNCHANGED ended

Boot ==
  /\ pc = "off" /\ starts < MaxStarts
  /\ starts' = starts + 1
  /\ pc' = "top" /\ watermark' = 0 /\ late' = FALSE /\ ended' = None /\ view' = 0
  /\ UNCHANGED <<log, prompt, idle, faults>>

(* The head of the loop; a wait that begins here opens a new idle window. *)
Top ==
  /\ pc = "top"
  /\ \/ Works /\ Goes(IF Pending(watermark) THEN "turn" ELSE "wait") /\ view' = Len(log) /\ idle' = FALSE
     \/ Fails("top") /\ Rejects /\ UNCHANGED <<view, idle>>
  /\ UNCHANGED <<log, watermark, prompt, late, starts>>

(* The clock is looked at before the transcript, each time round. *)
Wait ==
  /\ pc = "wait"
  /\ \/ late /\ Leaves("deadline")
     \/ ~late /\ idle /\ Leaves("idle-timeout")
     \/ ~late /\ ~idle /\ Goes("poll")
  /\ UNCHANGED <<log, watermark, prompt, late, idle, view, starts, faults>>

Poll ==
  /\ pc = "poll"
  /\ \/ Works /\ Goes(IF NewFrom(watermark) THEN "turn" ELSE "wait") /\ view' = Len(log)
     \/ Fails("poll") /\ Goes("wait") /\ UNCHANGED view
  /\ UNCHANGED <<log, watermark, prompt, late, idle, starts>>

(* Without the check of the last turn's role. *)
Turn_AnyTurn ==
  /\ pc = "turn"
  /\ Works /\ Goes("agent")
  /\ \E i \in Turns \cap Role("user") :
       prompt' = i /\ \A j \in Turns \cap Role("user") : j <= i
  /\ UNCHANGED <<log, watermark, late, idle, view, starts>>

(* runChatTurn reads for itself and answers only a trailing user turn. *)
Turn ==
  /\ pc = "turn"
  /\ \/ Works /\ Goes("agent") /\ \E i \in Role("user") : IsLast(i) /\ prompt' = i
     \/ Works /\ ~TrailingUser /\ Goes("error") /\ UNCHANGED prompt
     \/ Fails("turn") /\ Throws /\ UNCHANGED prompt
  /\ UNCHANGED <<log, watermark, late, idle, view, starts>>

Agent ==
  /\ pc = "agent"
  /\ \/ Works /\ Goes("append")
     \/ Fails("agent") /\ Goes("error")
  /\ UNCHANGED <<log, watermark, prompt, late, idle, view, starts>>

Reply == [role |-> "assistant", status |-> "committed", to |-> prompt]

(* Outside the OpenAI path nothing in runChatTurn catches what follows. *)
Escapes == IF OpenAI THEN Goes("error") ELSE Throws

Store ==
  /\ pc = "append"
  /\ \/ Works /\ log' = Append(log, Reply) /\ Goes("announce")
     \/ Fails("append") /\ Escapes /\ UNCHANGED log
     \/ Fails("lost") /\ log' = Append(log, Reply) /\ Escapes
  /\ UNCHANGED <<watermark, prompt, late, idle, view, starts>>

(* chat.message and chat.done. *)
Announce ==
  /\ pc = "announce"
  /\ \/ Works /\ Goes("mark")
     \/ Fails("emit") /\ Escapes
  /\ UNCHANGED <<log, watermark, prompt, late, idle, view, starts>>

(* chat.error of a turn that ends with 64 or 99. *)
ReportError ==
  /\ pc = "error"
  /\ \/ Works /\ Goes("mark")
     \/ Fails("emit") /\ Throws
  /\ UNCHANGED <<log, watermark, prompt, late, idle, view, starts>>

(* The watermark is the index of the last turn rather than the next one. *)
Mark_LastSeen ==
  /\ pc = "mark"
  /\ \/ Works /\ watermark' = Cardinality(Turns) - 1 /\ Goes("top")
     \/ Fails("mark") /\ Rejects /\ UNCHANGED watermark
  /\ UNCHANGED <<log, prompt, late, idle, view, starts>>

(* The watermark stays where it is. *)
Mark_Stays ==
  /\ pc = "mark"
  /\ \/ Works /\ UNCHANGED watermark /\ Goes("top")
     \/ Fails("mark") /\ Rejects /\ UNCHANGED watermark
  /\ UNCHANGED <<log, prompt, late, idle, view, starts>>

(* The watermark jumps over everything the transcript holds by now. *)
Mark ==
  /\ pc = "mark"
  /\ \/ Works /\ watermark' = Cardinality(Turns) /\ Goes("top")
     \/ Fails("mark") /\ Rejects /\ UNCHANGED watermark
  /\ UNCHANGED <<log, prompt, late, idle, view, starts>>

(* chat.error and then chat.exit after a throw in the turn. *)
Fatal ==
  /\ pc = "fatal"
  /\ \/ Works /\ Leaves("fatal")
     \/ Fails("emit") /\ Rejects
  /\ UNCHANGED <<log, watermark, prompt, late, idle, view, starts>>

Exit ==
  /\ pc = "exit"
  /\ \/ Works /\ Goes("off")
     \/ Fails("emit") /\ Rejects
  /\ UNCHANGED <<log, watermark, prompt, late, idle, view, starts>>

Run ==
  \/ Top \/ Wait \/ Poll \/ Turn \/ Agent \/ Store
  \/ Announce \/ ReportError \/ Mark \/ Fatal \/ Exit
-----------------------------------------------------------------------------
(* The dashboard, the clock and the machine the runner is on. *)

Running == <<pc, watermark, prompt, late, idle, ended, view, starts, faults>>

Post ==
  /\ Cardinality(Role("user")) < MaxPosts
  /\ PostsInTurn \/ pc \notin {"agent", "append"}
  /\ \E s \in Statuses : log' = Append(log, [role |-> "user", status |-> s])
  /\ UNCHANGED Running

Settle ==
  /\ \E i \in Role("user"), s \in {"committed", "cancelled"} :
       /\ log[i].status = "pending"
       /\ log' = [log EXCEPT ![i].status = s]
  /\ UNCHANGED Running

Handoff ==
  /\ Cardinality(Role("handoff")) < MaxHandoffs
  /\ log' = Append(log, [role |-> "handoff"])
  /\ UNCHANGED Running

HardCap ==
  /\ pc # "off" /\ ~late /\ late' = TRUE
  /\ UNCHANGED <<log, pc, watermark, prompt, idle, ended, view, starts, faults>>

IdleWindow ==
  /\ pc \in {"wait", "poll"} /\ ~idle /\ idle' = TRUE
  /\ UNCHANGED <<log, pc, watermark, prompt, late, ended, view, starts, faults>>

Kill ==
  /\ pc # "off" /\ starts < MaxStarts
  /\ pc' = "off" /\ ended' = "killed"
  /\ UNCHANGED <<log, watermark, prompt, late, idle, view, starts, faults>>

Next == Boot \/ Run \/ Post \/ Settle \/ Handoff \/ HardCap \/ IdleWindow \/ Kill

Spec == Init /\ [][Next]_vars

(* The runner's process is scheduled, its calls return and time passes. *)
FairSpec == Spec /\ WF_vars(Run) /\ WF_vars(HardCap)
-----------------------------------------------------------------------------
Labels == {"off", "top", "wait", "poll", "turn", "agent", "append", "announce",
           "error", "mark", "fatal", "exit"}

(* Every variable keeps its type. *)
TypeOK ==
  /\ log \in Seq(Entry)
  /\ pc \in Labels
  /\ watermark \in Nat /\ prompt \in Nat /\ view \in Nat
  /\ late \in BOOLEAN /\ idle \in BOOLEAN
  /\ ended \in {None, "idle-timeout", "deadline", "fatal", "rejected", "killed"}
  /\ starts \in Nat /\ faults \in 0..MaxFaults

(* A message is answered at most once and replies come in the order of the *)
(* messages they answer, although a runner may die, or lose the response,  *)
(* between storing a reply and moving its watermark, and although the      *)
(* next one starts again at watermark 0 (runInteractiveMode, runChatTurn). *)
RepliesInOrder ==
  \A a, b \in Role("assistant") : a < b => log[a].to < log[b].to

Answered(i) == \E a \in Role("assistant") : log[a].to >= i

(* The session ends as idle only when every message of the epoch the       *)
(* runner had a chance to read was answered: "polls the canonical          *)
(* conversation for new user messages and runs a turn for each".           *)
IdleMeansAnswered ==
  ended = "idle-timeout" =>
    \A i \in Turns \cap Role("user") : i <= view => Answered(i)

(* A runner comes to its end, by the hard cap if by nothing else.          *)
RunnerEnds == pc # "off" ~> pc = "off"

=============================================================================
