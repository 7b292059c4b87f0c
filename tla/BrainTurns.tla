----------------------------- MODULE BrainTurns -----------------------------
(***************************************************************************)
(* The turn broker of the Brain server (scripts/brainTurnLog.ts) under its *)
(* HTTP server (servers/brain-serve.ts), for one chat.                     *)
(*                                                                         *)
(* A turn outlives the request that started it: its events are numbered,   *)
(* appended to a file and passed to whoever is attached; a browser that    *)
(* lost its connection comes back with the highest number it saw.  The     *)
(* server is one JavaScript process, so what stands between two awaits is  *)
(* one action.  The file survives a restart, everything else does not.     *)
(***************************************************************************)
EXTENDS Naturals, SequencesExt

CONSTANTS
  MaxMessages,     \* messages the browser sends
  MaxTexts,        \* events a turn emits before it ends
  Overlap,         \* whether a message may come before the last one is answered
  SameDir,         \* whether /stream reads the file that the turn writes
  MaxDrops,        \* connections that break
  MaxServerDeaths  \* ends of the server process

Message == 1..MaxMessages
NoTurn == 0
NoEvent == [seq |-> 0, msg |-> NoTurn, type |-> "none"]

VARIABLES
  file,      \* brain-events/<chat>.jsonl
  live,      \* whose LiveTurn is in the registry
  turn,      \* the LiveTurn of each message
  queue,     \* the turns chained in chatQueues
  agent,     \* where the turn at the head of the queue is
  post,      \* the POST request of each message
  conn,      \* the connection through which the browser follows a message
  sent,      \* maxSent of that connection
  seen,      \* the events it brought
  drops, deaths

brainVars == <<file, live, turn, queue, agent, post, conn, sent, seen, drops, deaths>>

IsTerminal(r) == r.type \in {"done", "error", "interrupted"}

BrainInit ==
  /\ file = <<>> /\ live = NoTurn /\ queue = <<>> /\ agent = "idle"
  /\ turn = [m \in Message |-> [seq |-> 0, status |-> "none", terminal |-> NoEvent, subscribers |-> {}]]
  /\ post = [m \in Message |-> "no"] /\ conn = [m \in Message |-> "none"]
  /\ sent = [m \in Message |-> 0] /\ seen = [m \in Message |-> <<>>]
  /\ drops = 0 /\ deaths = 0

-----------------------------------------------------------------------------
(* The file and the numbers.                                               *)

LastPersistedSeq == IF file = <<>> THEN 0 ELSE Last(file).seq
LastSeq == IF live = NoTurn THEN LastPersistedSeq ELSE turn[live].seq

(* The records at some places, in their order.                             *)
Picked(records, places) ==
  [k \in 1..Cardinality(places) |->
     records[CHOOSE i \in places : Cardinality({j \in places : j <= i}) = k]]
ReadSince(records, since) == Picked(records, {i \in DOMAIN records : records[i].seq > since})

(* Of the records handed to a connection, those it sends: the numbers only *)
(* go up.                                                                  *)
Fresh(max, records) ==
  Picked(records, {i \in DOMAIN records :
                     records[i].seq > max /\ \A j \in 1..(i - 1) : records[j].seq < records[i].seq})
Highest(max, records) == IF records = <<>> THEN max ELSE Last(records).seq

Subscribed_NoReplay(since, records, turns, registered) ==
  LET stays == registered # NoTurn /\ turns[registered].status = "running"
  IN  [events |-> IF stays THEN <<>> ELSE ReadSince(records, since), stays |-> stays]

(* What an attached client is given at once, and whether it stays.         *)
Subscribed(since, records, turns, registered) ==
  LET backlog == ReadSince(records, since)
      state == turns[registered]
      over == backlog # <<>> /\ IsTerminal(Last(backlog))
      stays == ~over /\ registered # NoTurn /\ state.status = "running"
      epilogue ==
        CASE over \/ stays -> <<>>
          [] ~over /\ registered # NoTurn /\ ~stays ->
               IF state.terminal.seq > since /\ backlog = <<>> THEN <<state.terminal>> ELSE <<>>
          [] OTHER ->
               IF backlog = <<>> THEN <<>>
               ELSE <<[seq |-> Last(backlog).seq + 1, msg |-> Last(backlog).msg, type |-> "interrupted"]>>
  IN  [events |-> backlog \o epilogue, stays |-> stays]

(* An event of the turn of m: numbered, stored, passed on; a terminal one  *)
(* closes the turn and the connections that follow it.                     *)
Publish(m, type) ==
  LET rec == [seq |-> turn[m].seq + 1, msg |-> m, type |-> type]
      to == turn[m].subscribers
  IN  /\ file' = Append(file, rec)
      /\ turn' = [turn EXCEPT ![m] =
           IF IsTerminal(rec) THEN [seq |-> rec.seq, status |-> "ended", terminal |-> rec, subscribers |-> {}]
           ELSE [@ EXCEPT !.seq = rec.seq]]
      /\ seen' = [c \in Message |-> IF c \in to THEN seen[c] \o Fresh(sent[c], <<rec>>) ELSE seen[c]]
      /\ sent' = [c \in Message |-> IF c \in to THEN Highest(sent[c], Fresh(sent[c], <<rec>>)) ELSE sent[c]]
      /\ conn' = [c \in Message |-> IF c \in to /\ IsTerminal(rec) THEN "over" ELSE conn[c]]

EndIfUnterminated_Never == UNCHANGED <<file, turn, seen, sent, conn>>

(* endTurnIfUnterminated: of the turn in the registry.                     *)
EndIfUnterminated ==
  IF live # NoTurn /\ turn[live].status = "running" THEN Publish(live, "error")
  ELSE UNCHANGED <<file, turn, seen, sent, conn>>

-----------------------------------------------------------------------------
(* The browser.                                                            *)

Cursor ==
  LET all == UNION {{seen[c][i].seq : i \in DOMAIN seen[c]} : c \in Message}
  IN  CHOOSE n \in all \cup {0} : \A k \in all : k <= n
Settled(m) == conn[m] = "over"
Through(m) == Settled(m) /\ post[m] # "preparing" /\ m \notin ToSet(queue)

(* A message: the POST is answered with an open stream at once, then the   *)
(* workspace, the definitions and the transcript are prepared.             *)
Submit(m) ==
  /\ post[m] = "no" /\ \A k \in 1..(m - 1) : post[k] # "no" /\ (Overlap \/ Through(k))
  /\ post' = [post EXCEPT ![m] = "preparing"] /\ conn' = [conn EXCEPT ![m] = "post"]
  /\ UNCHANGED <<file, live, turn, queue, agent, sent, seen, drops, deaths>>

Breaks(m) ==
  /\ drops < MaxDrops /\ conn[m] \in {"post", "get"}
  /\ drops' = drops + 1 /\ conn' = [conn EXCEPT ![m] = "broken"]
  /\ turn' = [k \in Message |-> [turn[k] EXCEPT !.subscribers = @ \ {m}]]
  /\ UNCHANGED <<file, live, queue, agent, post, sent, seen, deaths>>

(* GET /chats/:id/stream?since=                                            *)
Reconnect(m) ==
  /\ conn[m] = "broken"
  /\ LET answer == Subscribed(Cursor, IF SameDir THEN file ELSE <<>>, [k \in {NoTurn} \cup Message |->
                                IF k = NoTurn THEN turn[m] ELSE turn[k]], live)
         events == Fresh(Cursor, answer.events)
     IN  /\ seen' = [seen EXCEPT ![m] = @ \o events]
         /\ sent' = [sent EXCEPT ![m] = Highest(Cursor, events)]
         /\ conn' = [conn EXCEPT ![m] = IF answer.stays THEN "get" ELSE "over"]
         /\ turn' = IF answer.stays THEN [turn EXCEPT ![live].subscribers = @ \cup {m}] ELSE turn
  /\ UNCHANGED <<file, live, queue, agent, post, drops, deaths>>

-----------------------------------------------------------------------------
(* The server.                                                             *)

(* A clone or a hydration fails: an error without a number ends the stream. *)
PrepareFails(m) ==
  /\ post[m] = "preparing" /\ post' = [post EXCEPT ![m] = "failed"]
  /\ IF conn[m] = "post"
     THEN /\ conn' = [conn EXCEPT ![m] = "over"]
          /\ seen' = [seen EXCEPT ![m] = Append(@, [seq |-> 0, msg |-> m, type |-> "error"])]
     ELSE UNCHANGED <<conn, seen>>
  /\ UNCHANGED <<file, live, turn, queue, agent, sent, drops, deaths>>

(* The message is stored: the turn is registered and queued, and the       *)
(* response follows it from the last number before it.                     *)
BeginTurn(m) ==
  /\ post[m] = "preparing" /\ post' = [post EXCEPT ![m] = "begun"]
  /\ live' = m /\ queue' = Append(queue, m)
  /\ LET floor == LastSeq
         begun == [turn EXCEPT ![m] = [seq |-> floor, status |-> "running", terminal |-> NoEvent, subscribers |-> {}]]
         answer == Subscribed(floor, file, begun, m)
         events == Fresh(floor, answer.events)
     IN  IF conn[m] # "post" THEN turn' = begun /\ UNCHANGED <<sent, seen, conn>>
         ELSE /\ turn' = IF answer.stays THEN [begun EXCEPT ![m].subscribers = {m}] ELSE begun
              /\ sent' = [sent EXCEPT ![m] = Highest(floor, events)]
              /\ seen' = [seen EXCEPT ![m] = @ \o events]
              /\ conn' = [conn EXCEPT ![m] = IF answer.stays THEN "post" ELSE "over"]
  /\ UNCHANGED <<file, agent, drops, deaths>>

StartTurn ==
  /\ queue # <<>> /\ agent = "idle" /\ agent' = "running"
  /\ UNCHANGED <<file, live, turn, queue, post, conn, sent, seen, drops, deaths>>

Emit(type) ==
  /\ agent = "running" /\ Publish(Head(queue), type)
  /\ type = "text" => Cardinality({i \in DOMAIN file : file[i].msg = Head(queue)}) < MaxTexts
  /\ agent' = IF type = "text" THEN "running" ELSE "closing"
  /\ UNCHANGED <<live, queue, post, drops, deaths>>

(* The mirror of a terminal event to the backend fails, and the driver     *)
(* reports that with an error event.                                       *)
EmitAgain ==
  /\ agent = "closing" /\ Publish(Head(queue), "error") /\ agent' = "closed"
  /\ UNCHANGED <<live, queue, post, drops, deaths>>

(* The turn returned or threw, with or without a terminal event.           *)
FinishTurn ==
  /\ agent # "idle" /\ agent' = "idle" /\ queue' = Tail(queue)
  /\ EndIfUnterminated
  /\ UNCHANGED <<live, post, drops, deaths>>

(* The process ends; a transcript that cannot be stored does that too, for *)
(* nothing catches the rejection of the request handler.                   *)
ServerDies ==
  /\ deaths < MaxServerDeaths /\ deaths' = deaths + 1
  /\ live' = NoTurn /\ queue' = <<>> /\ agent' = "idle"
  /\ turn' = [m \in Message |-> [turn[m] EXCEPT !.status = "none", !.subscribers = {}]]
  /\ post' = [m \in Message |-> IF post[m] = "preparing" THEN "failed" ELSE post[m]]
  /\ conn' = [m \in Message |-> IF conn[m] \in {"post", "get"} THEN "broken" ELSE conn[m]]
  /\ UNCHANGED <<file, sent, seen, drops>>

BrainNext ==
  \/ \E m \in Message : Submit(m) \/ Breaks(m) \/ Reconnect(m) \/ PrepareFails(m) \/ BeginTurn(m)
  \/ StartTurn \/ \E type \in {"text", "done", "error"} : Emit(type)
  \/ EmitAgain \/ FinishTurn \/ ServerDies
BrainSpec == BrainInit /\ [][BrainNext]_brainVars

-----------------------------------------------------------------------------
BrainTypeOK ==
  LET Event == [seq : Nat, msg : {NoTurn} \cup Message, type : {"none", "text", "done", "error", "interrupted"}]
  IN  /\ file \in Seq(Event) /\ live \in {NoTurn} \cup Message /\ queue \in Seq(Message)
      /\ turn \in [Message -> [seq : Nat, status : {"none", "running", "ended"}, terminal : Event,
                               subscribers : SUBSET Message]]
      /\ agent \in {"idle", "running", "closing", "closed"}
      /\ post \in [Message -> {"no", "preparing", "begun", "failed"}]
      /\ conn \in [Message -> {"none", "post", "get", "broken", "over"}]
      /\ sent \in [Message -> Nat] /\ seen \in [Message -> Seq(Event)]

(* The records of the reply to m, and those up to its end.                 *)
Own(m, records) == {i \in DOMAIN records : records[i].msg = m /\ records[i].seq > 0}
UpToEnd(m, records) == {i \in Own(m, records) : \A j \in Own(m, records) : j < i => ~IsTerminal(records[j])}
SawInterruption == \E m \in Message : \E i \in DOMAIN seen[m] : seen[m][i].type = "interrupted"

(* A browser that was told the end of the reply to its message was told    *)
(* all of it, once and in order, however often its connection broke: what  *)
(* readSince, subscribe and the deduplication of streamToRes are for.  An  *)
(* interruption is excepted, since its number is given away again.         *)
ReplyIsWhole ==
  \A m \in Message :
    LET told == UpToEnd(m, seen[m])
        stored == UpToEnd(m, file)
    IN  (\E i \in told : IsTerminal(seen[m][i])) /\ ~SawInterruption =>
          /\ {seen[m][i] : i \in told} = {file[i] : i \in stored}
          /\ \A i, j \in told : i < j => seen[m][i].seq < seen[m][j].seq

(* A record's number is its place in the file, over turns and restarts: a  *)
(* browser that names the last number it saw gets what comes after it      *)
(* (brainTurnLog.ts:58, 111).                                              *)
EventsAreNumbered == \A i \in DOMAIN file : file[i].seq = i

(* Who is attached follows a turn that is still queued or running, which   *)
(* its end will close (endTurnIfUnterminated, servers/brain-serve.ts:489). *)
NobodyHangs ==
  \A m \in Message : conn[m] = "get" \/ (conn[m] = "post" /\ post[m] = "begun") =>
    /\ live \in ToSet(queue) /\ m \in turn[live].subscribers /\ turn[live].status = "running"

(* What the log and the hand-over between connections are for.             *)
RepliesReachBrowsers == EventsAreNumbered /\ ReplyIsWhole /\ NobodyHangs

(* A process that restarts in a turn "reports an honest interrupted error   *)
(* instead of hanging forever" (brainTurnLog.ts:17): a stream that the     *)
(* server closes has told of an end of its turn.                           *)
StreamEndsHonestly ==
  \A m \in Message : post[m] = "begun" /\ Settled(m) => \E i \in DOMAIN seen[m] : IsTerminal(seen[m][i])
=============================================================================
