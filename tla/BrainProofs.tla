---------------------------- MODULE BrainProofs ----------------------------
(***************************************************************************)
(* Theorems about BrainTurns for any number of messages, events, broken    *)
(* connections and deaths of the server.  First the turns of a chat, whose *)
(* messages come one by one; then what the browsers were told of them.     *)
(***************************************************************************)
EXTENDS BrainTurns, FiniteSetTheorems, WellFoundedInduction, TLAPS

BrainEvent == [seq : Nat, msg : {NoTurn} \cup Message, type : {"none", "text", "done", "error", "interrupted"}]
LiveTurn == [seq : Nat, status : {"none", "running", "ended"}, terminal : BrainEvent, subscribers : SUBSET Message]
TurnsTyped ==
  /\ file \in Seq(BrainEvent) /\ live \in {NoTurn} \cup Message /\ turn \in [Message -> LiveTurn]
  /\ agent \in {"idle", "running", "closing", "closed"}
  /\ post \in [Message -> {"no", "preparing", "begun", "failed"}]
  /\ conn \in [Message -> {"none", "post", "get", "broken", "over"}]

\* A message comes when those before it are through.
InOrder == \A j, k \in Message : j < k /\ post[k] # "no" => post[j] \in {"begun", "failed"} /\ conn[j] = "over" /\ j \notin ToSet(queue)
NotYetSent == \A m \in Message : post[m] = "no" => conn[m] = "none" /\ \A k \in Message : m \notin turn[k].subscribers
QueueIsLive ==
  /\ queue = <<>> \/ (live \in Message /\ queue = <<live>> /\ post[live] = "begun")
  /\ agent # "idle" => queue # <<>>
  /\ live # NoTurn /\ turn[live].status = "running" => queue # <<>>
Attached(m) == conn[m] = "get" \/ (conn[m] = "post" /\ post[m] = "begun")
Followed(m) == queue # <<>> /\ m \in turn[live].subscribers /\ turn[live].status = "running"
AttachedFollow == \A m \in Message : Attached(m) => Followed(m)
TurnsInv == TurnsTyped /\ InOrder /\ NotYetSent /\ QueueIsLive /\ AttachedFollow

LEMMA QueueSets == ToSet(<<>>) = {} /\ \A m : ToSet(<<m>>) = {m} /\ Head(<<m>>) = m /\ Tail(<<m>>) = <<>> /\ Append(<<>>, m) = <<m>> /\ <<m>> # <<>>
<1>1. DOMAIN <<>> = {}
  OBVIOUS
<1>2. \A m : DOMAIN <<m>> = {1} /\ <<m>>[1] = m
  OBVIOUS
<1>3. \A m : Head(<<m>>) = m /\ Tail(<<m>>) = <<>> /\ Append(<<>>, m) = <<m>> /\ <<m>> # <<>>
  OBVIOUS
<1> QED
  BY <1>1, <1>2, <1>3 DEF ToSet

LEMMA NumbersAreTyped ==
  ASSUME TurnsInv
  PROVE  LastSeq \in Nat
<1>1. file \in Seq(BrainEvent) /\ live \in {NoTurn} \cup Message /\ turn \in [Message -> LiveTurn]
  BY DEF TurnsInv, TurnsTyped
<1>2. CASE live # NoTurn
  BY <1>1, <1>2 DEF LastSeq, LiveTurn
<1>3. CASE live = NoTurn /\ file = <<>>
  BY <1>3 DEF LastSeq, LastPersistedSeq
<1>4. CASE live = NoTurn /\ file # <<>>
  <2>1. Len(file) \in 1..Len(file)
    BY <1>1, <1>4
  <2>2. file[Len(file)] \in BrainEvent
    BY <1>1, <2>1
  <2> QED
    BY <1>4, <2>2 DEF LastSeq, LastPersistedSeq, Last, BrainEvent
<1> QED
  BY <1>2, <1>3, <1>4

LEMMA TurnsStart == BrainInit => TurnsInv
<1> SUFFICES ASSUME BrainInit PROVE TurnsInv
  OBVIOUS
<1>1. /\ file = <<>> /\ live = NoTurn /\ queue = <<>> /\ agent = "idle"
      /\ turn = [m \in Message |-> [seq |-> 0, status |-> "none", terminal |-> NoEvent, subscribers |-> {}]]
      /\ post = [m \in Message |-> "no"] /\ conn = [m \in Message |-> "none"]
  BY DEF BrainInit
<1>2. [seq |-> 0, status |-> "none", terminal |-> NoEvent, subscribers |-> {}] \in LiveTurn
  BY DEF LiveTurn, NoEvent, BrainEvent
<1>3. TurnsTyped
  BY <1>1, <1>2 DEF TurnsTyped
<1> QED
  BY <1>1, <1>3 DEF TurnsInv, InOrder, NotYetSent, QueueIsLive, AttachedFollow, Attached

\* Nothing is taken from a message that is through.
LEMMA OrderStays ==
  ASSUME TurnsInv, \A m \in Message : (post'[m] = "no" <=> post[m] = "no") /\ (conn[m] = "over" => conn'[m] = "over")
                     /\ (post[m] = "no" => conn'[m] = "none") /\ (post[m] \in {"begun", "failed"} => post'[m] \in {"begun", "failed"})
                     /\ (m \in ToSet(queue)' => m \in ToSet(queue) \/ post[m] = "preparing")
                     /\ \A k \in Message : m \in turn'[k].subscribers => m \in turn[k].subscribers \/ conn[m] # "none"
  PROVE  InOrder' /\ NotYetSent'
BY DEF TurnsInv, InOrder, NotYetSent

LEMMA LiveTurnParts ==
  ASSUME NEW r \in LiveTurn, NEW set \in SUBSET Message
  PROVE  /\ [r EXCEPT !.subscribers = set] \in LiveTurn /\ [r EXCEPT !.subscribers = set].status = r.status
         /\ [r EXCEPT !.subscribers = set].subscribers = set
         /\ [r EXCEPT !.status = "none", !.subscribers = {}] \in LiveTurn
         /\ [r EXCEPT !.status = "none", !.subscribers = {}].subscribers = {}
<1>1. /\ [r EXCEPT !.subscribers = set] \in LiveTurn /\ [r EXCEPT !.subscribers = set].status = r.status
      /\ [r EXCEPT !.subscribers = set].subscribers = set
  BY DEF LiveTurn
<1>2. [r EXCEPT !.status = "none", !.subscribers = {}] \in LiveTurn
  BY DEF LiveTurn
<1>3. [r EXCEPT !.status = "none", !.subscribers = {}].subscribers = {}
  BY DEF LiveTurn
<1> QED
  BY <1>1, <1>2, <1>3

LEMMA LiveTurnGoesOn ==
  ASSUME NEW r \in LiveTurn, NEW rec \in BrainEvent, NEW over \in BOOLEAN
  PROVE  \E new \in LiveTurn :
           /\ new = IF over THEN [seq |-> rec.seq, status |-> "ended", terminal |-> rec, subscribers |-> {}] ELSE [r EXCEPT !.seq = rec.seq]
           /\ over => new.status = "ended" /\ new.subscribers = {}
           /\ ~over => new.status = r.status /\ new.subscribers = r.subscribers
<1>1. rec.seq \in Nat
  BY DEF BrainEvent
<1>2. [seq |-> rec.seq, status |-> "ended", terminal |-> rec, subscribers |-> {}] \in LiveTurn
  BY <1>1 DEF LiveTurn
<1>3. /\ [r EXCEPT !.seq = rec.seq] \in LiveTurn /\ [r EXCEPT !.seq = rec.seq].status = r.status
      /\ [r EXCEPT !.seq = rec.seq].subscribers = r.subscribers
  BY <1>1 DEF LiveTurn
<1>4. CASE over
  BY <1>2, <1>4
<1>5. CASE ~over
  BY <1>3, <1>5
<1> QED
  BY <1>4, <1>5

\* An event of the turn that is queued: who follows it goes on or is over.
LEMMA EventGoesOut ==
  ASSUME TurnsInv, live \in Message,
         NEW type \in {"text", "done", "error"}, Publish(live, type), UNCHANGED <<live, post>>,
         queue' = queue \/ (type = "error" /\ queue' = <<>>), agent' \in {"idle", "running", "closing", "closed"},
         agent' # "idle" => queue' # <<>>
  PROVE  TurnsInv'
<1> DEFINE rec == [seq |-> turn[live].seq + 1, msg |-> live, type |-> type]
           over == type # "text"
<1>1. /\ file \in Seq(BrainEvent) /\ turn \in [Message -> LiveTurn] /\ conn \in [Message -> {"none", "post", "get", "broken", "over"}]
      /\ post \in [Message -> {"no", "preparing", "begun", "failed"}]
  BY DEF TurnsInv, TurnsTyped
<1>2. turn[live] \in LiveTurn /\ turn[live].seq \in Nat /\ turn[live].subscribers \subseteq Message
  BY <1>1 DEF LiveTurn
<1>3. rec \in BrainEvent /\ (IsTerminal(rec) <=> over) /\ rec.seq = turn[live].seq + 1
  BY <1>2 DEF BrainEvent, IsTerminal
<1>4. /\ file' = Append(file, rec)
      /\ turn' = [turn EXCEPT ![live] =
           IF IsTerminal(rec) THEN [seq |-> rec.seq, status |-> "ended", terminal |-> rec, subscribers |-> {}] ELSE [@ EXCEPT !.seq = rec.seq]]
      /\ conn' = [c \in Message |-> IF c \in turn[live].subscribers /\ IsTerminal(rec) THEN "over" ELSE conn[c]]
  BY DEF Publish
<1> HIDE DEF rec, over
<1>5. PICK new \in LiveTurn :
        /\ turn' = [turn EXCEPT ![live] = new]
        /\ over => new.status = "ended" /\ new.subscribers = {}
        /\ ~over => new.status = turn[live].status /\ new.subscribers = turn[live].subscribers
  <2>1. over \in BOOLEAN
    BY DEF over
  <2>2. PICK new \in LiveTurn :
        /\ new = IF over THEN [seq |-> rec.seq, status |-> "ended", terminal |-> rec, subscribers |-> {}] ELSE [turn[live] EXCEPT !.seq = rec.seq]
        /\ over => new.status = "ended" /\ new.subscribers = {}
        /\ ~over => new.status = turn[live].status /\ new.subscribers = turn[live].subscribers
    <3>1. PICK r \in LiveTurn : r = turn[live]
      BY <1>2
    <3>2. PICK e \in BrainEvent : e = rec
      BY <1>3
    <3>3. PICK end \in BOOLEAN : end = over
      BY <2>1
    <3> HIDE DEF over
    <3>4. PICK new \in LiveTurn :
            /\ new = IF end THEN [seq |-> e.seq, status |-> "ended", terminal |-> e, subscribers |-> {}] ELSE [r EXCEPT !.seq = e.seq]
            /\ end => new.status = "ended" /\ new.subscribers = {}
            /\ ~end => new.status = r.status /\ new.subscribers = r.subscribers
      BY LiveTurnGoesOn
    <3> QED
      BY <3>1, <3>2, <3>3, <3>4
  <2>3. turn' = [turn EXCEPT ![live] = new]
    BY <1>3, <1>4, <2>2
  <2> QED
    BY <2>2, <2>3
<1>6. turn'[live] = new /\ turn' \in [Message -> LiveTurn]
  BY <1>1, <1>5
<1>7. \A c \in Message : conn'[c] = IF c \in turn[live].subscribers /\ over THEN "over" ELSE conn[c]
  BY <1>3, <1>4
<1>8. TurnsTyped'
  <2>1. conn' \in [Message -> {"none", "post", "get", "broken", "over"}]
    BY <1>1, <1>4
  <2>2. file' \in Seq(BrainEvent)
    BY <1>1, <1>3, <1>4
  <2> QED
    BY <1>6, <2>1, <2>2 DEF TurnsInv, TurnsTyped
<1>9. InOrder' /\ NotYetSent'
  <2>1. \A m \in Message : m \in ToSet(queue)' => m \in ToSet(queue)
    BY QueueSets
  <2>2. \A m, k \in Message : m \in turn'[k].subscribers => m \in turn[k].subscribers
    BY <1>1, <1>5
  <2>3. \A m \in Message : post[m] = "no" => conn'[m] = "none"
    BY <1>7 DEF TurnsInv, NotYetSent
  <2> QED
    BY <1>7, <2>1, <2>2, <2>3, OrderStays
<1>10. QueueIsLive'
  BY <1>5, <1>6 DEF TurnsInv, QueueIsLive, over
<1>11. AttachedFollow'
  <2> SUFFICES ASSUME NEW m \in Message, Attached(m)' PROVE Followed(m)'
    BY DEF AttachedFollow
  <2>1. conn'[m] = conn[m]
    BY <1>7 DEF Attached
  <2>2. Followed(m)
    BY <2>1 DEF TurnsInv, AttachedFollow, Attached
  <2>3. ~over
    BY <1>7, <2>2 DEF Followed, Attached
  <2> QED
    BY <1>5, <1>6, <2>2, <2>3 DEF Followed, over
<1> QED
  BY <1>8, <1>9, <1>10, <1>11 DEF TurnsInv

LEMMA BrowserKeeps ==
  ASSUME ~Overlap, TurnsInv, NEW m \in Message, Submit(m) \/ Breaks(m) \/ PrepareFails(m)
  PROVE  TurnsInv'
<1>1. TurnsTyped /\ InOrder /\ NotYetSent /\ QueueIsLive /\ AttachedFollow
  BY DEF TurnsInv
<1>2. CASE Submit(m)
  <2>1. /\ post[m] = "no" /\ post' = [post EXCEPT ![m] = "preparing"] /\ conn' = [conn EXCEPT ![m] = "post"]
        /\ UNCHANGED <<file, live, turn, queue, agent>>
        /\ \A k \in Message : k < m => post[k] \in {"begun", "failed"} /\ conn[k] = "over" /\ k \notin ToSet(queue)
    <3>1. \A k \in Message : k < m => k \in 1..(m - 1)
      BY DEF Message
    <3>2. \A k \in Message : k < m => post[k] # "no" /\ Through(k)
      BY <1>2, <3>1 DEF Submit
    <3>3. \A k \in Message : post[k] \in {"no", "preparing", "begun", "failed"}
      BY <1>1 DEF TurnsTyped
    <3> QED
      BY <1>2, <3>2, <3>3 DEF Submit, Through, Settled
  <2>2. TurnsTyped'
    BY <1>1, <2>1 DEF TurnsTyped
  <2>3. \A k \in Message : k # m => post'[k] = post[k] /\ conn'[k] = conn[k]
    BY <1>1, <2>1 DEF TurnsTyped
  <2>4. post'[m] = "preparing" /\ conn'[m] = "post"
    BY <1>1, <2>1 DEF TurnsTyped
  <2>5. InOrder'
    <3> SUFFICES ASSUME NEW j \in Message, NEW k \in Message, j < k, post'[k] # "no"
                 PROVE  post'[j] \in {"begun", "failed"} /\ conn'[j] = "over" /\ j \notin ToSet(queue)
      BY <2>1 DEF InOrder
    <3>1. CASE k = m
      <4>1. j # m
        BY <3>1 DEF Message
      <4> QED
        BY <2>1, <2>3, <3>1, <4>1
    <3>2. CASE k # m
      <4>1. post[j] \in {"begun", "failed"} /\ conn[j] = "over" /\ j \notin ToSet(queue)
        BY <1>1, <2>3, <3>2 DEF InOrder
      <4> QED
        BY <2>1, <2>3, <4>1
    <3> QED
      BY <3>1, <3>2
  <2>6. NotYetSent'
    BY <1>1, <2>1, <2>3, <2>4 DEF NotYetSent
  <2>7. QueueIsLive'
    BY <1>1, <2>1, <2>3 DEF QueueIsLive
  <2>8. AttachedFollow'
    BY <1>1, <2>1, <2>3, <2>4 DEF AttachedFollow, Attached, Followed
  <2> QED
    BY <2>2, <2>5, <2>6, <2>7, <2>8 DEF TurnsInv
<1>3. CASE Breaks(m)
  <2>1. /\ conn[m] \in {"post", "get"} /\ conn' = [conn EXCEPT ![m] = "broken"]
        /\ turn' = [k \in Message |-> [turn[k] EXCEPT !.subscribers = @ \ {m}]]
        /\ UNCHANGED <<file, live, queue, agent, post>>
    BY <1>3 DEF Breaks
  <2>2. \A k \in Message : turn'[k] \in LiveTurn /\ turn'[k].status = turn[k].status /\ turn'[k].subscribers = turn[k].subscribers \ {m}
    <3> SUFFICES ASSUME NEW k \in Message
                 PROVE  turn'[k] \in LiveTurn /\ turn'[k].status = turn[k].status /\ turn'[k].subscribers = turn[k].subscribers \ {m}
      OBVIOUS
    <3>1. turn[k] \in LiveTurn
      BY <1>1 DEF TurnsTyped
    <3>2. turn[k].subscribers \ {m} \in SUBSET Message
      BY <3>1 DEF LiveTurn
    <3>3. turn'[k] = [turn[k] EXCEPT !.subscribers = turn[k].subscribers \ {m}]
      BY <2>1, <3>1 DEF LiveTurn
    <3>4. PICK r \in LiveTurn : r = turn[k]
      BY <3>1
    <3>5. PICK set \in SUBSET Message : set = turn[k].subscribers \ {m}
      BY <3>2
    <3>6. turn'[k] = [r EXCEPT !.subscribers = set]
      BY <3>3, <3>4, <3>5
    <3>7. turn'[k] \in LiveTurn /\ turn'[k].status = r.status /\ turn'[k].subscribers = set
      <4>1. /\ [r EXCEPT !.subscribers = set] \in LiveTurn /\ [r EXCEPT !.subscribers = set].status = r.status
            /\ [r EXCEPT !.subscribers = set].subscribers = set
        BY LiveTurnParts
      <4> QED
        BY <3>6, <4>1
    <3> QED
      BY <3>4, <3>5, <3>7
  <2>3. turn' \in [Message -> LiveTurn]
    BY <2>1, <2>2
  <2>4. TurnsTyped'
    BY <1>1, <2>1, <2>3 DEF TurnsTyped
  <2>5. conn'[m] = "broken" /\ \A k \in Message : k # m => conn'[k] = conn[k]
    BY <1>1, <2>1 DEF TurnsTyped
  <2>6. InOrder' /\ NotYetSent'
    BY <1>1, <2>1, <2>2, <2>5, OrderStays DEF NotYetSent
  <2>7. QueueIsLive'
    BY <1>1, <2>1, <2>2 DEF QueueIsLive, TurnsTyped
  <2>8. AttachedFollow'
    BY <1>1, <2>1, <2>2, <2>5 DEF AttachedFollow, Attached, Followed, QueueIsLive
  <2> QED
    BY <2>4, <2>6, <2>7, <2>8 DEF TurnsInv
<1>4. CASE PrepareFails(m)
  <2>1. /\ post[m] = "preparing" /\ post' = [post EXCEPT ![m] = "failed"] /\ UNCHANGED <<file, live, turn, queue, agent>>
        /\ conn' = (IF conn[m] = "post" THEN [conn EXCEPT ![m] = "over"] ELSE conn)
    BY <1>4 DEF PrepareFails
  <2>2. TurnsTyped'
    BY <1>1, <2>1 DEF TurnsTyped
  <2>3. /\ post'[m] = "failed" /\ conn'[m] \in {"over", conn[m]} /\ conn'[m] # "post"
        /\ \A k \in Message : k # m => post'[k] = post[k] /\ conn'[k] = conn[k]
    BY <1>1, <2>1 DEF TurnsTyped
  <2>4. InOrder' /\ NotYetSent'
    BY <1>1, <2>1, <2>3, OrderStays DEF NotYetSent
  <2>5. QueueIsLive'
    BY <1>1, <2>1, <2>3 DEF QueueIsLive
  <2>6. AttachedFollow'
    BY <1>1, <2>1, <2>3 DEF AttachedFollow, Attached, Followed
  <2> QED
    BY <2>2, <2>4, <2>5, <2>6 DEF TurnsInv
<1> QED
  BY <1>2, <1>3, <1>4

\* Who comes back follows the turn that runs, or is told what there is.
LEMMA ReconnectKeeps ==
  ASSUME TurnsInv, NEW m \in Message, Reconnect(m)
  PROVE  TurnsInv'
<1>1. TurnsTyped /\ InOrder /\ NotYetSent /\ QueueIsLive /\ AttachedFollow
  BY DEF TurnsInv
<1> DEFINE turns == [k \in {NoTurn} \cup Message |-> IF k = NoTurn THEN turn[m] ELSE turn[k]]
           answer == Subscribed(Cursor, IF SameDir THEN file ELSE <<>>, turns, live)
           stays == answer.stays
<1>2. /\ conn[m] = "broken" /\ conn' = [conn EXCEPT ![m] = IF stays THEN "get" ELSE "over"]
      /\ turn' = (IF stays THEN [turn EXCEPT ![live].subscribers = @ \cup {m}] ELSE turn)
      /\ UNCHANGED <<file, live, queue, agent, post>>
  BY DEF Reconnect
<1>3. stays => live # NoTurn /\ turn[live].status = "running"
  <2>1. stays => live # NoTurn /\ turns[live].status = "running"
    BY DEF Subscribed
  <2>2. live # NoTurn => turns[live] = turn[live]
    BY <1>1 DEF TurnsTyped
  <2> QED
    BY <2>1, <2>2
<1> HIDE DEF stays
<1>4. TurnsTyped' /\ \A k \in Message :
        /\ turn'[k].status = turn[k].status
        /\ turn'[k].subscribers = IF stays /\ k = live THEN turn[k].subscribers \cup {m} ELSE turn[k].subscribers
  <2>1. conn' \in [Message -> {"none", "post", "get", "broken", "over"}]
    BY <1>1, <1>2 DEF TurnsTyped
  <2>2. CASE stays
    <3>1. live \in Message /\ turn[live] \in LiveTurn
      BY <1>1, <1>3, <2>2 DEF TurnsTyped
    <3> DEFINE new == [turn[live] EXCEPT !.subscribers = @ \cup {m}]
    <3>2. new \in LiveTurn /\ new.status = turn[live].status /\ new.subscribers = turn[live].subscribers \cup {m}
      BY <3>1 DEF LiveTurn
    <3>3. turn' = [turn EXCEPT ![live] = new]
      BY <1>2, <2>2
    <3> HIDE DEF new
    <3>4. turn' \in [Message -> LiveTurn] /\ turn'[live] = new /\ \A k \in Message : k # live => turn'[k] = turn[k]
      BY <1>1, <3>1, <3>2, <3>3 DEF TurnsTyped
    <3> QED
      BY <1>1, <1>2, <2>1, <2>2, <3>2, <3>4 DEF TurnsTyped
  <2>3. CASE ~stays
    BY <1>1, <1>2, <2>1, <2>3 DEF TurnsTyped
  <2> QED
    BY <2>2, <2>3
<1>5. conn'[m] = (IF stays THEN "get" ELSE "over") /\ \A k \in Message : k # m => conn'[k] = conn[k]
  BY <1>1, <1>2 DEF TurnsTyped
<1>6. InOrder' /\ NotYetSent'
  BY <1>1, <1>2, <1>4, <1>5, OrderStays DEF NotYetSent
<1>7. QueueIsLive'
  BY <1>1, <1>2, <1>4 DEF QueueIsLive, TurnsTyped
<1>8. AttachedFollow'
  <2> SUFFICES ASSUME NEW k \in Message, Attached(k)' PROVE Followed(k)'
    BY DEF AttachedFollow
  <2>1. CASE k = m
    <3>1. stays
      BY <1>5, <2>1 DEF Attached
    <3>2. live \in Message /\ queue # <<>>
      BY <1>1, <1>3, <3>1 DEF QueueIsLive, TurnsTyped
    <3> QED
      <4>1. m \in turn'[live].subscribers /\ turn'[live].status = "running"
        BY <1>3, <1>4, <3>1, <3>2
      <4> QED
        BY <1>2, <2>1, <3>2, <4>1 DEF Followed
  <2>2. CASE k # m
    <3>1. Followed(k)
      BY <1>1, <1>2, <1>5, <2>2 DEF AttachedFollow, Attached
    <3>2. live \in Message
      BY <1>1, <3>1 DEF Followed, QueueIsLive
    <3> QED
      BY <1>2, <1>4, <3>1, <3>2 DEF Followed
  <2> QED
    BY <2>1, <2>2
<1> QED
  BY <1>4, <1>6, <1>7, <1>8 DEF TurnsInv

\* A message's turn begins when no other is queued.
LEMMA BeginKeeps ==
  ASSUME TurnsInv, NEW m \in Message, BeginTurn(m)
  PROVE  TurnsInv'
<1>1. TurnsTyped /\ InOrder /\ NotYetSent /\ QueueIsLive /\ AttachedFollow
  BY DEF TurnsInv
<1> DEFINE floor == LastSeq
           fresh == [seq |-> floor, status |-> "running", terminal |-> NoEvent, subscribers |-> {}]
           begun == [turn EXCEPT ![m] = fresh]
           answer == Subscribed(floor, file, begun, m)
           stays == answer.stays
<1>2. /\ post[m] = "preparing" /\ post' = [post EXCEPT ![m] = "begun"] /\ live' = m /\ queue' = Append(queue, m)
      /\ UNCHANGED <<file, agent>>
      /\ IF conn[m] # "post" THEN turn' = begun /\ UNCHANGED conn
         ELSE /\ turn' = (IF stays THEN [begun EXCEPT ![m].subscribers = {m}] ELSE begun)
              /\ conn' = [conn EXCEPT ![m] = IF stays THEN "post" ELSE "over"]
  BY DEF BeginTurn
<1>3. queue = <<>>
  <2> SUFFICES ASSUME live \in Message, queue = <<live>>, post[live] = "begun" PROVE FALSE
    BY <1>1 DEF QueueIsLive
  <2>1. live # m /\ live \in ToSet(queue)
    BY <1>2, QueueSets
  <2>2. live < m \/ m < live
    BY <2>1 DEF Message
  <2>3. ~(live < m)
    BY <1>1, <1>2, <2>1 DEF InOrder
  <2>4. ~(m < live)
    BY <1>1, <1>2 DEF InOrder
  <2> QED
    BY <2>2, <2>3, <2>4
<1>4. \A k \in Message : ~Attached(k)
  BY <1>1, <1>3 DEF AttachedFollow, Followed
<1>5. fresh \in LiveTurn /\ [fresh EXCEPT !.subscribers = {m}] \in LiveTurn
  BY NumbersAreTyped DEF LiveTurn, NoEvent, BrainEvent
<1>6. begun[m] = fresh /\ begun \in [Message -> LiveTurn]
  BY <1>1, <1>5 DEF TurnsTyped
<1> DEFINE new == IF conn[m] = "post" /\ stays THEN [fresh EXCEPT !.subscribers = {m}] ELSE fresh
<1>7. turn' = [turn EXCEPT ![m] = new]
  <2>1. CASE conn[m] # "post" \/ ~stays
    BY <1>2, <2>1
  <2>2. CASE conn[m] = "post" /\ stays
    <3>1. turn' = [begun EXCEPT ![m] = [fresh EXCEPT !.subscribers = {m}]]
      BY <1>2, <1>6, <2>2
    <3>2. turn' = [turn EXCEPT ![m] = [fresh EXCEPT !.subscribers = {m}]]
      BY <1>1, <3>1 DEF TurnsTyped
    <3> QED
      BY <2>2, <3>2
  <2> QED
    BY <2>1, <2>2
<1>8. new \in LiveTurn /\ new.status = "running" /\ new.subscribers = IF conn[m] = "post" /\ stays THEN {m} ELSE {}
  BY <1>5
<1> HIDE DEF new, begun, fresh, floor, answer, stays
<1>9. turn' \in [Message -> LiveTurn] /\ turn'[m] = new /\ \A k \in Message : k # m => turn'[k] = turn[k]
  BY <1>1, <1>7, <1>8 DEF TurnsTyped
<1>10. /\ conn' \in [Message -> {"none", "post", "get", "broken", "over"}]
       /\ conn'[m] = (IF conn[m] # "post" THEN conn[m] ELSE IF stays THEN "post" ELSE "over")
       /\ \A k \in Message : k # m => conn'[k] = conn[k]
  BY <1>1, <1>2 DEF TurnsTyped
<1>11. /\ post' \in [Message -> {"no", "preparing", "begun", "failed"}] /\ post'[m] = "begun"
       /\ \A k \in Message : k # m => post'[k] = post[k]
  BY <1>1, <1>2 DEF TurnsTyped
<1>12. queue' = <<m>> /\ ToSet(queue)' = {m}
  BY <1>2, <1>3, QueueSets
<1>13. TurnsTyped'
  BY <1>1, <1>2, <1>9, <1>10, <1>11 DEF TurnsTyped
<1>14. InOrder' /\ NotYetSent'
  <2>1. conn[m] # "none" \/ conn[m] # "post"
    OBVIOUS
  <2>2. \A j, k \in Message : j \in turn'[k].subscribers => j \in turn[k].subscribers \/ (j = m /\ conn[m] = "post")
    BY <1>8, <1>9
  <2> QED
    BY <1>1, <1>2, <1>10, <1>11, <1>12, <2>2, OrderStays DEF NotYetSent
<1>15. QueueIsLive'
  BY <1>2, <1>11, <1>12, QueueSets DEF QueueIsLive
<1>16. AttachedFollow'
  <2> SUFFICES ASSUME NEW k \in Message, Attached(k)' PROVE Followed(k)'
    BY DEF AttachedFollow
  <2>1. k = m /\ conn[m] = "post" /\ stays
    BY <1>4, <1>10, <1>11 DEF Attached
  <2> QED
    BY <1>2, <1>8, <1>9, <1>12, <2>1, QueueSets DEF Followed
<1> QED
  BY <1>13, <1>14, <1>15, <1>16 DEF TurnsInv

LEMMA ServerKeeps ==
  ASSUME TurnsInv, StartTurn \/ (\E type \in {"text", "done", "error"} : Emit(type)) \/ EmitAgain \/ FinishTurn \/ ServerDies
  PROVE  TurnsInv'
<1>1. TurnsTyped /\ InOrder /\ NotYetSent /\ QueueIsLive /\ AttachedFollow
  BY DEF TurnsInv
<1>2. queue # <<>> => live \in Message /\ Head(queue) = live /\ Tail(queue) = <<>>
  BY <1>1, QueueSets DEF QueueIsLive
<1>3. CASE StartTurn
  <2>1. queue # <<>> /\ agent' = "running" /\ UNCHANGED <<file, live, turn, queue, post, conn>>
    BY <1>3 DEF StartTurn
  <2> QED
    BY <1>1, <2>1 DEF TurnsInv, TurnsTyped, InOrder, NotYetSent, QueueIsLive, AttachedFollow, Attached, Followed
<1>4. ASSUME NEW type \in {"text", "done", "error"}, Emit(type) PROVE TurnsInv'
  <2>1. /\ agent = "running" /\ Publish(Head(queue), type) /\ agent' \in {"running", "closing"} /\ UNCHANGED <<live, queue, post>>
    BY <1>4 DEF Emit
  <2>2. queue # <<>> /\ live \in Message
    BY <1>1, <1>2, <2>1 DEF QueueIsLive
  <2>3. Publish(live, type)
    BY <1>2, <2>1, <2>2 DEF Publish
  <2> QED
    BY <2>1, <2>2, <2>3, EventGoesOut
<1>5. CASE EmitAgain
  <2>1. /\ agent = "closing" /\ Publish(Head(queue), "error") /\ agent' = "closed" /\ UNCHANGED <<live, queue, post>>
    BY <1>5 DEF EmitAgain
  <2>2. queue # <<>> /\ live \in Message
    BY <1>1, <1>2, <2>1 DEF QueueIsLive
  <2>3. Publish(live, "error")
    BY <1>2, <2>1, <2>2 DEF Publish
  <2> QED
    BY <2>1, <2>2, <2>3, EventGoesOut
<1>6. CASE FinishTurn
  <2>1. agent # "idle" /\ agent' = "idle" /\ queue' = Tail(queue) /\ EndIfUnterminated /\ UNCHANGED <<live, post>>
    BY <1>6 DEF FinishTurn
  <2>2. queue # <<>> /\ queue' = <<>> /\ live \in Message /\ live # NoTurn
    BY <1>1, <1>2, <2>1 DEF QueueIsLive, Message, NoTurn
  <2>3. CASE turn[live].status = "running"
    <3>1. Publish(live, "error")
      BY <2>1, <2>2, <2>3 DEF EndIfUnterminated
    <3> QED
      BY <2>1, <2>2, <3>1, EventGoesOut
  <2>4. CASE turn[live].status # "running"
    <3>1. UNCHANGED <<file, turn, conn>>
      BY <2>1, <2>4 DEF EndIfUnterminated
    <3>2. TurnsTyped'
      BY <1>1, <2>1, <3>1 DEF TurnsTyped
    <3>3. InOrder' /\ NotYetSent'
      BY <1>1, <2>1, <2>2, <3>1, QueueSets, OrderStays DEF NotYetSent
    <3>4. QueueIsLive' /\ AttachedFollow'
      BY <1>1, <2>1, <2>2, <2>4, <3>1 DEF QueueIsLive, AttachedFollow, Attached, Followed
    <3> QED
      BY <3>2, <3>3, <3>4 DEF TurnsInv
  <2> QED
    BY <2>3, <2>4
<1>7. CASE ServerDies
  <2>1. /\ live' = NoTurn /\ queue' = <<>> /\ agent' = "idle" /\ UNCHANGED file
        /\ turn' = [m \in Message |-> [turn[m] EXCEPT !.status = "none", !.subscribers = {}]]
        /\ post' = [m \in Message |-> IF post[m] = "preparing" THEN "failed" ELSE post[m]]
        /\ conn' = [m \in Message |-> IF conn[m] \in {"post", "get"} THEN "broken" ELSE conn[m]]
    BY <1>7 DEF ServerDies
  <2>2. \A m \in Message : turn'[m] \in LiveTurn /\ turn'[m].subscribers = {}
    <3> SUFFICES ASSUME NEW m \in Message PROVE turn'[m] \in LiveTurn /\ turn'[m].subscribers = {}
      OBVIOUS
    <3>1. turn[m] \in LiveTurn
      BY <1>1 DEF TurnsTyped
    <3>2. turn'[m] = [turn[m] EXCEPT !.status = "none", !.subscribers = {}]
      BY <2>1
    <3> QED
      BY <3>1, <3>2, LiveTurnParts
  <2>3. turn' \in [Message -> LiveTurn] /\ post' \in [Message -> {"no", "preparing", "begun", "failed"}]
        /\ conn' \in [Message -> {"none", "post", "get", "broken", "over"}]
    BY <1>1, <2>1, <2>2 DEF TurnsTyped
  <2>4. TurnsTyped'
    BY <1>1, <2>1, <2>3 DEF TurnsTyped
  <2>5. \A m \in Message : conn'[m] \notin {"post", "get"}
    BY <2>1
  <2>6. InOrder' /\ NotYetSent'
    BY <1>1, <2>1, <2>2, QueueSets, OrderStays DEF NotYetSent
  <2>7. QueueIsLive' /\ AttachedFollow'
    BY <2>1, <2>5 DEF QueueIsLive, AttachedFollow, Attached
  <2> QED
    BY <2>4, <2>6, <2>7 DEF TurnsInv
<1> QED
  BY <1>3, <1>4, <1>5, <1>6, <1>7

LEMMA TurnsStep ==
  ASSUME ~Overlap, TurnsInv, [BrainNext]_brainVars
  PROVE  TurnsInv'
<1>1. CASE UNCHANGED brainVars
  BY <1>1 DEF brainVars, TurnsInv, TurnsTyped, InOrder, NotYetSent, QueueIsLive, AttachedFollow, Attached, Followed
<1>2. ASSUME NEW m \in Message, Submit(m) \/ Breaks(m) \/ Reconnect(m) \/ PrepareFails(m) \/ BeginTurn(m) PROVE TurnsInv'
  BY <1>2, BrowserKeeps, ReconnectKeeps, BeginKeeps
<1> QED
  BY <1>1, <1>2, ServerKeeps DEF BrainNext

(* The turns of a chat come one by one, and whoever is attached follows    *)
(* the one that is queued, if a message comes when the one before it is    *)
(* answered.                                                               *)
THEOREM TurnsInvariance == ASSUME ~Overlap PROVE BrainSpec => []TurnsInv
<1>1. TurnsInv /\ [BrainNext]_brainVars => TurnsInv'
  BY TurnsStep
<1> QED
  BY <1>1, TurnsStart, PTL DEF BrainSpec

(* Whoever is attached follows a turn whose end closes the connection.     *)
THEOREM NobodyWaitsInVain == ASSUME ~Overlap PROVE BrainSpec => []NobodyHangs
<1>1. TurnsInv => NobodyHangs
  <2> SUFFICES ASSUME TurnsInv, NEW m \in Message, Attached(m)
               PROVE  live \in ToSet(queue) /\ m \in turn[live].subscribers /\ turn[live].status = "running"
    BY DEF NobodyHangs, Attached
  <2>1. Followed(m)
    BY DEF TurnsInv, AttachedFollow
  <2>2. live \in ToSet(queue)
    BY <2>1, QueueSets DEF TurnsInv, QueueIsLive, Followed
  <2> QED
    BY <2>1, <2>2 DEF Followed
<1> QED
  BY <1>1, TurnsInvariance, PTL

-----------------------------------------------------------------------------
(* What is read of the file, and sent of that.                             *)

\* A set of numbers that is not empty has a least one.
LEMMA LeastNumber ==
  ASSUME NEW T \in SUBSET Nat, T # {}
  PROVE  \E x \in T : \A y \in T : x <= y
<1> DEFINE Less == OpToRel(<, Nat)
<1>1. IsWellFoundedOn(Less, Nat)
  BY NatLessThanWellFounded
<1>2. \A x, y \in Nat : <<y, x>> \in Less <=> y < x
  BY DEF OpToRel
<1> HIDE DEF Less
<1>3. PICK x \in T : \A y \in T : <<y, x>> \notin Less
  BY <1>1, WFMin
<1>4. \A y \in T : ~(y < x)
  BY <1>2, <1>3
<1>5. \A y \in T : x <= y
  BY <1>4
<1> QED
  BY <1>5

\* The records of an interval of places.
LEMMA IntervalPicked ==
  ASSUME NEW T, NEW s \in Seq(T), NEW a \in Nat, NEW b \in Nat, b <= Len(s)
  PROVE  /\ Picked(s, (a + 1)..b) \in Seq(T) /\ Len(Picked(s, (a + 1)..b)) = (IF a < b THEN b - a ELSE 0)
         /\ \A k \in 1..(b - a) : Picked(s, (a + 1)..b)[k] = s[a + k]
<1> DEFINE P == (a + 1)..b
           n == IF a < b THEN b - a ELSE 0
           place(k) == CHOOSE i \in P : Cardinality({j \in P : j <= i}) = k
<1>1. Cardinality(P) = n
  BY FS_Interval
<1>2. \A i \in P : Cardinality({j \in P : j <= i}) = i - a
  <2> SUFFICES ASSUME NEW i \in P PROVE Cardinality({j \in P : j <= i}) = i - a
    OBVIOUS
  <2>1. {j \in P : j <= i} = (a + 1)..i
    OBVIOUS
  <2>2. Cardinality((a + 1)..i) = i - a
    BY FS_Interval
  <2> QED
    BY <2>1, <2>2
<1>3. \A k \in 1..n : place(k) = a + k
  <2> SUFFICES ASSUME NEW k \in 1..n PROVE place(k) = a + k
    OBVIOUS
  <2>1. a + k \in P /\ Cardinality({j \in P : j <= a + k}) = k
    BY <1>2
  <2>2. place(k) \in P /\ Cardinality({j \in P : j <= place(k)}) = k
    BY <2>1
  <2> HIDE DEF place
  <2> QED
    BY <1>2, <2>2
<1>4. Picked(s, P) = [k \in 1..n |-> s[a + k]]
  <2>1. Picked(s, P) = [k \in 1..Cardinality(P) |-> s[place(k)]]
    BY DEF Picked
  <2> HIDE DEF place, P
  <2> QED
    BY <1>1, <1>3, <2>1
<1>5. \A k \in 1..n : s[a + k] \in T
  <2> SUFFICES ASSUME NEW k \in 1..n PROVE s[a + k] \in T
    OBVIOUS
  <2>1. a + k \in 1..Len(s)
    OBVIOUS
  <2> QED
    BY <2>1
<1> HIDE DEF P
<1>6. n \in Nat
  OBVIOUS
<1>7. Picked(s, P) \in Seq(T) /\ Len(Picked(s, P)) = n
  BY <1>4, <1>5, <1>6
<1>8. \A k \in 1..(b - a) : k \in 1..n
  OBVIOUS
<1> QED
  BY <1>4, <1>7, <1>8 DEF P

LEMMA AllPicked ==
  ASSUME NEW T, NEW s \in Seq(T)
  PROVE  Picked(s, 1..Len(s)) = s /\ Picked(s, {}) = <<>>
<1>1. Len(s) \in Nat /\ DOMAIN s = 1..Len(s)
  OBVIOUS
<1> DEFINE b == Len(s)
           a == 0
<1>2. /\ Picked(s, (a + 1)..b) \in Seq(T) /\ Len(Picked(s, (a + 1)..b)) = (IF a < b THEN b - a ELSE 0)
      /\ \A k \in 1..(b - a) : Picked(s, (a + 1)..b)[k] = s[a + k]
  BY <1>1, IntervalPicked
<1>3. (a + 1)..b = 1..Len(s)
  OBVIOUS
<1>4. Len(Picked(s, 1..Len(s))) = Len(s) /\ \A k \in 1..Len(s) : Picked(s, 1..Len(s))[k] = s[k]
  BY <1>1, <1>2, <1>3
<1>5. Picked(s, {}) = <<>>
  <2>1. Cardinality({}) = 0
    BY FS_EmptySet
  <2> QED
    BY <2>1 DEF Picked
<1> QED
  BY <1>1, <1>2, <1>3, <1>4, <1>5

LEMMA Joined ==
  ASSUME NEW T, NEW s \in Seq(T), NEW t \in Seq(T)
  PROVE  /\ s \o t \in Seq(T) /\ Len(s \o t) = Len(s) + Len(t) /\ Len(s) \in Nat /\ Len(t) \in Nat
         /\ \A i \in 1..Len(s) : (s \o t)[i] = s[i]
         /\ \A i \in 1..(Len(s) + Len(t)) : i > Len(s) => (s \o t)[i] = t[i - Len(s)]
  OBVIOUS

\* Records whose numbers go on from max are all sent.
LEMMA FreshAll ==
  ASSUME NEW s \in Seq(BrainEvent), NEW max \in Nat, \A i \in 1..Len(s) : s[i].seq = max + i
  PROVE  Fresh(max, s) = s
<1>1. Len(s) \in Nat /\ DOMAIN s = 1..Len(s)
  OBVIOUS
<1>2. {i \in DOMAIN s : s[i].seq > max /\ \A j \in 1..(i - 1) : s[j].seq < s[i].seq} = 1..Len(s)
  <2> SUFFICES ASSUME NEW i \in 1..Len(s), NEW j \in 1..(i - 1) PROVE s[i].seq > max /\ s[j].seq < s[i].seq
    BY <1>1
  <2>1. j \in 1..Len(s)
    BY <1>1
  <2> QED
    BY <2>1
<1>3. Fresh(max, s) = Picked(s, 1..Len(s))
  BY <1>2 DEF Fresh
<1> QED
  BY <1>3, AllPicked

\* One record is sent when its number is higher.
LEMMA FreshOne ==
  ASSUME NEW r \in BrainEvent, NEW max \in Nat
  PROVE  Fresh(max, <<r>>) = IF r.seq > max THEN <<r>> ELSE <<>>
<1>1. <<r>> \in Seq(BrainEvent) /\ DOMAIN <<r>> = {1} /\ Len(<<r>>) = 1 /\ <<r>>[1] = r /\ r.seq \in Nat
  BY DEF BrainEvent
<1>2. {i \in DOMAIN <<r>> : <<r>>[i].seq > max /\ \A j \in 1..(i - 1) : <<r>>[j].seq < <<r>>[i].seq}
        = IF r.seq > max THEN 1..1 ELSE {}
  BY <1>1
<1> QED
  BY <1>1, <1>2, AllPicked DEF Fresh

\* The browsers' records, and that each is a record of the file.
SeenTyped ==
  /\ seen \in [Message -> Seq(BrainEvent)] /\ sent \in [Message -> Nat]
  /\ \A m \in Message : \A i \in DOMAIN seen[m] : seen[m][i].seq <= Len(file) + 1
Numbered ==
  /\ EventsAreNumbered
  /\ live # NoTurn => turn[live].seq = Len(file)
  /\ \A m \in Message : turn[m].terminal.seq <= Len(file)
TurnByTurn ==
  /\ \A i, j \in DOMAIN file : i < j => file[i].msg <= file[j].msg
  /\ \A i \in DOMAIN file : file[i].msg \in Message /\ post[file[i].msg] = "begun"
OwnFollowers ==
  \A m, k \in Message : k \in turn[m].subscribers => k = m /\ post[m] = "begun" /\ conn[m] \in {"post", "get"}

Has(m, j) == \E h \in DOMAIN seen[m] : seen[m][h] = file[j]
ToldAsStored ==
  \A m \in Message : \A i \in DOMAIN seen[m] :
    seen[m][i].seq > 0 => seen[m][i].seq <= Len(file) /\ seen[m][i] = file[seen[m][i].seq] /\ seen[m][i].msg <= m
ToldInOrder ==
  \A m \in Message : \A i, j \in DOMAIN seen[m] :
    i < j /\ seen[m][i].seq > 0 /\ seen[m][j].seq > 0 => seen[m][i].seq < seen[m][j].seq
ToldWithoutGaps ==
  \A m \in Message : \A i \in Own(m, seen[m]), j \in Own(m, file) : j < seen[m][i].seq => Has(m, j)
FollowersAreUpToDate ==
  \A m \in Message : Attached(m) => sent[m] <= Len(file) /\ \A j \in Own(m, file) : Has(m, j)
\* What a message's turn stores is after everything others were told.
ToldToOthersBefore ==
  \A m \in Message : conn[m] # "over" =>
    \A k \in Message : k # m => \A i \in DOMAIN seen[k] : \A j \in Own(m, file) : seen[k][i].seq < j
Told == ToldAsStored /\ ToldInOrder /\ ToldWithoutGaps /\ FollowersAreUpToDate /\ ToldToOthersBefore
ReplyInv == SeenTyped /\ Numbered /\ TurnByTurn /\ OwnFollowers /\ (~SawInterruption => Told)

LEMMA FileParts ==
  ASSUME TurnsInv, ReplyInv
  PROVE  /\ file \in Seq(BrainEvent) /\ Len(file) \in Nat /\ DOMAIN file = 1..Len(file)
         /\ \A i \in 1..Len(file) : file[i] \in BrainEvent /\ file[i].seq = i /\ file[i].msg \in Message /\ post[file[i].msg] = "begun"
         /\ \A i, j \in 1..Len(file) : i < j => file[i].msg <= file[j].msg
         /\ \A m : Own(m, file) = {i \in 1..Len(file) : file[i].msg = m}
         /\ LastSeq = Len(file)
         /\ \A m \in Message : /\ seen[m] \in Seq(BrainEvent) /\ Len(seen[m]) \in Nat /\ DOMAIN seen[m] = 1..Len(seen[m]) /\ sent[m] \in Nat
                               /\ \A i \in 1..Len(seen[m]) : seen[m][i] \in BrainEvent /\ seen[m][i].seq \in Nat
<1>1. file \in Seq(BrainEvent) /\ Len(file) \in Nat /\ DOMAIN file = 1..Len(file) /\ \A i \in 1..Len(file) : file[i] \in BrainEvent
  BY DEF TurnsInv, TurnsTyped
<1>2. \A i \in 1..Len(file) : file[i].seq = i /\ file[i].msg \in Message /\ post[file[i].msg] = "begun"
  BY <1>1 DEF ReplyInv, Numbered, EventsAreNumbered, TurnByTurn
<1>3. \A i, j \in 1..Len(file) : i < j => file[i].msg <= file[j].msg
  BY <1>1 DEF ReplyInv, TurnByTurn
<1>4. \A m : Own(m, file) = {i \in 1..Len(file) : file[i].msg = m}
  BY <1>1, <1>2 DEF Own
<1>5. LastSeq = Len(file)
  <2>1. CASE live # NoTurn
    BY <2>1 DEF LastSeq, ReplyInv, Numbered
  <2>2. CASE live = NoTurn /\ file = <<>>
    BY <2>2 DEF LastSeq, LastPersistedSeq
  <2>3. CASE live = NoTurn /\ file # <<>>
    <3>1. Len(file) \in 1..Len(file)
      BY <1>1, <2>3
    <3>2. file[Len(file)].seq = Len(file)
      BY <1>2, <3>1
    <3> QED
      BY <2>3, <3>2 DEF LastSeq, LastPersistedSeq, Last
  <2> QED
    BY <2>1, <2>2, <2>3
<1>6. ASSUME NEW m \in Message
      PROVE  /\ seen[m] \in Seq(BrainEvent) /\ Len(seen[m]) \in Nat /\ DOMAIN seen[m] = 1..Len(seen[m]) /\ sent[m] \in Nat
             /\ \A i \in 1..Len(seen[m]) : seen[m][i] \in BrainEvent /\ seen[m][i].seq \in Nat
  <2>1. seen[m] \in Seq(BrainEvent) /\ sent[m] \in Nat
    BY DEF ReplyInv, SeenTyped
  <2>2. Len(seen[m]) \in Nat /\ DOMAIN seen[m] = 1..Len(seen[m]) /\ \A i \in 1..Len(seen[m]) : seen[m][i] \in BrainEvent
    BY <2>1
  <2>3. \A r \in BrainEvent : r.seq \in Nat
    BY DEF BrainEvent
  <2> QED
    BY <2>1, <2>2, <2>3
<1> QED
  BY <1>1, <1>2, <1>3, <1>4, <1>5, <1>6

\* The highest number a browser saw.
LEMMA CursorIs ==
  ASSUME TurnsInv, ReplyInv
  PROVE  /\ Cursor \in Nat /\ Cursor <= Len(file) + 1
         /\ \A m \in Message : \A i \in DOMAIN seen[m] : seen[m][i].seq <= Cursor
         /\ Cursor > 0 => \E m \in Message : \E i \in DOMAIN seen[m] : seen[m][i].seq = Cursor
<1> DEFINE all == UNION {{seen[c][i].seq : i \in DOMAIN seen[c]} : c \in Message}
           bounds == {n \in Nat : \A k \in all \cup {0} : k <= n}
<1>1. \A k \in all : k \in Nat /\ k <= Len(file) + 1
  BY FileParts DEF ReplyInv, SeenTyped
<1>2. Len(file) + 1 \in bounds
  BY <1>1, FileParts
<1>3. PICK n \in bounds : \A k \in bounds : n <= k
  BY <1>2, LeastNumber
<1>4. n \in all \cup {0}
  <2> SUFFICES ASSUME n \notin all, n # 0 PROVE FALSE
    OBVIOUS
  <2>1. n \in Nat /\ \A k \in all \cup {0} : k \in Nat /\ k <= n /\ k # n
    BY <1>1, <1>3
  <2>2. n - 1 \in Nat /\ \A k \in all \cup {0} : k <= n - 1
    BY <2>1
  <2>3. n - 1 \in bounds
    BY <2>2
  <2> HIDE DEF bounds, all
  <2>4. n <= n - 1
    BY <1>3, <2>3
  <2> QED
    BY <2>1, <2>4
<1>5. \A k \in all \cup {0} : k <= n
  BY <1>3
<1>6. Cursor = CHOOSE k \in all \cup {0} : \A j \in all : j <= k
  BY DEF Cursor
<1>7. Cursor \in all \cup {0} /\ \A j \in all : j <= Cursor
  <2> HIDE DEF all
  <2>1. n \in all \cup {0} /\ \A j \in all : j <= n
    BY <1>4, <1>5
  <2> QED
    BY <1>6, <2>1
<1>8. Cursor \in Nat /\ Cursor <= Len(file) + 1
  BY <1>1, <1>7, FileParts
<1>9. \A m \in Message : \A i \in DOMAIN seen[m] : seen[m][i].seq \in all
  OBVIOUS
<1>10. Cursor > 0 => \E m \in Message : \E i \in DOMAIN seen[m] : seen[m][i].seq = Cursor
  BY <1>7
<1> HIDE DEF all
<1> QED
  BY <1>7, <1>8, <1>9, <1>10

-----------------------------------------------------------------------------
(* What a step tells.                                                      *)

\* Where neither the file nor what was seen changes.
LEMMA NothingIsTold ==
  ASSUME TurnsInv, ReplyInv, UNCHANGED <<file, seen>>,
         \A m \in Message : /\ conn[m] = "over" => conn'[m] = "over"
                            /\ Attached(m)' => \/ Attached(m) /\ sent'[m] = sent[m]
                                               \/ sent'[m] <= Len(file) /\ Own(m, file) = {}
  PROVE  ~SawInterruption' => Told'
<1> SUFFICES ASSUME ~SawInterruption' PROVE Told'
  OBVIOUS
<1>1. Told
  BY DEF SawInterruption, ReplyInv
<1>2. \A m, j : Has(m, j)' <=> Has(m, j)
  BY DEF Has
<1>3. ToldAsStored' /\ ToldInOrder'
  BY <1>1 DEF Told, ToldAsStored, ToldInOrder
<1>4. \A m : Own(m, file)' = Own(m, file) /\ Own(m, seen[m])' = Own(m, seen[m])
  BY DEF Own
<1>5. ToldWithoutGaps'
  BY <1>1, <1>2, <1>4 DEF Told, ToldWithoutGaps
<1>6. FollowersAreUpToDate'
  BY <1>1, <1>2, <1>4 DEF Told, FollowersAreUpToDate
<1>7. ToldToOthersBefore'
  BY <1>1, <1>4 DEF Told, ToldToOthersBefore
<1> QED
  BY <1>3, <1>5, <1>6, <1>7 DEF Told

\* What else there is to show of such a step.
LEMMA QuietStep ==
  ASSUME TurnsInv, ReplyInv, UNCHANGED <<file, seen>>, sent' \in [Message -> Nat],
         live' # NoTurn => turn'[live'].seq = Len(file),
         \A m \in Message : /\ turn'[m].terminal.seq <= Len(file)
                            /\ post[m] = "begun" => post'[m] = "begun"
                            /\ conn[m] = "over" => conn'[m] = "over"
                            /\ Attached(m)' => \/ Attached(m) /\ sent'[m] = sent[m]
                                               \/ sent'[m] <= Len(file) /\ Own(m, file) = {}
                            /\ \A k \in Message : k \in turn'[m].subscribers => k = m /\ post'[m] = "begun" /\ conn'[m] \in {"post", "get"}
  PROVE  ReplyInv'
<1>1. SeenTyped'
  BY DEF ReplyInv, SeenTyped
<1>2. Numbered'
  BY DEF ReplyInv, Numbered, EventsAreNumbered
<1>3. TurnByTurn'
  BY DEF ReplyInv, TurnByTurn
<1>4. OwnFollowers'
  BY DEF OwnFollowers
<1>5. ~SawInterruption' => Told'
  BY NothingIsTold
<1> QED
  BY <1>1, <1>2, <1>3, <1>4, <1>5 DEF ReplyInv

\* Two messages of which neither is through are one.
LEMMA OneAtATime ==
  ASSUME TurnsInv
  PROVE  /\ \A m, k \in Message : post[m] # "no" /\ conn[m] # "over" /\ post[k] # "no" /\ conn[k] # "over" => k = m
         /\ queue # <<>> => /\ live \in Message /\ queue = <<live>> /\ post[live] = "begun"
                            /\ \A m \in Message : post[m] # "no" /\ conn[m] # "over" => m = live
                            /\ \A m \in Message : post[m] # "no" => m <= live
<1>1. InOrder /\ QueueIsLive
  BY DEF TurnsInv
<1>2. \A m, k \in Message : m # k => m < k \/ k < m
  BY DEF Message
<1>3. \A m, k \in Message : post[m] # "no" /\ conn[m] # "over" /\ post[k] # "no" /\ conn[k] # "over" => k = m
  BY <1>1, <1>2 DEF InOrder
<1>4. ASSUME queue # <<>>
      PROVE  /\ live \in Message /\ queue = <<live>> /\ post[live] = "begun"
             /\ \A m \in Message : post[m] # "no" => ~(live < m)
             /\ \A m \in Message : post[m] # "no" /\ conn[m] # "over" => m = live
  <2>1. live \in Message /\ queue = <<live>> /\ post[live] = "begun"
    BY <1>1, <1>4 DEF QueueIsLive
  <2>2. live \in ToSet(queue)
    BY <2>1, QueueSets
  <2>3. \A m \in Message : post[m] # "no" => ~(live < m)
    BY <1>1, <2>1, <2>2 DEF InOrder
  <2>4. \A m \in Message : m < live => conn[m] = "over"
    BY <1>1, <2>1 DEF InOrder
  <2> QED
    BY <1>2, <2>1, <2>3, <2>4
<1>5. \A m, k \in Message : ~(k < m) => m <= k
  BY DEF Message
<1> QED
  BY <1>3, <1>4, <1>5

\* Who follows a turn is told its event.
LEMMA EventIsTold ==
  ASSUME TurnsInv, ReplyInv, queue # <<>>,
         NEW type \in {"text", "done", "error"}, Publish(live, type), UNCHANGED <<live, post>>
  PROVE  ReplyInv'
<1>0. PICK n \in Nat : n = Len(file)
  BY FileParts
<1> DEFINE rec == [seq |-> turn[live].seq + 1, msg |-> live, type |-> type]
           hears == live \in turn[live].subscribers /\ rec.seq > sent[live]
<1>1. /\ live \in Message /\ post[live] = "begun" /\ \A m \in Message : post[m] # "no" => m <= live
      /\ \A m \in Message : post[m] # "no" /\ conn[m] # "over" => m = live
  BY OneAtATime
<1>2. /\ file \in Seq(BrainEvent) /\ n \in Nat /\ DOMAIN file = 1..n
      /\ \A i \in 1..n : file[i] \in BrainEvent /\ file[i].seq = i /\ file[i].msg \in Message /\ post[file[i].msg] = "begun"
      /\ \A i, j \in 1..n : i < j => file[i].msg <= file[j].msg
      /\ \A m : Own(m, file) = {i \in 1..n : file[i].msg = m}
      /\ \A m \in Message : /\ seen[m] \in Seq(BrainEvent) /\ Len(seen[m]) \in Nat /\ DOMAIN seen[m] = 1..Len(seen[m]) /\ sent[m] \in Nat
                            /\ \A i \in 1..Len(seen[m]) : seen[m][i] \in BrainEvent /\ seen[m][i].seq \in Nat
  BY <1>0, FileParts
<1>3. live # NoTurn /\ turn[live].seq = n /\ turn \in [Message -> LiveTurn]
  BY <1>0, <1>1 DEF ReplyInv, Numbered, NoTurn, Message, TurnsInv, TurnsTyped
<1>4. rec \in BrainEvent /\ rec.seq = n + 1 /\ rec.msg = live /\ rec.type = type
  BY <1>1, <1>2, <1>3 DEF BrainEvent
<1>5. /\ file' = Append(file, rec)
      /\ turn' = [turn EXCEPT ![live] =
           IF IsTerminal(rec) THEN [seq |-> rec.seq, status |-> "ended", terminal |-> rec, subscribers |-> {}] ELSE [@ EXCEPT !.seq = rec.seq]]
      /\ seen' = [c \in Message |-> IF c \in turn[live].subscribers THEN seen[c] \o Fresh(sent[c], <<rec>>) ELSE seen[c]]
      /\ sent' = [c \in Message |-> IF c \in turn[live].subscribers THEN Highest(sent[c], Fresh(sent[c], <<rec>>)) ELSE sent[c]]
      /\ conn' = [c \in Message |-> IF c \in turn[live].subscribers /\ IsTerminal(rec) THEN "over" ELSE conn[c]]
  BY DEF Publish
<1> HIDE DEF rec
<1>6. \A c \in Message : c \in turn[live].subscribers => c = live
  BY <1>1 DEF ReplyInv, OwnFollowers
<1>7. /\ file' \in Seq(BrainEvent) /\ Len(file') = n + 1 /\ DOMAIN file' = 1..(n + 1) /\ file'[n + 1] = rec
      /\ \A i \in 1..n : file'[i] = file[i]
  BY <1>0, <1>2, <1>4, <1>5
<1>8. /\ \A c \in Message : c # live => seen'[c] = seen[c] /\ sent'[c] = sent[c] /\ conn'[c] = conn[c]
      /\ seen'[live] = (IF hears THEN seen[live] \o <<rec>> ELSE seen[live])
      /\ sent'[live] = (IF hears THEN n + 1 ELSE sent[live])
      /\ conn'[live] \in {"over", conn[live]}
  <2>1. \A c \in Message : Fresh(sent[c], <<rec>>) = IF rec.seq > sent[c] THEN <<rec>> ELSE <<>>
    BY <1>2, <1>4, FreshOne
  <2>2. \A max : Highest(max, <<>>) = max /\ Highest(max, <<rec>>) = n + 1
    <3>1. Len(<<rec>>) = 1 /\ <<rec>>[1] = rec /\ <<rec>> # <<>>
      OBVIOUS
    <3> QED
      BY <1>4, <3>1 DEF Highest, Last
  <2>3. seen[live] \o <<>> = seen[live]
    BY <1>1, <1>2
  <2>4. \A c \in Message : c # live => seen'[c] = seen[c] /\ sent'[c] = sent[c] /\ conn'[c] = conn[c]
    BY <1>5, <1>6
  <2>5. conn'[live] \in {"over", conn[live]}
    BY <1>1, <1>5
  <2>6. seen'[live] = (IF hears THEN seen[live] \o <<rec>> ELSE seen[live])
    BY <1>1, <1>5, <2>1, <2>3
  <2>7. sent'[live] = (IF hears THEN n + 1 ELSE sent[live])
    BY <1>1, <1>5, <2>1, <2>2
  <2> QED
    BY <2>4, <2>5, <2>6, <2>7
<1>9. \A m \in Message : /\ seen'[m] \in Seq(BrainEvent) /\ DOMAIN seen'[m] = 1..Len(seen'[m]) /\ Len(seen'[m]) \in Nat
                         /\ Len(seen[m]) <= Len(seen'[m])
                         /\ \A i \in 1..Len(seen[m]) : seen'[m][i] = seen[m][i]
                         /\ \A i \in 1..Len(seen'[m]) : i > Len(seen[m]) => i = Len(seen[m]) + 1 /\ seen'[m][i] = rec /\ m = live /\ hears
  <2> SUFFICES ASSUME NEW m \in Message
               PROVE  /\ seen'[m] \in Seq(BrainEvent) /\ DOMAIN seen'[m] = 1..Len(seen'[m]) /\ Len(seen'[m]) \in Nat
                      /\ Len(seen[m]) <= Len(seen'[m])
                      /\ \A i \in 1..Len(seen[m]) : seen'[m][i] = seen[m][i]
                      /\ \A i \in 1..Len(seen'[m]) : i > Len(seen[m]) => i = Len(seen[m]) + 1 /\ seen'[m][i] = rec /\ m = live /\ hears
    OBVIOUS
  <2>1. seen'[m] = seen[m] \/ (m = live /\ hears /\ seen'[m] = seen[m] \o <<rec>>)
    BY <1>8
  <2>2. seen[m] \in Seq(BrainEvent) /\ Len(seen[m]) \in Nat /\ DOMAIN seen[m] = 1..Len(seen[m])
    BY <1>2
  <2>3. CASE seen'[m] = seen[m]
    BY <2>2, <2>3
  <2>4. CASE m = live /\ hears /\ seen'[m] = seen[m] \o <<rec>>
    <3>1. <<rec>> \in Seq(BrainEvent) /\ Len(<<rec>>) = 1 /\ <<rec>>[1] = rec
      BY <1>4
    <3> HIDE DEF hears
    <3>2. seen'[m] \in Seq(BrainEvent) /\ Len(seen'[m]) = Len(seen[m]) + 1 /\ seen'[m][Len(seen[m]) + 1] = rec
          /\ \A i \in 1..Len(seen[m]) : seen'[m][i] = seen[m][i]
      BY <2>2, <2>4, <3>1, Joined
    <3> QED
      BY <2>2, <2>4, <3>2
  <2> QED
    BY <2>1, <2>3, <2>4
<1> HIDE DEF hears
<1>10. SeenTyped'
  <2>1. seen' = [c \in Message |-> seen'[c]] /\ sent' = [c \in Message |-> sent'[c]]
    BY <1>5
  <2>2. \A c \in Message : sent'[c] \in Nat
    BY <1>2, <1>8
  <2>3. \A m \in Message : \A i \in DOMAIN seen'[m] : seen'[m][i].seq <= Len(file') + 1
    <3> SUFFICES ASSUME NEW m \in Message, NEW i \in 1..Len(seen'[m]) PROVE seen'[m][i].seq <= Len(file') + 1
      BY <1>9
    <3>1. CASE i <= Len(seen[m])
      <4>1. i \in DOMAIN seen[m] /\ seen'[m][i] = seen[m][i]
        BY <1>2, <1>9, <3>1
      <4>2. seen[m][i].seq <= n + 1 /\ seen[m][i].seq \in Nat
        BY <1>0, <1>2, <4>1 DEF ReplyInv, SeenTyped
      <4> QED
        BY <1>2, <1>7, <4>1, <4>2
    <3>2. CASE i > Len(seen[m])
      BY <1>2, <1>4, <1>7, <1>9, <3>2
    <3> QED
      BY <1>2, <3>1, <3>2
  <2>4. seen' \in [Message -> Seq(BrainEvent)]
    BY <1>9, <2>1
  <2>5. sent' \in [Message -> Nat]
    BY <2>1, <2>2
  <2> QED
    BY <2>3, <2>4, <2>5 DEF SeenTyped
<1>11. Numbered'
  <2>1. EventsAreNumbered'
    BY <1>2, <1>4, <1>7 DEF EventsAreNumbered
  <2>2. turn'[live].seq = n + 1
    <3>1. turn'[live] = IF IsTerminal(rec) THEN [seq |-> rec.seq, status |-> "ended", terminal |-> rec, subscribers |-> {}] ELSE [turn[live] EXCEPT !.seq = rec.seq]
      BY <1>1, <1>3, <1>5
    <3>2. turn[live] \in LiveTurn
      BY <1>1, <1>3
    <3>3. [turn[live] EXCEPT !.seq = rec.seq].seq = rec.seq
      BY <3>2 DEF LiveTurn
    <3> QED
      BY <1>4, <3>1, <3>3
  <2>3. \A m \in Message : turn'[m].terminal.seq <= n + 1
    <3> SUFFICES ASSUME NEW m \in Message PROVE turn'[m].terminal.seq <= n + 1
      OBVIOUS
    <3>1. turn[m].terminal.seq <= n /\ turn[m].terminal.seq \in Nat
      <4>1. turn[m].terminal \in BrainEvent
        BY <1>3 DEF LiveTurn
      <4> QED
        BY <1>0, <4>1 DEF ReplyInv, Numbered, BrainEvent
    <3>2. turn'[m].terminal = turn[m].terminal \/ turn'[m].terminal = rec
      <4>1. CASE m # live
        BY <1>3, <1>5, <4>1
      <4>2. CASE m = live
        <5>1. turn'[live] = IF IsTerminal(rec) THEN [seq |-> rec.seq, status |-> "ended", terminal |-> rec, subscribers |-> {}] ELSE [turn[live] EXCEPT !.seq = rec.seq]
          BY <1>1, <1>3, <1>5
        <5>2. turn[live] \in LiveTurn
          BY <1>1, <1>3
        <5>3. [turn[live] EXCEPT !.seq = rec.seq].terminal = turn[live].terminal
          BY <5>2 DEF LiveTurn
        <5> QED
          BY <4>2, <5>1, <5>3
      <4> QED
        BY <4>1, <4>2
    <3> QED
      BY <1>2, <1>4, <3>1, <3>2
  <2> QED
    BY <1>7, <2>1, <2>2, <2>3 DEF Numbered
<1>12. TurnByTurn'
  <2>1. \A i \in 1..(n + 1) : i \in 1..n \/ i = n + 1
    BY <1>2
  <2>2. \A i \in 1..n : file[i].msg <= live
    BY <1>1, <1>2
  <2>3. \A i \in DOMAIN file' : file'[i].msg \in Message /\ post'[file'[i].msg] = "begun"
    BY <1>1, <1>2, <1>4, <1>7, <2>1
  <2>4. \A i, j \in DOMAIN file' : i < j => file'[i].msg <= file'[j].msg
    <3> SUFFICES ASSUME NEW i \in 1..(n + 1), NEW j \in 1..(n + 1), i < j PROVE file'[i].msg <= file'[j].msg
      BY <1>7
    <3>1. i \in 1..n
      BY <1>2
    <3>2. CASE j = n + 1
      BY <1>4, <1>7, <2>2, <3>1, <3>2
    <3>3. CASE j \in 1..n
      BY <1>2, <1>7, <3>1, <3>3
    <3> QED
      BY <2>1, <3>2, <3>3
  <2> QED
    BY <2>3, <2>4 DEF TurnByTurn
<1>13. OwnFollowers'
  <2> SUFFICES ASSUME NEW m \in Message, NEW k \in Message, k \in turn'[m].subscribers
               PROVE  k = m /\ post'[m] = "begun" /\ conn'[m] \in {"post", "get"}
    BY DEF OwnFollowers
  <2>1. CASE m # live
    <3>1. k \in turn[m].subscribers
      BY <1>3, <1>5, <2>1
    <3> QED
      BY <1>8, <2>1, <3>1 DEF ReplyInv, OwnFollowers
  <2>2. CASE m = live
    <3>1. turn'[live] = IF IsTerminal(rec) THEN [seq |-> rec.seq, status |-> "ended", terminal |-> rec, subscribers |-> {}] ELSE [turn[live] EXCEPT !.seq = rec.seq]
      BY <1>1, <1>3, <1>5
    <3>2. [turn[live] EXCEPT !.seq = rec.seq].subscribers = turn[live].subscribers
      BY <1>1, <1>3 DEF LiveTurn
    <3>3. ~IsTerminal(rec) /\ k \in turn[live].subscribers
      BY <2>2, <3>1, <3>2
    <3>4. conn'[live] = conn[live]
      BY <1>1, <1>5, <3>3
    <3> QED
      BY <1>1, <2>2, <3>3, <3>4 DEF ReplyInv, OwnFollowers
  <2> QED
    BY <2>1, <2>2
<1>14. ~SawInterruption' => Told'
  <2> SUFFICES ASSUME ~SawInterruption' PROVE Told'
    OBVIOUS
  <2>1. Told
    <3> SUFFICES ASSUME SawInterruption PROVE FALSE
      BY DEF ReplyInv
    <3>0. PICK m \in Message : \E i \in DOMAIN seen[m] : seen[m][i].type = "interrupted"
      BY DEF SawInterruption
    <3>1. PICK i \in DOMAIN seen[m] : seen[m][i].type = "interrupted"
      BY <3>0
    <3>2. i \in DOMAIN seen'[m] /\ seen'[m][i] = seen[m][i]
      BY <1>2, <1>9
    <3> QED
      BY <3>1, <3>2 DEF SawInterruption
  <2>2. \A m : Own(m, file)' = Own(m, file) \cup (IF m = live THEN {n + 1} ELSE {})
    <3>1. \A m : Own(m, file)' = {i \in 1..(n + 1) : file'[i].msg = m /\ file'[i].seq > 0}
      BY <1>7 DEF Own
    <3>2. \A i \in 1..n : file'[i].msg = file[i].msg /\ file'[i].seq > 0
      BY <1>2, <1>7
    <3>3. file'[n + 1].msg = live /\ file'[n + 1].seq > 0
      BY <1>2, <1>4, <1>7
    <3>4. \A i : i \in 1..(n + 1) <=> i \in 1..n \/ i = n + 1
      BY <1>2
    <3> QED
      BY <1>2, <3>1, <3>2, <3>3, <3>4
  <2>3. \A m \in Message : \A j \in 1..n : Has(m, j) => Has(m, j)'
    <3> SUFFICES ASSUME NEW m \in Message, NEW j \in 1..n, NEW h \in DOMAIN seen[m], seen[m][h] = file[j] PROVE Has(m, j)'
      BY DEF Has
    <3>1. h \in 1..Len(seen[m]) /\ Len(seen[m]) <= Len(seen'[m]) /\ DOMAIN seen'[m] = 1..Len(seen'[m])
      BY <1>2, <1>9
    <3>2. h \in DOMAIN seen'[m]
      BY <1>2, <1>9, <3>1
    <3>3. seen'[m][h] = file'[j]
      BY <1>7, <1>9, <3>1
    <3> QED
      BY <3>2, <3>3 DEF Has
  <2>4. \A m \in Message : \A i \in 1..Len(seen[m]) : seen[m][i].seq <= n
    BY <1>0, <1>2, <2>1 DEF Told, ToldAsStored
  <2>5. \A m \in Message : Attached(m)' => Attached(m) /\ m = live /\ hears /\ sent'[m] = n + 1
    <3> SUFFICES ASSUME NEW m \in Message, Attached(m)' PROVE Attached(m) /\ m = live /\ hears /\ sent'[m] = n + 1
      OBVIOUS
    <3>1. conn'[m] = conn[m] /\ Attached(m)
      BY <1>8 DEF Attached
    <3>2. m \in turn[live].subscribers
      BY <3>1 DEF TurnsInv, AttachedFollow, Followed
    <3>3. m = live
      BY <1>6, <3>2
    <3>4. sent[live] <= n
      BY <1>0, <2>1, <3>1, <3>3 DEF Told, FollowersAreUpToDate
    <3>5. hears
      BY <1>1, <1>2, <1>4, <3>2, <3>3, <3>4 DEF hears
    <3> QED
      BY <1>8, <3>1, <3>3, <3>5
  <2>6. hears => Attached(live) /\ \A j \in Own(live, file) : Has(live, j)
    <3>1. hears => Attached(live)
      BY <1>1 DEF hears, ReplyInv, OwnFollowers, Attached
    <3> QED
      BY <1>1, <2>1, <3>1 DEF Told, FollowersAreUpToDate
  <2>7. ToldAsStored'
    <3> SUFFICES ASSUME NEW m \in Message, NEW i \in 1..Len(seen'[m]), seen'[m][i].seq > 0
                 PROVE  /\ seen'[m][i].seq <= n + 1 /\ seen'[m][i] = file'[seen'[m][i].seq]
                        /\ seen'[m][i].msg <= m
      BY <1>7, <1>9 DEF ToldAsStored
    <3>1. CASE i <= Len(seen[m])
      <4>1. i \in 1..Len(seen[m]) /\ i \in DOMAIN seen[m] /\ seen'[m][i] = seen[m][i]
        BY <1>2, <1>9, <3>1
      <4>2. seen[m][i].seq <= n /\ seen[m][i] = file[seen[m][i].seq] /\ seen[m][i].msg <= m /\ seen[m][i].seq \in 1..n
        BY <1>0, <1>2, <2>1, <4>1 DEF Told, ToldAsStored
      <4> QED
        BY <1>2, <1>7, <4>1, <4>2
    <3>2. CASE i > Len(seen[m])
      <4>1. seen'[m][i] = rec /\ m = live
        BY <1>9, <3>2
      <4>2. live <= live
        BY <1>1 DEF Message
      <4> QED
        BY <1>2, <1>4, <1>7, <4>1, <4>2
    <3> QED
      BY <1>2, <3>1, <3>2
  <2>8. ToldInOrder'
    <3> SUFFICES ASSUME NEW m \in Message, NEW i \in 1..Len(seen'[m]), NEW j \in 1..Len(seen'[m]), i < j, seen'[m][i].seq > 0, seen'[m][j].seq > 0
                 PROVE  seen'[m][i].seq < seen'[m][j].seq
      BY <1>9 DEF ToldInOrder
    <3>1. i \in 1..Len(seen[m]) /\ seen'[m][i] = seen[m][i] /\ seen[m][i].seq <= n
      <4>1. i \in 1..Len(seen[m])
        BY <1>2, <1>9
      <4> QED
        BY <1>9, <2>4, <4>1
    <3>2. CASE j <= Len(seen[m])
      <4>1. j \in 1..Len(seen[m]) /\ seen'[m][j] = seen[m][j]
        BY <1>2, <1>9, <3>2
      <4> QED
        BY <1>2, <2>1, <3>1, <4>1 DEF Told, ToldInOrder
    <3>3. CASE j > Len(seen[m])
      BY <1>2, <1>4, <1>9, <3>1, <3>3
    <3> QED
      BY <1>2, <3>2, <3>3
  <2>9. ToldWithoutGaps'
    <3> SUFFICES ASSUME NEW m \in Message, NEW i \in Own(m, seen[m])', NEW j \in Own(m, file)', j < seen'[m][i].seq
                 PROVE  Has(m, j)'
      BY DEF ToldWithoutGaps
    <3>1. i \in 1..Len(seen'[m]) /\ seen'[m][i].msg = m /\ seen'[m][i].seq > 0
      BY <1>9 DEF Own
    <3>2. seen'[m][i].seq <= n + 1 /\ seen'[m][i].seq \in Nat
      BY <1>2, <1>4, <1>9, <2>4, <3>1
    <3>3. j \in Own(m, file) /\ j \in 1..n
      <4>1. j \in 1..(n + 1) /\ j # n + 1
        BY <1>2, <2>2, <3>2
      <4> QED
        BY <1>2, <2>2, <4>1
    <3>4. Has(m, j)
      <4>1. CASE i <= Len(seen[m])
        <5>1. i \in 1..Len(seen[m]) /\ seen'[m][i] = seen[m][i]
          BY <1>2, <1>9, <3>1, <4>1
        <5>2. i \in Own(m, seen[m])
          BY <1>2, <3>1, <5>1 DEF Own
        <5> QED
          BY <2>1, <3>3, <5>1, <5>2 DEF Told, ToldWithoutGaps
      <4>2. CASE i > Len(seen[m])
        BY <1>9, <2>6, <3>1, <3>3, <4>2
      <4> QED
        BY <1>2, <3>1, <4>1, <4>2
    <3> QED
      BY <2>3, <3>3, <3>4
  <2>10. FollowersAreUpToDate'
    <3> SUFFICES ASSUME NEW m \in Message, Attached(m)'
                 PROVE  sent'[m] <= n + 1 /\ \A j \in Own(m, file)' : Has(m, j)'
      BY <1>7 DEF FollowersAreUpToDate
    <3>1. m = live /\ hears /\ sent'[m] = n + 1
      BY <2>5
    <3>2. Has(m, n + 1)'
      <4>1. seen'[m] = seen[m] \o <<rec>>
        BY <1>8, <3>1
      <4>2. <<rec>> \in Seq(BrainEvent) /\ Len(<<rec>>) = 1 /\ <<rec>>[1] = rec
        BY <1>4
      <4>3. Len(seen[m]) + 1 \in DOMAIN seen'[m] /\ seen'[m][Len(seen[m]) + 1] = rec
        BY <1>2, <1>9, <4>1, <4>2, Joined
      <4> QED
        BY <1>7, <4>3 DEF Has
    <3>3. \A j \in Own(m, file) : j \in 1..n /\ Has(m, j)
      BY <1>2, <2>6, <3>1
    <3> QED
      BY <1>2, <2>2, <2>3, <3>1, <3>2, <3>3
  <2>11. ToldToOthersBefore'
    <3> SUFFICES ASSUME NEW m \in Message, conn'[m] # "over", NEW k \in Message, k # m, NEW i \in 1..Len(seen'[k]), NEW j \in Own(m, file)'
                 PROVE  seen'[k][i].seq < j
      BY <1>9 DEF ToldToOthersBefore
    <3>1. conn[m] # "over"
      BY <1>8
    <3>2. CASE i <= Len(seen[k])
      <4>1. i \in 1..Len(seen[k]) /\ seen'[k][i] = seen[k][i] /\ seen[k][i].seq <= n /\ seen[k][i].seq \in Nat
        BY <1>2, <1>9, <2>4, <3>2
      <4>2. CASE j \in Own(m, file)
        BY <1>2, <2>1, <3>1, <4>1, <4>2 DEF Told, ToldToOthersBefore
      <4>3. CASE j = n + 1
        BY <1>2, <4>1, <4>3
      <4> QED
        BY <2>2, <4>2, <4>3
    <3>3. CASE i > Len(seen[k])
      <4>1. k = live
        BY <1>9, <3>3
      <4>2. j \in Own(m, file)
        BY <2>2, <4>1
      <4>3. post[m] = "begun"
        BY <1>2, <4>2
      <4> QED
        BY <1>1, <3>1, <4>1, <4>3
    <3> QED
      BY <1>2, <3>2, <3>3
  <2> QED
    BY <2>7, <2>8, <2>9, <2>10, <2>11 DEF Told
<1> QED
  BY <1>10, <1>11, <1>12, <1>13, <1>14 DEF ReplyInv

\* What subscribe gives a browser that saw everything up to c.
LEMMA Answered ==
  ASSUME TurnsInv, ReplyInv, NEW c \in Nat, NEW turns, NEW reg, turns[reg].terminal.seq <= Len(file), turns[reg].terminal.seq \in Nat,
         NEW answer, answer = Subscribed(c, file, turns, reg)
  PROVE  /\ answer.stays \in BOOLEAN /\ (answer.stays => reg # NoTurn /\ turns[reg].status = "running")
         /\ answer.events \in Seq(BrainEvent) /\ Len(answer.events) \in Nat /\ Fresh(c, answer.events) = answer.events
         /\ c >= Len(file) => answer.events = <<>>
         /\ \A i \in 1..Len(answer.events) :
              /\ answer.events[i].seq = c + i /\ c + i <= Len(file) + 1
              /\ c + i <= Len(file) => answer.events[i] = file[c + i]
              /\ c + i > Len(file) => answer.events[i].type = "interrupted"
         /\ \A j \in 1..Len(file) : j > c => j - c \in 1..Len(answer.events)
<1> DEFINE tail == ReadSince(file, c)
           over == tail # <<>> /\ IsTerminal(Last(tail))
           stays == ~over /\ reg # NoTurn /\ turns[reg].status = "running"
           broken == [seq |-> Last(tail).seq + 1, msg |-> Last(tail).msg, type |-> "interrupted"]
           epilogue ==
             CASE over \/ stays -> <<>>
               [] ~over /\ reg # NoTurn /\ ~stays -> IF turns[reg].terminal.seq > c /\ tail = <<>> THEN <<turns[reg].terminal>> ELSE <<>>
               [] OTHER -> IF tail = <<>> THEN <<>> ELSE <<broken>>
<1>1. answer.stays = stays /\ answer.events = tail \o epilogue
  BY DEF Subscribed
<1>2. PICK n \in Nat : n = Len(file)
  BY FileParts
<1>3. file \in Seq(BrainEvent) /\ DOMAIN file = 1..n /\ \A i \in 1..n : file[i].seq = i /\ file[i] \in BrainEvent
  BY <1>2, FileParts
<1>4. /\ tail \in Seq(BrainEvent) /\ Len(tail) = (IF c < n THEN n - c ELSE 0)
      /\ \A k \in 1..(n - c) : tail[k] = file[c + k]
  <2>1. {i \in DOMAIN file : file[i].seq > c} = (c + 1)..n
    BY <1>3
  <2>2. tail = Picked(file, (c + 1)..n)
    BY <2>1 DEF ReadSince
  <2> HIDE DEF tail
  <2> QED
    BY <1>2, <1>3, <2>2, IntervalPicked
<1> HIDE DEF tail
<1>5. tail = <<>> <=> c >= n
  BY <1>4
<1>6. tail # <<>> => broken \in BrainEvent /\ broken.seq = n + 1 /\ broken.type = "interrupted"
  <2> SUFFICES ASSUME tail # <<>> PROVE broken \in BrainEvent /\ broken.seq = n + 1 /\ broken.type = "interrupted"
    OBVIOUS
  <2>1. Len(tail) = n - c /\ n - c \in 1..(n - c)
    BY <1>4, <1>5
  <2>2. Last(tail) = file[n]
    <3>1. tail[n - c] = file[c + (n - c)]
      BY <1>4, <2>1
    <3>2. c + (n - c) = n
      OBVIOUS
    <3> QED
      BY <2>1, <3>1, <3>2 DEF Last
  <2>3. n \in 1..n
    BY <2>1
  <2>4. file[n].seq = n /\ file[n] \in BrainEvent
    BY <1>3, <2>3
  <2> QED
    BY <2>2, <2>4 DEF BrainEvent
<1>7. epilogue = <<>> \/ (tail # <<>> /\ epilogue = <<broken>>)
  <2>1. tail = <<>> => ~(turns[reg].terminal.seq > c)
    BY <1>2, <1>5
  <2> HIDE DEF broken
  <2> QED
    BY <2>1
<1>8. stays => epilogue = <<>>
  OBVIOUS
<1> HIDE DEF epilogue, broken, over
<1>9. CASE epilogue = <<>>
  <2>1. answer.events = tail
    BY <1>1, <1>4, <1>9
  <2>2. /\ answer.events \in Seq(BrainEvent) /\ Len(answer.events) \in Nat /\ Len(answer.events) = (IF c < n THEN n - c ELSE 0)
        /\ \A i \in 1..Len(answer.events) : answer.events[i].seq = c + i /\ c + i <= n /\ answer.events[i] = file[c + i]
    <3>1. Len(tail) \in Nat
      BY <1>4
    <3>2. \A i \in 1..Len(tail) : i \in 1..(n - c) /\ c + i \in 1..n
      BY <1>4
    <3> QED
      BY <1>3, <1>4, <2>1, <3>1, <3>2
  <2>3. Fresh(c, answer.events) = answer.events
    BY <2>2, FreshAll
  <2>4. c >= n => answer.events = <<>>
    BY <1>5, <2>1
  <2>5. \A j \in 1..n : j > c => j - c \in 1..Len(answer.events)
    BY <2>2
  <2>6. \A i \in 1..Len(answer.events) : c + i <= n + 1 /\ ~(c + i > n)
    BY <2>2
  <2> QED
    BY <1>1, <1>2, <2>2, <2>3, <2>4, <2>5, <2>6
<1>10. CASE tail # <<>> /\ epilogue = <<broken>>
  <2>1. <<broken>> \in Seq(BrainEvent) /\ Len(<<broken>>) = 1 /\ <<broken>>[1] = broken
    BY <1>6, <1>10
  <2>2. c < n /\ Len(tail) = n - c
    BY <1>4, <1>5, <1>10
  <2>3. /\ answer.events \in Seq(BrainEvent) /\ Len(answer.events) = (n - c) + 1
        /\ \A i \in 1..(n - c) : answer.events[i] = tail[i]
        /\ \A i \in 1..((n - c) + 1) : i > n - c => answer.events[i] = <<broken>>[i - (n - c)]
    BY <1>1, <1>4, <1>10, <2>1, <2>2, Joined
  <2>4. \A i \in 1..((n - c) + 1) :
          /\ answer.events[i].seq = c + i /\ c + i <= n + 1
          /\ c + i <= n => answer.events[i] = file[c + i]
          /\ c + i > n => answer.events[i].type = "interrupted"
    <3> SUFFICES ASSUME NEW i \in 1..((n - c) + 1)
                 PROVE  /\ answer.events[i].seq = c + i /\ c + i <= n + 1
                        /\ c + i <= n => answer.events[i] = file[c + i]
                        /\ c + i > n => answer.events[i].type = "interrupted"
      OBVIOUS
    <3>1. CASE i <= n - c
      <4>1. i \in 1..(n - c) /\ c + i \in 1..n
        BY <2>2, <3>1
      <4>2. answer.events[i] = file[c + i]
        BY <1>4, <2>3, <4>1
      <4> QED
        BY <1>3, <4>1, <4>2
    <3>2. CASE i > n - c
      <4>1. i - (n - c) = 1 /\ c + i = n + 1
        BY <2>2, <3>2
      <4>2. answer.events[i] = broken
        BY <2>1, <2>3, <3>2, <4>1
      <4> QED
        BY <1>6, <1>10, <4>1, <4>2
    <3> QED
      BY <2>2, <3>1, <3>2
  <2>5. Fresh(c, answer.events) = answer.events
    BY <2>3, <2>4, FreshAll
  <2>6. \A j \in 1..n : j > c => j - c \in 1..Len(answer.events)
    BY <2>2, <2>3
  <2>7. Len(answer.events) \in Nat /\ ~(c >= n)
    BY <2>2, <2>3
  <2> QED
    BY <1>1, <1>2, <2>3, <2>4, <2>5, <2>6, <2>7
<1> QED
  BY <1>7, <1>9, <1>10

\* A browser that comes back is told all that it did not see.
LEMMA ReplayIsTold ==
  ASSUME SameDir, TurnsInv, ReplyInv, NEW m \in Message, Reconnect(m)
  PROVE  ReplyInv'
<1> DEFINE turns == [k \in {NoTurn} \cup Message |-> IF k = NoTurn THEN turn[m] ELSE turn[k]]
           answer == Subscribed(Cursor, file, turns, live)
<1>1. PICK n \in Nat, c \in Nat : n = Len(file) /\ c = Cursor /\ c <= n + 1
  BY FileParts, CursorIs
<1>2. /\ file \in Seq(BrainEvent) /\ DOMAIN file = 1..n
      /\ \A i \in 1..n : file[i] \in BrainEvent /\ file[i].seq = i /\ file[i].msg \in Message /\ post[file[i].msg] = "begun"
      /\ \A i, j \in 1..n : i < j => file[i].msg <= file[j].msg
      /\ \A k : Own(k, file) = {i \in 1..n : file[i].msg = k}
      /\ \A k \in Message : /\ seen[k] \in Seq(BrainEvent) /\ Len(seen[k]) \in Nat /\ DOMAIN seen[k] = 1..Len(seen[k]) /\ sent[k] \in Nat
                            /\ \A i \in 1..Len(seen[k]) : seen[k][i] \in BrainEvent /\ seen[k][i].seq \in Nat
  BY <1>1, FileParts
<1>3. /\ \A k \in Message : \A i \in 1..Len(seen[k]) : seen[k][i].seq <= c
      /\ c > 0 => \E k \in Message : \E i \in 1..Len(seen[k]) : seen[k][i].seq = c
  BY <1>1, <1>2, CursorIs
<1>4. live \in {NoTurn} \cup Message /\ turn \in [Message -> LiveTurn] /\ conn \in [Message -> {"none", "post", "get", "broken", "over"}]
  BY DEF TurnsInv, TurnsTyped
<1>5. \E evs \in Seq(BrainEvent), stays \in BOOLEAN :
        /\ evs = answer.events /\ stays = answer.stays
        /\ stays => live # NoTurn /\ turn[live].status = "running"
        /\ Len(evs) \in Nat /\ Fresh(c, evs) = evs
        /\ \A i \in 1..Len(evs) : /\ evs[i].seq = c + i /\ c + i <= n + 1 /\ (c + i <= n => evs[i] = file[c + i])
                                  /\ (c + i > n => evs[i].type = "interrupted")
        /\ \A j \in 1..n : j > c => j - c \in 1..Len(evs)
  <2>1. turns[live].terminal.seq <= n /\ turns[live].terminal.seq \in Nat /\ (live # NoTurn => turns[live] = turn[live])
    <3>1. \A k \in Message : turn[k].terminal.seq <= n /\ turn[k].terminal.seq \in Nat
      <4>1. \A k \in Message : turn[k].terminal \in BrainEvent
        BY <1>4 DEF LiveTurn
      <4> QED
        BY <1>1, <4>1 DEF ReplyInv, Numbered, BrainEvent
    <3>2. \A k \in Message : turns[k] = turn[k] \/ turns[k] = turn[m]
      OBVIOUS
    <3>3. turns[NoTurn] = turn[m]
      OBVIOUS
    <3>4. live # NoTurn => turns[live] = turn[live]
      BY <1>4
    <3> HIDE DEF turns
    <3> QED
      BY <1>4, <3>1, <3>2, <3>3, <3>4
  <2>2. answer = Subscribed(c, file, turns, live)
    BY <1>1
  <2> HIDE DEF turns, answer
  <2>3. /\ answer.stays \in BOOLEAN /\ (answer.stays => live # NoTurn /\ turns[live].status = "running")
        /\ answer.events \in Seq(BrainEvent) /\ Len(answer.events) \in Nat /\ Fresh(c, answer.events) = answer.events
        /\ \A i \in 1..Len(answer.events) :
              /\ answer.events[i].seq = c + i /\ c + i <= Len(file) + 1
              /\ c + i <= Len(file) => answer.events[i] = file[c + i]
              /\ c + i > Len(file) => answer.events[i].type = "interrupted"
        /\ \A j \in 1..Len(file) : j > c => j - c \in 1..Len(answer.events)
    BY <1>1, <2>1, <2>2, Answered
  <2> QED
    BY <1>1, <2>1, <2>3
<1>6. PICK evs \in Seq(BrainEvent), stays \in BOOLEAN :
        /\ evs = answer.events /\ stays = answer.stays
        /\ stays => live # NoTurn /\ turn[live].status = "running"
        /\ Len(evs) \in Nat /\ Fresh(c, evs) = evs
        /\ \A i \in 1..Len(evs) : /\ evs[i].seq = c + i /\ c + i <= n + 1 /\ (c + i <= n => evs[i] = file[c + i])
                                  /\ (c + i > n => evs[i].type = "interrupted")
        /\ \A j \in 1..n : j > c => j - c \in 1..Len(evs)
  BY <1>5
<1>7. /\ conn[m] = "broken"
      /\ seen' = [seen EXCEPT ![m] = @ \o evs]
      /\ sent' = [sent EXCEPT ![m] = Highest(c, evs)]
      /\ conn' = [conn EXCEPT ![m] = IF stays THEN "get" ELSE "over"]
      /\ turn' = (IF stays THEN [turn EXCEPT ![live].subscribers = @ \cup {m}] ELSE turn)
      /\ UNCHANGED <<file, live, queue, agent, post>>
  <2>1. /\ conn[m] = "broken"
        /\ seen' = [seen EXCEPT ![m] = @ \o Fresh(Cursor, answer.events)]
        /\ sent' = [sent EXCEPT ![m] = Highest(Cursor, Fresh(Cursor, answer.events))]
        /\ conn' = [conn EXCEPT ![m] = IF answer.stays THEN "get" ELSE "over"]
        /\ turn' = (IF answer.stays THEN [turn EXCEPT ![live].subscribers = @ \cup {m}] ELSE turn)
        /\ UNCHANGED <<file, live, queue, agent, post>>
    BY DEF Reconnect
  <2> HIDE DEF answer
  <2> QED
    BY <1>1, <1>6, <2>1
<1> HIDE DEF answer, turns
<1>8. post[m] # "no" /\ \A k \in Message : post[k] # "no" /\ conn[k] # "over" => k = m
  <2>1. post[m] # "no"
    BY <1>7 DEF TurnsInv, NotYetSent
  <2> QED
    BY <1>7, <2>1, OneAtATime
<1>9. stays => live = m /\ post[m] = "begun"
  <2> SUFFICES ASSUME stays PROVE live = m /\ post[m] = "begun"
    OBVIOUS
  <2>1. queue # <<>>
    BY <1>6 DEF TurnsInv, QueueIsLive
  <2> QED
    BY <1>7, <1>8, <2>1, OneAtATime
<1>0. PICK a \in Nat, b \in Nat : /\ a = Len(seen[m]) /\ DOMAIN seen[m] = 1..a /\ seen[m] \in Seq(BrainEvent)
                                  /\ \A i \in 1..a : seen[m][i] \in BrainEvent /\ seen[m][i].seq \in Nat
                                  /\ b = Len(evs) /\ DOMAIN evs = 1..b
                                  /\ \A i \in 1..b : /\ evs[i].seq = c + i /\ c + i <= n + 1 /\ (c + i <= n => evs[i] = file[c + i])
                                                     /\ (c + i > n => evs[i].type = "interrupted")
                                  /\ \A j \in 1..n : j > c => j - c \in 1..b
  <2>1. Len(seen[m]) \in Nat /\ DOMAIN seen[m] = 1..Len(seen[m]) /\ seen[m] \in Seq(BrainEvent)
        /\ \A i \in 1..Len(seen[m]) : seen[m][i] \in BrainEvent /\ seen[m][i].seq \in Nat
    BY <1>2
  <2>2. Len(evs) \in Nat /\ DOMAIN evs = 1..Len(evs)
    BY <1>6
  <2>3. /\ \A i \in 1..Len(evs) : /\ evs[i].seq = c + i /\ c + i <= n + 1 /\ (c + i <= n => evs[i] = file[c + i])
                                  /\ (c + i > n => evs[i].type = "interrupted")
        /\ \A j \in 1..n : j > c => j - c \in 1..Len(evs)
    BY <1>6
  <2> QED
    BY <2>1, <2>2, <2>3
<1>10. /\ seen'[m] \in Seq(BrainEvent) /\ Len(seen'[m]) = a + b /\ DOMAIN seen'[m] = 1..(a + b)
       /\ \A i \in 1..a : seen'[m][i] = seen[m][i]
       /\ \A i \in 1..(a + b) : i > a => seen'[m][i] = evs[i - a] /\ i - a \in 1..b
       /\ \A k \in Message : k # m => seen'[k] = seen[k] /\ sent'[k] = sent[k] /\ conn'[k] = conn[k]
       /\ conn'[m] = IF stays THEN "get" ELSE "over"
  <2>1. seen \in [Message -> Seq(BrainEvent)] /\ sent \in [Message -> Nat]
    BY DEF ReplyInv, SeenTyped
  <2>2. seen'[m] = seen[m] \o evs /\ \A k \in Message : k # m => seen'[k] = seen[k] /\ sent'[k] = sent[k] /\ conn'[k] = conn[k]
    BY <1>4, <1>7, <2>1
  <2>3. conn'[m] = IF stays THEN "get" ELSE "over"
    BY <1>4, <1>7
  <2>4. /\ seen'[m] \in Seq(BrainEvent) /\ Len(seen'[m]) = a + b
        /\ \A i \in 1..a : seen'[m][i] = seen[m][i]
        /\ \A i \in 1..(a + b) : i > a => seen'[m][i] = evs[i - a]
    BY <1>0, <2>2, Joined
  <2>5. \A i \in 1..(a + b) : i > a => i - a \in 1..b
    BY <1>0
  <2>6. DOMAIN seen'[m] = 1..(a + b)
    BY <1>0, <2>4
  <2> QED
    BY <2>2, <2>3, <2>4, <2>5, <2>6
<1>10a. \A k \in Message : \A i \in 1..Len(seen[k]) : i \in DOMAIN seen'[k] /\ seen'[k][i] = seen[k][i]
  <2> SUFFICES ASSUME NEW k \in Message, NEW i \in 1..Len(seen[k]) PROVE i \in DOMAIN seen'[k] /\ seen'[k][i] = seen[k][i]
    OBVIOUS
  <2>1. CASE k # m
    BY <1>2, <1>10, <2>1
  <2>2. CASE k = m
    <3>1. i \in 1..a /\ i \in 1..(a + b)
      BY <1>0, <2>2
    <3> QED
      BY <1>10, <2>2, <3>1
  <2> QED
    BY <2>1, <2>2
<1>11. sent'[m] = c + b
  <2>1. sent'[m] = Highest(c, evs)
    BY <1>7 DEF ReplyInv, SeenTyped
  <2>2. CASE evs = <<>>
    BY <1>0, <2>1, <2>2 DEF Highest
  <2>3. CASE evs # <<>>
    <3>1. b \in 1..b
      BY <1>0, <2>3
    <3> QED
      BY <1>0, <2>1, <2>3, <3>1 DEF Highest, Last
  <2> QED
    BY <2>2, <2>3
<1>12. SeenTyped'
  <2>1. seen' \in [Message -> Seq(BrainEvent)] /\ sent' \in [Message -> Nat]
    <3>1. seen \in [Message -> Seq(BrainEvent)] /\ sent \in [Message -> Nat]
      BY DEF ReplyInv, SeenTyped
    <3>2. seen' = [seen EXCEPT ![m] = seen'[m]] /\ sent' = [sent EXCEPT ![m] = sent'[m]]
      BY <1>7, <3>1
    <3>3. sent'[m] \in Nat
      BY <1>1, <1>0, <1>11
    <3> QED
      BY <1>10, <3>1, <3>2, <3>3
  <2>2. \A k \in Message : \A i \in DOMAIN seen'[k] : seen'[k][i].seq <= Len(file') + 1
    <3> SUFFICES ASSUME NEW k \in Message, NEW i \in DOMAIN seen'[k] PROVE seen'[k][i].seq <= n + 1
      BY <1>1, <1>7
    <3>1. \A h \in 1..Len(seen[k]) : seen[k][h].seq <= n + 1
      BY <1>1, <1>2 DEF ReplyInv, SeenTyped
    <3>2. CASE k # m
      BY <1>2, <1>10, <3>1, <3>2
    <3>3. CASE k = m /\ i <= a
      <4>1. i \in 1..a
        BY <1>2, <1>10, <3>3
      <4> QED
        BY <1>0, <1>10, <3>1, <3>3, <4>1
    <3>4. CASE k = m /\ i > a
      <4>1. seen'[k][i] = evs[i - a] /\ i - a \in 1..b
        BY <1>10, <3>4
      <4> QED
        BY <1>0, <4>1
    <3> QED
      BY <1>2, <1>10, <3>2, <3>3, <3>4
  <2> QED
    BY <2>1, <2>2 DEF SeenTyped
<1>13. Numbered'
  <2>1. EventsAreNumbered'
    BY <1>7 DEF ReplyInv, Numbered, EventsAreNumbered
  <2>2. \A k \in Message : turn'[k].seq = turn[k].seq /\ turn'[k].terminal = turn[k].terminal
    <3>1. CASE ~stays
      BY <1>7, <3>1
    <3>2. CASE stays
      <4>1. turn' = [turn EXCEPT ![m] = [turn[m] EXCEPT !.subscribers = @ \cup {m}]] /\ turn[m] \in LiveTurn
        BY <1>4, <1>7, <1>9, <3>2
      <4>2. /\ [turn[m] EXCEPT !.subscribers = @ \cup {m}].seq = turn[m].seq
            /\ [turn[m] EXCEPT !.subscribers = @ \cup {m}].terminal = turn[m].terminal
        BY <4>1 DEF LiveTurn
      <4> QED
        BY <1>4, <4>1, <4>2
    <3> QED
      BY <3>1, <3>2
  <2> QED
    BY <1>4, <1>7, <2>1, <2>2 DEF ReplyInv, Numbered
<1>14. TurnByTurn'
  BY <1>7 DEF ReplyInv, TurnByTurn
<1>15. OwnFollowers'
  <2> SUFFICES ASSUME NEW k \in Message, NEW h \in Message, h \in turn'[k].subscribers
               PROVE  h = k /\ post[k] = "begun" /\ conn'[k] \in {"post", "get"}
    BY <1>7 DEF OwnFollowers
  <2>1. CASE h \in turn[k].subscribers
    <3>1. h = k /\ post[k] = "begun" /\ conn[k] \in {"post", "get"}
      BY <2>1 DEF ReplyInv, OwnFollowers
    <3>2. k # m
      BY <1>7, <3>1
    <3> QED
      BY <1>10, <3>1, <3>2
  <2>2. CASE h \notin turn[k].subscribers
    <3>1. stays /\ k = m /\ h = m
      <4>1. stays
        BY <1>7, <2>2
      <4>2. turn' = [turn EXCEPT ![m] = [turn[m] EXCEPT !.subscribers = @ \cup {m}]] /\ turn[m] \in LiveTurn
        BY <1>4, <1>7, <1>9, <4>1
      <4>3. [turn[m] EXCEPT !.subscribers = @ \cup {m}].subscribers = turn[m].subscribers \cup {m}
        BY <4>2 DEF LiveTurn
      <4> QED
        BY <1>4, <2>2, <4>1, <4>2, <4>3
    <3> QED
      BY <1>9, <1>10, <3>1
  <2> QED
    BY <2>1, <2>2
<1>16. ~SawInterruption' => Told'
  <2> SUFFICES ASSUME ~SawInterruption' PROVE Told'
    OBVIOUS
  <2>1. Told
    <3> SUFFICES ASSUME SawInterruption PROVE FALSE
      BY DEF ReplyInv
    <3>1. PICK k \in Message : \E i \in DOMAIN seen[k] : seen[k][i].type = "interrupted"
      BY DEF SawInterruption
    <3>2. PICK i \in 1..Len(seen[k]) : seen[k][i].type = "interrupted"
      BY <1>2, <3>1
    <3>3. i \in DOMAIN seen'[k] /\ seen'[k][i] = seen[k][i]
      BY <1>10a
    <3> QED
      BY <3>2, <3>3 DEF SawInterruption
  <2>2. \A i \in 1..b : c + i \in 1..n /\ evs[i] = file[c + i]
    <3> SUFFICES ASSUME NEW i \in 1..b PROVE c + i <= n
      BY <1>0
    <3>1. a + i \in 1..(a + b) /\ a + i > a /\ (a + i) - a = i
      BY <1>0
    <3>2. seen'[m][a + i] = evs[i] /\ a + i \in DOMAIN seen'[m]
      BY <1>10, <3>1
    <3>3. evs[i].type # "interrupted"
      BY <3>2 DEF SawInterruption
    <3> QED
      BY <1>0, <3>3
  <2>3. c <= n
    <3>1. CASE c = 0
      BY <3>1
    <3>2. CASE c > 0
      <4>1. PICK k \in Message : \E i \in 1..Len(seen[k]) : seen[k][i].seq = c
        BY <1>3, <3>2
      <4>2. PICK i \in 1..Len(seen[k]) : seen[k][i].seq = c
        BY <4>1
      <4> QED
        BY <1>1, <1>2, <2>1, <3>2, <4>2 DEF Told, ToldAsStored
    <3> QED
      BY <3>1, <3>2
  <2>4. \A k : Own(k, file)' = Own(k, file)
    BY <1>7 DEF Own
  <2>5. \A k \in Message : \A j \in 1..n : Has(k, j) => Has(k, j)'
    <3> SUFFICES ASSUME NEW k \in Message, NEW j \in 1..n, Has(k, j) PROVE Has(k, j)'
      OBVIOUS
    <3>1. PICK h \in 1..Len(seen[k]) : seen[k][h] = file[j]
      BY <1>2 DEF Has
    <3>2. h \in DOMAIN seen'[k] /\ seen'[k][h] = seen[k][h]
      BY <1>10a
    <3> QED
      BY <1>7, <3>1, <3>2 DEF Has
  <2>6. \A j \in Own(m, file) : Has(m, j)'
    <3> SUFFICES ASSUME NEW j \in 1..n, file[j].msg = m PROVE Has(m, j)'
      BY <1>2
    <3>1. CASE j > c
      <4>1. j - c \in 1..b /\ c + (j - c) = j
        BY <1>0, <3>1
      <4>2. evs[j - c] = file[j]
        BY <2>2, <4>1
      <4> DEFINE h == a + (j - c)
      <4>3. h \in 1..(a + b) /\ h > a /\ h - a = j - c
        BY <1>0, <4>1
      <4> HIDE DEF h
      <4>4. h \in DOMAIN seen'[m] /\ seen'[m][h] = file[j]
        BY <1>10, <4>2, <4>3
      <4> QED
        BY <1>7, <4>4 DEF Has
    <3>2. CASE j <= c
      <4>1. PICK k \in Message : \E i \in 1..Len(seen[k]) : seen[k][i].seq = c
        BY <1>3, <3>2
      <4>2. PICK i \in 1..Len(seen[k]) : seen[k][i].seq = c
        BY <4>1
      <4>3. k = m
        <5> SUFFICES ASSUME k # m PROVE FALSE
          OBVIOUS
        <5>1. j \in Own(m, file) /\ i \in DOMAIN seen[k] /\ conn[m] # "over"
          BY <1>2, <1>7
        <5>2. seen[k][i].seq < j
          BY <2>1, <5>1 DEF Told, ToldToOthersBefore
        <5> QED
          BY <1>1, <3>2, <4>2, <5>2
      <4>4. seen[m][i] = file[c] /\ seen[m][i].msg <= m /\ c \in 1..n
        BY <1>1, <1>2, <2>1, <3>2, <4>2, <4>3 DEF Told, ToldAsStored
      <4>5. CASE j = c
        <5>1. Has(m, j)
          BY <1>2, <4>2, <4>3, <4>4, <4>5 DEF Has
        <5> QED
          BY <2>5, <5>1
      <4>6. CASE j # c
        <5>1. m <= file[c].msg
          BY <1>2, <3>2, <4>4, <4>6
        <5>2. seen[m][i].msg = m
          BY <1>2, <4>4, <5>1 DEF Message
        <5>3. i \in Own(m, seen[m]) /\ j \in Own(m, file) /\ j < seen[m][i].seq
          BY <1>1, <1>2, <3>2, <4>2, <4>3, <4>6, <5>2 DEF Own
        <5>4. Has(m, j)
          BY <2>1, <5>3 DEF Told, ToldWithoutGaps
        <5> QED
          BY <2>5, <5>4
      <4> QED
        BY <4>5, <4>6
    <3> QED
      BY <1>1, <3>1, <3>2
  <2>7. ASSUME NEW i \in 1..(a + b)
        PROVE  \/ i \in 1..a /\ seen'[m][i] = seen[m][i]
               \/ /\ i > a /\ i - a \in 1..b /\ c + (i - a) \in 1..n
                  /\ seen'[m][i] = file[c + (i - a)] /\ seen'[m][i].seq = c + (i - a)
    <3>1. CASE i <= a
      BY <1>2, <1>10, <3>1
    <3>2. CASE i > a
      <4>1. PICK e \in 1..b : e = i - a /\ seen'[m][i] = evs[e]
        BY <1>10, <3>2
      <4>2. c + e \in 1..n /\ seen'[m][i] = file[c + e]
        BY <2>2, <4>1
      <4>3. file[c + e].seq = c + e
        BY <1>2, <4>2
      <4> QED
        BY <3>2, <4>1, <4>2, <4>3
    <3> QED
      BY <1>2, <3>1, <3>2
  <2>8. ToldAsStored'
    <3>0. Len(file') = n /\ file' = file
      BY <1>1, <1>7
    <3> SUFFICES ASSUME NEW k \in Message, NEW i \in DOMAIN seen'[k], seen'[k][i].seq > 0
                 PROVE  seen'[k][i].seq <= Len(file') /\ seen'[k][i] = file'[seen'[k][i].seq] /\ seen'[k][i].msg <= k
      BY DEF ToldAsStored
    <3>1. \A h \in 1..Len(seen[k]) : seen[k][h].seq > 0 =>
            seen[k][h].seq <= n /\ seen[k][h] = file[seen[k][h].seq] /\ seen[k][h].msg <= k
      BY <1>1, <1>2, <2>1 DEF Told, ToldAsStored
    <3>2. CASE k # m
      BY <1>2, <1>10, <3>0, <3>1, <3>2
    <3>3. CASE k = m
      <4>1. \A j \in 1..n : file[j].msg <= m
        <5> SUFFICES ASSUME NEW j \in 1..n, m < file[j].msg PROVE FALSE
          BY <1>2 DEF Message
        <5>1. post[file[j].msg] # "no" /\ file[j].msg \in Message
          BY <1>2
        <5>2. conn[m] = "over"
          BY <5>1 DEF TurnsInv, InOrder
        <5> QED
          BY <1>7, <5>2
      <4>2. i \in 1..(a + b)
        BY <1>10, <3>3
      <4> QED
        <5>1. CASE i \in 1..a /\ seen'[m][i] = seen[m][i]
          BY <1>0, <3>0, <3>1, <3>3, <5>1
        <5>2. CASE c + (i - a) \in 1..n /\ seen'[m][i] = file[c + (i - a)] /\ seen'[m][i].seq = c + (i - a)
          BY <3>0, <3>3, <4>1, <5>2
        <5> QED
          BY <2>7, <4>2, <5>1, <5>2
    <3> QED
      BY <3>0, <3>2, <3>3
  <2>9. ToldInOrder'
    <3> SUFFICES ASSUME NEW k \in Message, NEW i \in DOMAIN seen'[k], NEW j \in DOMAIN seen'[k], i < j, seen'[k][i].seq > 0, seen'[k][j].seq > 0
                 PROVE  seen'[k][i].seq < seen'[k][j].seq
      BY DEF ToldInOrder
    <3>1. \A g, h \in 1..Len(seen[k]) : g < h /\ seen[k][g].seq > 0 /\ seen[k][h].seq > 0 => seen[k][g].seq < seen[k][h].seq
      BY <1>2, <2>1 DEF Told, ToldInOrder
    <3>2. CASE k # m
      BY <1>2, <1>10, <3>1, <3>2
    <3>3. CASE k = m
      <4>1. i \in 1..(a + b) /\ j \in 1..(a + b) /\ a \in Nat
        BY <1>2, <1>10, <3>3
      <4>2. CASE j \in 1..a
        <5>1. i \in 1..a /\ seen'[m][i] = seen[m][i] /\ seen'[m][j] = seen[m][j]
          BY <1>10, <4>1, <4>2
        <5> QED
          BY <1>0, <3>1, <3>3, <4>2, <5>1
      <4>3. CASE j \notin 1..a
        <5>1. j > a /\ seen'[m][j].seq = c + (j - a)
          BY <2>7, <4>1, <4>3
        <5>2. CASE i \in 1..a /\ seen'[m][i] = seen[m][i]
          <6>1. seen[m][i].seq <= c /\ seen[m][i].seq \in Nat
            BY <1>0, <1>3, <5>2
          <6> QED
            BY <1>1, <3>3, <4>1, <5>1, <5>2, <6>1
        <5>3. CASE i > a /\ seen'[m][i].seq = c + (i - a)
          BY <1>1, <3>3, <4>1, <5>1, <5>3
        <5> QED
          BY <2>7, <4>1, <5>2, <5>3
      <4> QED
        BY <4>2, <4>3
    <3> QED
      BY <3>2, <3>3
  <2>10. ToldWithoutGaps'
    <3> SUFFICES ASSUME NEW k \in Message, NEW i \in Own(k, seen[k])', NEW j \in Own(k, file), j < seen'[k][i].seq
                 PROVE  Has(k, j)'
      BY <2>4 DEF ToldWithoutGaps
    <3>1. CASE k = m
      BY <2>6, <3>1
    <3>2. CASE k # m
      <4>1. i \in Own(k, seen[k]) /\ seen'[k] = seen[k]
        BY <1>10, <3>2 DEF Own
      <4>2. Has(k, j) /\ j \in 1..n
        BY <1>2, <2>1, <4>1 DEF Told, ToldWithoutGaps
      <4> QED
        BY <2>5, <4>2
    <3> QED
      BY <3>1, <3>2
  <2>11. FollowersAreUpToDate'
    <3> SUFFICES ASSUME NEW k \in Message, Attached(k)'
                 PROVE  sent'[k] <= n /\ \A j \in Own(k, file) : Has(k, j)'
      BY <1>1, <1>7, <2>4 DEF FollowersAreUpToDate
    <3>1. CASE k = m
      <4>1. c + b <= n
        <5>1. CASE b = 0
          BY <1>0, <2>3, <5>1
        <5>2. CASE b # 0
          <6>1. b \in 1..b
            BY <1>0, <5>2
          <6> QED
            BY <2>2, <6>1
        <5> QED
          BY <5>1, <5>2
      <4> QED
        BY <1>11, <2>6, <3>1, <4>1
    <3>2. CASE k # m
      <4>1. Attached(k) /\ sent'[k] = sent[k]
        BY <1>7, <1>10, <3>2 DEF Attached
      <4>2. sent[k] <= n /\ \A j \in Own(k, file) : j \in 1..n /\ Has(k, j)
        BY <1>1, <1>2, <2>1, <4>1 DEF Told, FollowersAreUpToDate
      <4> QED
        BY <2>5, <4>1, <4>2
    <3> QED
      BY <3>1, <3>2
  <2>12. ToldToOthersBefore'
    <3> SUFFICES ASSUME NEW k \in Message, conn'[k] # "over", NEW h \in Message, h # k, NEW i \in DOMAIN seen'[h], NEW j \in Own(k, file)
                 PROVE  seen'[h][i].seq < j
      BY <2>4 DEF ToldToOthersBefore
    <3>1. conn[k] # "over"
      BY <1>7, <1>10
    <3>2. post[k] # "no"
      BY <1>2
    <3>3. k = m
      BY <1>8, <3>1, <3>2
    <3>4. seen'[h] = seen[h]
      BY <1>10, <3>3
    <3> QED
      BY <2>1, <3>1, <3>4 DEF Told, ToldToOthersBefore
  <2> QED
    BY <2>8, <2>9, <2>10, <2>11, <2>12 DEF Told
<1> QED
  BY <1>12, <1>13, <1>14, <1>15, <1>16 DEF ReplyInv

-----------------------------------------------------------------------------
(* The steps.                                                              *)

\* The steps that tell nothing.
LEMMA SubmitTells ==
  ASSUME TurnsInv, ReplyInv, NEW m \in Message, Submit(m)
  PROVE  ReplyInv'
<1>1. TurnsTyped /\ NotYetSent /\ SeenTyped /\ Numbered /\ OwnFollowers
  BY DEF TurnsInv, ReplyInv
<1>2. /\ post[m] = "no" /\ post' = [post EXCEPT ![m] = "preparing"] /\ conn' = [conn EXCEPT ![m] = "post"]
      /\ UNCHANGED <<file, seen, live, turn, sent>>
  BY DEF Submit
<1>3. conn[m] = "none" /\ post'[m] = "preparing" /\ conn'[m] = "post" /\ \A k \in Message : k # m => post'[k] = post[k] /\ conn'[k] = conn[k]
  BY <1>1, <1>2 DEF TurnsTyped, NotYetSent
<1>4. \A k \in Message : /\ post[k] = "begun" => post'[k] = "begun"
                         /\ conn[k] = "over" => conn'[k] = "over"
                         /\ Attached(k)' => Attached(k) /\ sent'[k] = sent[k]
                         /\ \A h \in Message : h \in turn'[k].subscribers => h = k /\ post'[k] = "begun" /\ conn'[k] \in {"post", "get"}
  <2> SUFFICES ASSUME NEW k \in Message
               PROVE  /\ post[k] = "begun" => post'[k] = "begun"
                      /\ conn[k] = "over" => conn'[k] = "over"
                      /\ Attached(k)' => Attached(k) /\ sent'[k] = sent[k]
                      /\ \A h \in Message : h \in turn'[k].subscribers => h = k /\ post'[k] = "begun" /\ conn'[k] \in {"post", "get"}
    OBVIOUS
  <2>1. CASE k = m
    BY <1>1, <1>2, <1>3, <2>1 DEF Attached, OwnFollowers
  <2>2. CASE k # m
    BY <1>1, <1>2, <1>3, <2>2 DEF Attached, OwnFollowers
  <2> QED
    BY <2>1, <2>2
<1>5. sent' \in [Message -> Nat] /\ (live' # NoTurn => turn'[live'].seq = Len(file)) /\ \A k \in Message : turn'[k].terminal.seq <= Len(file)
  BY <1>1, <1>2 DEF SeenTyped, Numbered
<1> QED
  BY <1>2, <1>4, <1>5, QuietStep

LEMMA BreaksTells ==
  ASSUME TurnsInv, ReplyInv, NEW m \in Message, Breaks(m)
  PROVE  ReplyInv'
<1>1. TurnsTyped /\ SeenTyped /\ Numbered /\ OwnFollowers
  BY DEF TurnsInv, ReplyInv
<1>2. /\ conn[m] \in {"post", "get"} /\ conn' = [conn EXCEPT ![m] = "broken"]
      /\ turn' = [k \in Message |-> [turn[k] EXCEPT !.subscribers = @ \ {m}]]
      /\ UNCHANGED <<file, seen, live, post, sent>>
  BY DEF Breaks
<1>3. \A k \in Message : turn'[k].subscribers = turn[k].subscribers \ {m} /\ turn'[k].seq = turn[k].seq /\ turn'[k].terminal = turn[k].terminal
  <2> SUFFICES ASSUME NEW k \in Message
               PROVE  turn'[k].subscribers = turn[k].subscribers \ {m} /\ turn'[k].seq = turn[k].seq /\ turn'[k].terminal = turn[k].terminal
    OBVIOUS
  <2>1. turn[k] \in LiveTurn /\ turn'[k] = [turn[k] EXCEPT !.subscribers = @ \ {m}]
    BY <1>1, <1>2 DEF TurnsTyped
  <2> QED
    BY <2>1 DEF LiveTurn
<1>4. conn'[m] = "broken" /\ \A k \in Message : k # m => conn'[k] = conn[k]
  BY <1>1, <1>2 DEF TurnsTyped
<1>5. \A k \in Message : /\ conn[k] = "over" => conn'[k] = "over"
                         /\ Attached(k)' => Attached(k)
                         /\ \A h \in Message : h \in turn'[k].subscribers => h = k /\ post'[k] = "begun" /\ conn'[k] \in {"post", "get"}
  BY <1>1, <1>2, <1>3, <1>4 DEF Attached, OwnFollowers
<1>6. sent' \in [Message -> Nat] /\ (live' # NoTurn => turn'[live'].seq = Len(file)) /\ \A k \in Message : turn'[k].terminal.seq <= Len(file)
  BY <1>1, <1>2, <1>3 DEF TurnsTyped, SeenTyped, Numbered
<1> QED
  BY <1>2, <1>5, <1>6, QuietStep

\* A preparation that fails tells of an error without a number.
LEMMA FailureTells ==
  ASSUME TurnsInv, ReplyInv, NEW m \in Message, PrepareFails(m)
  PROVE  ReplyInv'
<1>1. TurnsTyped /\ SeenTyped /\ Numbered /\ OwnFollowers
  BY DEF TurnsInv, ReplyInv
<1>2. /\ post[m] = "preparing" /\ post' = [post EXCEPT ![m] = "failed"] /\ UNCHANGED <<file, live, turn, sent>>
      /\ IF conn[m] = "post" THEN /\ conn' = [conn EXCEPT ![m] = "over"]
                                  /\ seen' = [seen EXCEPT ![m] = Append(@, [seq |-> 0, msg |-> m, type |-> "error"])]
         ELSE UNCHANGED <<conn, seen>>
  BY DEF PrepareFails
<1>3. post'[m] = "failed" /\ \A k \in Message : k # m => post'[k] = post[k]
  BY <1>1, <1>2 DEF TurnsTyped
<1>4. CASE conn[m] # "post"
  <2>1. UNCHANGED <<conn, seen>>
    BY <1>2, <1>4
  <2>2. \A k \in Message : /\ post[k] = "begun" => post'[k] = "begun"
                           /\ Attached(k)' => Attached(k)
                           /\ \A h \in Message : h \in turn'[k].subscribers => h = k /\ post'[k] = "begun" /\ conn'[k] \in {"post", "get"}
    BY <1>1, <1>2, <1>3, <2>1 DEF Attached, OwnFollowers
  <2>3. sent' \in [Message -> Nat] /\ (live' # NoTurn => turn'[live'].seq = Len(file)) /\ \A k \in Message : turn'[k].terminal.seq <= Len(file)
    BY <1>1, <1>2 DEF SeenTyped, Numbered
  <2> QED
    BY <1>2, <2>1, <2>2, <2>3, QuietStep
<1>5. CASE conn[m] = "post"
  <2> DEFINE rec == [seq |-> 0, msg |-> m, type |-> "error"]
  <2>1. rec \in BrainEvent /\ rec.seq = 0 /\ rec.type = "error"
    BY DEF BrainEvent
  <2>2. seen' = [seen EXCEPT ![m] = Append(@, rec)] /\ conn' = [conn EXCEPT ![m] = "over"]
    BY <1>2, <1>5
  <2> HIDE DEF rec
  <2>3. /\ file \in Seq(BrainEvent) /\ Len(file) \in Nat /\ \A k : \A j \in Own(k, file) : j \in Nat /\ j > 0
        /\ \A k \in Message : /\ seen[k] \in Seq(BrainEvent) /\ Len(seen[k]) \in Nat /\ DOMAIN seen[k] = 1..Len(seen[k])
                              /\ \A i \in 1..Len(seen[k]) : seen[k][i].seq \in Nat
    BY FileParts
  <2>4. \A k \in Message : /\ seen'[k] \in Seq(BrainEvent)
                           /\ \A i \in DOMAIN seen[k] : i \in DOMAIN seen'[k] /\ seen'[k][i] = seen[k][i]
                           /\ \A i \in DOMAIN seen'[k] : i \in DOMAIN seen[k] \/ seen'[k][i] = rec
    <3> SUFFICES ASSUME NEW k \in Message
                 PROVE  /\ seen'[k] \in Seq(BrainEvent)
                        /\ \A i \in DOMAIN seen[k] : i \in DOMAIN seen'[k] /\ seen'[k][i] = seen[k][i]
                        /\ \A i \in DOMAIN seen'[k] : i \in DOMAIN seen[k] \/ seen'[k][i] = rec
      OBVIOUS
    <3>1. CASE k # m
      <4>1. seen'[k] = seen[k]
        BY <1>1, <2>2, <3>1 DEF SeenTyped
      <4> QED
        BY <2>3, <4>1
    <3>2. CASE k = m
      <4>1. seen'[m] = Append(seen[m], rec)
        BY <1>1, <2>2 DEF SeenTyped
      <4>2. seen[m] \in Seq(BrainEvent)
        BY <2>3
      <4> QED
        BY <2>1, <3>2, <4>1, <4>2
    <3> QED
      BY <3>1, <3>2
  <2>5. conn'[m] = "over" /\ \A k \in Message : k # m => conn'[k] = conn[k]
    BY <1>1, <2>2 DEF TurnsTyped
  <2>6. SeenTyped'
    <3>1. seen' \in [Message -> Seq(BrainEvent)]
      <4>1. seen' = [k \in Message |-> seen'[k]]
        BY <1>1, <2>2 DEF SeenTyped
      <4> QED
        BY <2>4, <4>1
    <3>2. \A k \in Message : \A i \in DOMAIN seen'[k] : seen'[k][i].seq <= Len(file) + 1
      <4> SUFFICES ASSUME NEW k \in Message, NEW i \in DOMAIN seen'[k] PROVE seen'[k][i].seq <= Len(file) + 1
        OBVIOUS
      <4>1. CASE i \in DOMAIN seen[k]
        <5>1. seen[k][i].seq <= Len(file) + 1 /\ seen'[k][i] = seen[k][i]
          BY <1>1, <2>4, <4>1 DEF SeenTyped
        <5> QED
          BY <5>1
      <4>2. CASE seen'[k][i] = rec
        BY <2>1, <2>3, <4>2
      <4> QED
        BY <2>4, <4>1, <4>2
    <3> QED
      BY <1>1, <1>2, <3>1, <3>2 DEF SeenTyped
  <2>7. Numbered'
    BY <1>1, <1>2 DEF Numbered, EventsAreNumbered
  <2>8. TurnByTurn'
    BY <1>2, <1>3 DEF ReplyInv, TurnByTurn
  <2>9. OwnFollowers'
    BY <1>1, <1>2, <1>3, <2>5 DEF OwnFollowers
  <2>10. ~SawInterruption' => Told'
    <3> SUFFICES ASSUME ~SawInterruption' PROVE Told'
      OBVIOUS
    <3>1. Told
      BY <2>4 DEF ReplyInv, SawInterruption
    <3>2. \A k : Own(k, file)' = Own(k, file)
      BY <1>2 DEF Own
    <3>3. \A k \in Message : \A j : Has(k, j) => Has(k, j)'
      BY <1>2, <2>4 DEF Has
    <3>4. \A k \in Message : \A i \in DOMAIN seen'[k] : seen'[k][i].seq > 0 => i \in DOMAIN seen[k] /\ seen'[k][i] = seen[k][i]
      BY <2>1, <2>4
    <3>5. ToldAsStored'
      BY <1>2, <3>1, <3>4 DEF Told, ToldAsStored
    <3>6. ToldInOrder'
      BY <3>1, <3>4 DEF Told, ToldInOrder
    <3>7. ToldWithoutGaps'
      <4> SUFFICES ASSUME NEW k \in Message, NEW i \in Own(k, seen[k])', NEW j \in Own(k, file), j < seen'[k][i].seq
                   PROVE  Has(k, j)'
        BY <3>2 DEF ToldWithoutGaps
      <4>1. i \in Own(k, seen[k]) /\ seen'[k][i] = seen[k][i]
        BY <3>4 DEF Own
      <4>2. Has(k, j)
        BY <3>1, <4>1 DEF Told, ToldWithoutGaps
      <4> QED
        BY <3>3, <4>2
    <3>8. FollowersAreUpToDate'
      <4> SUFFICES ASSUME NEW k \in Message, Attached(k)'
                   PROVE  sent[k] <= Len(file) /\ \A j \in Own(k, file) : Has(k, j)'
        BY <1>2, <3>2 DEF FollowersAreUpToDate
      <4>1. Attached(k)
        BY <1>3, <2>5 DEF Attached
      <4> QED
        BY <3>1, <3>3, <4>1 DEF Told, FollowersAreUpToDate
    <3>9. ToldToOthersBefore'
      <4> SUFFICES ASSUME NEW k \in Message, conn'[k] # "over", NEW h \in Message, h # k, NEW i \in DOMAIN seen'[h], NEW j \in Own(k, file)
                   PROVE  seen'[h][i].seq < j
        BY <3>2 DEF ToldToOthersBefore
      <4>1. conn[k] # "over"
        BY <2>5
      <4>2. CASE i \in DOMAIN seen[h]
        <5>1. seen[h][i].seq < j
          BY <3>1, <4>1, <4>2 DEF Told, ToldToOthersBefore
        <5> QED
          BY <2>4, <4>2, <5>1
      <4>3. CASE seen'[h][i] = rec
        BY <2>1, <2>3, <4>3
      <4> QED
        BY <2>4, <4>2, <4>3
    <3> QED
      BY <3>5, <3>6, <3>7, <3>8, <3>9 DEF Told
  <2> QED
    BY <2>6, <2>7, <2>8, <2>9, <2>10 DEF ReplyInv
<1> QED
  BY <1>4, <1>5

\* A turn begins after what is stored, so that nothing is told.
LEMMA BeginTells ==
  ASSUME TurnsInv, ReplyInv, NEW m \in Message, BeginTurn(m)
  PROVE  ReplyInv'
<1> DEFINE floor == LastSeq
           fresh == [seq |-> floor, status |-> "running", terminal |-> NoEvent, subscribers |-> {}]
           begun == [turn EXCEPT ![m] = fresh]
           answer == Subscribed(floor, file, begun, m)
           stays == answer.stays
           events == Fresh(floor, answer.events)
<1>1. TurnsTyped /\ SeenTyped /\ Numbered /\ OwnFollowers
  BY DEF TurnsInv, ReplyInv
<1>2. /\ post[m] = "preparing" /\ post' = [post EXCEPT ![m] = "begun"] /\ live' = m /\ UNCHANGED file
      /\ IF conn[m] # "post" THEN turn' = begun /\ UNCHANGED <<sent, seen, conn>>
         ELSE /\ turn' = (IF stays THEN [begun EXCEPT ![m].subscribers = {m}] ELSE begun)
              /\ sent' = [sent EXCEPT ![m] = Highest(floor, events)]
              /\ seen' = [seen EXCEPT ![m] = @ \o events]
              /\ conn' = [conn EXCEPT ![m] = IF stays THEN "post" ELSE "over"]
  BY DEF BeginTurn
<1>3. floor = Len(file) /\ Len(file) \in Nat
  BY FileParts
<1>4. begun[m] = fresh /\ NoEvent.seq = 0 /\ fresh.terminal = NoEvent
  BY <1>1 DEF TurnsTyped, NoEvent
<1>5. events = <<>> /\ Highest(floor, events) = Len(file)
  <2>1. begun[m].terminal.seq <= Len(file) /\ begun[m].terminal.seq \in Nat
    BY <1>3, <1>4
  <2> HIDE DEF begun
  <2>2. answer = Subscribed(Len(file), file, begun, m)
    BY <1>3
  <2> HIDE DEF answer, floor
  <2>3. answer.events = <<>> /\ Fresh(Len(file), answer.events) = answer.events
    BY <1>3, <2>1, <2>2, Answered
  <2> QED
    BY <1>3, <2>3 DEF Highest
<1>6. fresh \in LiveTurn
  BY <1>3 DEF LiveTurn, NoEvent, BrainEvent
<1> DEFINE new == IF conn[m] = "post" /\ stays THEN [fresh EXCEPT !.subscribers = {m}] ELSE fresh
<1>7. turn' = [turn EXCEPT ![m] = new]
  <2>1. CASE conn[m] # "post" \/ ~stays
    BY <1>2, <2>1
  <2>2. CASE conn[m] = "post" /\ stays
    <3>1. turn' = [begun EXCEPT ![m] = [fresh EXCEPT !.subscribers = {m}]]
      <4>1. begun \in [Message -> LiveTurn]
        BY <1>1, <1>6 DEF TurnsTyped
      <4> QED
        BY <1>2, <1>4, <2>2, <4>1
    <3>2. turn' = [turn EXCEPT ![m] = [fresh EXCEPT !.subscribers = {m}]]
      BY <1>1, <3>1 DEF TurnsTyped
    <3> QED
      BY <2>2, <3>2
  <2> QED
    BY <2>1, <2>2
<1>8. new.seq = Len(file) /\ new.terminal = NoEvent /\ new.subscribers = IF conn[m] = "post" /\ stays THEN {m} ELSE {}
  BY <1>3
<1> HIDE DEF new, begun, fresh, floor, answer, events, stays
<1>9. turn'[m] = new /\ \A k \in Message : k # m => turn'[k] = turn[k]
  BY <1>1, <1>7 DEF TurnsTyped
<1>10. /\ conn'[m] = (IF conn[m] # "post" THEN conn[m] ELSE IF stays THEN "post" ELSE "over")
       /\ \A k \in Message : k # m => conn'[k] = conn[k]
       /\ post'[m] = "begun" /\ \A k \in Message : k # m => post'[k] = post[k]
  BY <1>1, <1>2 DEF TurnsTyped
<1>11. /\ seen' = seen /\ sent' \in [Message -> Nat]
       /\ \A k \in Message : k # m => sent'[k] = sent[k]
       /\ conn[m] = "post" => sent'[m] = Len(file)
       /\ conn[m] # "post" => sent'[m] = sent[m]
  <2>1. seen[m] \o <<>> = seen[m]
    BY FileParts
  <2>2. seen' = seen
    <3>1. seen = [seen EXCEPT ![m] = seen[m]]
      BY <1>1 DEF SeenTyped
    <3> QED
      BY <1>2, <1>5, <2>1, <3>1
  <2> QED
    BY <1>1, <1>2, <1>3, <1>5, <2>2 DEF SeenTyped
<1>12. Own(m, file) = {}
  BY <1>2, FileParts
<1>13. ASSUME NEW k \in Message
       PROVE  /\ turn'[k].terminal.seq <= Len(file)
              /\ post[k] = "begun" => post'[k] = "begun"
              /\ conn[k] = "over" => conn'[k] = "over"
              /\ Attached(k)' => \/ Attached(k) /\ sent'[k] = sent[k]
                                 \/ sent'[k] <= Len(file) /\ Own(k, file) = {}
              /\ \A h \in Message : h \in turn'[k].subscribers => h = k /\ post'[k] = "begun" /\ conn'[k] \in {"post", "get"}
  <2>1. CASE k # m
    <3>1. turn'[k] = turn[k] /\ conn'[k] = conn[k] /\ post'[k] = post[k] /\ sent'[k] = sent[k]
      BY <1>9, <1>10, <1>11, <2>1
    <3>2. turn[k].terminal.seq <= Len(file)
      BY <1>1 DEF Numbered
    <3>3. \A h \in Message : h \in turn[k].subscribers => h = k /\ post[k] = "begun" /\ conn[k] \in {"post", "get"}
      BY <1>1 DEF OwnFollowers
    <3> QED
      BY <3>1, <3>2, <3>3 DEF Attached
  <2>2. CASE k = m
    <3>1. turn'[k].terminal.seq <= Len(file)
      <4>1. turn'[k].terminal.seq = 0
        BY <1>4, <1>8, <1>9, <2>2
      <4> QED
        BY <1>3, <4>1
    <3>2. Attached(k)' => (Attached(k) /\ sent'[k] = sent[k]) \/ (sent'[k] <= Len(file) /\ Own(k, file) = {})
      BY <1>3, <1>10, <1>11, <1>12, <2>2 DEF Attached
    <3>3. \A h \in Message : h \in turn'[k].subscribers => h = k /\ post'[k] = "begun" /\ conn'[k] \in {"post", "get"}
      BY <1>8, <1>9, <1>10, <2>2
    <3> QED
      BY <1>10, <2>2, <3>1, <3>2, <3>3
  <2> QED
    BY <2>1, <2>2
<1>14. live' # NoTurn => turn'[live'].seq = Len(file)
  BY <1>2, <1>8, <1>9
<1> QED
  BY <1>2, <1>11, <1>13, <1>14, QuietStep

LEMMA ServerTells ==
  ASSUME TurnsInv, ReplyInv, StartTurn \/ (\E type \in {"text", "done", "error"} : Emit(type)) \/ EmitAgain \/ FinishTurn \/ ServerDies
  PROVE  ReplyInv'
<1>1. TurnsTyped /\ QueueIsLive /\ SeenTyped /\ Numbered /\ OwnFollowers
  BY DEF TurnsInv, ReplyInv
<1>2. queue # <<>> => Head(queue) = live /\ live \in Message
  BY <1>1, QueueSets DEF QueueIsLive
<1>3. ASSUME UNCHANGED <<file, seen, sent, turn, live, conn, post>> PROVE ReplyInv'
  <2>1. \A m \in Message : Attached(m)' => Attached(m) /\ sent'[m] = sent[m]
    BY <1>3 DEF Attached
  <2>2. sent' \in [Message -> Nat] /\ (live' # NoTurn => turn'[live'].seq = Len(file)) /\ \A k \in Message : turn'[k].terminal.seq <= Len(file)
    BY <1>1, <1>3 DEF SeenTyped, Numbered
  <2>3. \A m, k \in Message : k \in turn'[m].subscribers => k = m /\ post'[m] = "begun" /\ conn'[m] \in {"post", "get"}
    BY <1>1, <1>3 DEF OwnFollowers
  <2> QED
    BY <1>3, <2>1, <2>2, <2>3, QuietStep
<1>4. CASE StartTurn
  BY <1>3, <1>4 DEF StartTurn
<1>5. ASSUME NEW type \in {"text", "done", "error"}, Emit(type) PROVE ReplyInv'
  <2>1. agent = "running" /\ Publish(Head(queue), type) /\ UNCHANGED <<live, post>>
    BY <1>5 DEF Emit
  <2>2. queue # <<>>
    BY <1>1, <2>1 DEF QueueIsLive
  <2>3. Publish(live, type)
    BY <1>2, <2>1, <2>2 DEF Publish
  <2> QED
    BY <2>1, <2>2, <2>3, EventIsTold
<1>6. CASE EmitAgain
  <2>1. agent = "closing" /\ Publish(Head(queue), "error") /\ UNCHANGED <<live, post>>
    BY <1>6 DEF EmitAgain
  <2>2. queue # <<>>
    BY <1>1, <2>1 DEF QueueIsLive
  <2>3. Publish(live, "error")
    BY <1>2, <2>1, <2>2 DEF Publish
  <2> QED
    BY <2>1, <2>2, <2>3, EventIsTold
<1>7. CASE FinishTurn
  <2>1. agent # "idle" /\ EndIfUnterminated /\ UNCHANGED <<live, post>>
    BY <1>7 DEF FinishTurn
  <2>2. queue # <<>>
    BY <1>1, <2>1 DEF QueueIsLive
  <2>3. Publish(live, "error") \/ UNCHANGED <<file, turn, seen, sent, conn>>
    BY <2>1 DEF EndIfUnterminated
  <2>4. CASE Publish(live, "error")
    BY <2>1, <2>2, <2>4, EventIsTold
  <2>5. CASE UNCHANGED <<file, turn, seen, sent, conn>>
    BY <1>3, <2>1, <2>5
  <2> QED
    BY <2>3, <2>4, <2>5
<1>8. CASE ServerDies
  <2>1. /\ live' = NoTurn /\ UNCHANGED <<file, sent, seen>>
        /\ turn' = [m \in Message |-> [turn[m] EXCEPT !.status = "none", !.subscribers = {}]]
        /\ post' = [m \in Message |-> IF post[m] = "preparing" THEN "failed" ELSE post[m]]
        /\ conn' = [m \in Message |-> IF conn[m] \in {"post", "get"} THEN "broken" ELSE conn[m]]
    BY <1>8 DEF ServerDies
  <2>2. \A m \in Message : turn'[m].subscribers = {} /\ turn'[m].terminal = turn[m].terminal
    <3> SUFFICES ASSUME NEW m \in Message PROVE turn'[m].subscribers = {} /\ turn'[m].terminal = turn[m].terminal
      OBVIOUS
    <3>1. turn[m] \in LiveTurn /\ turn'[m] = [turn[m] EXCEPT !.status = "none", !.subscribers = {}]
      BY <1>1, <2>1 DEF TurnsTyped
    <3> QED
      BY <3>1 DEF LiveTurn
  <2>3. \A m \in Message : conn'[m] \notin {"post", "get"} /\ (conn[m] = "over" => conn'[m] = "over") /\ (post[m] = "begun" => post'[m] = "begun")
    BY <2>1
  <2>4. \A m \in Message : ~Attached(m)'
    BY <2>3 DEF Attached
  <2>5. sent' \in [Message -> Nat] /\ \A m \in Message : turn'[m].terminal.seq <= Len(file)
    BY <1>1, <2>1, <2>2 DEF SeenTyped, Numbered
  <2> QED
    BY <2>1, <2>2, <2>3, <2>4, <2>5, QuietStep
<1> QED
  BY <1>4, <1>5, <1>6, <1>7, <1>8

LEMMA ReplyStarts == BrainInit => ReplyInv
<1> SUFFICES ASSUME BrainInit PROVE ReplyInv
  OBVIOUS
<1>1. /\ file = <<>> /\ live = NoTurn /\ conn = [m \in Message |-> "none"]
      /\ turn = [m \in Message |-> [seq |-> 0, status |-> "none", terminal |-> NoEvent, subscribers |-> {}]]
      /\ sent = [m \in Message |-> 0] /\ seen = [m \in Message |-> <<>>]
  BY DEF BrainInit
<1>2. DOMAIN file = {} /\ Len(file) = 0 /\ \A m \in Message : seen[m] = <<>> /\ DOMAIN seen[m] = {} /\ turn[m].terminal.seq = 0 /\ turn[m].subscribers = {}
  BY <1>1 DEF NoEvent
<1>3. \A m : Own(m, file) = {}
  BY <1>2 DEF Own
<1>4. SeenTyped
  BY <1>1, <1>2 DEF SeenTyped
<1>5. Numbered
  BY <1>1, <1>2 DEF Numbered, EventsAreNumbered
<1>6. TurnByTurn /\ OwnFollowers
  BY <1>2 DEF TurnByTurn, OwnFollowers
<1>7. \A m \in Message : ~Attached(m) /\ Own(m, seen[m]) = {}
  BY <1>1, <1>2 DEF Attached, Own
<1>8. Told
  BY <1>2, <1>3, <1>7 DEF Told, ToldAsStored, ToldInOrder, ToldWithoutGaps, FollowersAreUpToDate, ToldToOthersBefore
<1> QED
  BY <1>4, <1>5, <1>6, <1>8 DEF ReplyInv

\* Whoever was told an end of its reply was told what is stored up to it.
LEMMA WholeReplies == ASSUME TurnsInv, ReplyInv PROVE ReplyIsWhole
<1> SUFFICES ASSUME NEW m \in Message, NEW e \in UpToEnd(m, seen[m]), IsTerminal(seen[m][e]), ~SawInterruption
             PROVE  /\ {seen[m][i] : i \in UpToEnd(m, seen[m])} = {file[i] : i \in UpToEnd(m, file)}
                    /\ \A i, j \in UpToEnd(m, seen[m]) : i < j => seen[m][i].seq < seen[m][j].seq
  BY DEF ReplyIsWhole
<1> DEFINE told == UpToEnd(m, seen[m])
           stored == UpToEnd(m, file)
<1>1. PICK n \in Nat, l \in Nat : n = Len(file) /\ l = Len(seen[m])
  BY FileParts
<1>2. /\ DOMAIN seen[m] = 1..l /\ \A i \in 1..l : seen[m][i] \in BrainEvent /\ seen[m][i].seq \in Nat
      /\ Own(m, file) = {i \in 1..n : file[i].msg = m} /\ \A i \in 1..n : file[i].seq = i
  BY <1>1, FileParts
<1>3. Told
  BY DEF ReplyInv
<1>4. \A i \in Own(m, seen[m]) : i \in 1..l /\ seen[m][i].msg = m /\ seen[m][i].seq > 0
  BY <1>2 DEF Own
<1>5. \A i \in Own(m, seen[m]) : seen[m][i].seq \in Own(m, file) /\ seen[m][i] = file[seen[m][i].seq]
  BY <1>1, <1>2, <1>3, <1>4 DEF Told, ToldAsStored
<1>6. \A i, j \in Own(m, seen[m]) : i < j => seen[m][i].seq < seen[m][j].seq
  BY <1>2, <1>3, <1>4 DEF Told, ToldInOrder
<1>7. e \in Own(m, seen[m]) /\ \A j \in Own(m, seen[m]) : j < e => ~IsTerminal(seen[m][j])
  BY DEF UpToEnd
<1>8. PICK t \in Own(m, file) : t = seen[m][e].seq /\ seen[m][e] = file[t]
  BY <1>5, <1>7
<1>8a. \A j \in Own(m, file) : j \in Nat
  BY <1>2
<1>9. told = {i \in Own(m, seen[m]) : i <= e}
  <2>1. ASSUME NEW i \in told PROVE i \in Own(m, seen[m]) /\ i <= e
    <3>1. i \in Own(m, seen[m]) /\ ~(e < i)
      BY <1>7 DEF UpToEnd
    <3> QED
      BY <1>4, <1>7, <3>1
  <2>2. ASSUME NEW i \in Own(m, seen[m]), i <= e PROVE i \in told
    <3>1. \A j \in Own(m, seen[m]) : j < i => j < e
      BY <1>4, <1>7, <2>2
    <3> QED
      BY <1>7, <3>1 DEF UpToEnd
  <2> HIDE DEF told
  <2> QED
    BY <2>1, <2>2
<1>10. ASSUME NEW j \in Own(m, file), j < t
       PROVE  \E h \in Own(m, seen[m]) : h < e /\ seen[m][h] = file[j]
  <2>1. Has(m, j)
    BY <1>3, <1>7, <1>8, <1>10 DEF Told, ToldWithoutGaps
  <2>2. PICK h \in 1..l : seen[m][h] = file[j]
    BY <1>2, <2>1 DEF Has
  <2>3. seen[m][h].seq = j /\ seen[m][h].msg = m /\ j \in 1..n
    BY <1>2, <2>2
  <2>4. h \in Own(m, seen[m])
    BY <1>1, <1>2, <2>3 DEF Own
  <2>5. h # e /\ ~(e < h)
    <3>1. j \in Nat /\ t \in Nat /\ j < t
      BY <1>8a, <1>10
    <3>2. e < h => t < j
      BY <1>6, <1>7, <1>8, <2>3, <2>4
    <3>3. h = e => t = j
      BY <1>8, <2>3
    <3> QED
      BY <3>1, <3>2, <3>3
  <2>6. h < e
    BY <1>4, <1>7, <2>5
  <2> QED
    BY <2>2, <2>4, <2>6
<1>11. stored = {j \in Own(m, file) : j <= t}
  <2>1. ASSUME NEW j \in stored PROVE j \in Own(m, file) /\ j <= t
    <3>1. j \in Own(m, file) /\ ~(t < j)
      BY <1>8 DEF UpToEnd
    <3> QED
      BY <1>2, <1>8, <3>1
  <2>2. ASSUME NEW j \in Own(m, file), j <= t PROVE j \in stored
    <3> SUFFICES ASSUME NEW k \in Own(m, file), k < j PROVE ~IsTerminal(file[k])
      BY DEF UpToEnd
    <3>1. k < t
      BY <1>2, <1>8, <2>2
    <3> QED
      BY <1>7, <1>10, <3>1
  <2> HIDE DEF stored
  <2> QED
    BY <2>1, <2>2
<1> HIDE DEF told, stored
<1>12. ASSUME NEW i \in told PROVE \E j \in stored : seen[m][i] = file[j]
  <2>1. i \in Own(m, seen[m]) /\ i <= e
    BY <1>9
  <2>2. seen[m][i].seq \in Own(m, file) /\ seen[m][i] = file[seen[m][i].seq]
    BY <1>5, <2>1
  <2>3. seen[m][i].seq <= t
    <3>1. CASE i = e
      <4>1. seen[m][i].seq = t /\ t \in Nat
        BY <1>8, <1>8a, <3>1
      <4> QED
        BY <4>1
    <3>2. CASE i # e
      <4>1. i < e
        BY <1>4, <1>7, <2>1, <3>2
      <4>2. seen[m][i].seq < t /\ seen[m][i].seq \in Nat /\ t \in Nat
        BY <1>6, <1>7, <1>8, <1>8a, <2>1, <2>2, <4>1
      <4> QED
        BY <4>2
    <3> QED
      BY <3>1, <3>2
  <2> QED
    BY <1>11, <2>2, <2>3
<1>13. ASSUME NEW j \in stored PROVE \E i \in told : seen[m][i] = file[j]
  <2>1. j \in Own(m, file) /\ j <= t
    BY <1>11
  <2>2. CASE j = t
    <3>1. e \in told
      BY <1>4, <1>7, <1>9
    <3> QED
      BY <1>8, <2>2, <3>1
  <2>3. CASE j < t
    <3>1. PICK h \in Own(m, seen[m]) : h < e /\ seen[m][h] = file[j]
      BY <1>10, <2>1, <2>3
    <3>2. h \in told
      BY <1>4, <1>7, <1>9, <3>1
    <3> QED
      BY <3>1, <3>2
  <2> QED
    BY <1>2, <1>8, <2>1, <2>2, <2>3
<1>14. {seen[m][i] : i \in told} = {file[j] : j \in stored}
  BY <1>12, <1>13
<1>15. \A i, j \in told : i < j => seen[m][i].seq < seen[m][j].seq
  BY <1>6, <1>9
<1> QED
  BY <1>14, <1>15 DEF told, stored

-----------------------------------------------------------------------------
(* What every browser was told of the log is as it is stored, in order and *)
(* without gaps in its own reply, if messages come one by one and the      *)
(* stream reads the file that the turn writes.                             *)
THEOREM ReplyInvariance == ASSUME ~Overlap, SameDir PROVE BrainSpec => [](TurnsInv /\ ReplyInv)
<1>1. TurnsInv /\ ReplyInv /\ [BrainNext]_brainVars => TurnsInv' /\ ReplyInv'
  <2> SUFFICES ASSUME TurnsInv, ReplyInv, [BrainNext]_brainVars PROVE TurnsInv' /\ ReplyInv'
    OBVIOUS
  <2>1. TurnsInv'
    BY TurnsStep
  <2>2. CASE UNCHANGED brainVars
    <3>1. /\ Told' <=> Told
          /\ SawInterruption' <=> SawInterruption
      BY <2>2 DEF brainVars, Told, ToldAsStored, ToldInOrder, ToldWithoutGaps, FollowersAreUpToDate, ToldToOthersBefore, Has, Own, Attached, SawInterruption
    <3> QED
      BY <2>1, <2>2, <3>1 DEF brainVars, ReplyInv, SeenTyped, Numbered, EventsAreNumbered, TurnByTurn, OwnFollowers
  <2>3. ASSUME NEW m \in Message, Submit(m) \/ Breaks(m) \/ Reconnect(m) \/ PrepareFails(m) \/ BeginTurn(m) PROVE ReplyInv'
    BY <2>3, SubmitTells, BreaksTells, ReplayIsTold, FailureTells, BeginTells
  <2> QED
    BY <2>1, <2>2, <2>3, ServerTells DEF BrainNext
<1> QED
  BY <1>1, TurnsStart, ReplyStarts, PTL DEF BrainSpec

(* A record's number is its place in the file; a browser that was told the *)
(* end of the reply to its message was told all that is stored of it, once *)
(* and in order, over reconnections and restarts; and nobody is attached   *)
(* to a turn that nothing will end (brainTurnLog.ts:84 readSince, 181      *)
(* publish, 268 subscribe).                                                *)
THEOREM RepliesAreWhole == ASSUME ~Overlap, SameDir PROVE BrainSpec => []RepliesReachBrowsers
<1>1. TurnsInv /\ ReplyInv => EventsAreNumbered /\ ReplyIsWhole
  BY WholeReplies DEF ReplyInv, Numbered
<1> QED
  BY <1>1, ReplyInvariance, NobodyWaitsInVain, PTL DEF RepliesReachBrowsers

\* The typed state of a chat's turns, whose queue holds the registered turn.
THEOREM BrainTypeCorrect == ASSUME ~Overlap, SameDir PROVE BrainSpec => []BrainTypeOK
<1>1. TurnsInv /\ ReplyInv => BrainTypeOK
  <2> SUFFICES ASSUME TurnsInv, ReplyInv PROVE BrainTypeOK
    OBVIOUS
  <2>1. TurnsTyped /\ QueueIsLive /\ SeenTyped
    BY DEF TurnsInv, ReplyInv
  <2>2. queue \in Seq(Message)
    <3>1. <<>> \in Seq(Message) /\ \A m \in Message : <<m>> \in Seq(Message)
      OBVIOUS
    <3> QED
      BY <2>1, <3>1 DEF QueueIsLive
  <2>3. [seq : Nat, msg : {NoTurn} \cup Message, type : {"none", "text", "done", "error", "interrupted"}] = BrainEvent
    BY DEF BrainEvent
  <2> QED
    BY <2>1, <2>2, <2>3 DEF BrainTypeOK, TurnsTyped, SeenTyped, LiveTurn
<1> QED
  BY <1>1, ReplyInvariance, PTL
=============================================================================
