--------------------------- MODULE ServicesProofs ---------------------------
(***************************************************************************)
(* Proofs about ChatSession and PoolManager, the two services people wait  *)
(* for.                                                                    *)
(*                                                                         *)
(* ChatSession: types, and that replies come in the order of the messages  *)
(* they answer, for any number of posts, handoffs, restarts and failures.  *)
(* A turn answers the last turn of the epoch.  A reply is never withdrawn, *)
(* so every reply in the log is before the message the turn answers, and a *)
(* reply answers a message before itself.  While the turn goes on only its *)
(* own runner appends replies.                                             *)
(*                                                                         *)
(* PoolManager: types, the cap on warm machines, that a quiet pool is      *)
(* full, that runners are single-shot, and, where its hypothesis holds,    *)
(* that a job stays on one machine and that claims are exclusive.          *)
(* "Known" collects the machines the owner may still work on.  A machine   *)
(* becomes known by being booted or by being suspended in a listing, so    *)
(* the one that refill boots is nobody else's until it is pushed.          *)
(***************************************************************************)
EXTENDS ChatSession, PoolManager, FiniteSetTheorems, TLAPS

(* A reply answers a message that was there before it. *)
RepliesLookBack == \A a \in Role("assistant") : log[a].to < a

(* Every reply answers a message before the one the turn is about. *)
TurnIsAhead ==
  pc \in {"agent", "append"} =>
    /\ prompt \in Positions
    /\ \A a \in Role("assistant") : log[a].to < prompt

IInv == TypeOK /\ RepliesLookBack /\ TurnIsAhead /\ RepliesInOrder

(* The turns of the epoch are finitely many: the watermark is a number. *)
LEMMA TurnsFinite ==
  ASSUME log \in Seq(Entry)
  PROVE  Cardinality(Turns) \in Nat
<1>1. Len(log) \in Nat
  OBVIOUS
<1>2. IsFiniteSet(1..Len(log))
  BY <1>1, FS_Interval
<1>3. Turns \subseteq 1..Len(log)
  BY DEF Turns, Positions
<1> QED
  BY <1>2, <1>3, FS_Subset, FS_CardinalityType

(* What is the last turn comes after every reply (IsLast, currentEpochTurns). *)
LEMMA RepliesBeforeLast ==
  ASSUME log \in Seq(Entry), NEW i \in Role("user"), IsLast(i),
         NEW a \in Role("assistant")
  PROVE  a < i
<1>1. a \in Positions /\ i \in Positions /\ a # i
  BY DEF Role
<1>2. Len(log) \in Nat /\ a \in Nat /\ i \in Nat
  BY <1>1 DEF Positions
<1>3. log[a] \in Entry /\ log[a].role = "assistant"
  BY <1>1 DEF Role, Positions
<1>4. log[a].status = "committed"
  BY <1>3 DEF Entry
<1>5. CASE a > i
  <2>1. \A j \in a..Len(log) : log[j].role # "handoff"
    BY <1>2, <1>5 DEF IsLast, Turns
  <2>2. a \in Turns
    BY <1>1, <1>3, <1>4, <2>1 DEF Turns
  <2> QED
    BY <1>2, <1>5, <2>2 DEF IsLast
<1> QED
  BY <1>1, <1>2, <1>5

(* An entry that is no reply leaves the replies as they are. *)
LEMMA OtherEntry ==
  ASSUME log \in Seq(Entry), NEW e \in Entry, e.role # "assistant",
         log' = Append(log, e)
  PROVE  /\ log' \in Seq(Entry)
         /\ Role("assistant")' = Role("assistant")
         /\ \A a \in Role("assistant") : log'[a] = log[a]
         /\ Positions \subseteq Positions'
<1>1. Len(log) \in Nat /\ Len(log') = Len(log) + 1 /\ log' \in Seq(Entry)
  OBVIOUS
<1>2. \A a \in 1..Len(log) : log'[a] = log[a]
  OBVIOUS
<1>3. log'[Len(log) + 1] = e
  OBVIOUS
<1> QED
  BY <1>1, <1>2, <1>3 DEF Role, Positions

(* A reply that looks back and is ahead of all others joins them.          *)
LEMMA ReplyEntry ==
  ASSUME IInv, pc = "append", log' = Append(log, Reply)
  PROVE  log' \in Seq(Entry) /\ RepliesLookBack' /\ RepliesInOrder'
<1>1. log \in Seq(Entry) /\ Len(log) \in Nat /\ prompt \in 1..Len(log)
  BY DEF IInv, TypeOK, TurnIsAhead, Positions
<1>2. Reply \in Entry /\ Reply.to = prompt /\ Reply.role = "assistant"
  BY <1>1 DEF Reply, Entry
<1>3. Len(log') = Len(log) + 1 /\ log' \in Seq(Entry)
  BY <1>1, <1>2
<1>4. \A a \in 1..Len(log) : log'[a] = log[a]
  BY <1>1, <1>2
<1>5. log'[Len(log) + 1] = Reply
  BY <1>1, <1>2
<1>6. Role("assistant")' = Role("assistant") \cup {Len(log) + 1}
  BY <1>1, <1>2, <1>3, <1>4, <1>5 DEF Role, Positions
<1>7. \A a \in Role("assistant") : a \in 1..Len(log) /\ log'[a].to = log[a].to
  BY <1>4 DEF Role, Positions
<1>8. RepliesLookBack'
  BY <1>1, <1>2, <1>5, <1>6, <1>7 DEF IInv, RepliesLookBack
<1>9. RepliesInOrder'
  <2> SUFFICES ASSUME NEW a \in Role("assistant")', NEW b \in Role("assistant")', a < b
               PROVE  log'[a].to < log'[b].to
    BY DEF RepliesInOrder
  <2>1. a \in Role("assistant")
    BY <1>1, <1>6, <1>7
  <2>2. CASE b = Len(log) + 1
    BY <1>2, <1>5, <1>7, <2>1, <2>2 DEF IInv, TurnIsAhead
  <2>3. CASE b \in Role("assistant")
    BY <1>7, <2>1, <2>3 DEF IInv, RepliesInOrder
  <2> QED
    BY <1>6, <2>2, <2>3
<1> QED
  BY <1>3, <1>8, <1>9

LEMMA InitIInv == Init => IInv
<1> SUFFICES ASSUME Init PROVE IInv
  OBVIOUS
<1>1. log \in Seq(Entry) /\ Len(log) = 0
  BY DEF Init
<1>2. Role("assistant") = {}
  BY <1>1 DEF Role, Positions
<1>3. TypeOK
  <2>1. late \in BOOLEAN /\ idle \in BOOLEAN
    BY Zenon DEF Init
  <2>2. /\ watermark \in Nat /\ prompt \in Nat /\ view \in Nat
        /\ starts \in Nat /\ faults \in 0..MaxFaults
    BY BoundAssumption DEF Init
  <2>3. pc \in Labels /\ ended = None
    BY DEF Init, Labels
  <2> QED
    BY <1>1, <2>1, <2>2, <2>3 DEF TypeOK
<1>4. pc = "off"
  BY DEF Init
<1> QED
  BY <1>2, <1>3, <1>4 DEF IInv, RepliesLookBack, TurnIsAhead, RepliesInOrder

(* The runner's steps that do not touch the log keep the replies; TypeOK   *)
(* and TurnIsAhead remain to be shown of each.                             *)
LEMMA SameLog ==
  ASSUME IInv, UNCHANGED log
  PROVE  RepliesLookBack' /\ RepliesInOrder'
BY DEF IInv, RepliesLookBack, RepliesInOrder, Role, Positions

(* The counter behind MaxFaults. *)
LEMMA FaultsTyped ==
  ASSUME TypeOK, NEW c \in Calls, Works \/ Fails(c)
  PROVE  faults' \in 0..MaxFaults
BY BoundAssumption DEF TypeOK, Works, Fails

LEMMA RunKeeps == IInv /\ Run => IInv'
<1> SUFFICES ASSUME IInv, Run PROVE IInv'
  OBVIOUS
<1> USE DEF IInv, Calls, Labels
<1>t. TypeOK
  OBVIOUS
<1>e. ASSUME Rejects \/ Throws \/ Escapes \/ Goes("error")
      PROVE  /\ pc' \in Labels \ {"agent", "append"}
             /\ ended' \in {ended, "rejected"}
  BY <1>e DEF Rejects, Throws, Escapes, Goes
<1>f. faults' \in 0..MaxFaults
  BY <1>t, FaultsTyped
     DEF Run, Top, Wait, Poll, Turn, Agent, Store, Announce, ReportError, Mark, Fatal, Exit,
         Works, TypeOK
<1>1. CASE Top
  <2>1. /\ UNCHANGED <<log, watermark, prompt, late, starts>>
        /\ view' \in {view, Len(log)} /\ idle' \in {idle, FALSE}
        /\ pc' \in {"turn", "wait", "off"} /\ ended' \in {ended, "rejected"}
    BY <1>1 DEF Top, Goes, Rejects
  <2>2. idle' \in BOOLEAN /\ late' \in BOOLEAN
    BY <1>t, <2>1, Zenon DEF TypeOK
  <2> QED
    BY <1>t, <1>f, <2>1, <2>2, SameLog DEF TypeOK, TurnIsAhead
<1>2. CASE Wait
  BY <1>t, <1>f, <1>2, SameLog DEF Wait, Leaves, Goes, TypeOK, TurnIsAhead
<1>3. CASE Poll
  <2>1. /\ UNCHANGED <<log, watermark, prompt, late, idle, starts, ended>>
        /\ view' \in {view, Len(log)} /\ pc' \in {"turn", "wait"}
    BY <1>3 DEF Poll, Goes
  <2> QED
    BY <1>t, <1>f, <2>1, SameLog DEF TypeOK, TurnIsAhead
<1>4. CASE Turn
  <2>1. UNCHANGED <<log, watermark, late, idle, view, starts>>
    BY <1>4 DEF Turn
  <2>2. CASE /\ Goes("agent")
             /\ \E i \in Role("user") : IsLast(i) /\ prompt' = i
    <3>1. PICK i \in Role("user") : IsLast(i) /\ prompt' = i
      BY <2>2
    <3>2. i \in Positions /\ i \in Nat
      BY DEF Role, Positions
    <3>3. \A a \in Role("assistant") : a < i
      BY <1>t, <3>1, RepliesBeforeLast DEF TypeOK
    <3>4. \A a \in Role("assistant") : log[a].to < a /\ log[a].to \in Nat /\ a \in Nat
      BY <1>t DEF RepliesLookBack, Role, Positions, TypeOK, Entry
    <3>5. \A a \in Role("assistant") : log[a].to < i
      BY <3>2, <3>3, <3>4
    <3>6. TurnIsAhead'
      BY <2>1, <3>1, <3>2, <3>5 DEF TurnIsAhead, Role, Positions
    <3>7. TypeOK'
      BY <1>t, <1>f, <2>1, <2>2, <3>1, <3>2 DEF TypeOK, Goes
    <3> QED
      BY <2>1, <3>6, <3>7, SameLog
  <2>3. CASE UNCHANGED prompt /\ (Goes("error") \/ Throws)
    BY <1>t, <1>e, <1>f, <2>1, <2>3, SameLog DEF TypeOK, TurnIsAhead
  <2> QED
    BY <1>4, <2>2, <2>3 DEF Turn
<1>5. CASE Agent
  <2>1. /\ UNCHANGED <<log, watermark, prompt, late, idle, view, starts, ended>>
        /\ pc = "agent" /\ pc' \in {"append", "error"}
    BY <1>5 DEF Agent, Goes
  <2> QED
    BY <1>t, <1>f, <2>1, SameLog DEF TypeOK, TurnIsAhead, Role, Positions
<1>6. CASE Store
  <2>1. /\ UNCHANGED <<watermark, prompt, late, idle, view, starts>>
        /\ pc = "append"
        /\ pc' \in Labels \ {"agent", "append"} /\ ended' \in {ended, "rejected"}
    BY <1>6, <1>e DEF Store, Goes
  <2>2. CASE log' = Append(log, Reply)
    BY <1>t, <1>f, <2>1, <2>2, ReplyEntry DEF TypeOK, TurnIsAhead
  <2>3. CASE UNCHANGED log
    BY <1>t, <1>f, <2>1, <2>3, SameLog DEF TypeOK, TurnIsAhead
  <2> QED
    BY <1>6, <2>2, <2>3 DEF Store
<1>7. CASE Announce \/ ReportError \/ Fatal \/ Exit
  <2>1. /\ UNCHANGED <<log, watermark, prompt, late, idle, view, starts>>
        /\ pc' \in Labels \ {"agent", "append"}
        /\ ended' \in {ended, "rejected", "fatal"}
    BY <1>7, <1>e DEF Announce, ReportError, Fatal, Exit, Goes, Leaves, Throws, Rejects
  <2> QED
    BY <1>t, <1>f, <2>1, SameLog DEF TypeOK, TurnIsAhead
<1>8. CASE Mark
  <2>1. /\ UNCHANGED <<log, prompt, late, idle, view, starts>>
        /\ watermark' \in {watermark, Cardinality(Turns)}
        /\ pc' \in {"top", "off"} /\ ended' \in {ended, "rejected"}
    BY <1>8 DEF Mark, Goes, Rejects
  <2> QED
    BY <1>t, <1>f, <2>1, SameLog, TurnsFinite DEF TypeOK, TurnIsAhead
<1> QED
  BY <1>1, <1>2, <1>3, <1>4, <1>5, <1>6, <1>7, <1>8 DEF Run

LEMMA EnvironmentKeeps ==
  IInv /\ (Boot \/ Post \/ Settle \/ Handoff \/ HardCap \/ IdleWindow \/ Kill) => IInv'
<1> SUFFICES ASSUME IInv, Boot \/ Post \/ Settle \/ Handoff \/ HardCap \/ IdleWindow \/ Kill
             PROVE  IInv'
  OBVIOUS
<1> USE DEF IInv
<1>t. TypeOK
  OBVIOUS
<1>1. CASE Boot \/ HardCap \/ IdleWindow \/ Kill
  <2>1. TypeOK'
    <3>1. late' \in BOOLEAN /\ idle' \in BOOLEAN
      BY <1>t, <1>1, Zenon DEF TypeOK, Boot, HardCap, IdleWindow, Kill
    <3>2. /\ UNCHANGED <<log, prompt, faults>>
          /\ watermark' \in {0, watermark} /\ view' \in {0, view}
          /\ starts' \in {starts, starts + 1}
          /\ pc' \in {"top", "off", pc} /\ ended' \in {None, "killed", ended}
      BY <1>1 DEF Boot, HardCap, IdleWindow, Kill
    <3> QED
      BY <1>t, <3>1, <3>2 DEF TypeOK, Labels
  <2>2. UNCHANGED <<log, prompt>> /\ (pc' = pc \/ pc' \in {"top", "off"})
    BY <1>1 DEF Boot, HardCap, IdleWindow, Kill
  <2> QED
    BY <2>1, <2>2, SameLog DEF TurnIsAhead, Role, Positions
<1>2. CASE Post \/ Handoff
  <2>1. PICK e \in Entry : e.role # "assistant" /\ log' = Append(log, e)
    <3>1. CASE Post
      <4>1. PICK s \in Statuses : log' = Append(log, [role |-> "user", status |-> s])
        BY <3>1 DEF Post
      <4>2. [role |-> "user", status |-> s] \in Entry
        BY ChoiceAssumption DEF Entry
      <4> QED
        BY <4>1, <4>2
    <3>2. CASE Handoff
      <4>1. [role |-> "handoff"] \in Entry
        BY DEF Entry
      <4> QED
        BY <3>2, <4>1 DEF Handoff
    <3> QED
      BY <1>2, <3>1, <3>2
  <2>2. UNCHANGED Running
    BY <1>2 DEF Post, Handoff
  <2>3. /\ log' \in Seq(Entry) /\ Role("assistant")' = Role("assistant")
        /\ \A a \in Role("assistant") : log'[a] = log[a]
        /\ Positions \subseteq Positions'
    BY <1>t, <2>1, OtherEntry DEF TypeOK
  <2> QED
    BY <1>t, <2>2, <2>3 DEF TypeOK, Running, RepliesLookBack, TurnIsAhead, RepliesInOrder
<1>3. CASE Settle
  <2>1. PICK i \in Role("user"), s \in {"committed", "cancelled"} :
          log' = [log EXCEPT ![i].status = s]
    BY <1>3 DEF Settle
  <2>2. UNCHANGED Running
    BY <1>3 DEF Settle
  <2>3. i \in 1..Len(log) /\ log[i] \in Entry /\ log[i].role = "user"
    BY <1>t DEF Role, Positions, TypeOK
  <2>4. [log[i] EXCEPT !.status = s] \in Entry /\ [log[i] EXCEPT !.status = s].role = "user"
    BY <2>3 DEF Entry
  <2>5. log' \in Seq(Entry) /\ Len(log') = Len(log)
    BY <1>t, <2>1, <2>3, <2>4 DEF TypeOK
  <2>6. \A a \in 1..Len(log) : log'[a] = IF a = i THEN [log[i] EXCEPT !.status = s] ELSE log[a]
    BY <1>t, <2>1, <2>3 DEF TypeOK
  <2>7. Role("assistant")' = Role("assistant") /\ Positions' = Positions
    BY <2>3, <2>4, <2>5, <2>6 DEF Role, Positions
  <2>8. \A a \in Role("assistant") : log'[a] = log[a]
    BY <2>3, <2>6 DEF Role, Positions
  <2> QED
    BY <1>t, <2>2, <2>5, <2>7, <2>8
       DEF TypeOK, Running, RepliesLookBack, TurnIsAhead, RepliesInOrder
<1> QED
  BY <1>1, <1>2, <1>3

(* The invariant holds throughout, whatever dashboard and runner do.       *)
THEOREM ChatInvariance == Spec => []IInv
<1>1. IInv /\ [Next]_vars => IInv'
  <2> SUFFICES ASSUME IInv, [Next]_vars PROVE IInv'
    OBVIOUS
  <2>1. CASE UNCHANGED vars
    BY <2>1 DEF vars, IInv, TypeOK, RepliesLookBack, TurnIsAhead, RepliesInOrder, Role, Positions
  <2> QED
    BY <2>1, RunKeeps, EnvironmentKeeps DEF Next
<1> QED
  BY InitIInv, <1>1, PTL DEF Spec

(* Every variable of the session keeps its type, the watermark included.   *)
THEOREM ChatTypeCorrect == Spec => []TypeOK
BY ChatInvariance, PTL DEF IInv

(* No message is answered twice, and replies keep the order of the         *)
(* messages, over any number of restarts and lost responses.               *)
THEOREM RepliesKeepOrder == Spec => []RepliesInOrder
BY ChatInvariance, PTL DEF IInv

-----------------------------------------------------------------------------
(* The warm pool.                                                          *)

\* The refill loop has a machine.
Booted == boot \in {"probe", "suspend", "push", "drop"}

PoolTyped ==
  /\ PoolTypeOK
  /\ \A c \in Claim : claim[c] \in Trying => held[c] \in Machine
  /\ Booted => booted \in Machine

\* What a shift of the free list does.
LEMMA TryNextSteps ==
  ASSUME PoolTyped, NEW c \in Claim, NEW others \in SUBSET Machine, TryNext(c, others)
  PROVE  \/ /\ free # <<>> /\ free' = Tail(free) /\ held' = [held EXCEPT ![c] = Head(free)]
            /\ claimed' = others \cup {Head(free)} /\ boot' = boot
            /\ claim' = [claim EXCEPT ![c] = "start"] /\ attempts' \in [Claim -> 0 .. MaxAttempts]
         \/ /\ free' = free /\ held' = [held EXCEPT ![c] = NoMachine] /\ claimed' = others
            /\ claim' = [claim EXCEPT ![c] = "failed"] /\ attempts' = attempts
            /\ boot' = IF boot = "idle" /\ Len(free) < min THEN "create" ELSE boot
<1>1. attempts[c] \in 0 .. MaxAttempts /\ MaxAttempts \in Nat
  BY PoolAssumption DEF PoolTyped, PoolTypeOK
<1>2. attempts[c] < MaxAttempts => attempts[c] + 1 \in 0 .. MaxAttempts
  BY <1>1
<1> QED
  BY <1>1, <1>2 DEF TryNext, TopUp, ClaimAt, PoolTyped, PoolTypeOK

\* A free list after a shift, a push, a trim.
LEMMA ShorterList ==
  ASSUME NEW list \in Seq(Machine)
  PROVE  /\ Len(list) \in Nat
         /\ list # <<>> => /\ Head(list) \in Machine /\ Tail(list) \in Seq(Machine) /\ Len(Tail(list)) = Len(list) - 1
                           /\ Head(list) = list[1] /\ \A i \in DOMAIN Tail(list) : i + 1 \in DOMAIN list /\ Tail(list)[i] = list[i + 1]
         /\ \A m \in Machine : /\ Append(list, m) \in Seq(Machine) /\ Len(Append(list, m)) = Len(list) + 1
                               /\ \A i \in DOMAIN Append(list, m) : Append(list, m)[i] = IF i = Len(list) + 1 THEN m ELSE list[i]
OBVIOUS

LEMMA TryNextTyped ==
  ASSUME PoolTyped, NEW c \in Claim, NEW others \in SUBSET Machine, TryNext(c, others)
  PROVE  /\ free' \in Seq(Machine) /\ claimed' \in SUBSET Machine /\ boot' \in {boot, "create"} /\ (boot # "idle" => boot' = boot)
         /\ claim' \in [Claim -> Trying \cup {"new", "ok", "failed"}] /\ held' \in [Claim -> Machine \cup {NoMachine}]
         /\ attempts' \in [Claim -> 0 .. MaxAttempts]
         /\ \A d \in Claim : claim'[d] \in Trying => held'[d] \in Machine
<1>0. free \in Seq(Machine) /\ (free # <<>> => Head(free) \in Machine /\ Tail(free) \in Seq(Machine))
  BY ShorterList DEF PoolTyped, PoolTypeOK
<1>1. CASE /\ free # <<>> /\ free' = Tail(free) /\ held' = [held EXCEPT ![c] = Head(free)]
           /\ claimed' = others \cup {Head(free)} /\ boot' = boot
           /\ claim' = [claim EXCEPT ![c] = "start"] /\ attempts' \in [Claim -> 0 .. MaxAttempts]
  BY <1>0, <1>1 DEF PoolTyped, PoolTypeOK, Trying
<1>2. CASE /\ free' = free /\ held' = [held EXCEPT ![c] = NoMachine] /\ claimed' = others
           /\ claim' = [claim EXCEPT ![c] = "failed"] /\ attempts' = attempts
           /\ boot' = IF boot = "idle" /\ Len(free) < min THEN "create" ELSE boot
  BY <1>0, <1>2 DEF PoolTyped, PoolTypeOK, Trying
<1> QED
  BY <1>1, <1>2, TryNextSteps

LEMMA Trimmed ==
  ASSUME NEW t \in Sweep, NEW list \in Seq(Machine), NEW size \in Nat, doomed \in [Sweep -> SUBSET Machine],
         Trim(t, list, size)
  PROVE  /\ free' \in Seq(Machine) /\ Len(free') <= Len(list) /\ doomed' \in [Sweep -> SUBSET Machine]
         /\ \A i \in DOMAIN free' : i \in DOMAIN list /\ free'[i] = list[i]
         /\ \A x \in Sweep : \A m \in doomed'[x] : m \in doomed[x] \/ \E i \in DOMAIN list : list[i] = m
<1> DEFINE n == Smaller(Len(list), size)
<1>1. n \in 0 .. Len(list) /\ Len(list) \in Nat
  BY DEF Smaller
<1> HIDE DEF n
<1>2. SubSeq(list, 1, n) \in Seq(Machine) /\ Len(SubSeq(list, 1, n)) = n
  BY <1>1
<1>3. \A i \in 1 .. n : SubSeq(list, 1, n)[i] = list[i] /\ i \in DOMAIN list
  BY <1>1
<1>4. free' = SubSeq(list, 1, n) /\ doomed' = [doomed EXCEPT ![t] = {list[i] : i \in n + 1 .. Len(list)}]
  BY <1>2 DEF Trim, n
<1>5. {list[i] : i \in n + 1 .. Len(list)} \subseteq Machine /\ n + 1 .. Len(list) \subseteq DOMAIN list
  BY <1>1
<1> QED
  BY <1>1, <1>2, <1>3, <1>4, <1>5

\* How many places of a list are chosen.
LEMMA SomePlaces ==
  ASSUME NEW n \in Nat, NEW S \in SUBSET (1 .. n)
  PROVE  Cardinality(S) \in Nat /\ Cardinality(S) <= n
<1>1. IsFiniteSet(1 .. n) /\ Cardinality(1 .. n) = IF 1 > n THEN 0 ELSE n - 1 + 1
  BY 1 \in Int, n \in Int, FS_Interval, Zenon
<1>2. Cardinality(1 .. n) = n
  BY <1>1
<1>3. IsFiniteSet(S) /\ Cardinality(S) <= Cardinality(1 .. n)
  BY <1>1, FS_Subset
<1>4. Cardinality(S) \in Nat
  BY <1>3, FS_CardinalityType
<1> QED
  BY <1>2, <1>3, <1>4

\* resync's free list without the machines that are not listed.
LEMMA Pruned ==
  ASSUME PoolTyped, NEW t \in Sweep, Prune(t)
  PROVE  \E list \in Seq(Machine) :
           /\ Trim(t, list, min) /\ Len(list) <= Len(free)
           /\ \A i \in DOMAIN list : \E j \in DOMAIN free : list[i] = free[j]
<1> DEFINE kept == {i \in DOMAIN free : free[i] \in listing[t].live}
<1>1. PICK pick \in [1 .. Cardinality(kept) -> kept] : Trim(t, [i \in DOMAIN pick |-> free[pick[i]]], min)
  BY DEF Prune
<1> DEFINE list == [i \in DOMAIN pick |-> free[pick[i]]]
<1>2. free \in Seq(Machine) /\ Len(free) \in Nat /\ DOMAIN free = 1 .. Len(free)
  BY DEF PoolTyped, PoolTypeOK
<1>3. Cardinality(kept) \in Nat /\ Cardinality(kept) <= Len(free)
  <2>1. kept \subseteq 1 .. Len(free)
    BY <1>2
  <2> HIDE DEF kept
  <2> QED
    BY <1>2, <2>1, SomePlaces
<1>4. \A i \in 1 .. Cardinality(kept) : pick[i] \in DOMAIN free
  OBVIOUS
<1>5. list \in Seq(Machine) /\ Len(list) = Cardinality(kept)
  BY <1>2, <1>3, <1>4
<1>6. \A i \in DOMAIN list : list[i] = free[pick[i]] /\ pick[i] \in DOMAIN free
  BY <1>4
<1> QED
  BY <1>1, <1>3, <1>5, <1>6

\* What is adopted of a listing.
LEMMA Adopted ==
  ASSUME PoolTyped, NEW t \in Sweep, NEW list \in Seq(Machine), NEW found \in SUBSET Machine, Adopt(t, list, found)
  PROVE  /\ free' \in Seq(Machine) /\ doomed' \in [Sweep -> SUBSET Machine]
         /\ Len(free') + Booting <= min \/ Len(free') <= Len(list)
         /\ \A i \in DOMAIN free' : free'[i] \in found \/ \E j \in DOMAIN list : free'[i] = list[j]
         /\ \A x \in Sweep : doomed'[x] \subseteq doomed[x] \cup found
<1> DEFINE warm == Len(list) + Booting
           room == IF warm < min THEN min - warm ELSE 0
           n == Smaller(room, Cardinality(found))
<1>1. min \in Nat /\ Booting \in {0, 1} /\ Len(list) \in Nat
  BY PoolAssumption DEF PoolTyped, PoolTypeOK, Booting
<1>2. Cardinality(found) \in Nat
  BY ProcessAssumption, FS_Subset, FS_CardinalityType
<1>3. n \in Nat /\ n <= room /\ (room = 0 \/ warm + room = min)
  <2>1. warm \in Nat
    BY <1>1
  <2> HIDE DEF warm
  <2>2. room \in Nat /\ (room = 0 \/ warm + room = min)
    BY <1>1, <2>1
  <2> HIDE DEF room
  <2> QED
    BY <1>2, <2>2 DEF Smaller
<1>4. PICK new \in [1 .. n -> found] :
        /\ free' = list \o new
        /\ doomed' = [doomed EXCEPT ![t] = IF t \in Reconcile \/ boot = "idle" THEN found \ Entries(new) ELSE {}]
  BY DEF Adopt
<1> HIDE DEF n
<1>5. new \in Seq(found) /\ Len(new) = n /\ new \in Seq(Machine)
  BY <1>3
<1>6. free' \in Seq(Machine) /\ Len(free') = Len(list) + n
  <2>1. list \o new \in Seq(Machine) /\ Len(list \o new) = Len(list) + Len(new)
    BY <1>5
  <2> QED
    BY <1>4, <1>5, <2>1
<1>7. ASSUME NEW i \in DOMAIN free'
      PROVE  free'[i] \in found \/ \E j \in DOMAIN list : free'[i] = list[j]
  <2>1. i \in 1 .. Len(list) + n
    BY <1>6
  <2>2. CASE i <= Len(list)
    BY <1>1, <1>4, <1>5, <2>1, <2>2
  <2>3. CASE i > Len(list)
    <3>1. free'[i] = new[i - Len(list)] /\ i - Len(list) \in 1 .. n
      BY <1>1, <1>3, <1>4, <1>5, <2>1, <2>3
    <3> QED
      BY <1>4, <3>1
  <2> QED
    BY <1>1, <2>1, <2>2, <2>3
<1>8. Len(free') + Booting <= min \/ Len(free') <= Len(list)
  BY <1>1, <1>3, <1>6
<1> QED
  BY <1>4, <1>6, <1>7, <1>8 DEF PoolTyped, PoolTypeOK

LEMMA AdoptionSteps ==
  ASSUME PoolTyped, NEW t \in Sweep, AdoptListed(t)
  PROVE  /\ free' \in Seq(Machine) /\ doomed' \in [Sweep -> SUBSET Machine]
         /\ Len(free') + Booting <= min \/ Len(free') <= Len(free)
         /\ \A i \in DOMAIN free' : free'[i] \in listing[t].suspended \/ \E j \in DOMAIN free : free'[i] = free[j]
         /\ \A x \in Sweep : doomed'[x] \subseteq doomed[x] \cup listing[t].suspended
         /\ t \in Tick \cup Reconcile
<1>1. listing[t].suspended \in SUBSET Machine /\ free \in Seq(Machine) /\ <<>> \in Seq(Machine)
  BY DEF PoolTyped, PoolTypeOK
<1>2. CASE t \in Tick /\ Adopt(t, free, listing[t].suspended \ (Entries(free) \cup claimed))
  BY <1>1, <1>2, Adopted
<1>3. CASE t \in Reconcile /\ Adopt(t, <<>>, listing[t].suspended)
  <2>1. Len(<<>>) = 0 /\ DOMAIN <<>> = {} /\ Len(free) \in Nat
    BY <1>1
  <2>2. /\ free' \in Seq(Machine) /\ doomed' \in [Sweep -> SUBSET Machine]
        /\ Len(free') + Booting <= min \/ Len(free') <= Len(<<>>)
        /\ \A i \in DOMAIN free' : free'[i] \in listing[t].suspended \/ \E j \in DOMAIN <<>> : free'[i] = <<>>[j]
        /\ \A x \in Sweep : doomed'[x] \subseteq doomed[x] \cup listing[t].suspended
    BY <1>1, <1>3, Adopted
  <2>3. Len(free') \in Nat
    BY <2>2
  <2> QED
    BY <1>3, <2>1, <2>2, <2>3
<1> QED
  BY <1>2, <1>3 DEF AdoptListed

\* A call that fails is counted.
LEMMA CountedFaults ==
  ASSUME PoolTyped, NEW call, FlyFails(call)
  PROVE  call \in FailingFlyCalls /\ poolFaults' \in 0 .. MaxPoolFaults /\ poolFaults' > 0
BY PoolAssumption DEF FlyFails, PoolTyped, PoolTypeOK

LEMMA DestroySteps ==
  ASSUME PoolTyped, NEW m \in Machine, SafeDestroy(m)
  PROVE  /\ killed' \in SUBSET Machine /\ fly' \in [Machine -> {"none", "started", "suspended", "gone"}]
         /\ \/ fly' = [fly EXCEPT ![m] = "gone"] /\ poolFaults' = poolFaults
            \/ /\ fly' = fly /\ "destroy" \in FailingFlyCalls
               /\ poolFaults' \in 0 .. MaxPoolFaults /\ poolFaults' > 0
<1>1. CASE FlyFails("destroy") /\ UNCHANGED <<fly, killed>>
  BY <1>1, CountedFaults DEF PoolTyped, PoolTypeOK
<1>2. CASE ~(FlyFails("destroy") /\ UNCHANGED <<fly, killed>>)
  BY <1>2 DEF SafeDestroy, PoolTyped, PoolTypeOK
<1> QED
  BY <1>1, <1>2

LEMMA InitTyped == PoolInit => PoolTyped
<1> SUFFICES ASSUME PoolInit PROVE PoolTyped
  OBVIOUS
<1>1. <<>> \in Seq(Machine) /\ 0 \in 0 .. MaxAttempts /\ 0 \in 0 .. MaxPoolFaults
  BY PoolAssumption
<1>2. NoListing \in [live : SUBSET Machine, suspended : SUBSET Machine]
  BY DEF NoListing
<1> QED
  BY <1>1, <1>2 DEF PoolInit, PoolTyped, PoolTypeOK, Booted, Trying

LEMMA StepTyped == PoolTyped /\ [PoolNext]_poolVars => PoolTyped'
<1> SUFFICES ASSUME PoolTyped, [PoolNext]_poolVars PROVE PoolTyped'
  OBVIOUS
<1> USE DEF PoolTyped, PoolTypeOK, Booted
<1>1. CASE Create
  BY <1>1, CountedFaults DEF Create, claimVars, sweepVars
<1>2. CASE ProbeBooted
  BY <1>2, CountedFaults DEF ProbeBooted, claimVars, sweepVars
<1>3. CASE DropBooted
  <2>1. SafeDestroy(booted) /\ booted \in Machine
    BY <1>3 DEF DropBooted
  <2>2. killed' \in SUBSET Machine /\ fly' \in [Machine -> {"none", "started", "suspended", "gone"}] /\ poolFaults' \in 0 .. MaxPoolFaults
    BY <2>1, DestroySteps
  <2> QED
    BY <1>3, <2>2 DEF DropBooted, claimVars, sweepVars
<1>4. CASE Suspend
  BY <1>4, CountedFaults DEF Suspend, claimVars, sweepVars
<1>5. CASE Push
  <2>1. free' \in Seq(Machine)
    BY <1>5, ShorterList DEF Push
  <2> QED
    BY <1>5, <2>1 DEF Push, claimVars, sweepVars
<1>6. ASSUME NEW c \in Claim, Begin(c) PROVE PoolTyped'
  <2>1. free' \in Seq(Machine) /\ claimed' \in SUBSET Machine /\ boot' \in {boot, "create"} /\ (boot # "idle" => boot' = boot)
        /\ claim' \in [Claim -> Trying \cup {"new", "ok", "failed"}] /\ held' \in [Claim -> Machine \cup {NoMachine}]
        /\ attempts' \in [Claim -> 0 .. MaxAttempts]
        /\ \A d \in Claim : claim'[d] \in Trying => held'[d] \in Machine
    <3>1. TryNext(c, claimed) /\ claimed \in SUBSET Machine
      BY <1>6 DEF Begin
    <3> QED
      BY <3>1, TryNextTyped
  <2> QED
    BY <1>6, <2>1 DEF Begin, sweepVars
<1>7. ASSUME NEW c \in Claim, Wake(c) PROVE PoolTyped'
  BY <1>7, CountedFaults DEF Wake, ClaimAt, sweepVars, Trying
<1>8. ASSUME NEW c \in Claim, Probe(c) PROVE PoolTyped'
  BY <1>8, CountedFaults DEF Probe, ClaimAt, sweepVars, Trying
<1>9. ASSUME NEW c \in Claim, PostJob(c) PROVE PoolTyped'
  BY <1>9, CountedFaults DEF PostJob, ClaimAt, sweepVars, Trying
<1>10. ASSUME NEW c \in Claim, Accept(c) PROVE PoolTyped'
  BY <1>10 DEF Accept, ClaimAt, sweepVars, Trying
<1>11. ASSUME NEW c \in Claim, JobReply(c) PROVE PoolTyped'
  BY <1>11, CountedFaults DEF JobReply, TopUp, ClaimAt, sweepVars, Trying
<1>12. ASSUME NEW c \in Claim, Drop(c) PROVE PoolTyped'
  <2>1. SafeDestroy(held[c]) /\ held[c] \in Machine
    BY <1>12 DEF Drop, Trying
  <2>2. killed' \in SUBSET Machine /\ fly' \in [Machine -> {"none", "started", "suspended", "gone"}] /\ poolFaults' \in 0 .. MaxPoolFaults
    BY <2>1, DestroySteps
  <2>3. free' \in Seq(Machine) /\ claimed' \in SUBSET Machine /\ boot' \in {boot, "create"} /\ (boot # "idle" => boot' = boot)
        /\ claim' \in [Claim -> Trying \cup {"new", "ok", "failed"}] /\ held' \in [Claim -> Machine \cup {NoMachine}]
        /\ attempts' \in [Claim -> 0 .. MaxAttempts]
        /\ \A d \in Claim : claim'[d] \in Trying => held'[d] \in Machine
    <3>1. TryNext(c, claimed \ {held[c]}) /\ claimed \ {held[c]} \in SUBSET Machine
      BY <1>12 DEF Drop
    <3> QED
      BY <3>1, TryNextTyped
  <2> QED
    BY <1>12, <2>2, <2>3 DEF Drop, sweepVars
<1>13. ASSUME NEW t \in Sweep, SetMin(t) PROVE PoolTyped'
  <2>1. min' \in Mins /\ Trim(t, free, min')
    BY <1>13 DEF SetMin
  <2>2. free' \in Seq(Machine) /\ doomed' \in [Sweep -> SUBSET Machine]
    BY <2>1, PoolAssumption, Trimmed
  <2> QED
    BY <1>13, <2>1, <2>2 DEF SetMin, SweepAt, claimVars
<1>14. ASSUME NEW t \in Sweep, BeginResync(t) PROVE PoolTyped'
  BY <1>14 DEF BeginResync, SweepAt, claimVars
<1>15. ASSUME NEW t \in Sweep, Start(t) PROVE PoolTyped'
  BY <1>15 DEF Start, SweepAt, claimVars
<1>16. ASSUME NEW t \in Sweep, List(t) PROVE PoolTyped'
  <2>1. listing' \in [Sweep -> [live : SUBSET Machine, suspended : SUBSET Machine]] /\ poolFaults' \in 0 .. MaxPoolFaults
    <3> DEFINE seen == [live |-> {m \in Machine : fly[m] \in {"started", "suspended"}},
                        suspended |-> {m \in Machine : fly[m] = "suspended"}]
    <3>1. seen \in [live : SUBSET Machine, suspended : SUBSET Machine]
      OBVIOUS
    <3>2. \/ listing' = [listing EXCEPT ![t] = seen] /\ poolFaults' = poolFaults
          \/ FlyFails("list") /\ listing' = listing
      BY <1>16 DEF List
    <3> HIDE DEF seen
    <3> QED
      BY <3>1, <3>2, CountedFaults
  <2>2. sweep' \in [Sweep -> {"new", "listing", "listed", "trim", "cull", "done"}]
    BY <1>16 DEF List, SweepAt
  <2> QED
    BY <1>16, <2>1, <2>2 DEF List, claimVars
<1>17. ASSUME NEW t \in Sweep, Prune(t) PROVE PoolTyped'
  <2>1. free' \in Seq(Machine) /\ doomed' \in [Sweep -> SUBSET Machine]
    BY <1>17, Pruned, PoolAssumption, Trimmed
  <2> QED
    BY <1>17, <2>1 DEF Prune, SweepAt, claimVars
<1>18. ASSUME NEW t \in Sweep, AdoptListed(t) PROVE PoolTyped'
  <2>1. free' \in Seq(Machine) /\ doomed' \in [Sweep -> SUBSET Machine]
    BY <1>18, AdoptionSteps
  <2> QED
    BY <1>18, <2>1 DEF AdoptListed, NoListing, SweepAt, claimVars
<1>19. ASSUME NEW t \in Sweep, DestroyOne(t) PROVE PoolTyped'
  <2>1. PICK m \in doomed[t] : SafeDestroy(m) /\ doomed' = [doomed EXCEPT ![t] = @ \ {m}]
    BY <1>19 DEF DestroyOne
  <2>2. killed' \in SUBSET Machine /\ fly' \in [Machine -> {"none", "started", "suspended", "gone"}] /\ poolFaults' \in 0 .. MaxPoolFaults
    BY <2>1, DestroySteps
  <2> QED
    BY <1>19, <2>1, <2>2 DEF DestroyOne, claimVars
<1>20. ASSUME NEW t \in Sweep, EndSweep(t) PROVE PoolTyped'
  BY <1>20 DEF EndSweep, TopUp, SweepAt, claimVars
<1>21. CASE OwnerDies
  <2>1. NoListing \in [live : SUBSET Machine, suspended : SUBSET Machine] /\ <<>> \in Seq(Machine)
    BY DEF NoListing
  <2>2. listing' \in [Sweep -> [live : SUBSET Machine, suspended : SUBSET Machine]]
        /\ doomed' \in [Sweep -> SUBSET Machine]
        /\ sweep' \in [Sweep -> {"new", "listing", "listed", "trim", "cull", "done"}]
    BY <1>21, <2>1 DEF OwnerDies
  <2>3. claim' \in [Claim -> Trying \cup {"new", "ok", "failed"}] /\ held' \in [Claim -> Machine \cup {NoMachine}]
        /\ \A c \in Claim : claim'[c] \notin Trying
    BY <1>21 DEF OwnerDies, Trying
  <2> QED
    BY <1>21, <2>1, <2>2, <2>3 DEF OwnerDies
<1>22. ASSUME NEW m \in Machine, JobEnds(m) PROVE PoolTyped'
  BY <1>22 DEF JobEnds, claimVars, sweepVars
<1>23. ASSUME NEW m \in Machine, Vanish(m) PROVE PoolTyped'
  BY <1>23, CountedFaults DEF Vanish, claimVars, sweepVars
<1>24. CASE UNCHANGED poolVars
  BY <1>24 DEF poolVars, claimVars, sweepVars
<1> QED
  BY <1>1, <1>2, <1>3, <1>4, <1>5, <1>6, <1>7, <1>8, <1>9, <1>10, <1>11, <1>12, <1>13, <1>14, <1>15,
     <1>16, <1>17, <1>18, <1>19, <1>20, <1>21, <1>22, <1>23, <1>24 DEF PoolNext, Refill, Serve, Clean

\* The pool's state has its type, and whoever works on a machine has one.
THEOREM PoolTypeCorrect == PoolSpec => []PoolTyped
  BY InitTyped, StepTyped, PTL DEF PoolSpec

-----------------------------------------------------------------------------
\* What is warm or booting grows only up to the size the pool has (refill,
\* adoptInto, trimFreeSurplus), and what is boot counts as one.
LEMMA ToppedUp ==
  ASSUME PoolTyped, TopUp(free, min)
  PROVE  /\ Booting' = Booting \/ Len(free) + Booting' <= min
         /\ Len(free) >= min \/ boot' # "idle"
<1>1. Len(free) \in Nat /\ min \in Nat
  BY PoolAssumption DEF PoolTyped, PoolTypeOK
<1> QED
  BY <1>1 DEF TopUp, Booting

LEMMA TryNextWarms ==
  ASSUME PoolTyped, NEW c \in Claim, NEW others \in SUBSET Machine, TryNext(c, others), min' = min
  PROVE  /\ Len(free') + Booting' <= Len(free) + Booting \/ Len(free') + Booting' <= min'
         /\ claim'[c] \in Trying \/ Len(free') >= min' \/ boot' # "idle"
<1>0. free \in Seq(Machine) /\ (free # <<>> => Len(Tail(free)) = Len(free) - 1) /\ Len(free) \in Nat /\ min \in Nat
  BY ShorterList, PoolAssumption DEF PoolTyped, PoolTypeOK
<1>1. CASE /\ free # <<>> /\ free' = Tail(free) /\ boot' = boot
           /\ claim' = [claim EXCEPT ![c] = "start"]
  BY <1>0, <1>1 DEF PoolTyped, PoolTypeOK, Trying, Booting
<1>2. CASE /\ free' = free
           /\ boot' = IF boot = "idle" /\ Len(free) < min THEN "create" ELSE boot
  BY <1>0, <1>2 DEF Booting
<1> QED
  BY <1>1, <1>2, TryNextSteps

LEMMA WarmSteps ==
  ASSUME PoolTyped, [PoolNext]_poolVars
  PROVE  \/ Len(free') + Booting' <= Len(free) + Booting
         \/ Len(free') + Booting' <= min'
<1> DEFINE Capped == \/ Len(free') + Booting' <= Len(free) + Booting
                     \/ Len(free') + Booting' <= min'
<1>0. Len(free) \in Nat /\ min \in Nat /\ free \in Seq(Machine) /\ Booting \in {0, 1} /\ Booting' \in {0, 1}
  BY PoolAssumption DEF PoolTyped, PoolTypeOK, Booting
<1>a. ASSUME UNCHANGED free, boot' = boot \/ boot # "idle" PROVE Capped
  BY <1>0, <1>a DEF Booting
<1>b. ASSUME UNCHANGED boot, Len(free') \in Nat, Len(free') <= Len(free) PROVE Capped
  BY <1>0, <1>b DEF Booting
<1>1. CASE Create \/ ProbeBooted \/ DropBooted \/ Suspend
  BY <1>1, <1>a DEF Create, ProbeBooted, DropBooted, Suspend
<1>5. CASE Push
  <2>1. Len(free') = Len(free) + 1 /\ Booting = 1 /\ min' = min
    BY <1>5, ShorterList DEF Push, Booting, PoolTyped, PoolTypeOK, Booted
  <2>2. boot' = "idle" \/ Len(free') < min
    BY <1>5 DEF Push
  <2> QED
    BY <1>0, <2>1, <2>2 DEF Booting
<1>6. ASSUME NEW c \in Claim, Begin(c) PROVE Capped
  <2>1. TryNext(c, claimed) /\ claimed \in SUBSET Machine /\ min' = min
    BY <1>6 DEF Begin, PoolTyped, PoolTypeOK
  <2> QED
    BY <2>1, TryNextWarms
<1>7. ASSUME NEW c \in Claim, Wake(c) \/ Probe(c) \/ PostJob(c) \/ Accept(c) PROVE Capped
  BY <1>7, <1>a DEF Wake, Probe, PostJob, Accept
<1>11. ASSUME NEW c \in Claim, JobReply(c) PROVE Capped
  <2>1. free' = free /\ min' = min /\ (TopUp(free, min) \/ boot' = boot)
    BY <1>11 DEF JobReply
  <2> QED
    BY <2>1, <1>0, <1>a, ToppedUp
<1>12. ASSUME NEW c \in Claim, Drop(c) PROVE Capped
  <2>1. TryNext(c, claimed \ {held[c]}) /\ claimed \ {held[c]} \in SUBSET Machine /\ min' = min
    BY <1>12 DEF Drop, PoolTyped, PoolTypeOK
  <2> QED
    BY <2>1, TryNextWarms
<1>13. ASSUME NEW t \in Sweep, SetMin(t) PROVE Capped
  <2>1. min' \in Mins /\ Trim(t, free, min') /\ boot' = boot
    BY <1>13 DEF SetMin
  <2>2. free' \in Seq(Machine) /\ Len(free') <= Len(free)
    BY <2>1, PoolAssumption, Trimmed DEF PoolTyped, PoolTypeOK
  <2>3. Len(free') \in Nat
    BY <2>2
  <2> QED
    BY <2>1, <2>2, <2>3, <1>b
<1>14. ASSUME NEW t \in Sweep, BeginResync(t) \/ Start(t) \/ List(t) \/ DestroyOne(t) PROVE Capped
  BY <1>14, <1>a DEF BeginResync, Start, List, DestroyOne
<1>17. ASSUME NEW t \in Sweep, Prune(t) PROVE Capped
  <2>1. PICK list \in Seq(Machine) : Trim(t, list, min) /\ Len(list) <= Len(free)
    BY <1>17, Pruned
  <2>2. free' \in Seq(Machine) /\ Len(free') <= Len(list) /\ boot' = boot
    BY <1>17, <2>1, PoolAssumption, Trimmed DEF PoolTyped, PoolTypeOK, Prune
  <2>3. Len(free') \in Nat /\ Len(list) \in Nat
    BY <2>1, <2>2
  <2>4. Len(free') <= Len(free)
    BY <2>1, <2>2, <2>3, <1>0
  <2> QED
    BY <2>2, <2>3, <2>4, <1>b
<1>18. ASSUME NEW t \in Sweep, AdoptListed(t) PROVE Capped
  <2>1. free' \in Seq(Machine) /\ (Len(free') + Booting <= min \/ Len(free') <= Len(free)) /\ boot' = boot /\ min' = min
    BY <1>18, AdoptionSteps DEF AdoptListed
  <2>2. Len(free') \in Nat /\ Booting' = Booting
    BY <2>1 DEF Booting
  <2> QED
    BY <2>1, <2>2, <1>0
<1>20. ASSUME NEW t \in Sweep, EndSweep(t) PROVE Capped
  <2>1. free' = free /\ min' = min /\ TopUp(free, min)
    BY <1>20 DEF EndSweep
  <2> QED
    BY <2>1, <1>0, ToppedUp
<1>21. CASE OwnerDies
  <2>1. free' = <<>> /\ Booting' = 0
    BY <1>21 DEF OwnerDies, Booting
  <2> QED
    BY <2>1, <1>0
<1>22. ASSUME NEW m \in Machine, JobEnds(m) \/ Vanish(m) PROVE Capped
  BY <1>22, <1>a DEF JobEnds, Vanish
<1>24. CASE UNCHANGED poolVars
  BY <1>24, <1>a DEF poolVars
<1>25. CASE Refill
  BY <1>25, <1>1, <1>5 DEF Refill
<1>26. ASSUME NEW c \in Claim, Begin(c) \/ Serve(c) PROVE Capped
  BY <1>26, <1>6, <1>7, <1>11, <1>12 DEF Serve
<1>27. ASSUME NEW t \in Sweep, SetMin(t) \/ BeginResync(t) \/ Start(t) \/ Clean(t) PROVE Capped
  BY <1>27, <1>13, <1>14, <1>17, <1>18, <1>20 DEF Clean
<1>28. Capped
  BY <1>25, <1>26, <1>27, <1>21, <1>22, <1>24, Zenon DEF PoolNext
<1> QED
  BY <1>28 DEF Capped

\* Machines that are warm or booting, and paid for, are never more than the
\* largest size asked for, over claims, resizes, sweeps, crashes and faults.
THEOREM WarmStaysCapped == PoolSpec => []WarmIsCapped
<1>1. PoolInit => WarmIsCapped
  <2> SUFFICES ASSUME PoolInit PROVE WarmIsCapped
    OBVIOUS
  <2>1. min \in Mins /\ min \in Nat /\ Len(free) = 0 /\ Booting <= min
    BY PoolAssumption DEF PoolInit, Booting
  <2> QED
    BY <2>1 DEF WarmIsCapped, Booting
<1>2. PoolTyped /\ PoolTyped' /\ WarmIsCapped /\ [PoolNext]_poolVars => WarmIsCapped'
  <2> SUFFICES ASSUME PoolTyped, PoolTyped', WarmIsCapped, [PoolNext]_poolVars PROVE WarmIsCapped'
    OBVIOUS
  <2>1. PICK n \in Mins : Len(free) + Booting <= n
    BY DEF WarmIsCapped
  <2>2. n \in Nat /\ min' \in Mins /\ Len(free) + Booting \in Nat /\ Len(free') + Booting' \in Nat
    BY PoolAssumption DEF PoolTyped, PoolTypeOK, Booting
  <2>3. Len(free') + Booting' <= n \/ Len(free') + Booting' <= min'
    BY WarmSteps, <2>1, <2>2
  <2> QED
    BY <2>2, <2>3 DEF WarmIsCapped
<1> QED
  BY <1>1, <1>2, PoolTypeCorrect, PTL DEF PoolSpec

-----------------------------------------------------------------------------
\* Without faults a pool that is up is full, or somebody will refill it.
Busy == (\E c \in Claim : claim[c] \in Trying) \/ (\E t \in Sweep : sweep[t] \notin {"new", "done"})
WarmOrBusy ==
  /\ boot = "drop" => poolFaults > 0
  /\ up /\ poolFaults = 0 => Len(free) >= min \/ boot # "idle" \/ Busy

LEMMA StepWarmOrBusy == PoolTyped /\ WarmOrBusy /\ [PoolNext]_poolVars => WarmOrBusy'
<1> SUFFICES ASSUME PoolTyped, WarmOrBusy, [PoolNext]_poolVars PROVE WarmOrBusy'
  OBVIOUS
<1>0. /\ Len(free) \in Nat /\ min \in Nat /\ free \in Seq(Machine) /\ poolFaults \in Nat
      /\ claim \in [Claim -> Trying \cup {"new", "ok", "failed"}]
      /\ sweep \in [Sweep -> {"new", "listing", "listed", "trim", "cull", "done"}]
  BY PoolAssumption DEF PoolTyped, PoolTypeOK
<1>f. ASSUME poolFaults' > 0 PROVE WarmOrBusy'
  BY <1>0, <1>f DEF WarmOrBusy
<1>s. ASSUME UNCHANGED <<up, min, free, boot, claim, sweep>>, poolFaults' = poolFaults PROVE WarmOrBusy'
  BY <1>0, <1>s DEF WarmOrBusy, Busy
<1>c. ASSUME NEW c \in Claim, claim'[c] \in Trying, boot' = boot, poolFaults' = poolFaults PROVE WarmOrBusy'
  BY <1>0, <1>c DEF WarmOrBusy, Busy
<1>t. ASSUME NEW t \in Sweep, sweep'[t] \notin {"new", "done"}, boot' = boot, poolFaults' = poolFaults PROVE WarmOrBusy'
  BY <1>0, <1>t DEF WarmOrBusy, Busy
<1>w. ASSUME Len(free') >= min' \/ boot' # "idle", boot' # "drop" PROVE WarmOrBusy'
  BY <1>w DEF WarmOrBusy
<1>1. CASE Create
  <2>1. CASE FlyFails("create")
    BY <2>1, <1>f, CountedFaults
  <2> QED
    BY <1>1, <2>1, <1>w DEF Create
<1>2. CASE ProbeBooted
  <2>1. CASE FlyFails("health")
    BY <2>1, <1>f, CountedFaults
  <2> QED
    BY <1>2, <2>1, <1>w DEF ProbeBooted
<1>3. CASE DropBooted
  <2>1. SafeDestroy(booted) /\ booted \in Machine /\ poolFaults > 0
    BY <1>3 DEF DropBooted, PoolTyped, Booted, WarmOrBusy
  <2> QED
    BY <2>1, DestroySteps, <1>f
<1>4. CASE Suspend
  <2>1. CASE FlyFails("suspend")
    BY <2>1, <1>f, CountedFaults
  <2> QED
    BY <1>4, <2>1, <1>w DEF Suspend
<1>5. CASE Push
  <2>1. Len(free') \in Nat /\ min' = min
    BY <1>5, ShorterList DEF Push, Booting, PoolTyped, PoolTypeOK, Booted
  <2> QED
    BY <1>5, <2>1, <1>0, <1>w DEF Push
<1>6. ASSUME NEW c \in Claim, NEW others \in SUBSET Machine, TryNext(c, others),
             UNCHANGED <<up, min, sweep>>, poolFaults' = poolFaults \/ poolFaults' > 0 PROVE WarmOrBusy'
  <2>1. /\ claim'[c] \in Trying \/ Len(free') >= min' \/ boot' # "idle"
        /\ boot' = boot \/ boot' = "create"
    BY <1>6, TryNextWarms, TryNextTyped
  <2>2. CASE boot' = boot /\ poolFaults' = poolFaults
    BY <1>0, <1>6, <2>1, <2>2 DEF WarmOrBusy, Busy
  <2> QED
    BY <1>6, <2>1, <2>2, <1>f, <1>w
<1>7. ASSUME NEW c \in Claim, Begin(c) PROVE WarmOrBusy'
  <2>1. TryNext(c, claimed) /\ claimed \in SUBSET Machine /\ UNCHANGED <<up, min, sweep>> /\ poolFaults' = poolFaults
    BY <1>7 DEF Begin, sweepVars, PoolTyped, PoolTypeOK
  <2> QED
    BY <2>1, <1>6
<1>8. ASSUME NEW c \in Claim, Wake(c) PROVE WarmOrBusy'
  <2>1. CASE FlyFails("start")
    BY <2>1, <1>f, CountedFaults
  <2> QED
    BY <1>8, <2>1, <1>0, <1>c DEF Wake, ClaimAt, Trying
<1>9. ASSUME NEW c \in Claim, Probe(c) PROVE WarmOrBusy'
  <2>1. CASE FlyFails("health")
    BY <2>1, <1>f, CountedFaults
  <2> QED
    BY <1>9, <2>1, <1>0, <1>c DEF Probe, ClaimAt, Trying
<1>10. ASSUME NEW c \in Claim, PostJob(c) PROVE WarmOrBusy'
  <2>1. CASE FlyFails("post")
    BY <2>1, <1>f, CountedFaults
  <2> QED
    BY <1>10, <2>1, <1>0, <1>c DEF PostJob, ClaimAt, Trying
<1>11. ASSUME NEW c \in Claim, Accept(c) PROVE WarmOrBusy'
  BY <1>11, <1>0, <1>c DEF Accept, ClaimAt, Trying
<1>12. ASSUME NEW c \in Claim, JobReply(c) PROVE WarmOrBusy'
  <2>1. CASE FlyFails("post")
    BY <2>1, <1>f, CountedFaults
  <2>2. CASE ~FlyFails("post")
    <3>1. TopUp(free, min) /\ UNCHANGED <<free, min, poolFaults>>
      BY <1>12, <2>2 DEF JobReply
    <3>2. (Len(free') >= min' \/ boot' # "idle") /\ (boot' = "drop" => boot = "drop")
      BY <3>1, ToppedUp DEF TopUp
    <3> QED
      BY <3>1, <3>2, <1>0 DEF WarmOrBusy
  <2> QED
    BY <2>1, <2>2
<1>13. ASSUME NEW c \in Claim, Drop(c) PROVE WarmOrBusy'
  <2>1. /\ TryNext(c, claimed \ {held[c]}) /\ claimed \ {held[c]} \in SUBSET Machine /\ UNCHANGED <<up, min, sweep>>
        /\ SafeDestroy(held[c]) /\ held[c] \in Machine
    BY <1>13 DEF Drop, sweepVars, PoolTyped, PoolTypeOK, Trying
  <2>2. poolFaults' = poolFaults \/ poolFaults' > 0
    BY <2>1, DestroySteps
  <2> QED
    BY <2>1, <2>2, <1>6
<1>14. ASSUME NEW t \in Sweep, SetMin(t) \/ BeginResync(t) \/ Start(t) \/ Prune(t) \/ AdoptListed(t) PROVE WarmOrBusy'
  <2>1. sweep'[t] \notin {"new", "done"} /\ boot' = boot /\ poolFaults' = poolFaults
    BY <1>14, <1>0 DEF SetMin, BeginResync, Start, Prune, AdoptListed, SweepAt
  <2> QED
    BY <2>1, <1>t
<1>15. ASSUME NEW t \in Sweep, List(t) PROVE WarmOrBusy'
  <2>1. CASE FlyFails("list")
    BY <2>1, <1>f, CountedFaults
  <2> QED
    BY <1>15, <2>1, <1>0, <1>t DEF List, SweepAt
<1>16. ASSUME NEW t \in Sweep, DestroyOne(t) PROVE WarmOrBusy'
  <2>1. PICK m \in doomed[t] : SafeDestroy(m)
    BY <1>16 DEF DestroyOne
  <2>2. poolFaults' = poolFaults \/ poolFaults' > 0
    BY <2>1, DestroySteps DEF PoolTyped, PoolTypeOK
  <2>3. sweep'[t] \notin {"new", "done"} /\ boot' = boot
    BY <1>16 DEF DestroyOne
  <2> QED
    BY <2>2, <2>3, <1>f, <1>t
<1>17. ASSUME NEW t \in Sweep, EndSweep(t) PROVE WarmOrBusy'
  <2>1. TopUp(free, min) /\ UNCHANGED <<free, min, poolFaults>>
    BY <1>17 DEF EndSweep
  <2>2. (Len(free') >= min' \/ boot' # "idle") /\ (boot' = "drop" => boot = "drop")
    BY <2>1, ToppedUp DEF TopUp
  <2> QED
    BY <2>1, <2>2, <1>0 DEF WarmOrBusy
<1>18. CASE OwnerDies
  BY <1>18 DEF OwnerDies, WarmOrBusy
<1>19. ASSUME NEW m \in Machine, JobEnds(m) PROVE WarmOrBusy'
  BY <1>19, <1>s DEF JobEnds, claimVars, sweepVars
<1>20. ASSUME NEW m \in Machine, Vanish(m) PROVE WarmOrBusy'
  BY <1>20, CountedFaults, <1>f DEF Vanish
<1>21. CASE UNCHANGED poolVars
  BY <1>21, <1>s DEF poolVars, claimVars, sweepVars
<1>22. CASE Refill
  BY <1>22, <1>1, <1>2, <1>3, <1>4, <1>5 DEF Refill
<1>23. ASSUME NEW c \in Claim, Begin(c) \/ Serve(c) PROVE WarmOrBusy'
  BY <1>23, <1>7, <1>8, <1>9, <1>10, <1>11, <1>12, <1>13 DEF Serve
<1>24. ASSUME NEW t \in Sweep, SetMin(t) \/ BeginResync(t) \/ Start(t) \/ Clean(t) PROVE WarmOrBusy'
  BY <1>24, <1>14, <1>15, <1>16, <1>17 DEF Clean
<1> QED
  BY <1>18, <1>19, <1>20, <1>21, <1>22, <1>23, <1>24, Zenon DEF PoolNext

\* A pool with nothing under way and no failed call is full: no claim, resize,
\* resync or reconcile forgets a refill, and none is lost on a busy loop.
THEOREM QuietPoolsAreWarm == PoolSpec => []QuietPoolIsWarm
<1>1. PoolInit => WarmOrBusy
  <2> SUFFICES ASSUME PoolInit PROVE WarmOrBusy
    OBVIOUS
  <2>1. min \in Nat /\ Len(free) = 0
    BY PoolAssumption DEF PoolInit
  <2> QED
    BY <2>1 DEF PoolInit, WarmOrBusy
<1>2. WarmOrBusy => QuietPoolIsWarm
  BY DEF WarmOrBusy, Busy, QuietPoolIsWarm
<1> QED
  BY <1>1, <1>2, StepWarmOrBusy, PoolTypeCorrect, PTL DEF PoolSpec

\* How a machine gets a job.
LEMMA JobSteps ==
  ASSUME PoolTyped, [PoolNext]_poolVars
  PROVE  job' = job \/ \E c \in Claim : Accept(c) /\ Ready(held[c]) /\ job' = [job EXCEPT ![held[c]] = c]
<1>1. CASE Refill
  BY <1>1 DEF Refill, Create, ProbeBooted, DropBooted, Suspend, Push
<1>2. ASSUME NEW c \in Claim, Begin(c) \/ Serve(c), ~Accept(c) PROVE job' = job
  BY <1>2 DEF Serve, Begin, Wake, Probe, PostJob, JobReply, Drop
<1>3. ASSUME NEW t \in Sweep, SetMin(t) \/ BeginResync(t) \/ Start(t) \/ Clean(t) PROVE job' = job
  BY <1>3 DEF Clean, SetMin, BeginResync, Start, List, Prune, AdoptListed, DestroyOne, EndSweep
<1>4. CASE OwnerDies
  BY <1>4 DEF OwnerDies
<1>5. ASSUME NEW m \in Machine, JobEnds(m) \/ Vanish(m) PROVE job' = job
  BY <1>5 DEF JobEnds, Vanish
<1>6. CASE UNCHANGED poolVars
  BY <1>6 DEF poolVars
<1>7. ASSUME NEW c \in Claim, Accept(c)
      PROVE  job' = job \/ (Ready(held[c]) /\ job' = [job EXCEPT ![held[c]] = c])
  BY <1>7 DEF Accept
<1> QED
  BY <1>1, <1>2, <1>3, <1>4, <1>5, <1>6, <1>7 DEF PoolNext

\* A runner takes one job and never another, also when two claims post to it
\* while it reads the other's body.
THEOREM RunnersAreSingleShot == PoolSpec => OneJobPerMachine
<1>1. PoolTyped /\ [PoolNext]_poolVars => \A m \in Machine : job[m] # NoMachine => job'[m] = job[m]
  BY JobSteps DEF PoolTyped, PoolTypeOK, Ready
<1> QED
  BY <1>1, PoolTypeCorrect, PTL DEF PoolSpec, OneJobPerMachine

-----------------------------------------------------------------------------
\* The machines some part of the owner may still work on: free ones, those of
\* claims, those seen suspended in a listing, and those to be destroyed.
Known(m) ==
  \/ \E i \in DOMAIN free : free[i] = m
  \/ \E c \in Claim : claim[c] \in Trying /\ held[c] = m
  \/ \E t \in Sweep : m \in listing[t].suspended \cup doomed[t]

\* A machine becomes known when it was booted, or is suspended in a listing.
LEMMA TryNextKnows ==
  ASSUME PoolTyped, NEW c \in Claim, NEW others \in SUBSET Machine, TryNext(c, others), UNCHANGED <<listing, doomed>>,
         NEW m, Known(m)'
  PROVE  Known(m)
<1>0. /\ free \in Seq(Machine) /\ claim \in [Claim -> Trying \cup {"new", "ok", "failed"}]
      /\ held \in [Claim -> Machine \cup {NoMachine}]
  BY DEF PoolTyped, PoolTypeOK
<1>1. CASE /\ free # <<>> /\ free' = Tail(free) /\ held' = [held EXCEPT ![c] = Head(free)]
           /\ claim' = [claim EXCEPT ![c] = "start"]
  <2>1. Head(free) = free[1] /\ 1 \in DOMAIN free /\ \A i \in DOMAIN Tail(free) : i + 1 \in DOMAIN free /\ Tail(free)[i] = free[i + 1]
    BY <1>0, <1>1
  <2>2. ASSUME NEW i \in DOMAIN free', free'[i] = m PROVE Known(m)
    BY <1>1, <2>1, <2>2 DEF Known
  <2>3. ASSUME NEW d \in Claim, claim'[d] \in Trying, held'[d] = m PROVE Known(m)
    BY <1>0, <1>1, <2>1, <2>3 DEF Known
  <2> QED
    BY <2>2, <2>3 DEF Known
<1>2. CASE /\ free' = free /\ held' = [held EXCEPT ![c] = NoMachine]
           /\ claim' = [claim EXCEPT ![c] = "failed"]
  <2>1. ASSUME NEW d \in Claim, claim'[d] \in Trying, held'[d] = m PROVE Known(m)
    BY <1>0, <1>2, <2>1 DEF Known, Trying
  <2> QED
    BY <1>2, <2>1 DEF Known
<1> QED
  BY <1>1, <1>2, TryNextSteps

LEMMA KnownSteps ==
  ASSUME PoolTyped, [PoolNext]_poolVars, NEW m, Known(m)'
  PROVE  Known(m) \/ (boot = "push" /\ booted = m) \/ (m \in Machine /\ fly[m] = "suspended")
<1> DEFINE Before == Known(m) \/ (boot = "push" /\ booted = m) \/ (m \in Machine /\ fly[m] = "suspended")
<1>0. /\ free \in Seq(Machine) /\ claim \in [Claim -> Trying \cup {"new", "ok", "failed"}]
      /\ held \in [Claim -> Machine \cup {NoMachine}] /\ min \in Nat
      /\ listing \in [Sweep -> [live : SUBSET Machine, suspended : SUBSET Machine]]
      /\ doomed \in [Sweep -> SUBSET Machine]
  BY PoolAssumption DEF PoolTyped, PoolTypeOK
<1>a. ASSUME UNCHANGED <<free, claim, held, listing, doomed>> PROVE Before
  BY <1>a DEF Known
<1>1. CASE Create \/ ProbeBooted \/ DropBooted \/ Suspend
  BY <1>1, <1>a DEF Create, ProbeBooted, DropBooted, Suspend, claimVars, sweepVars
<1>2. CASE Push
  <2>1. /\ \A i \in DOMAIN free' : free'[i] = booted \/ (i \in DOMAIN free /\ free'[i] = free[i])
        /\ boot = "push" /\ UNCHANGED <<claim, held, listing, doomed>>
    BY <1>2, <1>0 DEF Push, claimVars, sweepVars, PoolTyped, Booted
  <2> QED
    BY <2>1 DEF Known
<1>3. ASSUME NEW c \in Claim, Begin(c) PROVE Before
  <2>1. TryNext(c, claimed) /\ claimed \in SUBSET Machine /\ UNCHANGED <<listing, doomed>>
    BY <1>3 DEF Begin, sweepVars, PoolTyped, PoolTypeOK
  <2> QED
    BY <2>1, TryNextKnows
<1>4. ASSUME NEW c \in Claim, Wake(c) \/ Probe(c) \/ PostJob(c) \/ Accept(c) \/ JobReply(c) PROVE Before
  <2>1. UNCHANGED <<free, held, listing, doomed>> /\ claim[c] \in Trying
    BY <1>4 DEF Wake, Probe, PostJob, Accept, JobReply, sweepVars, Trying
  <2>2. \A d \in Claim : claim'[d] = claim[d] \/ d = c
    BY <1>4, <1>0 DEF Wake, Probe, PostJob, Accept, JobReply, ClaimAt
  <2> QED
    BY <2>1, <2>2 DEF Known
<1>5. ASSUME NEW c \in Claim, Drop(c) PROVE Before
  <2>1. TryNext(c, claimed \ {held[c]}) /\ claimed \ {held[c]} \in SUBSET Machine /\ UNCHANGED <<listing, doomed>>
    BY <1>5 DEF Drop, sweepVars, PoolTyped, PoolTypeOK
  <2> QED
    BY <2>1, TryNextKnows
<1>6. ASSUME NEW t \in Sweep, NEW list \in Seq(Machine), NEW size \in Nat, Trim(t, list, size),
             \A i \in DOMAIN list : \E j \in DOMAIN free : list[i] = free[j], UNCHANGED <<claimVars, listing>> PROVE Before
  <2>1. /\ \A i \in DOMAIN free' : i \in DOMAIN list /\ free'[i] = list[i]
        /\ \A x \in Sweep : \A y \in doomed'[x] : y \in doomed[x] \/ \E i \in DOMAIN list : list[i] = y
    BY <1>0, <1>6, Trimmed
  <2> QED
    BY <1>6, <2>1 DEF Known, claimVars
<1>7. ASSUME NEW t \in Sweep, SetMin(t) PROVE Before
  BY <1>7, <1>6, <1>0, PoolAssumption DEF SetMin
<1>8. ASSUME NEW t \in Sweep, Prune(t) PROVE Before
  <2>1. PICK list \in Seq(Machine) : Trim(t, list, min) /\ \A i \in DOMAIN list : \E j \in DOMAIN free : list[i] = free[j]
    BY <1>8, Pruned
  <2> QED
    BY <1>8, <2>1, <1>6, <1>0 DEF Prune
<1>9. ASSUME NEW t \in Sweep, AdoptListed(t) PROVE Before
  <2>1. /\ \A i \in DOMAIN free' : free'[i] \in listing[t].suspended \/ \E j \in DOMAIN free : free'[i] = free[j]
        /\ \A x \in Sweep : doomed'[x] \subseteq doomed[x] \cup listing[t].suspended
    BY <1>9, AdoptionSteps
  <2>2. UNCHANGED claimVars /\ \A x \in Sweep : listing'[x].suspended \subseteq listing[x].suspended
    BY <1>9, <1>0 DEF AdoptListed, NoListing
  <2> QED
    BY <2>1, <2>2 DEF Known, claimVars
<1>10. ASSUME NEW t \in Sweep, List(t) PROVE Before
  <2>1. UNCHANGED <<free, claim, held, doomed>>
    BY <1>10 DEF List, claimVars
  <2>2. \A x \in Sweep : \A y \in listing'[x].suspended : y \in listing[x].suspended \/ (y \in Machine /\ fly[y] = "suspended")
    BY <1>10, <1>0 DEF List
  <2> QED
    BY <2>1, <2>2 DEF Known
<1>11. ASSUME NEW t \in Sweep, DestroyOne(t) PROVE Before
  <2>1. UNCHANGED <<free, claim, held, listing>> /\ \A x \in Sweep : doomed'[x] \subseteq doomed[x]
    BY <1>11, <1>0 DEF DestroyOne, claimVars
  <2> QED
    BY <2>1 DEF Known
<1>12. ASSUME NEW t \in Sweep, BeginResync(t) \/ Start(t) \/ EndSweep(t) PROVE Before
  BY <1>12, <1>a DEF BeginResync, Start, EndSweep, claimVars
<1>13. CASE OwnerDies
  <2>1. free' = <<>> /\ (\A c \in Claim : claim'[c] \notin Trying) /\ listing' = [t \in Sweep |-> NoListing] /\ doomed' = [t \in Sweep |-> {}]
    BY <1>13, <1>0 DEF OwnerDies, Trying
  <2> QED
    BY <2>1 DEF Known, NoListing
<1>14. ASSUME NEW n \in Machine, JobEnds(n) \/ Vanish(n) PROVE Before
  BY <1>14, <1>a DEF JobEnds, Vanish, claimVars, sweepVars
<1>15. CASE UNCHANGED poolVars
  BY <1>15, <1>a DEF poolVars, claimVars, sweepVars
<1>16. CASE Refill
  BY <1>16, <1>1, <1>2 DEF Refill
<1>17. ASSUME NEW c \in Claim, Begin(c) \/ Serve(c) PROVE Before
  BY <1>17, <1>3, <1>4, <1>5 DEF Serve
<1>18. ASSUME NEW t \in Sweep, SetMin(t) \/ BeginResync(t) \/ Start(t) \/ Clean(t) PROVE Before
  BY <1>18, <1>7, <1>8, <1>9, <1>10, <1>11, <1>12 DEF Clean
<1>19. Before
  BY <1>13, <1>14, <1>15, <1>16, <1>17, <1>18, Zenon DEF PoolNext
<1> QED
  BY <1>19 DEF Before

\* What Fly does to machines over a step.
LEMMA FlySteps ==
  ASSUME PoolTyped, [PoolNext]_poolVars, NEW m \in Machine
  PROVE  /\ fly[m] # "none" => fly'[m] # "none"
         /\ fly'[m] = "started" => fly[m] # "gone"
         /\ fly'[m] = "suspended" => fly[m] = "suspended" \/ (boot = "suspend" /\ booted = m)
         /\ fly[m] = "started" /\ fly'[m] # "started" => Known(m) \/ job[m] # NoMachine \/ (booted = m /\ boot' \in {"idle", "push"})
<1> DEFINE Moved == /\ fly[m] # "none" => fly'[m] # "none"
                    /\ fly'[m] = "started" => fly[m] # "gone"
                    /\ fly'[m] = "suspended" => fly[m] = "suspended" \/ (boot = "suspend" /\ booted = m)
                    /\ fly[m] = "started" /\ fly'[m] # "started" => Known(m) \/ job[m] # NoMachine \/ (booted = m /\ boot' \in {"idle", "push"})
<1> SUFFICES Moved
  BY DEF Moved
<1>0. fly \in [Machine -> {"none", "started", "suspended", "gone"}]
  BY DEF PoolTyped, PoolTypeOK
<1>a. ASSUME NEW n, SafeDestroy(n), Known(n) \/ (booted = n /\ boot' \in {"idle", "push"}) PROVE Moved
  BY <1>0, <1>a DEF SafeDestroy
<1>1. CASE Create \/ ProbeBooted \/ Suspend \/ Push
  BY <1>0, <1>1 DEF Create, ProbeBooted, Suspend, Push
<1>2. CASE DropBooted
  <2>1. SafeDestroy(booted) /\ boot' \in {"idle", "push"}
    BY <1>2 DEF DropBooted
  <2> HIDE DEF Moved
  <2> QED
    BY <2>1, <1>a
<1>3. ASSUME NEW c \in Claim, Drop(c) PROVE Moved
  BY <1>3, <1>a DEF Drop, Known, Trying
<1>4. ASSUME NEW c \in Claim, Begin(c) \/ Serve(c), ~Drop(c) PROVE Moved
  BY <1>0, <1>4 DEF Serve, Begin, Wake, Probe, PostJob, Accept, JobReply
<1>5. ASSUME NEW t \in Sweep, DestroyOne(t) PROVE Moved
  BY <1>5, <1>a DEF DestroyOne, Known
<1>6. ASSUME NEW t \in Sweep, SetMin(t) \/ BeginResync(t) \/ Start(t) \/ Clean(t), ~DestroyOne(t) PROVE Moved
  BY <1>0, <1>6 DEF Clean, SetMin, BeginResync, Start, List, Prune, AdoptListed, EndSweep
<1>7. CASE OwnerDies
  BY <1>0, <1>7 DEF OwnerDies
<1>8. ASSUME NEW n \in Machine, JobEnds(n) \/ Vanish(n) PROVE Moved
  BY <1>0, <1>8 DEF JobEnds, Vanish
<1>9. CASE UNCHANGED poolVars
  BY <1>0, <1>9 DEF poolVars
<1>10. CASE Refill
  BY <1>10, <1>1, <1>2 DEF Refill
<1> HIDE DEF Moved
<1> QED
  BY <1>3, <1>4, <1>5, <1>6, <1>7, <1>8, <1>9, <1>10, Zenon DEF PoolNext

\* What refill has in hand over a step.
LEMMA BootSteps ==
  ASSUME PoolTyped, [PoolNext]_poolVars, Booted'
  PROVE  \/ Booted /\ booted' = booted /\ (boot' \in {"probe", "suspend"} => boot \in {"probe", "suspend"})
         \/ /\ Create /\ booted' \in Machine /\ fly[booted'] = "none" /\ fly' = [fly EXCEPT ![booted'] = "started"]
            /\ boot' = "probe" /\ UNCHANGED <<free, claimed, claimVars, sweepVars, job>>
<1> DEFINE Kept == boot' \in {"idle", "create"} \/ (boot' = boot /\ booted' = booted)
<1>1. CASE Refill
  BY <1>1 DEF Refill, Create, ProbeBooted, DropBooted, Suspend, Push, Booted
<1>2. ASSUME NEW c \in Claim, Begin(c) \/ Serve(c) PROVE Kept
  BY <1>2 DEF Serve, Begin, Wake, Probe, PostJob, Accept, JobReply, Drop, TryNext, TopUp
<1>3. ASSUME NEW t \in Sweep, SetMin(t) \/ BeginResync(t) \/ Start(t) \/ Clean(t) PROVE Kept
  BY <1>3 DEF Clean, SetMin, BeginResync, Start, List, Prune, AdoptListed, DestroyOne, EndSweep, TopUp
<1>4. CASE OwnerDies
  BY <1>4 DEF OwnerDies, Booted
<1>5. ASSUME NEW m \in Machine, JobEnds(m) \/ Vanish(m) PROVE Kept
  BY <1>5 DEF JobEnds, Vanish
<1>6. CASE UNCHANGED poolVars
  BY <1>6 DEF poolVars, Booted
<1> QED
  BY <1>1, <1>2, <1>3, <1>4, <1>5, <1>6 DEF PoolNext, Booted

\* Whatever the owner knows, boots or gave a job to was created.
KnownExist ==
  /\ \A m \in Machine : Known(m) \/ job[m] # NoMachine => fly[m] # "none"
  /\ Booted => fly[booted] # "none"

LEMMA InitKnown == PoolInit => KnownExist
<1> SUFFICES ASSUME PoolInit PROVE KnownExist
  OBVIOUS
<1>1. DOMAIN free = {} /\ ~Booted /\ \A m \in Machine : job[m] = NoMachine
  BY DEF PoolInit, Booted
<1>2. (\A c \in Claim : claim[c] \notin Trying) /\ \A t \in Sweep : listing[t].suspended = {} /\ doomed[t] = {}
  BY DEF PoolInit, Trying, NoListing
<1> QED
  BY <1>1, <1>2 DEF KnownExist, Known

LEMMA StepKnown == PoolTyped /\ PoolTyped' /\ KnownExist /\ [PoolNext]_poolVars => KnownExist'
<1> SUFFICES ASSUME PoolTyped, PoolTyped', KnownExist, [PoolNext]_poolVars PROVE KnownExist'
  OBVIOUS
<1>0. fly \in [Machine -> {"none", "started", "suspended", "gone"}] /\ job \in [Machine -> Claim \cup {NoMachine}]
  BY DEF PoolTyped, PoolTypeOK
<1>1. ASSUME NEW m \in Machine, Known(m)' PROVE fly'[m] # "none"
  <2>1. Known(m) \/ (boot = "push" /\ booted = m) \/ fly[m] = "suspended"
    BY <1>1, KnownSteps
  <2>2. fly[m] # "none"
    BY <2>1 DEF KnownExist, Booted
  <2> QED
    BY <2>2, FlySteps
<1>2. ASSUME NEW m \in Machine, job'[m] # NoMachine PROVE fly'[m] # "none"
  <2>1. job[m] # NoMachine \/ fly[m] = "started"
    BY <1>0, <1>2, JobSteps DEF Ready
  <2> QED
    BY <2>1, FlySteps DEF KnownExist
<1>3. ASSUME Booted' PROVE fly'[booted'] # "none"
  <2>1. booted' \in Machine
    BY <1>3 DEF PoolTyped
  <2>2. CASE Booted /\ booted' = booted
    BY <2>1, <2>2, FlySteps DEF KnownExist
  <2> QED
    BY <1>0, <1>3, <2>1, <2>2, BootSteps
<1> QED
  BY <1>1, <1>2, <1>3 DEF KnownExist

-----------------------------------------------------------------------------
\* The machine refill boots is awake, idle and nobody else's until it is pushed.
BootIsFresh ==
  boot \in {"probe", "suspend"} =>
    fly[booted] = "started" /\ job[booted] = NoMachine /\ ~Known(booted)

\* A machine with a job runs it for a claim that was answered, or is not yet.
JobIsPlaced(m) ==
  /\ fly[m] = "suspended" => job[m] = NoMachine
  /\ fly[m] = "started" /\ job[m] # NoMachine =>
       \/ claim[job[m]] \in {"accepted", "drop"} /\ held[job[m]] = m
       \/ claim[job[m]] \in {"ok", "failed"}

JobsArePlaced == BootIsFresh /\ (\A m \in Machine : JobIsPlaced(m)) /\ JobRunsOnOneMachine

LEMMA StepFresh == PoolTyped /\ PoolTyped' /\ KnownExist /\ BootIsFresh /\ [PoolNext]_poolVars => BootIsFresh'
<1> SUFFICES ASSUME PoolTyped, PoolTyped', KnownExist, BootIsFresh, [PoolNext]_poolVars, boot' \in {"probe", "suspend"},
                    NEW m, m = booted'
             PROVE  fly'[m] = "started" /\ job'[m] = NoMachine /\ ~Known(m)'
  BY DEF BootIsFresh, Known
<1>0. fly \in [Machine -> {"none", "started", "suspended", "gone"}] /\ job \in [Machine -> Claim \cup {NoMachine}]
  BY DEF PoolTyped, PoolTypeOK
<1>1. Booted' /\ m \in Machine
  BY DEF PoolTyped, Booted
<1>2. CASE booted = m /\ boot \in {"probe", "suspend"}
  <2>1. fly[m] = "started" /\ job[m] = NoMachine /\ ~Known(m)
    BY <1>2 DEF BootIsFresh
  <2>2. fly'[m] = "started"
    BY <1>1, <1>2, <2>1, FlySteps
  <2>3. ~Known(m)'
    BY <1>2, <2>1, KnownSteps
  <2>4. ASSUME NEW c \in Claim, Accept(c) PROVE held[c] # m
    BY <2>1, <2>4 DEF Known, Accept, Trying
  <2>5. job'[m] = NoMachine
    BY <1>0, <1>1, <2>1, <2>4, JobSteps
  <2> QED
    BY <2>2, <2>3, <2>5
<1>3. CASE fly[m] = "none" /\ fly' = [fly EXCEPT ![m] = "started"]
           /\ UNCHANGED <<free, claimed, claimVars, sweepVars, job>>
  <2>1. ~Known(m) /\ job[m] = NoMachine
    BY <1>1, <1>3 DEF KnownExist
  <2>2. ~Known(m)'
    BY <1>3, <2>1 DEF Known, claimVars, sweepVars
  <2> QED
    BY <1>0, <1>1, <1>3, <2>1, <2>2
<1> QED
  BY <1>1, <1>2, <1>3, BootSteps

\* A claim past its job's acceptance.
LEMMA AnsweredSteps ==
  ASSUME PoolTyped, [PoolNext]_poolVars, NEW d \in Claim, claim[d] \in {"accepted", "drop", "ok", "failed"}
  PROVE  \/ claim'[d] \in {"ok", "failed"}
         \/ claim[d] \in {"accepted", "drop"} /\ claim'[d] \in {"accepted", "drop"} /\ held'[d] = held[d]
         \/ Drop(d)
<1> DEFINE Stays == \/ claim'[d] \in {"ok", "failed"}
                    \/ claim[d] \in {"accepted", "drop"} /\ claim'[d] \in {"accepted", "drop"} /\ held'[d] = held[d]
                    \/ Drop(d)
<1>0. claim \in [Claim -> Trying \cup {"new", "ok", "failed"}] /\ held \in [Claim -> Machine \cup {NoMachine}]
  BY DEF PoolTyped, PoolTypeOK
<1>1. CASE Refill
  BY <1>1 DEF Refill, Create, ProbeBooted, DropBooted, Suspend, Push, claimVars
<1>2. ASSUME NEW c \in Claim, Begin(c) \/ Serve(c) PROVE Stays
  <2>1. CASE c = d
    BY <1>0, <1>2, <2>1 DEF Serve, Begin, Wake, Probe, PostJob, Accept, JobReply, ClaimAt
  <2>2. CASE c # d
    BY <1>0, <1>2, <2>2 DEF Serve, Begin, Wake, Probe, PostJob, Accept, JobReply, Drop, TryNext, ClaimAt
  <2> QED
    BY <2>1, <2>2
<1>3. ASSUME NEW t \in Sweep, SetMin(t) \/ BeginResync(t) \/ Start(t) \/ Clean(t) PROVE Stays
  BY <1>3 DEF Clean, SetMin, BeginResync, Start, List, Prune, AdoptListed, DestroyOne, EndSweep, claimVars
<1>4. CASE OwnerDies
  BY <1>0, <1>4 DEF OwnerDies, Trying
<1>5. ASSUME NEW m \in Machine, JobEnds(m) \/ Vanish(m) PROVE Stays
  BY <1>5 DEF JobEnds, Vanish, claimVars
<1>6. CASE UNCHANGED poolVars
  BY <1>6 DEF poolVars, claimVars
<1>7. Stays
  BY <1>1, <1>2, <1>3, <1>4, <1>5, <1>6, Zenon DEF PoolNext
<1> QED
  BY <1>7 DEF Stays

LEMMA StepPlaced ==
  ASSUME "destroy" \notin FailingFlyCalls, PoolTyped, PoolTyped', KnownExist, JobsArePlaced, [PoolNext]_poolVars
  PROVE  JobsArePlaced'
<1>0. /\ fly \in [Machine -> {"none", "started", "suspended", "gone"}] /\ job \in [Machine -> Claim \cup {NoMachine}]
      /\ held \in [Claim -> Machine \cup {NoMachine}] /\ NoMachine \notin Machine \cup Claim
      /\ claim \in [Claim -> Trying \cup {"new", "ok", "failed"}]
  BY ProcessAssumption DEF PoolTyped, PoolTypeOK
<1>1. BootIsFresh'
  BY StepFresh DEF JobsArePlaced
<1>2. ASSUME NEW m \in Machine, fly'[m] = "started", job[m] # NoMachine PROVE fly[m] = "started"
  BY <1>0, <1>2, FlySteps DEF JobsArePlaced, JobIsPlaced, KnownExist
<1>3. ASSUME NEW c \in Claim, Accept(c), Ready(held[c]), job' = [job EXCEPT ![held[c]] = c]
      PROVE  /\ claim[c] = "body" /\ claim'[c] = "accepted" /\ held' = held /\ fly' = fly /\ held[c] \in Machine
             /\ Known(held[c]) /\ fly[held[c]] = "started" /\ job[held[c]] = NoMachine
             /\ \A n \in Machine : job'[n] = IF n = held[c] THEN c ELSE job[n]
  <2>1. claim[c] = "body" /\ held[c] \in Machine /\ Known(held[c])
    BY <1>3 DEF Accept, PoolTyped, Trying, Known
  <2>2. fly[held[c]] = "started" /\ job[held[c]] = NoMachine
    BY <1>3 DEF Ready
  <2>3. \A n \in Machine : job'[n] = IF n = held[c] THEN c ELSE job[n]
    BY <1>0, <1>3, <2>1
  <2>4. job'[held[c]] # job[held[c]]
    BY <1>0, <2>1, <2>2, <2>3
  <2>5. claim'[c] = "accepted" /\ held' = held /\ fly' = fly
    BY <1>0, <1>3, <2>4 DEF Accept, ClaimAt
  <2> QED
    BY <2>1, <2>2, <2>3, <2>5
<1>4. ASSUME NEW m \in Machine, fly'[m] = "suspended" PROVE job'[m] = NoMachine
  <2>1. fly[m] = "suspended" \/ (boot = "suspend" /\ booted = m)
    BY <1>4, FlySteps
  <2>2. job[m] = NoMachine /\ (fly[m] = "suspended" \/ ~Known(m))
    BY <2>1 DEF JobsArePlaced, JobIsPlaced, BootIsFresh
  <2>3. \A c \in Claim : Accept(c) /\ Ready(held[c]) /\ job' = [job EXCEPT ![held[c]] = c] => held[c] # m
    BY <1>3, <2>2
  <2> QED
    BY <1>0, <2>2, <2>3, JobSteps
<1>5. ASSUME NEW m \in Machine, fly'[m] = "started", job'[m] # NoMachine
      PROVE  \/ claim'[job'[m]] \in {"accepted", "drop"} /\ held'[job'[m]] = m
             \/ claim'[job'[m]] \in {"ok", "failed"}
  <2>1. CASE job'[m] # job[m]
    BY <1>0, <1>3, <2>1, JobSteps
  <2>2. CASE job'[m] = job[m]
    <3>1. fly[m] = "started" /\ job[m] \in Claim
      BY <1>0, <1>2, <1>5, <2>2
    <3>2. \/ claim[job[m]] \in {"accepted", "drop"} /\ held[job[m]] = m
          \/ claim[job[m]] \in {"ok", "failed"}
      BY <1>5, <2>2, <3>1 DEF JobsArePlaced, JobIsPlaced
    <3>3. ASSUME Drop(job[m]), held[job[m]] = m PROVE FALSE
      <4>1. fly'[m] = "gone"
        BY <1>0, <3>3 DEF Drop, SafeDestroy, FlyFails
      <4> QED
        BY <4>1, <1>5
    <3>4. claim[job[m]] \in {"ok", "failed"} => ~Drop(job[m])
      BY DEF Drop
    <3> QED
      BY <2>2, <3>1, <3>2, <3>3, <3>4, AnsweredSteps
  <2> QED
    BY <2>1, <2>2
<1>6. ASSUME NEW m \in Machine, NEW n \in Machine, m # n, job'[m] # NoMachine, job'[m] = job'[n],
             fly'[m] = "started", fly'[n] = "started"
      PROVE  FALSE
  <2>1. CASE job' = job
    BY <1>2, <1>6, <2>1 DEF JobsArePlaced, JobRunsOnOneMachine
  <2>2. ASSUME NEW c \in Claim, Accept(c), Ready(held[c]), job' = [job EXCEPT ![held[c]] = c] PROVE FALSE
    <3>1. /\ claim[c] = "body"
          /\ \A x \in Machine : job'[x] = IF x = held[c] THEN c ELSE job[x]
      BY <1>3, <2>2
    <3>2. ASSUME NEW x \in Machine, fly'[x] = "started", job[x] = c PROVE FALSE
      <4>1. fly[x] = "started"
        BY <1>0, <1>2, <3>2
      <4> QED
        BY <1>0, <3>1, <3>2, <4>1 DEF JobsArePlaced, JobIsPlaced
    <3>3. job[m] # NoMachine /\ job[m] = job[n] /\ fly[m] = "started" /\ fly[n] = "started"
      BY <1>2, <1>6, <3>1, <3>2
    <3> QED
      BY <1>6, <3>3 DEF JobsArePlaced, JobRunsOnOneMachine
  <2> QED
    BY <2>1, <2>2, JobSteps
<1> QED
  BY <1>1, <1>4, <1>5, <1>6 DEF JobsArePlaced, JobIsPlaced, JobRunsOnOneMachine

\* A job that claim forwards again does not run on two machines, as long as the
\* destroy of the machine whose answer was lost goes through.
THEOREM JobsStayOnOneMachine ==
  ASSUME "destroy" \notin FailingFlyCalls
  PROVE  PoolSpec => []JobRunsOnOneMachine
<1>1. PoolInit => JobsArePlaced
  BY DEF PoolInit, JobsArePlaced, BootIsFresh, JobIsPlaced, JobRunsOnOneMachine
<1>2. PoolTyped /\ PoolTyped' /\ KnownExist /\ JobsArePlaced /\ [PoolNext]_poolVars => JobsArePlaced'
  BY StepPlaced
<1>3. JobsArePlaced => JobRunsOnOneMachine
  BY DEF JobsArePlaced
<1> QED
  BY <1>1, <1>2, <1>3, InitKnown, StepKnown, PoolTypeCorrect, PTL DEF PoolSpec

-----------------------------------------------------------------------------
\* Without resyncs and restarts a machine is in one place: free once, booting,
\* or in the hands of one claim.
Holders(m) == {c \in Claim : claim[c] \in Trying /\ held[c] = m}
FreeOnce == \A i, j \in DOMAIN free : free[i] = free[j] => i = j
FreeIsNotHeld == \A i \in DOMAIN free : Holders(free[i]) = {} /\ (Booted => booted # free[i])
BootingIsNotHeld == Booted => Holders(booted) = {}
OnePlace == FreeOnce /\ FreeIsNotHeld /\ BootingIsNotHeld /\ ClaimsAreExclusive
OnlyResizes == up /\ \A t \in Sweep : sweep[t] \in {"new", "cull", "done"}

\* A shift moves the head of the list into the hands of its claim.
LEMMA TryNextPlaces ==
  ASSUME PoolTyped, OnePlace, NEW c \in Claim, NEW others \in SUBSET Machine, TryNext(c, others),
         booted' = booted
  PROVE  OnePlace'
<1>0. /\ free \in Seq(Machine) /\ claim \in [Claim -> Trying \cup {"new", "ok", "failed"}]
      /\ held \in [Claim -> Machine \cup {NoMachine}]
  BY DEF PoolTyped, PoolTypeOK
<1>1. CASE /\ free # <<>> /\ free' = Tail(free) /\ held' = [held EXCEPT ![c] = Head(free)]
           /\ boot' = boot /\ claim' = [claim EXCEPT ![c] = "start"]
  <2>1. /\ Head(free) = free[1] /\ 1 \in DOMAIN free
        /\ \A i \in DOMAIN Tail(free) : i \in Nat \ {0} /\ i + 1 \in DOMAIN free /\ Tail(free)[i] = free[i + 1]
    BY <1>0, <1>1
  <2>2. \A d \in Claim : claim'[d] \in Trying =>
          (d = c /\ held'[d] = free[1]) \/ (d # c /\ claim[d] \in Trying /\ held'[d] = held[d])
    BY <1>0, <1>1, <2>1
  <2>3. FreeOnce'
    BY <1>1, <2>1 DEF OnePlace, FreeOnce
  <2>4. ASSUME NEW i \in DOMAIN free', NEW m, m = free'[i] PROVE Holders(m)' = {} /\ (Booted' => booted' # m)
    <3>1. m = free[i + 1] /\ i + 1 \in DOMAIN free /\ i + 1 # 1
      BY <1>1, <2>1, <2>4
    <3>2. m # free[1] /\ Holders(m) = {} /\ (Booted => booted # m)
      BY <2>1, <3>1 DEF OnePlace, FreeOnce, FreeIsNotHeld
    <3>3. \A d \in Claim : claim'[d] \in Trying => held'[d] # m
      BY <2>2, <3>1, <3>2 DEF Holders
    <3> QED
      BY <1>1, <3>2, <3>3 DEF Holders, Booted
  <2>5. ASSUME Booted' PROVE Holders(booted)' = {}
    <3>1. Booted /\ Holders(booted) = {} /\ booted # free[1]
      BY <1>1, <2>1, <2>5 DEF OnePlace, BootingIsNotHeld, FreeIsNotHeld, Booted
    <3> QED
      BY <2>2, <3>1 DEF Holders
  <2>6. ClaimsAreExclusive'
    <3>1. Holders(free[1]) = {}
      BY <2>1 DEF OnePlace, FreeIsNotHeld
    <3> QED
      BY <2>2, <3>1 DEF OnePlace, ClaimsAreExclusive, Holders
  <2>7. FreeIsNotHeld'
    BY <2>4 DEF FreeIsNotHeld, Holders
  <2>8. BootingIsNotHeld'
    BY <2>5 DEF BootingIsNotHeld
  <2> QED
    BY <2>3, <2>6, <2>7, <2>8 DEF OnePlace
<1>2. CASE /\ free' = free /\ claim' = [claim EXCEPT ![c] = "failed"] /\ held' = [held EXCEPT ![c] = NoMachine]
           /\ boot' = IF boot = "idle" /\ Len(free) < min THEN "create" ELSE boot
  <2>1. \A d \in Claim : claim'[d] \in Trying => claim[d] \in Trying /\ held'[d] = held[d]
    BY <1>0, <1>2 DEF Trying
  <2>2. \A m : Holders(m)' \subseteq Holders(m)
    BY <2>1 DEF Holders
  <2>3. Booted' => Booted
    BY <1>2 DEF Booted
  <2> QED
    BY <1>2, <2>1, <2>2, <2>3 DEF OnePlace, FreeOnce, FreeIsNotHeld, BootingIsNotHeld, ClaimsAreExclusive
<1> QED
  BY <1>1, <1>2, TryNextSteps

LEMMA StepOnePlace ==
  ASSUME Reconcile = {}, Tick = {}, PoolTyped, PoolTyped', KnownExist, OnePlace, OnlyResizes, [PoolNext]_poolVars
  PROVE  OnePlace' /\ OnlyResizes'
<1> SUFFICES (OnePlace /\ OnlyResizes)'
  OBVIOUS
<1>0. /\ free \in Seq(Machine) /\ claim \in [Claim -> Trying \cup {"new", "ok", "failed"}]
      /\ held \in [Claim -> Machine \cup {NoMachine}] /\ Trying \cap {"new", "ok", "failed"} = {}
      /\ sweep \in [Sweep -> {"new", "listing", "listed", "trim", "cull", "done"}] /\ Sweep = Resize
  BY DEF PoolTyped, PoolTypeOK, Trying, Sweep
<1>k. ASSUME UNCHANGED <<free, held, booted>>, boot' = boot \/ boot' \notin {"probe", "suspend", "push", "drop"} \/ Booted,
             \A d \in Claim : claim'[d] \in Trying => claim[d] \in Trying, UNCHANGED <<up, sweep>>
      PROVE  (OnePlace /\ OnlyResizes)'
  <2>1. \A m : Holders(m)' \subseteq Holders(m)
    BY <1>k DEF Holders
  <2>2. Booted' => Booted
    BY <1>k DEF Booted
  <2>3. OnePlace'
    BY <1>k, <2>1, <2>2 DEF OnePlace, FreeOnce, FreeIsNotHeld, BootingIsNotHeld, ClaimsAreExclusive
  <2> QED
    BY <1>k, <2>3 DEF OnlyResizes
<1>1. CASE Create
  <2>1. CASE boot' = "idle"
    BY <1>1, <2>1, <1>k DEF Create, claimVars, sweepVars
  <2>2. ASSUME NEW m \in Machine, fly[m] = "none", booted' = m, UNCHANGED <<free, claim, held, up, sweep>>
        PROVE  (OnePlace /\ OnlyResizes)'
    <3>1. ~Known(m)
      BY <2>2 DEF KnownExist
    <3>2. Holders(m)' = {} /\ \A i \in DOMAIN free : free[i] # m
      BY <2>2, <3>1 DEF Known, Holders
    <3>3. \A x : Holders(x)' = Holders(x)
      BY <2>2 DEF Holders
    <3>4. OnePlace'
      BY <2>2, <3>2, <3>3 DEF OnePlace, FreeOnce, FreeIsNotHeld, BootingIsNotHeld, ClaimsAreExclusive
    <3> QED
      BY <2>2, <3>4 DEF OnlyResizes
  <2> QED
    BY <1>1, <2>1, <2>2 DEF Create, claimVars, sweepVars
<1>2. CASE ProbeBooted
  BY <1>2, <1>k DEF ProbeBooted, claimVars, sweepVars, Booted
<1>3. CASE boot' = "idle" /\ UNCHANGED <<free, claim, held, up, sweep>>
  <2>1. ~Booted' /\ \A m : Holders(m)' = Holders(m)
    BY <1>3 DEF Booted, Holders
  <2> QED
    BY <1>3, <2>1 DEF OnePlace, FreeOnce, FreeIsNotHeld, BootingIsNotHeld, ClaimsAreExclusive, OnlyResizes
<1>4. CASE DropBooted
  BY <1>4, <1>3 DEF DropBooted, claimVars, sweepVars
<1>5. CASE Suspend
  BY <1>5, <1>3, <1>k DEF Suspend, claimVars, sweepVars, Booted
<1>6. CASE Push
  <2>1. /\ booted \in Machine /\ Booted /\ free' = Append(free, booted) /\ ~Booted' /\ UNCHANGED <<claim, held, up, sweep>>
    BY <1>6 DEF Push, Booted, PoolTyped, claimVars, sweepVars
  <2>2. \A i \in DOMAIN free' : (i \in DOMAIN free /\ free'[i] = free[i]) \/ (i = Len(free) + 1 /\ free'[i] = booted)
    BY <1>0, <2>1
  <2>3. \A m : Holders(m)' = Holders(m)
    BY <2>1 DEF Holders
  <2>4. Holders(booted) = {} /\ \A i \in DOMAIN free : booted # free[i]
    BY <2>1 DEF OnePlace, FreeIsNotHeld, BootingIsNotHeld
  <2>5. FreeOnce'
    BY <2>2, <2>4 DEF OnePlace, FreeOnce
  <2>6. FreeIsNotHeld'
    BY <2>1, <2>2, <2>3, <2>4 DEF OnePlace, FreeIsNotHeld
  <2>7. BootingIsNotHeld' /\ ClaimsAreExclusive' /\ OnlyResizes'
    BY <2>1 DEF OnePlace, BootingIsNotHeld, ClaimsAreExclusive, OnlyResizes
  <2> QED
    BY <2>5, <2>6, <2>7 DEF OnePlace
<1>7. ASSUME NEW c \in Claim, Begin(c) PROVE (OnePlace /\ OnlyResizes)'
  <2>1. TryNext(c, claimed) /\ claimed \in SUBSET Machine /\ UNCHANGED <<booted, up, sweep>>
    BY <1>7 DEF Begin, sweepVars, PoolTyped, PoolTypeOK
  <2> QED
    BY <2>1, TryNextPlaces DEF OnlyResizes
<1>8. ASSUME NEW c \in Claim, Drop(c) PROVE (OnePlace /\ OnlyResizes)'
  <2>1. TryNext(c, claimed \ {held[c]}) /\ claimed \ {held[c]} \in SUBSET Machine /\ UNCHANGED <<booted, up, sweep>>
    BY <1>8 DEF Drop, sweepVars, PoolTyped, PoolTypeOK
  <2> QED
    BY <2>1, TryNextPlaces DEF OnlyResizes
<1>9. ASSUME NEW c \in Claim, Wake(c) \/ Probe(c) \/ PostJob(c) \/ Accept(c) \/ JobReply(c) PROVE (OnePlace /\ OnlyResizes)'
  <2>1. /\ UNCHANGED <<free, held, booted, up, sweep>> /\ claim[c] \in Trying
        /\ boot' = boot \/ boot' = "create"
    BY <1>9 DEF Wake, Probe, PostJob, Accept, JobReply, TopUp, sweepVars, Trying
  <2>2. \A d \in Claim : claim'[d] = claim[d] \/ d = c
    BY <1>9, <1>0 DEF Wake, Probe, PostJob, Accept, JobReply, ClaimAt
  <2> QED
    BY <2>1, <2>2, <1>k
<1>10. ASSUME NEW t \in Sweep, SetMin(t) PROVE (OnePlace /\ OnlyResizes)'
  <2>1. min' \in Mins /\ Trim(t, free, min') /\ UNCHANGED <<boot, booted, claim, held, up>> /\ sweep' = [sweep EXCEPT ![t] = "cull"]
    BY <1>10 DEF SetMin, SweepAt, claimVars
  <2>2. \A i \in DOMAIN free' : i \in DOMAIN free /\ free'[i] = free[i]
    <3>1. min' \in Nat /\ doomed \in [Sweep -> SUBSET Machine]
      BY <2>1, PoolAssumption DEF PoolTyped, PoolTypeOK
    <3> QED
      BY <1>0, <2>1, <3>1, Trimmed
  <2>3. (\A m : Holders(m)' = Holders(m)) /\ Booted' = Booted
    BY <2>1 DEF Holders, Booted
  <2>4. OnePlace'
    BY <2>1, <2>2, <2>3 DEF OnePlace, FreeOnce, FreeIsNotHeld, BootingIsNotHeld, ClaimsAreExclusive
  <2>5. OnlyResizes'
    BY <1>0, <2>1 DEF OnlyResizes
  <2> QED
    BY <2>4, <2>5
<1>11. ASSUME NEW t \in Sweep, BeginResync(t) \/ Start(t) \/ List(t) \/ Prune(t) \/ AdoptListed(t) PROVE FALSE
  BY <1>11 DEF BeginResync, Start, List, Prune, AdoptListed, OnlyResizes
<1>12. ASSUME NEW t \in Sweep, DestroyOne(t) PROVE (OnePlace /\ OnlyResizes)'
  BY <1>12, <1>k DEF DestroyOne, claimVars
<1>13. ASSUME NEW t \in Sweep, EndSweep(t) PROVE (OnePlace /\ OnlyResizes)'
  <2>1. /\ UNCHANGED <<free, held, claim, booted, up>> /\ sweep' = [sweep EXCEPT ![t] = "done"]
        /\ boot' = boot \/ boot' = "create"
    BY <1>13 DEF EndSweep, TopUp, SweepAt, claimVars
  <2>2. (\A m : Holders(m)' = Holders(m)) /\ (Booted' => Booted)
    BY <2>1 DEF Holders, Booted
  <2>3. OnePlace'
    BY <2>1, <2>2 DEF OnePlace, FreeOnce, FreeIsNotHeld, BootingIsNotHeld, ClaimsAreExclusive
  <2>4. OnlyResizes'
    BY <1>0, <2>1 DEF OnlyResizes
  <2> QED
    BY <2>3, <2>4
<1>14. ~OwnerDies
  BY DEF OwnerDies
<1>15. ASSUME NEW m \in Machine, JobEnds(m) \/ Vanish(m) PROVE (OnePlace /\ OnlyResizes)'
  BY <1>15, <1>k DEF JobEnds, Vanish, claimVars, sweepVars
<1>16. CASE UNCHANGED poolVars
  BY <1>16, <1>k DEF poolVars, claimVars, sweepVars
<1>17. CASE Refill
  BY <1>17, <1>1, <1>2, <1>4, <1>5, <1>6 DEF Refill
<1>18. ASSUME NEW c \in Claim, Begin(c) \/ Serve(c) PROVE (OnePlace /\ OnlyResizes)'
  BY <1>18, <1>7, <1>8, <1>9 DEF Serve
<1>19. ASSUME NEW t \in Sweep, SetMin(t) \/ BeginResync(t) \/ Start(t) \/ Clean(t) PROVE (OnePlace /\ OnlyResizes)'
  BY <1>19, <1>10, <1>11, <1>12, <1>13 DEF Clean
<1> QED
  BY <1>14, <1>15, <1>16, <1>17, <1>18, <1>19, Zenon DEF PoolNext

\* Two claims never work on the same machine while the pool is neither resynced
\* nor restarted: the shift, refill, resizes and faults keep it in one place.
THEOREM ClaimsStayExclusive ==
  ASSUME Reconcile = {}, Tick = {}
  PROVE  PoolSpec => []ClaimsAreExclusive
<1>1. PoolInit => OnePlace /\ OnlyResizes
  <2> SUFFICES ASSUME PoolInit PROVE OnePlace /\ OnlyResizes
    OBVIOUS
  <2>1. DOMAIN free = {} /\ ~Booted /\ \A c \in Claim : claim[c] \notin Trying
    BY DEF PoolInit, Booted, Trying
  <2> QED
    BY <2>1 DEF PoolInit, OnePlace, FreeOnce, FreeIsNotHeld, BootingIsNotHeld, ClaimsAreExclusive, OnlyResizes
<1>2. PoolTyped /\ PoolTyped' /\ KnownExist /\ (OnePlace /\ OnlyResizes) /\ [PoolNext]_poolVars => (OnePlace /\ OnlyResizes)'
  BY StepOnePlace
<1>3. OnePlace => ClaimsAreExclusive
  BY DEF OnePlace
<1> QED
  BY <1>1, <1>2, <1>3, InitKnown, StepKnown, PoolTypeCorrect, PTL DEF PoolSpec

-----------------------------------------------------------------------------
(* A chat whose users wait for the reply, and that stays with one agent.   *)
CalmChat == ~PostsInTurn /\ Statuses \subseteq {"committed"} /\ MaxHandoffs = 0

AllCount == \A i \in Positions : log[i].role # "handoff" /\ log[i].status = "committed"
AnswersNext == \A a \in Role("assistant") : log[a].to + 1 = a
TurnIsLast == pc \in {"agent", "append"} => prompt = Len(log)
MarksInLog == watermark <= Len(log) /\ view <= Len(log)
Waiting == pc \in {"wait", "poll"}
Overlooked(i) == (Waiting /\ (i <= watermark \/ i <= view)) \/ (ended = "idle-timeout" /\ i <= view)
SeenIsAnswered == \A i \in Role("user") : Overlooked(i) => Answered(i)
IdleIsAnEnd == ended = "idle-timeout" => pc \in {"exit", "off"}
CalmInv == AllCount /\ AnswersNext /\ TurnIsLast /\ MarksInLog /\ SeenIsAnswered /\ IdleIsAnEnd

\* Where every entry counts, places are indices.
LEMMA TurnsAreAll ==
  ASSUME log \in Seq(Entry), AllCount
  PROVE  /\ Turns = 1..Len(log) /\ Len(log) \in Nat /\ Cardinality(Turns) = Len(log)
         /\ \A i \in 1..Len(log) : Index(i) = i - 1
         /\ \A i : IsLast(i) <=> i \in 1..Len(log) /\ i = Len(log)
<1>1. Len(log) \in Nat
  OBVIOUS
<1>2. Turns = 1..Len(log)
  BY <1>1 DEF Turns, AllCount, Positions
<1>3. Cardinality(Turns) = Len(log)
  BY <1>1, <1>2, FS_Interval
<1>4. ASSUME NEW i \in 1..Len(log) PROVE Index(i) = i - 1
  <2>1. {j \in Turns : j < i} = 1..(i - 1)
    BY <1>1, <1>2
  <2>2. Cardinality(1..(i - 1)) = i - 1
    BY <1>1, FS_Interval
  <2> QED
    BY <2>1, <2>2 DEF Index
<1>5. \A i : IsLast(i) <=> i \in 1..Len(log) /\ i = Len(log)
  BY <1>1, <1>2 DEF IsLast
<1> QED
  BY <1>1, <1>2, <1>3, <1>4, <1>5

\* Where the last entry is no message, it answers all messages.
LEMMA LastAnswers ==
  ASSUME log \in Seq(Entry), AllCount, AnswersNext, ~TrailingUser
  PROVE  \A i \in Role("user") : Answered(i)
<1> SUFFICES ASSUME NEW i \in Role("user") PROVE Answered(i)
  OBVIOUS
<1> DEFINE L == Len(log)
<1>1. L \in Nat /\ i \in 1..L /\ log[i].role = "user"
  BY DEF Role, Positions
<1>2. L \in 1..L /\ IsLast(L)
  BY <1>1, TurnsAreAll
<1>3. log[L].role # "user"
  BY <1>2 DEF TrailingUser, Role, Positions
<1>4. log[L] \in Entry /\ log[L].role # "handoff"
  BY <1>2 DEF AllCount, Positions
<1>5. log[L].role = "assistant" /\ log[L].to \in Nat
  BY <1>3, <1>4 DEF Entry
<1>6. L \in Role("assistant") /\ log[L].to + 1 = L
  BY <1>2, <1>5 DEF AnswersNext, Role, Positions
<1>7. log[L].to >= i
  BY <1>1, <1>3, <1>5, <1>6
<1> QED
  BY <1>6, <1>7 DEF Answered

\* An entry that is appended leaves the answers.
LEMMA EntryComes ==
  ASSUME log \in Seq(Entry), NEW e \in Entry, log' = Append(log, e), AllCount, AnswersNext,
         e.role # "handoff", e.status = "committed", e.role = "assistant" => e.to = Len(log)
  PROVE  /\ AllCount' /\ AnswersNext' /\ Len(log') = Len(log) + 1 /\ Len(log) \in Nat
         /\ \A i \in Role("user")' : i \in Role("user") \/ (i = Len(log) + 1 /\ e.role = "user")
         /\ \A i : Answered(i) => Answered(i)'
<1>1. Len(log) \in Nat /\ Len(log') = Len(log) + 1 /\ log' \in Seq(Entry)
  OBVIOUS
<1>2. \A k \in 1..Len(log) : log'[k] = log[k]
  OBVIOUS
<1>3. log'[Len(log) + 1] = e
  OBVIOUS
<1>4. \A k \in Positions' : k \in Positions \/ k = Len(log) + 1
  BY <1>1 DEF Positions
<1>5. \A k \in Positions : k \in Positions' /\ log'[k] = log[k]
  BY <1>1, <1>2 DEF Positions
<1>6. AllCount'
  BY <1>3, <1>4, <1>5 DEF AllCount
<1>7. \A role : \A i \in Role(role)' : i \in Role(role) \/ (i = Len(log) + 1 /\ e.role = role)
  BY <1>3, <1>4, <1>5 DEF Role
<1>8. \A i \in Role("assistant") : i \in Role("assistant")' /\ log'[i] = log[i]
  BY <1>5 DEF Role
<1>9. AnswersNext'
  BY <1>1, <1>3, <1>7, <1>8 DEF AnswersNext
<1>10. \A i : Answered(i) => Answered(i)'
  BY <1>8 DEF Answered
<1> QED
  BY <1>1, <1>6, <1>7, <1>9, <1>10

LEMMA CalmStarts == Init => CalmInv
<1> SUFFICES ASSUME Init PROVE CalmInv
  OBVIOUS
<1>1. log = <<>> /\ pc = "off" /\ watermark = 0 /\ view = 0 /\ ended = None
  BY DEF Init
<1>2. Positions = {} /\ Len(log) = 0
  BY <1>1 DEF Positions
<1> QED
  BY <1>1, <1>2 DEF CalmInv, AllCount, AnswersNext, TurnIsLast, MarksInLog, SeenIsAnswered, IdleIsAnEnd, Role

\* What the runner does without a wait that begins.
LEMMA CalmMoves ==
  ASSUME CalmInv, UNCHANGED log, watermark' \in Nat, view' \in Nat, watermark' <= Len(log), view' <= Len(log),
         pc' \in {"agent", "append"} => prompt' = Len(log), ended' = "idle-timeout" => pc' \in {"exit", "off"},
         \A i \in Role("user") : Overlooked(i)' => Answered(i)
  PROVE  CalmInv'
BY DEF CalmInv, AllCount, AnswersNext, TurnIsLast, MarksInLog, SeenIsAnswered, IdleIsAnEnd, Role, Positions, Answered

LEMMA CalmRuns ==
  ASSUME CalmChat, IInv, CalmInv, Run
  PROVE  CalmInv'
<1>1. /\ log \in Seq(Entry) /\ watermark \in Nat /\ view \in Nat /\ prompt \in Nat /\ Len(log) \in Nat
      /\ None # "idle-timeout"
  BY ChoiceAssumption DEF IInv, TypeOK
<1>2. /\ AllCount /\ AnswersNext /\ watermark <= Len(log) /\ view <= Len(log)
      /\ (ended = "idle-timeout" => pc \in {"exit", "off"})
      /\ \A i \in Role("user") : Overlooked(i) => Answered(i)
  BY DEF CalmInv, MarksInLog, SeenIsAnswered, IdleIsAnEnd
<1>3. CASE Top
  <2>1. /\ UNCHANGED <<log, watermark, prompt>> /\ view' \in {view, Len(log)} /\ pc = "top" /\ ended' \in {ended, "rejected"}
        /\ pc' \in {"turn", "off", "wait"} /\ (pc' = "wait" => ~TrailingUser)
    BY <1>3 DEF Top, Goes, Rejects, Pending
  <2>2. pc' = "wait" => \A i \in Role("user") : Answered(i)
    BY <1>1, <1>2, <2>1, LastAnswers
  <2>3. ended' # "idle-timeout"
    BY <1>2, <2>1
  <2>4. \A i \in Role("user") : Overlooked(i)' => Answered(i)
    BY <2>1, <2>2, <2>3 DEF Overlooked, Waiting
  <2> QED
    BY <1>1, <1>2, <2>1, <2>3, <2>4, CalmMoves
<1>4. CASE Wait
  <2>1. /\ UNCHANGED <<log, watermark, prompt, view>> /\ pc = "wait" /\ ended # "idle-timeout"
        /\ \/ pc' = "exit" /\ ended' \in {"deadline", "idle-timeout"}
           \/ pc' = "poll" /\ ended' = ended
    BY <1>2, <1>4 DEF Wait, Leaves, Goes
  <2>2. \A i \in Role("user") : Overlooked(i)' => Overlooked(i)
    BY <2>1 DEF Overlooked, Waiting
  <2> QED
    BY <1>1, <1>2, <2>1, <2>2, CalmMoves
<1>5. CASE Poll
  <2>1. /\ UNCHANGED <<log, watermark, prompt, ended>> /\ pc = "poll" /\ ended # "idle-timeout"
        /\ \/ pc' = "turn" /\ view' = Len(log)
           \/ pc' = "wait" /\ view' = Len(log) /\ ~NewFrom(watermark)
           \/ pc' = "wait" /\ view' = view
    BY <1>2, <1>5 DEF Poll, Goes
  <2>2. ASSUME ~NewFrom(watermark), NEW i \in Role("user") PROVE Answered(i)
    <3>1. i \in 1..Len(log) /\ i \in Turns
      BY <1>1, <1>2, TurnsAreAll DEF Role, Positions
    <3>2. ~(Index(i) >= watermark) /\ Index(i) = i - 1
      BY <1>1, <1>2, <2>2, <3>1, TurnsAreAll DEF NewFrom
    <3>3. i <= watermark
      BY <1>1, <3>1, <3>2
    <3> QED
      BY <1>2, <2>1, <3>3 DEF Overlooked, Waiting
  <2>3. \A i \in Role("user") : Overlooked(i)' => Answered(i)
    BY <1>2, <2>1, <2>2 DEF Overlooked, Waiting
  <2> QED
    BY <1>1, <1>2, <2>1, <2>3, CalmMoves
<1>6. CASE Turn
  <2>1. UNCHANGED <<log, watermark, view, ended>> /\ pc = "turn" /\ ended # "idle-timeout" /\ pc' \in {"agent", "error", "fatal"}
    BY <1>2, <1>6 DEF Turn, Goes, Throws
  <2>2. pc' = "agent" => prompt' = Len(log)
    <3>1. pc' = "agent" => \E i \in Role("user") : IsLast(i) /\ prompt' = i
      BY <1>6 DEF Turn, Goes, Throws
    <3> QED
      BY <1>1, <1>2, <3>1, TurnsAreAll
  <2>3. \A i \in Role("user") : ~Overlooked(i)'
    BY <2>1 DEF Overlooked, Waiting
  <2> QED
    BY <1>1, <1>2, <2>1, <2>2, <2>3, CalmMoves
<1>7. CASE Agent
  <2>1. UNCHANGED <<log, watermark, view, prompt, ended>> /\ pc = "agent" /\ ended # "idle-timeout" /\ pc' \in {"append", "error"}
    BY <1>2, <1>7 DEF Agent, Goes
  <2>2. \A i \in Role("user") : ~Overlooked(i)'
    BY <2>1 DEF Overlooked, Waiting
  <2>3. prompt = Len(log)
    BY <2>1 DEF CalmInv, TurnIsLast
  <2> QED
    BY <1>1, <1>2, <2>1, <2>2, <2>3, CalmMoves
<1>8. CASE Store
  <2>1. /\ UNCHANGED <<watermark, view, prompt, ended>> /\ pc = "append" /\ ended # "idle-timeout"
        /\ pc' \in {"announce", "error", "fatal"} /\ (log' = Append(log, Reply) \/ UNCHANGED log)
    BY <1>2, <1>8 DEF Store, Goes, Throws, Escapes
  <2>2. \A i : ~Overlooked(i)'
    BY <2>1 DEF Overlooked, Waiting
  <2>3. CASE UNCHANGED log
    BY <1>1, <1>2, <2>1, <2>2, <2>3, CalmMoves
  <2>4. CASE log' = Append(log, Reply)
    <3>1. Reply \in Entry /\ Reply.role = "assistant" /\ Reply.to = Len(log) /\ Reply.status = "committed"
      BY <1>1, <2>1 DEF Reply, Entry, CalmInv, TurnIsLast
    <3>2. AllCount' /\ AnswersNext' /\ Len(log') = Len(log) + 1
      BY <1>1, <1>2, <2>4, <3>1, EntryComes
    <3> QED
      BY <1>1, <1>2, <2>1, <2>2, <3>2 DEF CalmInv, TurnIsLast, MarksInLog, SeenIsAnswered, IdleIsAnEnd
  <2> QED
    BY <2>1, <2>3, <2>4
<1>9. CASE Announce \/ ReportError \/ Fatal
  <2>1. /\ UNCHANGED <<log, watermark, prompt, view>> /\ pc \in {"announce", "error", "fatal"} /\ ended # "idle-timeout"
        /\ pc' \in {"mark", "error", "fatal", "exit", "off"} /\ ended' \in {ended, "fatal", "rejected"}
    BY <1>2, <1>9 DEF Announce, ReportError, Fatal, Goes, Leaves, Rejects, Throws, Escapes
  <2>2. \A i \in Role("user") : ~Overlooked(i)'
    BY <2>1 DEF Overlooked, Waiting
  <2> QED
    BY <1>1, <1>2, <2>1, <2>2, CalmMoves
<1>10. CASE Mark
  <2>1. /\ UNCHANGED <<log, prompt, view>> /\ pc = "mark" /\ ended # "idle-timeout"
        /\ pc' \in {"top", "off"} /\ ended' \in {ended, "rejected"} /\ watermark' \in {watermark, Len(log)}
    BY <1>1, <1>2, <1>10, TurnsAreAll DEF Mark, Goes, Rejects
  <2>2. \A i \in Role("user") : ~Overlooked(i)'
    BY <2>1 DEF Overlooked, Waiting
  <2> QED
    BY <1>1, <1>2, <2>1, <2>2, CalmMoves
<1>11. CASE Exit
  <2>1. UNCHANGED <<log, watermark, prompt, view>> /\ pc = "exit" /\ pc' = "off" /\ ended' \in {ended, "rejected"}
    BY <1>11 DEF Exit, Goes, Rejects
  <2>2. \A i \in Role("user") : Overlooked(i)' => Overlooked(i)
    BY <2>1 DEF Overlooked, Waiting
  <2> QED
    BY <1>1, <1>2, <2>1, <2>2, CalmMoves
<1> QED
  BY <1>3, <1>4, <1>5, <1>6, <1>7, <1>8, <1>9, <1>10, <1>11 DEF Run

LEMMA CalmStays ==
  ASSUME CalmChat, IInv, CalmInv, [Next]_vars
  PROVE  CalmInv'
<1>1. /\ log \in Seq(Entry) /\ watermark \in Nat /\ view \in Nat /\ Len(log) \in Nat /\ None # "idle-timeout"
  BY ChoiceAssumption DEF IInv, TypeOK
<1>2. /\ AllCount /\ AnswersNext /\ watermark <= Len(log) /\ view <= Len(log)
      /\ (ended = "idle-timeout" => pc \in {"exit", "off"})
      /\ (pc \in {"agent", "append"} => prompt = Len(log))
      /\ \A i \in Role("user") : Overlooked(i) => Answered(i)
  BY DEF CalmInv, TurnIsLast, MarksInLog, SeenIsAnswered, IdleIsAnEnd
<1>3. CASE Boot
  <2>1. UNCHANGED <<log, prompt>> /\ pc' = "top" /\ watermark' = 0 /\ view' = 0 /\ ended' = None
    BY <1>3 DEF Boot
  <2>2. \A i \in Role("user") : ~Overlooked(i)'
    BY <1>1, <2>1 DEF Overlooked, Waiting
  <2> QED
    BY <1>1, <2>1, <2>2, CalmMoves
<1>4. CASE Run
  BY <1>4, CalmRuns
<1>5. CASE Post
  <2>1. PICK s \in Statuses : log' = Append(log, [role |-> "user", status |-> s])
    BY <1>5 DEF Post
  <2>2. UNCHANGED <<pc, watermark, prompt, view, ended>> /\ pc \notin {"agent", "append"}
    BY <1>5 DEF Post, Running, CalmChat
  <2> DEFINE e == [role |-> "user", status |-> s]
  <2>3. e \in Entry /\ e.role = "user" /\ e.status = "committed"
    BY DEF Entry, CalmChat
  <2>4. log' = Append(log, e)
    BY <2>1
  <2> HIDE DEF e
  <2>5. /\ AllCount' /\ AnswersNext' /\ Len(log') = Len(log) + 1
        /\ \A i \in Role("user")' : i \in Role("user") \/ i = Len(log) + 1
        /\ \A i : Answered(i) => Answered(i)'
    BY <1>1, <1>2, <2>3, <2>4, EntryComes
  <2>6. SeenIsAnswered'
    <3> SUFFICES ASSUME NEW i \in Role("user")', Overlooked(i)' PROVE Answered(i)'
      BY DEF SeenIsAnswered
    <3>1. Overlooked(i)
      BY <2>2 DEF Overlooked, Waiting
    <3>2. i # Len(log) + 1
      BY <1>1, <1>2, <3>1 DEF Overlooked
    <3> QED
      BY <1>2, <2>5, <3>1, <3>2
  <2> QED
    BY <1>1, <1>2, <2>2, <2>5, <2>6 DEF CalmInv, TurnIsLast, MarksInLog, IdleIsAnEnd
<1>6. ~Settle
  <2> SUFFICES ASSUME NEW i \in Role("user"), log[i].status = "pending" PROVE FALSE
    BY DEF Settle
  <2> QED
    BY <1>2 DEF AllCount, Role
<1>7. ~Handoff
  <2>1. Role("handoff") = {}
    BY <1>2 DEF AllCount, Role
  <2>2. Cardinality(Role("handoff")) = 0
    BY <2>1, FS_EmptySet
  <2>3. ~(0 < 0)
    OBVIOUS
  <2>4. Handoff => Cardinality(Role("handoff")) < MaxHandoffs
    BY DEF Handoff
  <2> QED
    BY <2>2, <2>3, <2>4 DEF CalmChat
<1>8. CASE HardCap \/ IdleWindow \/ UNCHANGED vars
  <2>1. UNCHANGED <<log, pc, watermark, prompt, ended, view>>
    BY <1>8 DEF HardCap, IdleWindow, vars
  <2>2. \A i \in Role("user") : Overlooked(i)' => Overlooked(i)
    BY <2>1 DEF Overlooked, Waiting
  <2> QED
    BY <1>1, <1>2, <2>1, <2>2, CalmMoves
<1>9. CASE Kill
  <2>1. UNCHANGED <<log, watermark, prompt, view>> /\ pc' = "off" /\ ended' = "killed"
    BY <1>9 DEF Kill
  <2>2. \A i \in Role("user") : ~Overlooked(i)'
    BY <2>1 DEF Overlooked, Waiting
  <2> QED
    BY <1>1, <1>2, <2>1, <2>2, CalmMoves
<1> QED
  BY <1>3, <1>4, <1>5, <1>6, <1>7, <1>8, <1>9 DEF Next

(* A session ends as idle only when every message that was read is         *)
(* answered, for any posts, restarts, failing calls and protocols, where   *)
(* users wait for the reply, messages come committed and no agent is       *)
(* changed (runInteractiveMode).                                           *)
THEOREM IdleIsAnswered == ASSUME CalmChat PROVE Spec => []IdleMeansAnswered
<1>1. CalmInv => IdleMeansAnswered
  BY DEF CalmInv, SeenIsAnswered, Overlooked, IdleMeansAnswered
<1>2. IInv /\ CalmInv /\ [Next]_vars => CalmInv'
  BY CalmStays
<1> QED
  BY <1>1, <1>2, CalmStarts, ChatInvariance, PTL DEF Spec
=============================================================================
