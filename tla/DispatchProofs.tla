--------------------------- MODULE DispatchProofs ---------------------------
(***************************************************************************)
(* What is dispatched, and that it is dispatched once and whole: Loops on  *)
(* their schedule, a command from a comment to its job, the definitions,   *)
(* workflow documents and profiles they work from - for any number of      *)
(* dispatchers, processes, documents, words and faults.                    *)
(***************************************************************************)
EXTENDS LoopDispatch, CiRun, Definitions, WorkflowDocs, Profiles, FiniteSetTheorems, WellFoundedInduction, TLAPS

\* A dispatcher between the reservation of a slot and its end.
Busy(d) == at[d] \in {"create", "run", "record", "finish"}

Finished == {"dispatched", "failed"}
Slots == {Free} \cup [status : {"held"} \cup Finished, by : Dispatcher, until : Nat]

DispatchTyped ==
  /\ clock \in 0 .. Horizon
  /\ at \in [Dispatcher -> {"idle", "reserve", "create", "run", "record", "finish", "gone"}]
  /\ now \in [Dispatcher -> 0 .. Horizon] /\ todo \in [Dispatcher -> SUBSET DOMAIN LoopOrder]
  /\ exitOk \in [Dispatcher -> BOOLEAN] /\ renewErr \in [Dispatcher -> BOOLEAN]
  /\ renewal \in [Dispatcher -> Nat]
  /\ slots \in [Key -> Slots]
  /\ record \in [Dispatcher -> [Key -> {"none", "running", "succeeded", "failed"}]]

\* A dispatcher started before now, works on one of its Loops, and fires its
\* timer in time; a failed renewal fails the run.
Timely(d) ==
  /\ now[d] <= clock
  /\ Busy(d) => todo[d] # {}
  /\ at[d] = "run" => clock <= renewal[d]
  /\ at[d] \in {"record", "finish"} /\ exitOk[d] => ~renewErr[d]

\* A dispatcher whose lease can be relied on, and why: it holds its slot, and
\* until later than its next renewal.
Protected(d) == Busy(d) /\ d \notin late /\ ~renewErr[d]

Leased(d) ==
  Protected(d) =>
    /\ Lease > 1
    /\ Owns(d, Current(d)) /\ slots[Current(d)].until > clock
    /\ at[d] = "create" => slots[Current(d)].until > clock + 1
    /\ at[d] = "run" => slots[Current(d)].until > renewal[d]

\* A slot that is its dispatcher's is not finished while it works on it, and
\* the record is written before the slot is.
Holds(d) ==
  /\ Busy(d) /\ slots[Current(d)].status \in Finished => slots[Current(d)].by # d
  /\ at[d] = "finish" => record[d][Current(d)] = Outcome(d, "succeeded", "failed")

\* A success belongs to the finished slot, or is about to.
Kept(d) ==
  \A k \in Key :
    record[d][k] = "succeeded" /\ d \notin late \cup cut =>
      \/ slots[k].status = "dispatched" /\ slots[k].by = d
      \/ at[d] = "finish" /\ Current(d) = k /\ exitOk[d]

\* Two protected dispatchers work on different Loops.
Apart ==
  \A d, e \in Dispatcher :
    d # e /\ Protected(d) /\ Protected(e) => CurrentLoop(d) # CurrentLoop(e)

DispatchInv ==
  /\ DispatchTyped /\ Apart /\ SlotAgreesWithRecord
  /\ \A d \in Dispatcher : Timely(d) /\ Leased(d) /\ Holds(d) /\ Kept(d)
-----------------------------------------------------------------------------
(* Places, loops and keys.                                                 *)

\* A set of numbers that is not empty has a least one.
LEMMA LeastPlace ==
  ASSUME NEW T \in SUBSET Nat, T # {}
  PROVE  \E x \in T : \A y \in T : x <= y
<1> DEFINE Less == OpToRel(<, Nat)
<1>1. IsWellFoundedOn(Less, Nat)
  BY NatLessThanWellFounded
<1>2. \A x, y \in Nat : <<y, x>> \in Less <=> y < x
  BY DEF OpToRel
<1> HIDE DEF Less
<1>3. PICK x \in T : \A y \in T : <<y, x>> \notin Less
  BY <1>1, WFMin
<1>4. \A y \in T : ~(y < x)
  BY <1>2, <1>3
<1> QED
  BY <1>3, <1>4

\* The slot of an instant is one of the slots.
LEMMA SlotInRange ==
  ASSUME NEW t \in 0 .. Horizon, NEW p \in Nat \ {0}
  PROVE  t \div p \in 0 .. Horizon
<1> DEFINE q == t \div p
<1>1. t \in Nat /\ Horizon \in Nat /\ t <= Horizon
  BY LoopAssumption
<1>2. q \in Int /\ q * p <= t /\ t < (q + 1) * p
  BY <1>1
<1>3. q >= 0
  BY <1>1, <1>2
<1>4. q <= q * p
  BY <1>3, <1>2
<1> QED
  BY <1>1, <1>2, <1>3, <1>4

\* A dispatcher with Loops left is at one of them, and at a key of it.
LEMMA CurrentType ==
  ASSUME DispatchTyped, NEW d \in Dispatcher, todo[d] # {}
  PROVE  /\ NextPlace(d) \in todo[d] /\ CurrentLoop(d) \in Loop
         /\ Current(d) \in Key /\ Current(d)[1] = CurrentLoop(d)
<1>1. todo[d] \in SUBSET DOMAIN LoopOrder /\ DOMAIN LoopOrder \subseteq Nat
  BY LoopAssumption DEF DispatchTyped
<1>2. \E x \in todo[d] : \A y \in todo[d] : x <= y
  BY <1>1, LeastPlace
<1>3. NextPlace(d) \in todo[d]
  BY <1>2 DEF NextPlace
<1>4. CurrentLoop(d) \in Loop
  BY <1>1, <1>3 DEF CurrentLoop, Loop
<1>5. now[d] \in 0 .. Horizon /\ Period[CurrentLoop(d)] \in Nat \ {0}
  BY <1>4, LoopAssumption DEF DispatchTyped
<1>6. DueSlot(CurrentLoop(d), now[d]) \in Slot
  BY <1>5, SlotInRange DEF DueSlot, Slot
<1>7. Current(d) \in Key /\ Current(d)[1] = CurrentLoop(d)
  BY <1>4, <1>6 DEF Current, KeyOf, Key, Slot
<1> QED
  BY <1>3, <1>4, <1>7

\* The current Loop and key depend on the dispatcher's own variables.
LEMMA CurrentStands ==
  ASSUME NEW d, todo'[d] = todo[d], now'[d] = now[d]
  PROVE  CurrentLoop(d)' = CurrentLoop(d) /\ Current(d)' = Current(d)
<1>1. NextPlace(d)' = NextPlace(d)
  BY DEF NextPlace
<1>2. CurrentLoop(d)' = CurrentLoop(d)
  BY <1>1 DEF CurrentLoop
<1> QED
  BY <1>2 DEF Current, KeyOf, DueSlot

-----------------------------------------------------------------------------
(* One dispatcher moves.                                                   *)

\* Only dispatcher d and what belongs to it changes.
ActsAlone(d) ==
  /\ clock' = clock
  /\ \A q \in Dispatcher \ {d} :
       /\ at'[q] = at[q] /\ now'[q] = now[q] /\ todo'[q] = todo[q]
       /\ exitOk'[q] = exitOk[q] /\ renewErr'[q] = renewErr[q] /\ renewal'[q] = renewal[q]
       /\ record'[q] = record[q]
  /\ late \subseteq late' /\ late' \subseteq late \cup {d}
  /\ cut \subseteq cut' /\ cut' \subseteq cut \cup {d}

\* A slot changes to be d's: it was not finished, and no protected dispatcher
\* works on it.  What it is finished with is in the record.
SlotsAreOwn(d) ==
  \A k \in Key :
    \/ slots'[k] = slots[k]
    \/ /\ slots'[k] # Free /\ slots'[k].by = d /\ slots[k].status \notin Finished
       /\ \A q \in Dispatcher \ {d} : Protected(q) => Current(q) # k
       /\ slots'[k].status = "dispatched" => record'[d][k] = "succeeded"
       /\ slots'[k].status = "failed" => record'[d][k] = "failed"

\* The record of a finished slot is not written again.
RecordIsOwn(d) ==
  \A k \in Key :
    record'[d][k] # record[d][k] => ~(slots[k].status \in Finished /\ slots[k].by = d)

\* The others stay where they are.
LEMMA OthersStay ==
  ASSUME NEW d \in Dispatcher, ActsAlone(d), NEW q \in Dispatcher, q # d
  PROVE  /\ Busy(q)' <=> Busy(q)
         /\ Protected(q)' <=> Protected(q)
         /\ CurrentLoop(q)' = CurrentLoop(q) /\ Current(q)' = Current(q)
<1>1. at'[q] = at[q] /\ renewErr'[q] = renewErr[q] /\ (q \in late' <=> q \in late)
  BY DEF ActsAlone
<1>2. CurrentLoop(q)' = CurrentLoop(q) /\ Current(q)' = Current(q)
  BY CurrentStands DEF ActsAlone
<1> QED
  BY <1>1, <1>2 DEF Busy, Protected

\* A step of d that leaves d's own part of the invariant true leaves it all true.
LEMMA StepKeeps ==
  ASSUME DispatchInv, NEW d \in Dispatcher, ActsAlone(d), DispatchTyped',
         SlotsAreOwn(d), RecordIsOwn(d),
         Timely(d)', Leased(d)', Holds(d)', Kept(d)',
         \A q \in Dispatcher \ {d} :
           Protected(d)' /\ Protected(q) => CurrentLoop(d)' # CurrentLoop(q)
  PROVE  DispatchInv'
<1>1. ASSUME NEW q \in Dispatcher, q # d
      PROVE  Timely(q)' /\ Leased(q)' /\ Holds(q)' /\ Kept(q)'
  <2>1. /\ Busy(q)' <=> Busy(q)
        /\ Protected(q)' <=> Protected(q)
        /\ CurrentLoop(q)' = CurrentLoop(q) /\ Current(q)' = Current(q)
    BY <1>1, OthersStay
  <2>2. /\ clock' = clock /\ at'[q] = at[q] /\ now'[q] = now[q] /\ todo'[q] = todo[q]
        /\ exitOk'[q] = exitOk[q] /\ renewErr'[q] = renewErr[q] /\ renewal'[q] = renewal[q]
        /\ record'[q] = record[q]
    BY <1>1 DEF ActsAlone
  <2>3. Timely(q) /\ Leased(q) /\ Holds(q) /\ Kept(q)
    BY DEF DispatchInv
  <2>4. todo[q] # {} => Current(q) \in Key
    BY CurrentType DEF DispatchInv
  <2>5. Timely(q)'
    BY <2>1, <2>2, <2>3 DEF Timely
  <2>6. Leased(q)'
    <3>1. Protected(q) => slots'[Current(q)] = slots[Current(q)]
      BY <1>1, <2>3, <2>4 DEF SlotsAreOwn, Protected, Timely
    <3> QED
      BY <2>1, <2>2, <2>3, <3>1 DEF Leased, Owns
  <2>7. Holds(q)'
    <3>1. CASE Busy(q)
      <4>1. \/ slots'[Current(q)] = slots[Current(q)]
            \/ slots'[Current(q)].by = d
        BY <2>3, <2>4, <3>1 DEF SlotsAreOwn, Timely
      <4> QED
        BY <1>1, <2>1, <2>2, <2>3, <4>1 DEF Holds, Outcome
    <3>2. CASE ~Busy(q)
      BY <2>1, <2>2, <2>3, <3>2 DEF Holds, Busy
    <3> QED
      BY <3>1, <3>2
  <2>8. Kept(q)'
    <3> SUFFICES ASSUME NEW k \in Key, record'[q][k] = "succeeded", q \notin late' \cup cut'
                 PROVE  \/ slots'[k].status = "dispatched" /\ slots'[k].by = q
                        \/ at'[q] = "finish" /\ Current(q)' = k /\ exitOk'[q]
      BY DEF Kept
    <3>1. record[q][k] = "succeeded" /\ q \notin late \cup cut
      BY <1>1, <2>2 DEF ActsAlone
    <3>2. CASE slots[k].status = "dispatched" /\ slots[k].by = q
      BY <3>2 DEF SlotsAreOwn, Finished
    <3>3. CASE at[q] = "finish" /\ Current(q) = k /\ exitOk[q]
      BY <2>1, <2>2, <3>3
    <3> QED
      BY <2>3, <3>1, <3>2, <3>3 DEF Kept
  <2> QED
    BY <2>5, <2>6, <2>7, <2>8
<1>2. \A q \in Dispatcher : Timely(q)' /\ Leased(q)' /\ Holds(q)' /\ Kept(q)'
  BY <1>1
<1>3. Apart'
  <2> SUFFICES ASSUME NEW x \in Dispatcher, NEW y \in Dispatcher, x # y,
                      Protected(x)', Protected(y)'
               PROVE  CurrentLoop(x)' # CurrentLoop(y)'
    BY DEF Apart
  <2>1. CASE x # d /\ y # d
    BY <2>1, OthersStay DEF DispatchInv, Apart
  <2>2. CASE x = d
    BY <2>2, OthersStay
  <2>3. CASE y = d
    BY <2>3, OthersStay
  <2> QED
    BY <2>1, <2>2, <2>3
<1>4. SlotAgreesWithRecord'
  <2> SUFFICES ASSUME NEW k \in Key
               PROVE  /\ slots'[k].status = "dispatched" => record'[slots'[k].by][k] = "succeeded"
                      /\ slots'[k].status = "failed" => record'[slots'[k].by][k] = "failed"
    BY DEF SlotAgreesWithRecord
  <2>1. CASE slots'[k] # slots[k]
    BY <2>1 DEF SlotsAreOwn
  <2>2. CASE slots'[k] = slots[k] /\ slots[k].status \in Finished
    <3>1. slots[k].by \in Dispatcher
      BY <2>2 DEF DispatchInv, DispatchTyped, Slots, Free, Finished
    <3>2. record'[slots[k].by][k] = record[slots[k].by][k]
      BY <2>2, <3>1 DEF ActsAlone, RecordIsOwn
    <3> QED
      BY <2>2, <3>2 DEF DispatchInv, SlotAgreesWithRecord
  <2>3. CASE slots'[k] = slots[k] /\ slots[k].status \notin Finished
    BY <2>3 DEF Finished
  <2> QED
    BY <2>1, <2>2, <2>3
<1> QED
  BY <1>2, <1>3, <1>4 DEF DispatchInv

-----------------------------------------------------------------------------
(* The actions.                                                            *)

\* What the invariant says of the dispatcher that moves.
LEMMA Mine ==
  ASSUME DispatchInv, NEW d \in Dispatcher
  PROVE  /\ Timely(d) /\ Leased(d) /\ Holds(d) /\ Kept(d)
         /\ clock \in Nat /\ now[d] \in Nat /\ renewal[d] \in Nat /\ Lease \in Nat \ {0}
         /\ todo[d] # {} =>
              /\ Current(d) \in Key /\ Current(d)[1] = CurrentLoop(d)
              /\ slots[Current(d)] \in Slots
         /\ \A q \in Dispatcher \ {d} : Protected(q) =>
              /\ slots[Current(q)].status = "held" /\ slots[Current(q)].by = q
              /\ slots[Current(q)].until > clock /\ slots[Current(q)].until \in Nat
              /\ Current(q) \in Key /\ Current(q)[1] = CurrentLoop(q)
<1>1. Timely(d) /\ Leased(d) /\ Holds(d) /\ Kept(d) /\ DispatchTyped
  BY DEF DispatchInv
<1>2. clock \in Nat /\ now[d] \in Nat /\ renewal[d] \in Nat /\ Lease \in Nat \ {0}
  BY <1>1, LoopAssumption DEF DispatchTyped
<1>3. todo[d] # {} =>
        /\ Current(d) \in Key /\ Current(d)[1] = CurrentLoop(d)
        /\ slots[Current(d)] \in Slots
  BY <1>1, CurrentType DEF DispatchTyped
<1>4. ASSUME NEW q \in Dispatcher \ {d}, Protected(q)
      PROVE  /\ slots[Current(q)].status = "held" /\ slots[Current(q)].by = q
             /\ slots[Current(q)].until > clock /\ slots[Current(q)].until \in Nat
             /\ Current(q) \in Key /\ Current(q)[1] = CurrentLoop(q)
  <2>1. Timely(q) /\ Leased(q) /\ todo[q] # {}
    BY <1>4 DEF DispatchInv, Timely, Protected
  <2>2. Current(q) \in Key /\ Current(q)[1] = CurrentLoop(q) /\ slots[Current(q)] \in Slots
    BY <1>1, <2>1, CurrentType DEF DispatchTyped
  <2> QED
    BY <1>4, <2>1, <2>2 DEF Leased, Owns, Slots, Free
<1> QED
  BY <1>1, <1>2, <1>3, <1>4

\* A dispatcher that holds its slot may write it: nobody else relies on it.
LEMMA OwnSlot ==
  ASSUME DispatchInv, NEW d \in Dispatcher, Owns(d, Current(d)), todo[d] # {}
  PROVE  /\ Current(d) \in Key /\ slots[Current(d)] \in Slots \ {Free}
         /\ slots[Current(d)].status = "held" /\ slots[Current(d)].by = d
         /\ \A q \in Dispatcher \ {d} : Protected(q) => Current(q) # Current(d)
  BY Mine DEF Owns, Slots, Free

\* A dispatcher stops working, or has not begun.
LEMMA LeavingKeeps ==
  ASSUME DispatchInv, NEW d \in Dispatcher, ActsAlone(d), DispatchTyped',
         slots' = slots, record' = record,
         at'[d] \in {"idle", "reserve", "gone"}, now'[d] <= clock,
         at[d] = "finish" /\ exitOk[d] => d \in late' \cup cut'
  PROVE  DispatchInv'
<1>1. ~Busy(d)' /\ ~Protected(d)'
  BY DEF Busy, Protected
<1>2. Timely(d)' /\ Leased(d)' /\ Holds(d)'
  BY <1>1 DEF Timely, Leased, Holds, ActsAlone, Busy
<1>3. Kept(d)'
  BY Mine DEF Kept, ActsAlone
<1> QED
  BY <1>1, <1>2, <1>3, StepKeeps DEF SlotsAreOwn, RecordIsOwn

\* A dispatcher starts.
LEMMA WakeKeeps ==
  ASSUME DispatchInv, NEW d \in Dispatcher, Wake(d)
  PROVE  DispatchInv'
<1>1. Runnable(d) \in SUBSET DOMAIN LoopOrder
  BY DEF Runnable
<1>2. DispatchTyped'
  BY <1>1 DEF Wake, Step, DispatchInv, DispatchTyped
<1>3. ActsAlone(d) /\ at[d] = "idle" /\ at'[d] = "reserve" /\ now'[d] = clock
  BY DEF Wake, Step, ActsAlone, DispatchInv, DispatchTyped
<1> QED
  BY <1>2, <1>3, Mine, LeavingKeeps DEF Wake

\* A slot is not given, and the next Loop is taken.
LEMMA RefusedKeeps ==
  ASSUME DispatchInv, NEW d \in Dispatcher, Refused(d)
  PROVE  DispatchInv'
<1>1. DispatchTyped'
  BY DEF Refused, Step, DispatchInv, DispatchTyped
<1>2. ActsAlone(d) /\ at[d] = "reserve" /\ at'[d] = "reserve" /\ now' = now
  BY DEF Refused, Step, ActsAlone, DispatchInv, DispatchTyped
<1> QED
  BY <1>1, <1>2, Mine, LeavingKeeps DEF Refused, Timely

\* The wake is marked, or a call throws, or the process dies.
LEMMA EndKeeps ==
  ASSUME DispatchInv, NEW d \in Dispatcher, MarkWake(d) \/ Throw(d) \/ Dies(d)
  PROVE  DispatchInv'
<1>1. ASSUME NEW from, NEW call, Rejected(d, from, call)
      PROVE  DispatchInv'
  <2>1. DispatchTyped'
    BY <1>1 DEF Rejected, Step, DispatchInv, DispatchTyped
  <2>2. ActsAlone(d) /\ at[d] = from /\ at'[d] = "gone" /\ now' = now
    BY <1>1 DEF Rejected, Step, ActsAlone, DispatchInv, DispatchTyped
  <2>3. at[d] = "finish" => d \in cut'
    BY <1>1, <2>2 DEF Rejected
  <2> QED
    BY <1>1, <2>1, <2>2, <2>3, Mine, LeavingKeeps DEF Rejected, Timely
<1>2. CASE MarkWake(d)
  <2>1. DispatchTyped'
    BY <1>2 DEF MarkWake, Step, DispatchInv, DispatchTyped
  <2>2. ActsAlone(d) /\ at[d] = "reserve" /\ at'[d] = "gone" /\ now' = now
    BY <1>2 DEF MarkWake, Step, ActsAlone, DispatchInv, DispatchTyped
  <2> QED
    BY <1>2, <2>1, <2>2, Mine, LeavingKeeps DEF MarkWake, Timely
<1> QED
  BY <1>1, <1>2 DEF Throw, Dies

\* reserveLoopDispatch: the slot was free for the caller, and so was the Loop.
LEMMA ReserveKeeps ==
  ASSUME DispatchInv, NEW d \in Dispatcher, Reserve(d)
  PROVE  DispatchInv'
<1> DEFINE k == Current(d)
           new == [status |-> "held", by |-> d, until |-> now[d] + Lease]
<1>1. /\ at[d] = "reserve" /\ at' = [at EXCEPT ![d] = "create"] /\ todo[d] # {}
      /\ Acquirable(k, now[d]) /\ slots' = [slots EXCEPT ![k] = new]
      /\ late' = IF now[d] + Lease <= clock + 1 THEN late \cup {d} ELSE late
      /\ UNCHANGED <<clock, now, todo, exitOk, renewal, renewErr, record, cut>>
  BY DEF Reserve, Step
<1>2. /\ Timely(d) /\ Kept(d) /\ k \in Key /\ k[1] = CurrentLoop(d)
      /\ clock \in Nat /\ now[d] \in Nat /\ Lease \in Nat \ {0} /\ now[d] <= clock
  BY <1>1, Mine DEF Timely
<1>3. new \in Slots \ {Free} /\ new.status = "held" /\ new.by = d /\ new.until = now[d] + Lease
  BY <1>2 DEF Slots, Free
<1> HIDE DEF new
<1>4. DispatchTyped'
  BY <1>1, <1>2, <1>3 DEF DispatchInv, DispatchTyped
<1>5. ActsAlone(d) /\ at'[d] = "create" /\ slots'[k] = new
  BY <1>1, <1>2 DEF ActsAlone, DispatchInv, DispatchTyped
<1>6. Current(d)' = k /\ CurrentLoop(d)' = CurrentLoop(d)
  BY <1>1, CurrentStands
<1>7. ASSUME NEW q \in Dispatcher \ {d}, Protected(q)
      PROVE  Current(q) # k /\ CurrentLoop(q) # CurrentLoop(d)
  <2>1. /\ Current(q) \in Key /\ Current(q)[1] = CurrentLoop(q)
        /\ Held(Current(q), now[d])
    BY <1>2, <1>7, Mine DEF Held
  <2> QED
    BY <1>1, <1>2, <2>1 DEF Acquirable, Duplicate, AtLimit
<1>8. slots[k].status \notin Finished
  BY <1>1 DEF Acquirable, Duplicate, Finished
<1>9. SlotsAreOwn(d)
  BY <1>1, <1>3, <1>5, <1>7, <1>8 DEF SlotsAreOwn, DispatchInv, DispatchTyped
<1>10. RecordIsOwn(d)
  BY <1>1 DEF RecordIsOwn
<1>11. Timely(d)' /\ Holds(d)'
  BY <1>1, <1>2, <1>3, <1>5, <1>6 DEF Timely, Holds, Finished
<1>12. Leased(d)'
  <2>1. Protected(d)' => now[d] + Lease > clock + 1
    BY <1>1, <1>2 DEF Protected
  <2> QED
    BY <1>1, <1>2, <1>3, <1>5, <1>6, <2>1 DEF Leased, Owns
<1>13. Kept(d)'
  <2>1. \A j \in Key : slots[j].status = "dispatched" => slots'[j] = slots[j]
    BY <1>1, <1>8 DEF DispatchInv, DispatchTyped, Finished
  <2> QED
    BY <1>1, <1>2, <2>1 DEF Kept
<1> QED
  BY <1>4, <1>5, <1>6, <1>7, <1>9, <1>10, <1>11, <1>12, <1>13, StepKeeps

\* createRun, and the timer that renews the lease is set.
LEMMA CreateRecordKeeps ==
  ASSUME DispatchInv, NEW d \in Dispatcher, CreateRecord(d)
  PROVE  DispatchInv'
<1> DEFINE k == Current(d)
<1>1. /\ at[d] = "create" /\ at' = [at EXCEPT ![d] = "run"]
      /\ record' = [record EXCEPT ![d][k] = "running"]
      /\ renewal' = [renewal EXCEPT ![d] = clock + 1]
      /\ UNCHANGED <<clock, now, todo, exitOk, renewErr, slots, late, cut>>
  BY DEF CreateRecord, Step
<1>2. /\ Timely(d) /\ Leased(d) /\ Holds(d) /\ Kept(d) /\ clock \in Nat /\ todo[d] # {}
      /\ k \in Key
  BY <1>1, Mine DEF Timely, Busy
<1>3. DispatchTyped'
  BY <1>1, <1>2 DEF DispatchInv, DispatchTyped
<1>4. ActsAlone(d) /\ at'[d] = "run" /\ renewal'[d] = clock + 1
  BY <1>1 DEF ActsAlone, DispatchInv, DispatchTyped
<1>5. record'[d] = [record[d] EXCEPT ![k] = "running"]
  BY <1>1 DEF DispatchInv, DispatchTyped
<1>6. Current(d)' = k /\ CurrentLoop(d)' = CurrentLoop(d)
  BY <1>1, CurrentStands
<1>7. (Protected(d)' <=> Protected(d)) /\ Busy(d)
  BY <1>1, <1>4 DEF Protected, Busy
<1>8. SlotsAreOwn(d)
  BY <1>1 DEF SlotsAreOwn
<1>9. RecordIsOwn(d)
  BY <1>2, <1>5, <1>7 DEF RecordIsOwn, Holds, DispatchInv, DispatchTyped
<1>10. Timely(d)' /\ Holds(d)'
  BY <1>1, <1>2, <1>4, <1>6, <1>7 DEF Timely, Holds
<1>11. Leased(d)'
  BY <1>1, <1>2, <1>4, <1>6, <1>7 DEF Leased, Owns
<1>12. Kept(d)'
  BY <1>1, <1>2, <1>5 DEF Kept, DispatchInv, DispatchTyped
<1>13. \A q \in Dispatcher \ {d} :
         Protected(d)' /\ Protected(q) => CurrentLoop(d)' # CurrentLoop(q)
  BY <1>6, <1>7 DEF DispatchInv, Apart
<1> QED
  BY <1>3, <1>4, <1>8, <1>9, <1>10, <1>11, <1>12, <1>13, StepKeeps

\* startLoopLeaseRenewal: the lease is taken from now on, or the run is lost.
LEMMA RenewKeeps ==
  ASSUME DispatchInv, NEW d \in Dispatcher, Renew(d)
  PROVE  DispatchInv'
<1> DEFINE k == Current(d)
<1>1. /\ at[d] = "run" /\ renewal' = [renewal EXCEPT ![d] = clock + 1]
      /\ UNCHANGED <<clock, at, now, todo, exitOk, record, late, cut>>
  BY DEF Renew
<1>2. /\ Timely(d) /\ Leased(d) /\ Holds(d) /\ Kept(d) /\ clock \in Nat /\ todo[d] # {}
      /\ Lease \in Nat \ {0} /\ k \in Key /\ slots[k] \in Slots
  BY <1>1, Mine DEF Timely, Busy
<1>3. renewal' \in [Dispatcher -> Nat] /\ renewal'[d] = clock + 1
  BY <1>1, <1>2 DEF DispatchInv, DispatchTyped
<1>4. Current(d)' = k /\ CurrentLoop(d)' = CurrentLoop(d) /\ (Busy(d)' <=> Busy(d)) /\ Busy(d)
  BY <1>1, CurrentStands DEF Busy
<1>5. Timely(d)'
  BY <1>1, <1>2, <1>3, <1>4 DEF Timely
<1>6. RecordIsOwn(d)
  BY <1>1 DEF RecordIsOwn
<1>7. CASE Owns(d, k) /\ slots' = [slots EXCEPT ![k].until = clock + Lease] /\ renewErr' = renewErr
  <2> DEFINE new == [slots[k] EXCEPT !.until = clock + Lease]
  <2>1. /\ slots[k] \in Slots \ {Free} /\ slots[k].status = "held" /\ slots[k].by = d
        /\ \A q \in Dispatcher \ {d} : Protected(q) => Current(q) # k
    BY <1>2, <1>7, OwnSlot
  <2>2. /\ new \in Slots \ {Free} /\ new.status = "held" /\ new.by = d
        /\ new.until = clock + Lease
    BY <1>2, <2>1 DEF Slots, Free
  <2>3. slots' = [slots EXCEPT ![k] = new]
    BY <1>2, <1>7 DEF DispatchInv, DispatchTyped
  <2> HIDE DEF new
  <2>4. DispatchTyped'
    <3>1. slots' \in [Key -> Slots]
      BY <2>2, <2>3 DEF DispatchInv, DispatchTyped
    <3> QED
      BY <1>1, <1>3, <1>7, <3>1 DEF DispatchInv, DispatchTyped
  <2>5. ActsAlone(d) /\ slots'[k] = new
    BY <1>1, <1>2, <1>7, <2>3 DEF ActsAlone, DispatchInv, DispatchTyped
  <2>6. Protected(d)' <=> Protected(d)
    BY <1>1, <1>4, <1>7 DEF Protected
  <2>7. SlotsAreOwn(d)
    BY <2>1, <2>2, <2>3 DEF SlotsAreOwn, DispatchInv, DispatchTyped, Finished
  <2>8. Leased(d)'
    BY <1>1, <1>2, <1>3, <1>4, <2>2, <2>5, <2>6 DEF Leased, Owns
  <2>9. Holds(d)'
    BY <1>1, <1>2, <1>4, <2>2, <2>5 DEF Holds, Finished
  <2>10. Kept(d)'
    <3>1. \A j \in Key : slots[j].status = "dispatched" => slots'[j] = slots[j]
      BY <2>1, <2>3 DEF DispatchInv, DispatchTyped
    <3> QED
      BY <1>1, <1>2, <3>1 DEF Kept
  <2>11. \A q \in Dispatcher \ {d} :
           Protected(d)' /\ Protected(q) => CurrentLoop(d)' # CurrentLoop(q)
    BY <1>4, <2>6 DEF DispatchInv, Apart
  <2> QED
    BY <1>5, <1>6, <2>4, <2>5, <2>7, <2>8, <2>9, <2>10, <2>11, StepKeeps
<1>8. CASE slots' = slots /\ renewErr' = [renewErr EXCEPT ![d] = TRUE]
  <2>1. DispatchTyped'
    BY <1>1, <1>3, <1>8 DEF DispatchInv, DispatchTyped
  <2>2. ActsAlone(d) /\ ~Protected(d)'
    BY <1>1, <1>8 DEF ActsAlone, Protected, DispatchInv, DispatchTyped
  <2>3. Leased(d)' /\ Holds(d)' /\ Kept(d)'
    BY <1>1, <1>2, <1>4, <1>8, <2>2 DEF Leased, Holds, Kept
  <2> QED
    BY <1>5, <1>6, <1>8, <2>1, <2>2, <2>3, StepKeeps DEF SlotsAreOwn
<1> QED
  BY <1>7, <1>8 DEF Renew

\* The target returns: it counts as a success only if no renewal failed.
LEMMA TargetKeeps ==
  ASSUME DispatchInv, NEW d \in Dispatcher, Target(d)
  PROVE  DispatchInv'
<1> DEFINE k == Current(d)
<1>1. /\ at[d] = "run" /\ at' = [at EXCEPT ![d] = "record"]
      /\ UNCHANGED <<clock, now, todo, renewal, renewErr, slots, record, late, cut>>
  BY DEF Target, Step
<1>2. PICK ok \in BOOLEAN : exitOk' = [exitOk EXCEPT ![d] = ok /\ ~renewErr[d]]
  BY DEF Target
<1>3. Timely(d) /\ Leased(d) /\ Holds(d) /\ Kept(d) /\ todo[d] # {}
  BY <1>1, Mine DEF Timely, Busy
<1>4. (ok /\ ~renewErr[d]) \in BOOLEAN
  OBVIOUS
<1>5. exitOk' \in [Dispatcher -> BOOLEAN] /\ (exitOk'[d] => ~renewErr[d])
      /\ \A q \in Dispatcher \ {d} : exitOk'[q] = exitOk[q]
  BY <1>2, <1>4, Zenon DEF DispatchInv, DispatchTyped
<1>6. at' \in [Dispatcher -> {"idle", "reserve", "create", "run", "record", "finish", "gone"}]
      /\ at'[d] = "record" /\ \A q \in Dispatcher \ {d} : at'[q] = at[q]
  BY <1>1 DEF DispatchInv, DispatchTyped
<1>7. DispatchTyped' /\ ActsAlone(d)
  BY <1>1, <1>5, <1>6 DEF ActsAlone, DispatchInv, DispatchTyped
<1>8. Current(d)' = k /\ CurrentLoop(d)' = CurrentLoop(d)
  BY <1>1, CurrentStands
<1>9. (Protected(d)' <=> Protected(d)) /\ Busy(d)
  BY <1>1, <1>6 DEF Protected, Busy
<1>10. Timely(d)' /\ Leased(d)' /\ Holds(d)' /\ Kept(d)'
  BY <1>1, <1>3, <1>5, <1>6, <1>8, <1>9 DEF Timely, Leased, Holds, Kept, Owns
<1>11. \A q \in Dispatcher \ {d} :
         Protected(d)' /\ Protected(q) => CurrentLoop(d)' # CurrentLoop(q)
  BY <1>8, <1>9 DEF DispatchInv, Apart
<1> QED
  BY <1>1, <1>7, <1>10, <1>11, StepKeeps DEF SlotsAreOwn, RecordIsOwn

\* finishRun: the record tells how the run went.
LEMMA FinishRecordKeeps ==
  ASSUME DispatchInv, NEW d \in Dispatcher, FinishRecord(d)
  PROVE  DispatchInv'
<1> DEFINE k == Current(d)
           told == Outcome(d, "succeeded", "failed")
<1>1. /\ at[d] = "record" /\ at' = [at EXCEPT ![d] = "finish"]
      /\ record' = [record EXCEPT ![d][k] = told]
      /\ UNCHANGED <<clock, now, todo, exitOk, renewal, renewErr, slots, late, cut>>
  BY DEF FinishRecord, Step
<1>2. /\ Timely(d) /\ Leased(d) /\ Holds(d) /\ Kept(d) /\ todo[d] # {} /\ k \in Key
  BY <1>1, Mine DEF Timely, Busy
<1>3. told \in {"succeeded", "failed"} /\ (told = "succeeded" <=> exitOk[d])
  BY DEF Outcome
<1>4. told = Outcome(d, "succeeded", "failed")' /\ exitOk' = exitOk
  BY <1>1 DEF Outcome
<1> HIDE DEF told
<1>5. DispatchTyped'
  BY <1>1, <1>2, <1>3 DEF DispatchInv, DispatchTyped
<1>6. ActsAlone(d) /\ at'[d] = "finish" /\ record'[d] = [record[d] EXCEPT ![k] = told]
  BY <1>1 DEF ActsAlone, DispatchInv, DispatchTyped
<1>7. Current(d)' = k /\ CurrentLoop(d)' = CurrentLoop(d)
  BY <1>1, CurrentStands
<1>8. (Protected(d)' <=> Protected(d)) /\ Busy(d)
  BY <1>1, <1>6 DEF Protected, Busy
<1>9. RecordIsOwn(d) /\ record'[d][k] = told
  BY <1>2, <1>6, <1>8 DEF RecordIsOwn, Holds, DispatchInv, DispatchTyped
<1>10. Timely(d)' /\ Leased(d)' /\ Holds(d)'
  BY <1>1, <1>2, <1>4, <1>6, <1>7, <1>8, <1>9 DEF Timely, Leased, Holds, Owns
<1>11. Kept(d)'
  BY <1>1, <1>2, <1>3, <1>6, <1>7, <1>9 DEF Kept, DispatchInv, DispatchTyped
<1>12. \A q \in Dispatcher \ {d} :
         Protected(d)' /\ Protected(q) => CurrentLoop(d)' # CurrentLoop(q)
  BY <1>7, <1>8 DEF DispatchInv, Apart
<1> QED
  BY <1>1, <1>5, <1>6, <1>9, <1>10, <1>11, <1>12, StepKeeps DEF SlotsAreOwn

\* finishDispatch: only the owner of a slot finishes it, as its record says.
LEMMA FinishSlotKeeps ==
  ASSUME DispatchInv, NEW d \in Dispatcher, FinishSlot(d)
  PROVE  DispatchInv'
<1> DEFINE k == Current(d)
           told == Outcome(d, "dispatched", "failed")
           new == [slots[k] EXCEPT !.status = told]
<1>1. at[d] = "finish" /\ UNCHANGED <<clock, now, record, late, cut>>
  BY DEF FinishSlot, Step
<1>2. /\ Timely(d) /\ Leased(d) /\ Holds(d) /\ Kept(d) /\ todo[d] # {} /\ k \in Key
  BY <1>1, Mine DEF Timely, Busy
<1>3. CASE /\ Owns(d, k) /\ at' = [at EXCEPT ![d] = "reserve"]
           /\ slots' = [slots EXCEPT ![k].status = told] /\ NextLoop(d)
  <2>1. /\ slots[k] \in Slots \ {Free} /\ slots[k].status = "held" /\ slots[k].by = d
        /\ \A q \in Dispatcher \ {d} : Protected(q) => Current(q) # k
    BY <1>2, <1>3, OwnSlot
  <2>2. /\ told \in Finished
        /\ told = "dispatched" => exitOk[d] /\ record[d][k] = "succeeded"
        /\ told = "failed" => ~exitOk[d] /\ record[d][k] = "failed"
    BY <1>1, <1>2 DEF Holds, Outcome, Finished
  <2> HIDE DEF told
  <2>3. new \in Slots \ {Free} /\ new.status = told /\ new.by = d
    BY <2>1, <2>2 DEF Slots, Free
  <2>4. slots' = [slots EXCEPT ![k] = new]
    BY <1>2, <1>3 DEF DispatchInv, DispatchTyped
  <2> HIDE DEF new
  <2>5. DispatchTyped'
    BY <1>1, <1>3, <2>3, <2>4 DEF NextLoop, DispatchInv, DispatchTyped
  <2>6. ActsAlone(d) /\ slots'[k] = new /\ at'[d] = "reserve"
    BY <1>1, <1>2, <1>3, <2>4 DEF NextLoop, ActsAlone, DispatchInv, DispatchTyped
  <2>7. ~Busy(d)' /\ ~Protected(d)'
    BY <2>6 DEF Busy, Protected
  <2>8. SlotsAreOwn(d) /\ RecordIsOwn(d)
    BY <1>1, <2>1, <2>2, <2>3, <2>4
    DEF SlotsAreOwn, RecordIsOwn, DispatchInv, DispatchTyped, Finished
  <2>9. Timely(d)' /\ Leased(d)' /\ Holds(d)'
    BY <1>1, <1>2, <2>6, <2>7 DEF Timely, Leased, Holds
  <2>10. Kept(d)'
    <3> SUFFICES ASSUME NEW j \in Key, record[d][j] = "succeeded", d \notin late \cup cut
                 PROVE  slots'[j].status = "dispatched" /\ slots'[j].by = d
      BY <1>1 DEF Kept
    <3>1. CASE j = k
      BY <2>2, <2>3, <2>6, <3>1 DEF Finished
    <3>2. CASE j # k
      BY <1>2, <2>4, <3>2 DEF Kept, DispatchInv, DispatchTyped
    <3> QED
      BY <3>1, <3>2
  <2> QED
    BY <2>5, <2>6, <2>7, <2>8, <2>9, <2>10, StepKeeps
<1>4. CASE /\ ~Owns(d, k) /\ at' = [at EXCEPT ![d] = "gone"]
           /\ UNCHANGED <<clock, now, todo, exitOk, renewal, renewErr, slots, record, late, cut>>
  <2>1. DispatchTyped' /\ ActsAlone(d) /\ at'[d] = "gone"
    BY <1>4 DEF ActsAlone, DispatchInv, DispatchTyped
  <2>2. exitOk[d] => d \in late
    BY <1>1, <1>2, <1>4 DEF Timely, Leased, Protected, Busy
  <2> QED
    BY <1>2, <1>4, <2>1, <2>2, LeavingKeeps DEF Timely
<1> QED
  BY <1>3, <1>4 DEF FinishSlot, Step

\* Time passes only before the renewals that are due.
LEMMA TimeKeeps ==
  ASSUME DispatchInv, TimePasses
  PROVE  DispatchInv'
<1>1. /\ clock < Horizon /\ clock' = clock + 1
      /\ UNCHANGED <<at, now, todo, exitOk, renewal, renewErr, slots, record, late, cut>>
      /\ \A d \in Dispatcher : at[d] \in Resting /\ (at[d] = "run" => clock < renewal[d])
  BY DEF TimePasses, procVars
<1>2. clock \in 0 .. Horizon /\ Horizon \in Nat
  BY LoopAssumption DEF DispatchInv, DispatchTyped
<1>3. DispatchTyped'
  BY <1>1, <1>2 DEF DispatchInv, DispatchTyped
<1>4. ASSUME NEW d \in Dispatcher
      PROVE  /\ Current(d)' = Current(d) /\ CurrentLoop(d)' = CurrentLoop(d)
             /\ (Protected(d)' <=> Protected(d)) /\ (Busy(d)' <=> Busy(d))
  BY <1>1, CurrentStands DEF Protected, Busy
<1>5. ASSUME NEW d \in Dispatcher
      PROVE  Timely(d)' /\ Leased(d)' /\ Holds(d)' /\ Kept(d)'
  <2>1. Timely(d) /\ Leased(d) /\ Holds(d) /\ Kept(d)
        /\ now[d] \in Nat /\ renewal[d] \in Nat
    BY Mine
  <2>2. Timely(d)'
    BY <1>1, <1>2, <1>4, <2>1 DEF Timely, Resting
  <2>3. Leased(d)'
    <3>1. Protected(d) => at[d] = "run"
      BY <1>1 DEF Protected, Busy, Resting
    <3>2. Protected(d) => slots[Current(d)].until \in Int
      <4>1. Protected(d) => slots[Current(d)] \in Slots
        BY <2>1, Mine DEF Timely, Protected
      <4> QED
        BY <2>1, <4>1 DEF Leased, Owns, Slots, Free
    <3> QED
      BY <1>1, <1>2, <1>4, <2>1, <3>1, <3>2 DEF Leased, Owns
  <2>4. Holds(d)' /\ Kept(d)'
    BY <1>1, <1>4, <2>1 DEF Holds, Kept, Outcome
  <2> QED
    BY <2>2, <2>3, <2>4
<1>6. Apart'
  BY <1>4 DEF DispatchInv, Apart
<1>7. SlotAgreesWithRecord'
  BY <1>1 DEF DispatchInv, SlotAgreesWithRecord
<1> QED
  BY <1>3, <1>5, <1>6, <1>7 DEF DispatchInv

\* Every step keeps the invariant.
LEMMA DispatchStep ==
  ASSUME DispatchInv, [LoopNext]_loopVars
  PROVE  DispatchInv'
<1>1. CASE UNCHANGED loopVars
  <2>1. \A d : /\ Current(d)' = Current(d) /\ CurrentLoop(d)' = CurrentLoop(d)
    BY <1>1, CurrentStands DEF loopVars, procVars
  <2> QED
    BY <1>1, <2>1
    DEF loopVars, procVars, DispatchInv, DispatchTyped, Apart, SlotAgreesWithRecord, Timely,
        Leased, Holds, Kept, Protected, Busy, Owns, Outcome
<1> QED
  BY <1>1, WakeKeeps, RefusedKeeps, EndKeeps, ReserveKeeps, CreateRecordKeeps, RenewKeeps,
     TargetKeeps, FinishRecordKeeps, FinishSlotKeeps, TimeKeeps
  DEF LoopNext, Dispatch

\* It holds at the start.
LEMMA DispatchStarts == ASSUME LoopInit PROVE DispatchInv
<1>1. DispatchTyped
  BY LoopAssumption DEF LoopInit, DispatchTyped, Slots
<1>2. \A d \in Dispatcher : ~Busy(d) /\ ~Protected(d)
  BY DEF LoopInit, Busy, Protected
<1>3. \A d \in Dispatcher : Timely(d) /\ Leased(d) /\ Holds(d) /\ Kept(d)
  BY <1>2, LoopAssumption DEF LoopInit, Timely, Leased, Holds, Kept
<1>4. Apart /\ SlotAgreesWithRecord
  BY <1>2 DEF LoopInit, Apart, SlotAgreesWithRecord, Free
<1> QED
  BY <1>1, <1>3, <1>4 DEF DispatchInv
-----------------------------------------------------------------------------
(* The theorems.                                                           *)

\* In every reachable state a dispatcher whose first lease was not late and
\* whose renewals succeeded holds its slot until after its next renewal, and no
\* other such dispatcher is at the same Loop.
THEOREM DispatchInvariance == LoopSpec => []DispatchInv
<1>1. LoopInit => DispatchInv
  BY DispatchStarts
<1>2. DispatchInv /\ [LoopNext]_loopVars => DispatchInv'
  BY DispatchStep
<1> QED
  BY <1>1, <1>2, PTL DEF LoopSpec

\* The type invariant that the runs check.
THEOREM LoopTypeCorrect == LoopSpec => []LoopTypeOK
<1>1. DispatchInv => LoopTypeOK
  <2> SUFFICES ASSUME DispatchInv PROVE LoopTypeOK
    OBVIOUS
  <2>1. \A d \in Dispatcher : at[d] \in {"create", "run", "record", "finish"} => todo[d] # {}
    BY DEF DispatchInv, Timely, Busy
  <2>2. \A k \in Key : slots[k] = Free \/ /\ slots[k].status \in {"held", "dispatched", "failed"}
                                          /\ slots[k].by \in Dispatcher
    BY DEF DispatchInv, DispatchTyped, Slots, Finished
  <2> QED
    BY <2>1, <2>2 DEF DispatchInv, DispatchTyped, LoopTypeOK
<1> QED
  BY <1>1, DispatchInvariance, PTL

\* reserveLoopDispatch and startLoopLeaseRenewal: with maxConcurrentRuns = 1 a
\* Loop's target runs once at a time, a slot has one success, and a finished
\* slot agrees with its record, for any dispatchers, Loops, leases and faults;
\* the exceptions are the leases and failures that the property names.
THEOREM LoopsRunOnceEach == LoopSpec => []LoopsRunOnce
<1>1. DispatchInv => LoopsRunOnce
  <2> SUFFICES ASSUME DispatchInv PROVE LoopsRunOnce
    OBVIOUS
  <2>1. OneTargetPerLoop
    BY DEF DispatchInv, OneTargetPerLoop, Running, Apart, Protected, Busy
  <2>2. OneSuccessPerSlot
    <3> SUFFICES ASSUME NEW d \in Dispatcher, NEW e \in Dispatcher, NEW k \in Key, d # e,
                        record[d][k] = "succeeded", record[e][k] = "succeeded",
                        {d, e} \cap (late \cup cut) = {}
                 PROVE  FALSE
      BY DEF OneSuccessPerSlot
    <3>1. ASSUME NEW q \in Dispatcher, record[q][k] = "succeeded", q \notin late \cup cut
          PROVE  slots[k].by = q
      <4>1. Timely(q) /\ Leased(q) /\ Kept(q)
        BY DEF DispatchInv
      <4>2. CASE at[q] = "finish" /\ Current(q) = k /\ exitOk[q]
        BY <3>1, <4>1, <4>2 DEF Timely, Leased, Protected, Busy, Owns
      <4> QED
        BY <3>1, <4>1, <4>2 DEF Kept
    <3> QED
      BY <3>1
  <2> QED
    BY <2>1, <2>2 DEF DispatchInv, LoopsRunOnce
<1> QED
  BY <1>1, DispatchInvariance, PTL

-----------------------------------------------------------------------------
(* A command, from its comment to its job: src/entry.ts, src/dispatch.ts. *)
\* Reading the words one by one is what said[Len(words)] is.
LEMMA WordsAreRead ==
  ASSUME NEW words \in Seq(WordKinds)
  PROVE  \E said : /\ said = [i \in 0 .. Len(words) |-> IF i = 0 THEN NothingSaid ELSE TakesWord(words, said[i - 1], i)]
                   /\ ParsedWords(words) = [said[Len(words)] EXCEPT !.args.target = 0]
<1> DEFINE Reads(n, f) == f = [i \in 0 .. n |-> IF i = 0 THEN NothingSaid ELSE TakesWord(words, f[i - 1], i)]
           Unread == {n \in 0 .. Len(words) : \A f : ~Reads(n, f)}
<1>1. Unread = {}
  <2> SUFFICES ASSUME Unread # {} PROVE FALSE
    OBVIOUS
  <2>1. PICK n \in Unread : \A k \in Unread : n <= k
    <3>1. Unread \in SUBSET Nat
      OBVIOUS
    <3> QED
      BY <3>1, LeastPlace
  <2>2. n # 0
    <3>1. Reads(0, [i \in 0 .. 0 |-> NothingSaid])
      OBVIOUS
    <3> QED
      BY <3>1
  <2>3. n - 1 \in 0 .. Len(words) /\ n - 1 \notin Unread
    <3>1. Len(words) \in Nat /\ n \in 0 .. Len(words)
      BY <2>1
    <3>2. n - 1 \in 0 .. Len(words) /\ ~(n <= n - 1)
      BY <3>1, <2>2
    <3> HIDE DEF Unread
    <3> QED
      BY <3>2, <2>1
  <2>4. PICK g : Reads(n - 1, g)
    BY <2>3
  <2> DEFINE f == [i \in 0 .. n |-> IF i = n THEN TakesWord(words, g[n - 1], n) ELSE g[i]]
  <2>5. \A i \in 0 .. n : i # n => f[i] = g[i]
    OBVIOUS
  <2>6. \A i \in 0 .. n - 1 : g[i] = IF i = 0 THEN NothingSaid ELSE TakesWord(words, g[i - 1], i)
    BY <2>4
  <2>7. \A i \in 0 .. n : f[i] = IF i = 0 THEN NothingSaid ELSE TakesWord(words, f[i - 1], i)
    BY <2>1, <2>2, <2>5, <2>6
  <2>8. f = [i \in 0 .. n |-> f[i]]
    OBVIOUS
  <2> HIDE DEF f
  <2>9. Reads(n, f)
    BY <2>7, <2>8
  <2> QED
    BY <2>1, <2>9
<1>2. \E f : Reads(Len(words), f)
  BY <1>1
<1>3. ParsedWords(words) = [(CHOOSE f : Reads(Len(words), f))[Len(words)] EXCEPT !.args.target = 0]
  BY DEF ParsedWords
<1> QED
  BY <1>2, <1>3

-----------------------------------------------------------------------------
\* What was read of the first n words: each is where it counts.
Inputs == {"target", "base", "prefer", "force"}
Args == [target : Nat, base : Nat, prefer : Nat, force : Nat]
Said == [args : Args, left : Seq(Nat)]
IsLeft(said, j) == \E k \in DOMAIN said.left : said.left[k] = j
IsInput(said, j) == \E x \in Inputs : said.args[x] = j
Again(said, words, i) == said.args.base > i /\ (words[i] = "flag" \/ (i > 1 /\ words[i - 1] = "flag"))
Counts(said, words, i) == words[i] = "number" \/ IsLeft(said, i) \/ IsInput(said, i) \/ Again(said, words, i)
ReadUpTo(said, words, n) ==
  /\ said \in Said /\ said.args.base <= n + 1 /\ (FlagsValue(words, n + 1) => said.args.base = n + 1)
  /\ said.args.base # 0 => said.args.base > 1 /\ words[said.args.base - 1] = "flag"
  /\ said.args.target # 0 => words[said.args.target] = "number"
  /\ \A i \in 1 .. n : Counts(said, words, i)

\* Another word is taken, and none of the others is lost.
Takes(said, said2, i) ==
  /\ said2 \in Said /\ said2.args.base = said.args.base
  /\ IsLeft(said2, i) \/ IsInput(said2, i)
  /\ \A j \in Nat \ {0} : (IsLeft(said, j) => IsLeft(said2, j)) /\ (IsInput(said, j) => IsInput(said2, j))

LEMMA LeftTakes ==
  ASSUME NEW said \in Said, NEW i \in Nat \ {0}
  PROVE  Takes(said, [said EXCEPT !.left = Append(@, i)], i)
<1> DEFINE left == Append(said.left, i)
           said2 == [said EXCEPT !.left = Append(@, i)]
<1>1. said.left \in Seq(Nat)
  BY DEF Said
<1>2. /\ left \in Seq(Nat) /\ left[Len(said.left) + 1] = i /\ Len(said.left) + 1 \in DOMAIN left
      /\ \A k \in DOMAIN said.left : k \in DOMAIN left /\ left[k] = said.left[k]
  BY <1>1
<1>3. said2 = [said EXCEPT !.left = left]
  OBVIOUS
<1> HIDE DEF left, said2
<1>4. said2 \in Said /\ said2.left = left /\ said2.args = said.args
  BY <1>2, <1>3 DEF Said
<1>5. Takes(said, said2, i)
  BY <1>2, <1>4 DEF Takes, IsLeft, IsInput
<1> QED
  BY <1>5 DEF said2

LEMMA InputSet ==
  ASSUME NEW args \in Args, NEW input \in Inputs, NEW i \in Nat
  PROVE  /\ [args EXCEPT ![input] = i] \in Args /\ [args EXCEPT ![input] = i][input] = i
         /\ \A x \in Inputs : x # input => [args EXCEPT ![input] = i][x] = args[x]
  BY DEF Args, Inputs

LEMMA FilledTakes ==
  ASSUME NEW said \in Said, NEW input \in {"target", "prefer", "force"}, NEW i \in Nat \ {0}
  PROVE  Takes(said, FillsInput(said, input, i), i)
<1> DEFINE said2 == FillsInput(said, input, i)
           args == [said.args EXCEPT ![input] = i]
<1>1. CASE said.args[input] = 0
  <2>1. said2 = [said EXCEPT !.args = args]
    BY <1>1 DEF FillsInput
  <2>2. said.args \in Args /\ input \in Inputs /\ input # "base" /\ "base" \in Inputs
    BY DEF Said, Inputs
  <2>3. args \in Args /\ args[input] = i /\ \A x \in Inputs : x # input => args[x] = said.args[x]
    BY <2>2, InputSet
  <2> HIDE DEF args, said2
  <2>4. said2 \in Said /\ said2.left = said.left /\ said2.args = args
    BY <2>1, <2>3 DEF Said
  <2>5. args.base = said.args.base
    BY <2>2, <2>3
  <2>6. Takes(said, said2, i)
    BY <1>1, <2>2, <2>3, <2>4, <2>5 DEF Takes, IsLeft, IsInput
  <2> QED
    BY <2>6 DEF said2
<1>2. CASE said.args[input] # 0
  <2>1. said2 = [said EXCEPT !.left = Append(@, i)]
    BY <1>2 DEF FillsInput
  <2> HIDE DEF said2
  <2> QED
    BY <2>1, LeftTakes DEF said2
<1> QED
  BY <1>1, <1>2

\* One more word.
LEMMA OneMoreWord ==
  ASSUME NEW words \in Seq(WordKinds), NEW n \in Nat, n < Len(words), NEW said, ReadUpTo(said, words, n)
  PROVE  ReadUpTo(TakesWord(words, said, n + 1), words, n + 1)
<1> DEFINE i == n + 1
           more == TakesWord(words, said, i)
<1>0. /\ i \in Nat \ {0} /\ i \in 1 .. Len(words) /\ words[i] \in WordKinds /\ said \in Said /\ said.args.base \in Nat
      /\ said.args.base <= i /\ said.args \in Args
  BY DEF ReadUpTo, Said, Args
\* What was there before still counts, when nothing but the flag's input is overwritten.
<1>k. ASSUME NEW said2 \in Said, said2.args.base >= said.args.base,
             \A j \in Nat \ {0} : IsLeft(said, j) => IsLeft(said2, j),
             \A j \in Nat \ {0} : IsInput(said, j) => IsInput(said2, j) \/ (j = said.args.base /\ said2.args.base > j)
      PROVE  \A j \in 1 .. n : Counts(said2, words, j)
  <2> SUFFICES ASSUME NEW j \in 1 .. n PROVE Counts(said2, words, j)
    OBVIOUS
  <2>1. j \in Nat \ {0} /\ Counts(said, words, j) /\ said2.args.base \in Nat
    BY DEF ReadUpTo, Said, Args
  <2>2. Again(said, words, j) => Again(said2, words, j)
    BY <1>k, <1>0, <2>1 DEF Again
  <2>3. j = said.args.base /\ said2.args.base > j => Again(said2, words, j)
    BY <2>1 DEF Again, ReadUpTo
  <2> QED
    BY <1>k, <2>1, <2>2, <2>3 DEF Counts
<1>j. ASSUME NEW said2, \A j \in 1 .. n : Counts(said2, words, j), Counts(said2, words, i)
      PROVE  \A j \in 1 .. i : Counts(said2, words, j)
  BY <1>j
<1>1. CASE FlagsValue(words, i)
  <2>1. more = said /\ said.args.base = i
    BY <1>1 DEF TakesWord, ReadUpTo
  <2>2. Counts(said, words, i)
    BY <2>1 DEF Counts, IsInput, Inputs
  <2>3. ~FlagsValue(words, i + 1)
    BY <1>1, <1>0 DEF FlagsValue, FlagWords
  <2> QED
    BY <2>1, <2>2, <2>3, <1>j DEF ReadUpTo
<1>2. CASE ~FlagsValue(words, i) /\ words[i] = "flag" /\ FlagsValue(words, i + 1)
  <2> DEFINE args == [said.args EXCEPT !["base"] = i + 1]
  <2>1. args \in Args /\ args["base"] = i + 1 /\ \A x \in Inputs : x # "base" => args[x] = said.args[x]
    <3>1. "base" \in Inputs /\ i + 1 \in Nat
      BY <1>0 DEF Inputs
    <3> QED
      BY <1>0, <3>1, InputSet
  <2>2. more = [said EXCEPT !.args = args]
    BY <1>2 DEF TakesWord
  <2> HIDE DEF args, more
  <2>3. more \in Said /\ more.args = args /\ more.left = said.left
    BY <1>0, <2>1, <2>2 DEF Said
  <2>4. \A j \in Nat \ {0} : IsInput(said, j) => IsInput(more, j) \/ (j = said.args.base /\ more.args.base > j)
    BY <1>0, <2>1, <2>3 DEF IsInput
  <2>5. \A j \in 1 .. n : Counts(more, words, j)
    BY <1>0, <2>1, <2>3, <2>4, <1>k DEF IsLeft
  <2>6. Counts(more, words, i)
    BY <1>0, <1>2, <2>1, <2>3 DEF Counts, Again
  <2>7. more.args.base = i + 1 /\ words[i + 1 - 1] = "flag" /\ i + 1 > 1
    BY <1>0, <1>2, <2>1, <2>3
  <2>8. more.args.target = said.args.target
    <3>1. args["target"] = said.args["target"]
      BY <2>1 DEF Inputs
    <3> QED
      BY <2>3, <3>1
  <2>9. more.args.target # 0 => words[more.args.target] = "number"
    BY <2>8 DEF ReadUpTo
  <2>10. \A j \in 1 .. i : Counts(more, words, j)
    BY <1>j, <2>5, <2>6
  <2>11. ReadUpTo(more, words, i)
    BY <1>0, <2>3, <2>7, <2>9, <2>10 DEF ReadUpTo
  <2> QED
    BY <2>11 DEF more
<1>3. CASE ~FlagsValue(words, i) /\ ~(words[i] = "flag" /\ FlagsValue(words, i + 1))
  <2>1. ~FlagsValue(words, i + 1)
    BY <1>0, <1>3 DEF FlagsValue
  <2>2. \/ \E input \in {"target", "prefer", "force"} : more = FillsInput(said, input, i)
        \/ more = [said EXCEPT !.left = Append(@, i)]
    BY <1>0, <1>3 DEF TakesWord, WordKinds
  <2>9. more.args.target # 0 => words[more.args.target] = "number"
    <3>1. CASE words[i] = "number"
      <4>1. more = FillsInput(said, "target", i)
        BY <1>3, <3>1 DEF TakesWord
      <4>2. said.args.target # 0 => more.args.target = said.args.target
        <5>1. said.args["target"] # 0 => more = [said EXCEPT !.left = Append(@, i)]
          BY <4>1, Zenon DEF FillsInput
        <5> HIDE DEF more
        <5> QED
          BY <1>0, <5>1 DEF Said
      <4>3. said.args.target = 0 => more.args.target = i
        <5> DEFINE args == [said.args EXCEPT !["target"] = i]
        <5>1. args \in Args /\ args["target"] = i
          BY <1>0, InputSet DEF Inputs
        <5>2. said.args.target = 0 => more = [said EXCEPT !.args = args]
          BY <4>1 DEF FillsInput
        <5> HIDE DEF args, more
        <5> QED
          BY <1>0, <5>1, <5>2 DEF Said
      <4> QED
        BY <3>1, <4>2, <4>3 DEF ReadUpTo
    <3>2. CASE words[i] # "number"
      <4>1. \/ \E input \in {"prefer", "force"} : more = FillsInput(said, input, i)
            \/ more = [said EXCEPT !.left = Append(@, i)]
        BY <1>0, <1>3, <3>2 DEF TakesWord, WordKinds
      <4>2. more.args.target = said.args.target
        BY <1>0, <4>1 DEF FillsInput, Said, Args
      <4> QED
        BY <4>2 DEF ReadUpTo
    <3> QED
      BY <3>1, <3>2
  <2>3. Takes(said, more, i)
    BY <1>0, <2>2, FilledTakes, LeftTakes
  <2> HIDE DEF more
  <2>4. \A j \in 1 .. n : Counts(more, words, j)
    BY <1>0, <2>3, <1>k DEF Takes
  <2>5. Counts(more, words, i) /\ more.args.base <= i + 1 /\ more.args.base = said.args.base /\ more \in Said
    BY <1>0, <2>3 DEF Counts, Takes
  <2>6. more.args.base # 0 => more.args.base > 1 /\ words[more.args.base - 1] = "flag"
    BY <2>5 DEF ReadUpTo
  <2>7. \A j \in 1 .. i : Counts(more, words, j)
    BY <1>j, <2>4, <2>5
  <2>8. ReadUpTo(more, words, i)
    BY <2>1, <2>5, <2>6, <2>7, <2>9 DEF ReadUpTo
  <2> QED
    BY <2>8 DEF more
<1> QED
  BY <1>1, <1>2, <1>3

\* No word is dropped: dispatch.ts parses them all, and the event's number
\* replaces only what a number said.
LEMMA WordsCount ==
  ASSUME NEW words \in Seq(WordKinds), NEW i \in DOMAIN words
  PROVE  ParsedWords(words) \in Said /\ Counts(ParsedWords(words), words, i)
<1>1. PICK said : /\ said = [k \in 0 .. Len(words) |-> IF k = 0 THEN NothingSaid ELSE TakesWord(words, said[k - 1], k)]
                  /\ ParsedWords(words) = [said[Len(words)] EXCEPT !.args.target = 0]
  BY WordsAreRead
<1> DEFINE Unread == {n \in 0 .. Len(words) : ~ReadUpTo(said[n], words, n)}
<1>2. Len(words) \in Nat /\ DOMAIN words = 1 .. Len(words)
  OBVIOUS
<1>3. Unread = {}
  <2> SUFFICES ASSUME Unread # {} PROVE FALSE
    OBVIOUS
  <2>1. PICK n \in Unread : \A k \in Unread : n <= k
    <3>1. Unread \in SUBSET Nat
      OBVIOUS
    <3> QED
      BY <3>1, LeastPlace
  <2>2. n # 0
    <3>1. said[0] = NothingSaid
      BY <1>1, <1>2
    <3>2. NothingSaid \in Said /\ NothingSaid.args.base = 0 /\ NothingSaid.args.target = 0
      BY DEF NothingSaid, Said, Args
    <3>3. ReadUpTo(NothingSaid, words, 0)
      BY <3>2 DEF ReadUpTo, FlagsValue
    <3> QED
      BY <3>1, <3>3, <2>1
  <2>3. n - 1 \in 0 .. Len(words) /\ ~(n <= n - 1) /\ n - 1 \in Nat /\ n - 1 < Len(words) /\ n - 1 + 1 = n /\ n \in 0 .. Len(words)
    BY <1>2, <2>1, <2>2
  <2>4. ReadUpTo(said[n - 1], words, n - 1)
    BY <2>1, <2>3
  <2>5. said[n] = TakesWord(words, said[n - 1], n)
    BY <1>1, <2>2, <2>3
  <2>6. ReadUpTo(TakesWord(words, said[n - 1], n - 1 + 1), words, n - 1 + 1)
    BY <2>3, <2>4, OneMoreWord
  <2> QED
    BY <2>1, <2>3, <2>5, <2>6
<1> DEFINE all == said[Len(words)]
<1>4. ReadUpTo(all, words, Len(words))
  BY <1>2, <1>3
<1> HIDE DEF all
<1>5. all \in Said /\ Counts(all, words, i)
  BY <1>2, <1>4 DEF ReadUpTo
<1>6. all.args \in Args /\ all.left \in Seq(Nat) /\ (all.args.target # 0 => words[all.args.target] = "number")
  BY <1>4 DEF ReadUpTo, Said
<1> DEFINE args == [all.args EXCEPT !["target"] = 0]
           parsed == ParsedWords(words)
<1>7. args \in Args /\ args["target"] = 0 /\ \A x \in Inputs : x # "target" => args[x] = all.args[x]
  <2>1. "target" \in Inputs /\ 0 \in Nat
    BY DEF Inputs
  <2> QED
    BY <1>6, <2>1, InputSet
<1>8. parsed = [all EXCEPT !.args = args]
  BY <1>1 DEF all
<1> HIDE DEF args, parsed
<1>9. parsed.left = all.left /\ parsed.args = args /\ parsed \in Said
  BY <1>5, <1>7, <1>8 DEF Said
<1>10. IsInput(all, i) => words[i] = "number" \/ IsInput(parsed, i)
  <2>1. i # 0
    BY <1>2
  <2> QED
    BY <2>1, <1>6, <1>7, <1>9 DEF IsInput, Inputs
<1>11. Again(all, words, i) => Again(parsed, words, i)
  <2>1. args["base"] = all.args["base"]
    BY <1>7 DEF Inputs
  <2> QED
    BY <2>1, <1>9 DEF Again
<1>12. Counts(parsed, words, i)
  BY <1>5, <1>9, <1>10, <1>11 DEF Counts, IsLeft
<1> QED
  BY <1>9, <1>12 DEF parsed

-----------------------------------------------------------------------------
\* What the run knows of what started it, place by place.
CiWords == {NothingSaid, ParsedWords(ciStart.words)}
Unrouted == ciStart.request \notin {"invalid", "unsupported"} /\ ~ciStart.flag /\ ~RoutesEvent
Routed == ciStart.request # "invalid" /\ (ciStart.flag \/ RoutesEvent)
NotToldYet == ci.job = "none" /\ shown = [comments |-> {}, label |-> "none", lost |-> FALSE]
NoComment == ciStart.request = "none" => ciStart.event # "comment"
Places == {"config", "merged", "dispatch", "oneShot", "classify", "preflight", "job", "fanOut", "watches", "ended"}
CiType ==
  /\ ciStart \in CiStarts
  /\ ci \in [at : Places, config : {"ok", "invalid"}, job : {"none", "oneShot", "target", "fanOut"}, exit : Nat, words : CiWords,
             left : SUBSET DOMAIN Watches, ran : SUBSET DOMAIN Watches, faults : Nat]
  /\ shown \in [comments : SUBSET {"rejected", "unrecognized", "failure"}, label : {"none", "done", "failed"}, lost : BOOLEAN]
ByPlace ==
  /\ ci.at = "config" => ci.config = "ok"
  /\ ci.at \in Places \ {"watches", "ended"} => NotToldYet
  /\ ci.at \in {"preflight", "job"} => Routed /\ ci.words = ParsedWords(ciStart.words)
  /\ ci.at = "classify" => Unrouted
  /\ ci.at \in {"oneShot", "fanOut", "watches"} => NoComment
  /\ ci.at = "watches" => ci.job = "fanOut"
  /\ ci.job = "target" => ci.words = ParsedWords(ciStart.words)
CiInv == CiType /\ ByPlace /\ AddressedIsAnswered

\* A run starts with nothing shown.
LEMMA CiRunStarts == CiRunInit => CiInv
BY CiRunAssumption DEF CiRunInit, CiInv, CiType, ByPlace, AddressedIsAnswered, CiWords, Places, NotToldYet

\* A step that ends the run, and shows what it does unless showing fails.
LEMMA ShowingShows ==
  ASSUME CiInv, NEW process \in [at : {"ended"}, config : {ci.config}, job : {"none", "oneShot", "target", "fanOut"}, exit : Nat,
                                 words : {ci.words}, left : SUBSET DOMAIN Watches, ran : SUBSET DOMAIN Watches, faults : Nat],
         NEW comments \in SUBSET {"rejected", "unrecognized", "failure"}, NEW label \in {"none", "done", "failed"},
         NotToldYet, Shows(comments, label, process), UNCHANGED ciStart
  PROVE  /\ CiType' /\ ci'.at = "ended" /\ ci'.job = process.job /\ ci'.config = ci.config /\ ci'.words = ci.words /\ ci'.exit = process.exit
         /\ ~shown'.lost => comments \subseteq shown'.comments /\ shown'.label = label
<1>1. CASE ci' = process /\ shown' = [shown EXCEPT !.comments = @ \cup comments, !.label = IF label = "none" THEN @ ELSE label]
  BY <1>1 DEF CiInv, CiType, CiWords, Places, NotToldYet
<1>2. CASE CiFault("github") /\ ci' = Faulted(process) /\ shown' = [shown EXCEPT !.lost = TRUE]
  <2>1. /\ ci'.at = "ended" /\ ci'.config = ci.config /\ ci'.job = process.job /\ ci'.exit = process.exit /\ ci'.words = ci.words
        /\ ci' \in [at : Places, config : {ci.config}, job : {"none", "oneShot", "target", "fanOut"}, exit : Nat,
                    words : {ci.words}, left : SUBSET DOMAIN Watches, ran : SUBSET DOMAIN Watches, faults : Nat]
    BY <1>2 DEF Faulted, Places
  <2>2. shown' = [comments |-> {}, label |-> "none", lost |-> TRUE]
    BY <1>2 DEF NotToldYet
  <2>3. CiType'
    BY <2>1, <2>2 DEF CiInv, CiType, CiWords
  <2> QED
    BY <2>1, <2>2, <2>3
<1> QED
  BY <1>1, <1>2 DEF Shows


\* The steps that only move on.
Moved(place) ==
  /\ ci' = [ci EXCEPT !.at = place] /\ UNCHANGED <<ciStart, shown>>
LEMMA MovingOn ==
  ASSUME CiInv, NEW place \in Places \ {"ended"}, ci.at \in Places \ {"ended"}, Moved(place)
  PROVE  /\ CiType' /\ AddressedIsAnswered' /\ ci'.at = place /\ ci'.job = ci.job /\ ci'.words = ci.words /\ (RoutesEvent' <=> RoutesEvent)
         /\ (Routed' <=> Routed) /\ (Unrouted' <=> Unrouted) /\ (NoComment' <=> NoComment) /\ (NotToldYet' <=> NotToldYet)
         /\ ci'.config = ci.config
<1>1. /\ ci'.at = place /\ ci'.config = ci.config /\ ci'.job = ci.job /\ ci'.words = ci.words
      /\ CiType'
  BY DEF Moved, CiInv, CiType, CiWords
<1>2. AddressedIsAnswered'
  BY <1>1 DEF AddressedIsAnswered
<1>3. RoutesEvent' <=> RoutesEvent
  BY <1>1 DEF Moved, RoutesEvent, CommentRoutes, CommenterAllowed, TypedToken, HasDefault, DispatchRoutes, PullRequestRoutes
<1> QED
  BY <1>1, <1>2, <1>3 DEF Moved, Routed, Unrouted, NoComment, NotToldYet

LEMMA ConfigKeeps == CiInv /\ LoadCiConfig => CiInv'
<1> SUFFICES ASSUME CiInv, LoadCiConfig PROVE CiInv'
  OBVIOUS
<1>1. /\ ci.at = "config" /\ ci'.at = "merged" /\ ci'.job = ci.job /\ ci'.words = ci.words /\ UNCHANGED <<ciStart, shown>>
      /\ CiType'
  <2>1. CASE ci' = [ci EXCEPT !.at = "merged"]
    BY <2>1 DEF LoadCiConfig, CiInv, CiType, CiWords, Places
  <2>2. CASE ci' = Faulted([ci EXCEPT !.at = "merged", !.config = "invalid"])
    <3> DEFINE read == [ci EXCEPT !.at = "merged", !.config = "invalid"]
    <3>1. /\ read.at = "merged" /\ read.job = ci.job /\ read.words = ci.words
          /\ read \in [at : Places, config : {"ok", "invalid"}, job : {"none", "oneShot", "target", "fanOut"}, exit : Nat,
                      words : CiWords, left : SUBSET DOMAIN Watches, ran : SUBSET DOMAIN Watches, faults : Nat]
      BY DEF CiInv, CiType, Places
    <3>2. ci' = [read EXCEPT !.faults = @ + 1]
      BY <2>2 DEF Faulted
    <3> HIDE DEF read
    <3>3. ci.at = "config" /\ UNCHANGED <<ciStart, shown>>
      BY DEF LoadCiConfig
    <3> QED
      BY <3>1, <3>2, <3>3 DEF CiInv, CiType, CiWords
  <2> QED
    BY <2>1, <2>2 DEF LoadCiConfig
<1>2. NotToldYet'
  BY <1>1 DEF CiInv, ByPlace, NotToldYet, Places
<1>3. ByPlace'
  BY <1>1, <1>2 DEF CiInv, ByPlace, NotToldYet
<1>4. AddressedIsAnswered'
  BY <1>1 DEF AddressedIsAnswered
<1> QED
  BY <1>1, <1>3, <1>4 DEF CiInv

LEMMA MergedKeeps == CiInv /\ FinalizeMerged => CiInv'
<1> SUFFICES ASSUME CiInv, FinalizeMerged PROVE CiInv'
  OBVIOUS
<1>0. ci.at = "merged" /\ NotToldYet
  BY DEF FinalizeMerged, CiInv, ByPlace, Places
<1>1. CASE Merged
  <2> DEFINE process == CiEnded(ci, 0)
  <2>1. process \in [at : {"ended"}, config : {ci.config}, job : {"none", "oneShot", "target", "fanOut"}, exit : Nat,
                     words : {ci.words}, left : SUBSET DOMAIN Watches, ran : SUBSET DOMAIN Watches, faults : Nat]
        /\ process.job = "none"
    BY <1>0 DEF CiEnded, CiInv, CiType, NotToldYet
  <2>2. Shows({}, "done", process) /\ UNCHANGED ciStart
    BY <1>1 DEF FinalizeMerged
  <2> HIDE DEF process
  <2>3. CiType' /\ ci'.at = "ended" /\ ci'.job = "none" /\ UNCHANGED ciStart
    BY <1>0, <2>1, <2>2, ShowingShows
  <2>4. ciStart'.event = "pull_request"
    BY <1>1, <2>3 DEF Merged
  <2> QED
    BY <2>3, <2>4 DEF CiInv, ByPlace, AddressedIsAnswered, AskedByPerson, IsComment, RejectedComment
<1>2. CASE ~Merged
  <2>1. Moved("dispatch")
    BY <1>2 DEF FinalizeMerged, Moved
  <2>2. /\ CiType' /\ AddressedIsAnswered' /\ ci'.at = "dispatch" /\ NotToldYet'
    BY <1>0, <2>1, MovingOn DEF Places
  <2> QED
    BY <2>2 DEF CiInv, ByPlace, NotToldYet
<1> QED
  BY <1>1, <1>2

LEMMA DispatchKeeps == CiInv /\ DispatchEvent => CiInv'
<1> SUFFICES ASSUME CiInv, DispatchEvent PROVE CiInv'
  OBVIOUS
<1>0. ci.at = "dispatch" /\ NotToldYet /\ UNCHANGED <<ciStart, shown>>
  BY DEF DispatchEvent, CiInv, ByPlace, Places
<1> DEFINE nothing == ciStart.event = "none" /\ ciStart.request = "none"
<1>1. \/ ciStart.request \in {"invalid", "unsupported"} /\ ci' = CiEnded(ci, 64)
      \/ Routed /\ ci' = [ci EXCEPT !.at = "preflight", !.words = ParsedWords(ciStart.words)]
      \/ Unrouted /\ OneShotAsked /\ ci' = [ci EXCEPT !.at = "oneShot"]
      \/ Unrouted /\ ~OneShotAsked /\ FanOutAsked /\ ci' = [ci EXCEPT !.at = "fanOut"]
      \/ nothing /\ ci' = CiEnded(ci, 64)
      \/ Unrouted /\ ci' = [ci EXCEPT !.at = "classify"]
  BY Zenon DEF DispatchEvent, Routed, Unrouted
<1>2. CASE (ciStart.request \in {"invalid", "unsupported"} \/ nothing) /\ ci' = CiEnded(ci, 64)
  <2>1. CiType' /\ ci'.at = "ended" /\ ci'.job = "none"
    BY <1>0, <1>2 DEF CiInv, CiType, CiEnded, CiWords, Places, NotToldYet
  <2>2. ByPlace'
    BY <2>1 DEF ByPlace
  <2>3. ciStart.request # "none" \/ ~IsComment'
    BY <1>0, <1>2 DEF IsComment
  <2>4. AddressedIsAnswered'
    BY <1>0, <2>1, <2>3 DEF AddressedIsAnswered, AskedByPerson, RejectedComment
  <2> QED
    BY <2>1, <2>2, <2>4 DEF CiInv
<1>3. CASE Routed /\ ci' = [ci EXCEPT !.at = "preflight", !.words = ParsedWords(ciStart.words)]
  <2>1. CiType' /\ ci'.at = "preflight" /\ ci'.job = ci.job /\ ci'.config = ci.config /\ ci'.words = ParsedWords(ciStart.words)
    BY <1>0, <1>3 DEF CiInv, CiType, CiWords, Places
  <2>2. Routed' /\ NotToldYet'
    BY <1>0, <1>3, <2>1 DEF Routed, NotToldYet, RoutesEvent, CommentRoutes, CommenterAllowed, TypedToken, HasDefault, DispatchRoutes,
      PullRequestRoutes
  <2>3. ByPlace'
    BY <1>0, <2>1, <2>2 DEF ByPlace
  <2>4. AddressedIsAnswered'
    BY <2>1 DEF AddressedIsAnswered
  <2> QED
    BY <2>1, <2>3, <2>4 DEF CiInv
<1>4. ASSUME NEW place \in {"oneShot", "fanOut", "classify"}, ci' = [ci EXCEPT !.at = place],
             place = "classify" => Unrouted, place # "classify" => NoComment
      PROVE  CiInv'
  <2>1. Moved(place) /\ place \in Places \ {"ended"} /\ ci.at \in Places \ {"ended"}
    BY <1>0, <1>4 DEF Moved, Places
  <2>2. /\ CiType' /\ AddressedIsAnswered' /\ ci'.at = place /\ ci'.job = ci.job /\ ci'.words = ci.words /\ (Unrouted' <=> Unrouted)
        /\ (NoComment' <=> NoComment) /\ NotToldYet'
    BY <1>0, <2>1, MovingOn
  <2>3. ByPlace'
    BY <1>0, <1>4, <2>2 DEF ByPlace, NotToldYet
  <2> QED
    BY <2>2, <2>3 DEF CiInv
<1>5. (OneShotAsked \/ FanOutAsked) => NoComment
  BY DEF OneShotAsked, FanOutAsked, NoComment
<1> QED
  BY <1>1, <1>2, <1>3, <1>4, <1>5

CiRecord(words) == [at : Places, config : {"ok", "invalid"}, job : {"none", "oneShot", "target", "fanOut"}, exit : Nat,
                    words : words, left : SUBSET DOMAIN Watches, ran : SUBSET DOMAIN Watches, faults : Nat]
LEMMA EndsSo ==
  ASSUME NEW words, NEW process \in CiRecord(words), NEW code \in Nat
  PROVE  /\ CiEnded(process, code) \in CiRecord(words) /\ CiEnded(process, code).at = "ended" /\ CiEnded(process, code).exit = code
         /\ CiEnded(process, code).job = process.job /\ CiEnded(process, code).config = process.config
         /\ CiEnded(process, code).words = process.words
<1>1. "ended" \in Places
  BY DEF Places
<1> QED
  BY <1>1 DEF CiEnded, CiRecord

\* A step that ends the run and shows nothing.
LEMMA EndingQuietly ==
  ASSUME CiInv, UNCHANGED <<ciStart, shown>>, NotToldYet, ci' \in CiRecord({ci.words}), ci'.at = "ended",
         ci'.job # "target", ~IsComment \/ ciStart.request # "none"
  PROVE  CiInv'
<1>1. CiType'
  BY DEF CiInv, CiType, CiRecord, CiWords
<1>2. ByPlace'
  BY DEF ByPlace
<1>3. AddressedIsAnswered'
  BY DEF AddressedIsAnswered, AskedByPerson, IsComment, RejectedComment
<1> QED
  BY <1>1, <1>2, <1>3 DEF CiInv

LEMMA OneShotKeeps == CiInv /\ RunOneShot => CiInv'
<1> SUFFICES ASSUME CiInv, RunOneShot PROVE CiInv'
  OBVIOUS
<1>0. ci.at = "oneShot" /\ NotToldYet /\ NoComment /\ UNCHANGED <<ciStart, shown>>
  BY DEF RunOneShot, CiInv, ByPlace, Places
<1>1. ci \in CiRecord({ci.words}) /\ ci.job = "none"
  BY <1>0 DEF CiInv, CiType, CiRecord, NotToldYet
<1>2. ci' \in CiRecord({ci.words}) /\ ci'.at = "ended" /\ ci'.job # "target"
  <2>1. CASE ci' = CiEnded(ci, 99) \/ ci' = CiEnded(ci, 64)
    BY <2>1, <1>1, EndsSo
  <2>2. CASE ci' = Faulted(CiEnded(ci, 99))
    <3>1. CiEnded(ci, 99) \in CiRecord({ci.words}) /\ CiEnded(ci, 99).at = "ended" /\ CiEnded(ci, 99).job = "none"
      BY <1>1, EndsSo
    <3> DEFINE failed == CiEnded(ci, 99)
    <3> HIDE DEF failed
    <3>2. failed \in CiRecord({ci.words}) /\ failed.at = "ended" /\ failed.job = "none" /\ ci' = Faulted(failed)
      BY <2>2, <3>1 DEF failed
    <3> QED
      BY <3>2 DEF Faulted, CiRecord
  <2>3. CASE \E code \in JobExits : ci' = CiEnded([ci EXCEPT !.job = "oneShot"], ExitByte(code))
    <3>1. PICK code \in JobExits : ci' = CiEnded([ci EXCEPT !.job = "oneShot"], ExitByte(code))
      BY <2>3
    <3>2. ExitByte(code) \in Nat
      BY CiRunAssumption DEF ExitByte
    <3> QED
      BY <1>1, <3>1, <3>2 DEF CiEnded, CiRecord, Places
  <2> QED
    BY <2>1, <2>2, <2>3 DEF RunOneShot
<1> QED
  BY <1>0, <1>2, EndingQuietly DEF NoComment, IsComment

LEMMA FanOutKeeps == CiInv /\ FanOut => CiInv'
<1> SUFFICES ASSUME CiInv, FanOut PROVE CiInv'
  OBVIOUS
<1>0. ci.at = "fanOut" /\ NotToldYet /\ NoComment /\ UNCHANGED <<ciStart, shown>>
  BY DEF FanOut, CiInv, ByPlace, Places
<1>1. ci \in CiRecord({ci.words}) /\ ci.job = "none" /\ MatchingWatches \in SUBSET DOMAIN Watches
  BY <1>0 DEF CiInv, CiType, CiRecord, NotToldYet, MatchingWatches
<1>2. CASE ci' = CiEnded(ci, 0) \/ ci' = CiEnded(ci, 99) \/ ci' = Faulted(CiEnded(ci, 99))
  <2>1. \A code \in {0, 99} : CiEnded(ci, code) \in CiRecord({ci.words}) /\ CiEnded(ci, code).at = "ended" /\ CiEnded(ci, code).job = "none"
    BY <1>1, EndsSo
  <2>2. ci' \in CiRecord({ci.words}) /\ ci'.at = "ended" /\ ci'.job = "none"
    <3> DEFINE failed == CiEnded(ci, 99)
    <3>1. failed \in CiRecord({ci.words}) /\ failed.at = "ended" /\ failed.job = "none"
      BY <2>1
    <3> HIDE DEF failed
    <3>2. Faulted(failed) \in CiRecord({ci.words}) /\ Faulted(failed).at = "ended" /\ Faulted(failed).job = "none"
      BY <3>1 DEF Faulted, CiRecord
    <3> QED
      BY <1>2, <2>1, <3>2 DEF failed
  <2> QED
    BY <1>0, <2>2, EndingQuietly DEF NoComment, IsComment
<1>3. CASE ci' = [ci EXCEPT !.at = "watches", !.job = "fanOut", !.left = MatchingWatches]
  <2>1. ci' \in CiRecord({ci.words}) /\ ci'.at = "watches" /\ ci'.job = "fanOut"
    BY <1>1, <1>3 DEF CiRecord, Places
  <2>2. CiType'
    BY <1>0, <2>1 DEF CiInv, CiType, CiRecord, CiWords
  <2>3. ByPlace'
    BY <1>0, <2>1 DEF ByPlace, NoComment
  <2>4. AddressedIsAnswered'
    BY <2>1 DEF AddressedIsAnswered
  <2> QED
    BY <2>2, <2>3, <2>4 DEF CiInv
<1> QED
  BY <1>2, <1>3 DEF FanOut

LEMMA WatchKeeps == CiInv /\ RunWatch => CiInv'
<1> SUFFICES ASSUME CiInv, RunWatch PROVE CiInv'
  OBVIOUS
<1>0. ci.at = "watches" /\ NoComment /\ ci.job = "fanOut" /\ UNCHANGED <<ciStart, shown>>
  BY DEF RunWatch, CiInv, ByPlace, Places
<1>1. PICK w \in ci.left, code \in JobExits \cup {99} :
        LET process == [ci EXCEPT !.left = @ \ {w}, !.ran = @ \cup {w}, !.exit = IF code > @ THEN code ELSE @] IN
        ci' = IF process.left = {} THEN [process EXCEPT !.at = "ended"] ELSE process
  BY DEF RunWatch
<1> DEFINE process == [ci EXCEPT !.left = @ \ {w}, !.ran = @ \cup {w}, !.exit = IF code > @ THEN code ELSE @]
<1>2. code \in Nat /\ w \in DOMAIN Watches
  BY <1>1, CiRunAssumption DEF CiInv, CiType
<1>3. process \in CiRecord({ci.words}) /\ process.at = "watches" /\ process.job = "fanOut"
  BY <1>0, <1>2 DEF CiInv, CiType, CiRecord
<1>4. ci' = [process EXCEPT !.at = "ended"] \/ ci' = process
  BY <1>1
<1> HIDE DEF process
<1>5. ci' \in CiRecord({ci.words}) /\ ci'.at \in {"watches", "ended"} /\ ci'.job = "fanOut"
  BY <1>3, <1>4 DEF CiRecord, Places
<1>6. CiType'
  BY <1>0, <1>5 DEF CiInv, CiType, CiRecord, CiWords
<1>7. ByPlace'
  BY <1>0, <1>5 DEF ByPlace, NoComment
<1>8. AddressedIsAnswered'
  BY <1>0, <1>5 DEF AddressedIsAnswered, NoComment, AskedByPerson, IsComment, RejectedComment
<1> QED
  BY <1>6, <1>7, <1>8 DEF CiInv

\* What is shown when the run ends as process says.
LEMMA EndingShown ==
  ASSUME CiInv, NotToldYet, NEW process \in CiRecord({ci.words}), process.at = "ended", process.config = ci.config,
         NEW comments \in SUBSET {"rejected", "unrecognized", "failure"}, NEW label \in {"none", "done", "failed"},
         Shows(comments, label, process), UNCHANGED ciStart
  PROVE  /\ CiType' /\ ci'.at = "ended" /\ ci'.job = process.job /\ ci'.config = ci.config /\ ci'.words = ci.words /\ ci'.exit = process.exit
         /\ ~shown'.lost => comments \subseteq shown'.comments /\ shown'.label = label
<1>1. process \in [at : {"ended"}, config : {ci.config}, job : {"none", "oneShot", "target", "fanOut"}, exit : Nat,
                   words : {ci.words}, left : SUBSET DOMAIN Watches, ran : SUBSET DOMAIN Watches, faults : Nat]
  BY DEF CiRecord
<1> QED
  BY <1>1, ShowingShows

LEMMA ClassifyKeeps == CiInv /\ ClassifyEvent => CiInv'
<1> SUFFICES ASSUME CiInv, ClassifyEvent PROVE CiInv'
  OBVIOUS
<1>0. ci.at = "classify" /\ NotToldYet /\ Unrouted /\ UNCHANGED ciStart /\ ciStart.by \in {"person", "outsider", "bot"}
  BY CiRunAssumption DEF ClassifyEvent, CiInv, CiType, ByPlace, Places
<1>1. ci \in CiRecord({ci.words}) /\ ci.job = "none"
  BY <1>0 DEF CiInv, CiType, CiRecord, NotToldYet
<1>2. \A code \in {0, 64} : CiEnded(ci, code) \in CiRecord({ci.words}) /\ CiEnded(ci, code).at = "ended" /\ CiEnded(ci, code).job = "none"
                            /\ CiEnded(ci, code).config = ci.config
  BY <1>1, EndsSo
<1>3. ASSUME ciStart.event = "comment"
      PROVE  ~CommentRoutes
  BY <1>0, <1>3 DEF Unrouted, RoutesEvent
<1>4. ASSUME CiType', ci'.at = "ended", ci'.job = "none", AddressedIsAnswered'
      PROVE  CiInv'
  BY <1>4 DEF CiInv, ByPlace
<1>5. CASE RejectedComment
  <2>1. Shows({"rejected"}, "failed", CiEnded(ci, 64))
    BY <1>5 DEF ClassifyEvent
  <2>2. CiType' /\ ci'.at = "ended" /\ ci'.job = "none" /\ (~shown'.lost => shown'.label = "failed")
    BY <1>0, <1>2, <2>1, EndingShown
  <2>3. AddressedIsAnswered'
    BY <1>0, <1>5, <2>2 DEF AddressedIsAnswered, AskedByPerson, RejectedComment, IsComment
  <2> QED
    BY <1>4, <2>2, <2>3
<1>6. CASE ~RejectedComment /\ UnrecognizedComment
  <2>1. Shows({"unrecognized"}, "none", CiEnded(ci, 0))
    BY <1>6 DEF ClassifyEvent
  <2>2. CiType' /\ ci'.at = "ended" /\ ci'.job = "none" /\ (~shown'.lost => "unrecognized" \in shown'.comments)
    BY <1>0, <1>2, <2>1, EndingShown
  <2>3. ciStart.token = "unknown"
    BY <1>3, <1>6 DEF UnrecognizedComment, IsComment, TypedToken, CommentRoutes
  <2>4. AddressedIsAnswered'
    BY <1>0, <1>6, <2>2, <2>3 DEF AddressedIsAnswered, AskedByPerson, RejectedComment, UnrecognizedComment, IsComment, TypedToken
  <2> QED
    BY <1>4, <2>2, <2>4
<1>7. CASE ~RejectedComment /\ ~UnrecognizedComment
  <2>1. (\E code \in {0, 64} : ci' = CiEnded(ci, code)) /\ UNCHANGED shown
    BY <1>7 DEF ClassifyEvent
  <2>2. CiType' /\ ci'.at = "ended" /\ ci'.job = "none" /\ ci'.config = ci.config
    BY <1>0, <1>2, <2>1 DEF CiInv, CiType, CiRecord, CiWords
  <2>3. AskedByPerson => ciStart.mention /\ CommenterAllowed /\ ciStart.by # "bot" /\ ~TypedToken /\ ~HasDefault
    BY <1>3, <1>7 DEF AskedByPerson, IsComment, CommenterAllowed, UnrecognizedComment, CommentRoutes
  <2>4. AddressedIsAnswered'
    BY <1>0, <1>7, <2>2, <2>3 DEF AddressedIsAnswered, AskedByPerson, RejectedComment, IsComment, TypedToken, HasDefault
  <2> QED
    BY <1>4, <2>2, <2>4
<1> QED
  BY <1>5, <1>6, <1>7

\* A comment that got as far as its job is a command of a person who may give one.
LEMMA RoutedComment ==
  ASSUME CiInv, Routed, ciStart.request = "none", ~ciStart.flag, IsComment
  PROVE  /\ ciStart.by # "bot" /\ CommenterAllowed /\ (ciStart.token = "known" \/ ~TypedToken)
         /\ (ci.config = "ok" => AskedByPerson)
<1>1. CommentRoutes
  BY DEF Routed, RoutesEvent, IsComment
<1>2. ciStart.by \in {"person", "outsider", "bot"}
  BY CiRunAssumption DEF CiInv, CiType
<1> QED
  BY <1>1, <1>2 DEF CommentRoutes, CommenterAllowed, AskedByPerson

LEMMA PrepareKeeps == CiInv /\ PrepareJob => CiInv'
<1> SUFFICES ASSUME CiInv, PrepareJob PROVE CiInv'
  OBVIOUS
<1>0. ci.at = "preflight" /\ NotToldYet /\ Routed /\ UNCHANGED ciStart /\ ci.words = ParsedWords(ciStart.words)
  BY DEF PrepareJob, CiInv, ByPlace, Places
<1>1. ci \in CiRecord({ci.words}) /\ ci.job = "none"
  BY <1>0 DEF CiInv, CiType, CiRecord, NotToldYet
<1>2. CASE ci' = [ci EXCEPT !.at = "job"] /\ UNCHANGED shown
  <2>1. Moved("job") /\ ci.at \in Places \ {"ended"} /\ "job" \in Places \ {"ended"}
    BY <1>0, <1>2 DEF Moved, Places
  <2>2. /\ CiType' /\ AddressedIsAnswered' /\ ci'.at = "job" /\ ci'.job = "none" /\ ci'.words = ci.words /\ Routed' /\ NotToldYet'
    BY <1>0, <1>1, <2>1, MovingOn
  <2>3. ByPlace'
    BY <1>0, <2>2 DEF ByPlace
  <2> QED
    BY <2>2, <2>3 DEF CiInv
<1>3. CASE FailureTail(Faulted(CiEnded(ci, 99)))
  <2> DEFINE failed == CiEnded(ci, 99)
             process == Faulted(failed)
  <2>1. failed \in CiRecord({ci.words}) /\ failed.at = "ended" /\ failed.job = "none" /\ failed.config = ci.config
    BY <1>1, EndsSo
  <2>2. Shows({"failure"}, "failed", process)
    BY <1>3 DEF FailureTail
  <2> HIDE DEF failed
  <2>3. process \in CiRecord({ci.words}) /\ process.at = "ended" /\ process.job = "none" /\ process.config = ci.config
    BY <2>1 DEF Faulted, CiRecord
  <2> HIDE DEF process
  <2>4. /\ CiType' /\ ci'.at = "ended" /\ ci'.job = "none"
        /\ ~shown'.lost => "failure" \in shown'.comments /\ shown'.label = "failed"
    BY <1>0, <2>2, <2>3, EndingShown
  <2>5. AddressedIsAnswered'
    BY <1>0, <2>4, RoutedComment DEF AddressedIsAnswered, AskedByPerson, RejectedComment, IsComment, TypedToken
  <2> QED
    BY <2>4, <2>5 DEF CiInv, ByPlace
<1> QED
  BY <1>2, <1>3 DEF PrepareJob

LEMMA JobKeeps == CiInv /\ RunCiJob => CiInv'
<1> SUFFICES ASSUME CiInv, RunCiJob PROVE CiInv'
  OBVIOUS
<1>0. ci.at = "job" /\ NotToldYet /\ Routed /\ UNCHANGED ciStart /\ ci.words = ParsedWords(ciStart.words)
  BY DEF RunCiJob, CiInv, ByPlace, Places
<1>1. ci \in CiRecord({ci.words}) /\ ci.job = "none"
  BY <1>0 DEF CiInv, CiType, CiRecord, NotToldYet
\* Shown as a failure, with the job run or the configuration unreadable.
<1>2. ASSUME NEW process \in CiRecord({ci.words}), process.at = "ended", process.config = ci.config, FailureTail(process),
             process.job = "none" \/ (process.job = "target" /\ ci.config = "ok")
      PROVE  CiInv'
  <2>1. /\ CiType' /\ ci'.at = "ended" /\ ci'.job = process.job /\ ci'.words = ci.words
        /\ ~shown'.lost => "failure" \in shown'.comments /\ shown'.label = "failed"
    BY <1>0, <1>2, EndingShown DEF FailureTail
  <2>2. AddressedIsAnswered'
    BY <1>0, <1>2, <2>1, RoutedComment DEF AddressedIsAnswered, AskedByPerson, RejectedComment, IsComment, TypedToken
  <2>3. ByPlace'
    BY <1>0, <2>1 DEF ByPlace
  <2> QED
    BY <2>1, <2>2, <2>3 DEF CiInv
<1>3. CASE ci.config = "invalid" /\ FailureTail(CiEnded(ci, 99))
  <2>1. CiEnded(ci, 99) \in CiRecord({ci.words}) /\ CiEnded(ci, 99).at = "ended" /\ CiEnded(ci, 99).job = "none"
        /\ CiEnded(ci, 99).config = ci.config
    BY <1>1, EndsSo
  <2> QED
    BY <1>2, <1>3, <2>1
<1>4. ASSUME NEW code \in Nat
      PROVE  LET process == CiEnded([ci EXCEPT !.job = "target"], code) IN
             /\ process \in CiRecord({ci.words}) /\ process.at = "ended" /\ process.job = "target" /\ process.config = ci.config
             /\ process.exit = code /\ process.words = ci.words
  <2> DEFINE served == [ci EXCEPT !.job = "target"]
  <2>1. served \in CiRecord({ci.words}) /\ served.job = "target" /\ served.config = ci.config /\ served.words = ci.words
    BY <1>1 DEF CiRecord
  <2> HIDE DEF served
  <2>2. /\ CiEnded(served, code) \in CiRecord({ci.words}) /\ CiEnded(served, code).at = "ended" /\ CiEnded(served, code).job = "target"
        /\ CiEnded(served, code).config = ci.config /\ CiEnded(served, code).exit = code /\ CiEnded(served, code).words = ci.words
    BY <1>4, <2>1, EndsSo
  <2> QED
    BY <2>2 DEF served
<1>5. CASE /\ ci.config = "ok"
           /\ \E code \in JobExits :
                LET process == CiEnded([ci EXCEPT !.job = "target"], code) IN
                IF ShowsItself(code) THEN ci' = process /\ UNCHANGED shown ELSE FailureTail(process)
  <2>1. PICK code \in JobExits :
                LET process == CiEnded([ci EXCEPT !.job = "target"], code) IN
                IF ShowsItself(code) THEN ci' = process /\ UNCHANGED shown ELSE FailureTail(process)
    BY <1>5
  <2>2. code \in Nat
    BY CiRunAssumption
  <2> DEFINE process == CiEnded([ci EXCEPT !.job = "target"], code)
  <2>3. /\ process \in CiRecord({ci.words}) /\ process.at = "ended" /\ process.job = "target" /\ process.config = ci.config
        /\ process.exit = code /\ process.words = ci.words
    BY <1>4, <2>2
  <2>4. IF ShowsItself(code) THEN ci' = process /\ UNCHANGED shown ELSE FailureTail(process)
    BY <2>1
  <2> HIDE DEF process
  <2>5. CASE ShowsItself(code)
    <3>1. ci' = process /\ UNCHANGED shown
      BY <2>4, <2>5
    <3>2. CiType'
      BY <1>0, <2>3, <3>1 DEF CiInv, CiType, CiRecord, CiWords
    <3>3. ByPlace'
      BY <1>0, <2>3, <3>1 DEF ByPlace
    <3>4. AddressedIsAnswered'
      BY <1>0, <1>5, <2>3, <2>5, <3>1, RoutedComment DEF AddressedIsAnswered, AskedByPerson, RejectedComment, IsComment, TypedToken,
        ShowsItself
    <3> QED
      BY <3>2, <3>3, <3>4 DEF CiInv
  <2>6. CASE ~ShowsItself(code)
    BY <1>2, <1>5, <2>3, <2>4, <2>6
  <2> QED
    BY <2>5, <2>6
<1>6. CASE ci.config = "ok" /\ FailureTail(Faulted(CiEnded([ci EXCEPT !.job = "target"], 99)))
  <2> DEFINE failed == CiEnded([ci EXCEPT !.job = "target"], 99)
             process == Faulted(failed)
  <2>1. failed \in CiRecord({ci.words}) /\ failed.at = "ended" /\ failed.job = "target" /\ failed.config = ci.config
    BY <1>4
  <2>2. FailureTail(process)
    BY <1>6
  <2> HIDE DEF failed
  <2>3. process \in CiRecord({ci.words}) /\ process.at = "ended" /\ process.job = "target" /\ process.config = ci.config
    BY <2>1 DEF Faulted, CiRecord
  <2> HIDE DEF process
  <2> QED
    BY <1>2, <1>6, <2>2, <2>3
<1> QED
  BY <1>3, <1>5, <1>6 DEF RunCiJob

\* In every reachable state the run knows, place by place, what started it, and
\* who asked is answered.
THEOREM CiRunInvariant == CiRunSpec => []CiInv
<1>1. CiInv /\ [CiRunNext]_ciVars => CiInv'
  <2>1. CiInv /\ UNCHANGED ciVars => CiInv'
    <3> SUFFICES ASSUME CiInv, UNCHANGED ciVars PROVE CiInv'
      OBVIOUS
    <3>1. CiType'
      BY DEF ciVars, CiInv, CiType, CiWords
    <3>2. RoutesEvent' <=> RoutesEvent
      BY DEF ciVars, RoutesEvent, CommentRoutes, CommenterAllowed, TypedToken, HasDefault, DispatchRoutes, PullRequestRoutes
    <3>3. ByPlace'
      BY <3>2 DEF ciVars, CiInv, ByPlace, NotToldYet, Routed, Unrouted, NoComment
    <3>4. AddressedIsAnswered'
      BY DEF ciVars, CiInv, AddressedIsAnswered, AskedByPerson, RejectedComment, IsComment, TypedToken, HasDefault
    <3> QED
      BY <3>1, <3>3, <3>4 DEF CiInv
  <2> QED
    BY <2>1, ConfigKeeps, MergedKeeps, DispatchKeeps, OneShotKeeps, ClassifyKeeps, PrepareKeeps, JobKeeps, FanOutKeeps, WatchKeeps
    DEF CiRunNext
<1> QED
  BY <1>1, CiRunStarts, PTL DEF CiRunSpec

\* The variables of a ci run keep their types.
THEOREM CiRunTypeCorrect == CiRunSpec => []CiRunTypeOK
<1>1. CiInv => CiRunTypeOK
  BY DEF CiInv, CiType, CiRunTypeOK, Places
<1> QED
  BY <1>1, CiRunInvariant, PTL

\* entry.ts, kody-cli.ts, dispatch.ts: a command of a person who may give one runs
\* or its failure is shown, a word that is no command is answered, a bot's command
\* runs nothing, and every word of a command reaches its job.
THEOREM CommandsServed == CiRunSpec => []CommandsAreServed
<1>1. CiInv => CommandsAreServed
  <2> SUFFICES ASSUME CiInv PROVE CommandsAreServed
    OBVIOUS
  <2>1. ASSUME ci.job = "target", NEW i \in DOMAIN ciStart.words
        PROVE  \/ ciStart.words[i] = "number"
               \/ \E k \in DOMAIN ci.words.left : ci.words.left[k] = i
               \/ \E input \in DOMAIN ci.words.args : ci.words.args[input] = i
               \/ GivenAgain(ciStart.words, i)
    <3>1. ci.words = ParsedWords(ciStart.words) /\ ciStart.words \in Seq(WordKinds)
      BY <2>1, CiRunAssumption DEF CiInv, CiType, ByPlace
    <3>2. ci.words \in Said /\ Counts(ci.words, ciStart.words, i)
      BY <3>1, WordsCount
    <3>3. DOMAIN ci.words.args = Inputs
      BY <3>2 DEF Said, Args, Inputs
    <3> QED
      BY <3>2, <3>3 DEF Counts, IsLeft, IsInput, Again, GivenAgain
  <2>2. WordsReachTheJob
    BY <2>1 DEF WordsReachTheJob
  <2> QED
    BY <2>2 DEF CiInv, CommandsAreServed
<1> QED
  BY <1>1, CiRunInvariant, PTL

-----------------------------------------------------------------------------
(* The definitions a process works from: definition-hydration.ts.          *)
HydratorPlaces == {"idle", "listing", "staged", "removed", "ready", "failed", "killed"}
Folders == {f \in [ProjectSlugs -> (UNION {CapabilityDocs[s] : s \in ProjectSlugs}) \cup {NoFolder}] :
              \A s \in ProjectSlugs : f[s] \in CapabilityDocs[s] \cup {NoFolder}}
Listing == [revision : Nat, broken : BOOLEAN, folders : Folders] \cup {NotListed}
Roots == [is : {"repository", "hydrated"}, loops : BOOLEAN, folders : Folders, listed : [Namespaces -> Listing]]
HydratorState == [at : HydratorPlaces, listed : [Namespaces -> Listing], loops : BOOLEAN]
Catalogs == [revision : [Namespaces -> 0 .. MaxEdits], broken : SUBSET Namespaces, folders : Folders]
Spent == [edits : 0 .. MaxEdits, starts : 0 .. MaxHydrations, faults : 0 .. MaxDefinitionFaults, lost : BOOLEAN]

\* What is about to be put in place was listed whole and verified.
Verified(s) ==
  s.at \in {"staged", "removed"} => \A n \in Namespaces : s.listed[n] # NotListed /\ ~s.listed[n].broken

DefinitionsTyped ==
  /\ catalog \in Catalogs /\ \A n \in Namespaces : catalog.revision[n] <= definitionSpent.edits
  /\ definitionsRoot \in Roots \cup {NoRoot}
  /\ hydrator \in [Hydrators -> HydratorState] /\ \A h \in Hydrators : Verified(hydrator[h])
  /\ kodyConfig \in ConfigFiles /\ commandGiven.kind \in {"nothing", "project", "builtin"}
  /\ definitionSpent \in Spent
  /\ definitionsRoot # NoRoot /\ definitionsRoot.is = "hydrated" =>
       \A n \in Namespaces : definitionsRoot.listed[n] # NotListed /\ ~definitionsRoot.listed[n].broken

\* One process copies at a time.
OneCopies == \A g, h \in Hydrators : Copying(g) /\ Copying(h) => g = h
\* It has the repository's loops.
LoopsAreCopied ==
  \A h \in Hydrators : hydrator[h].at \in {"staged", "removed"} => hydrator[h].loops \/ definitionSpent.lost
RootStands ==
  IF definitionsRoot = NoRoot THEN definitionSpent.lost \/ \E h \in Hydrators : hydrator[h].at = "removed"
  ELSE definitionsRoot.loops \/ definitionSpent.lost

CommandIsLoaded == CommandsStayTheOwners /\ NothingAskedIsDropped
CopyInv == OneCopies /\ LoopsAreCopied /\ RootStands

-----------------------------------------------------------------------------
\* readCapabilityFolder refuses what loadSimpleCapability would not pass on.
LEMMA ReadableIsGiven ==
  ASSUME NEW c, c.says \subseteq ContractWords, Readable(c)
  PROVE  /\ GivenTo(c) = c.says
         /\ c.execution = "script" => "run.sh" \in c.files
         /\ "session" \in c.says => {"browser", "actions", "origins"} \subseteq c.says
         /\ "upload" \in c.says => "fileRoots" \in c.says
<1>1. ContractAccepted(c)
  BY DEF Readable
<1>2. GivenTo(c) = c.says
  <2>1. GivenTo(c) \subseteq c.says
    BY DEF GivenTo
  <2>2. ASSUME NEW w \in c.says PROVE w \in GivenTo(c)
    <3>1. w \in ContractWords /\ w # "unknown"
      BY <1>1 DEF ContractAccepted
    <3>2. CASE w \in {"secrets", "connections", "timeout"}
      <4>1. c.execution = "script"
        BY <1>1, <3>2 DEF ContractAccepted
      <4> QED
        BY <3>2, <4>1 DEF GivenTo
    <3>3. CASE w \notin {"secrets", "connections", "timeout"}
      BY <3>1, <3>3 DEF GivenTo, ContractWords
    <3> QED
      BY <3>2, <3>3
  <2> QED
    BY <2>1, <2>2
<1>3. "session" \in c.says => {"browser", "actions", "origins"} \subseteq c.says
  BY <1>1 DEF ContractAccepted, SessionAccepted
<1>4. "upload" \in c.says => "fileRoots" \in c.says
  BY <1>1 DEF ContractAccepted, SessionAccepted
<1> QED
  BY <1>2, <1>3, <1>4 DEF Readable

LEMMA NoFoldersTyped == NoFolders \in Folders
<1> DEFINE D == (UNION {CapabilityDocs[s] : s \in ProjectSlugs}) \cup {NoFolder}
<1>1. \A s \in ProjectSlugs : NoFolders[s] = NoFolder
  BY DEF NoFolders
<1>2. NoFolders \in [ProjectSlugs -> D]
  BY Zenon DEF NoFolders
<1> QED
  BY <1>1, <1>2, Zenon DEF Folders

\* The folder a word resolves to is one of the project's, or none.
LEMMA ResolvedIsKnown ==
  ASSUME DefinitionsTyped, NEW word, CapabilityAction(word).source = "project"
  PROVE  /\ FoldersRead[CapabilityAction(word).slug] \in
              CapabilityDocs[CapabilityAction(word).slug] \cup {NoFolder}
         /\ CapabilityAction(word).slug \in ProjectSlugs
<1>1. Owners(word) # {}
  BY DEF CapabilityAction, BuiltinRoute, NoRoute
<1>2. Owners(word) \subseteq Nat
  BY DefinitionsAssumption DEF Owners
<1> DEFINE First == CHOOSE i \in Owners(word) : \A k \in Owners(word) : i <= k
<1>3. First \in Owners(word)
  BY <1>1, <1>2, LeastPlace
<1>4. CapabilityAction(word).slug = FolderOrder[First]
  BY <1>1 DEF CapabilityAction
<1>5. FolderOrder[First] \in ProjectSlugs
  BY <1>3, DefinitionsAssumption DEF Owners
<1>6. FoldersRead \in Folders
  <2>1. NoFolders \in Folders
    BY NoFoldersTyped
  <2>2. definitionsRoot # NoRoot => definitionsRoot.folders \in Folders
    BY DEF DefinitionsTyped, Roots
  <2> QED
    BY <2>1, <2>2 DEF FoldersRead
<1> QED
  BY <1>4, <1>5, <1>6 DEF Folders

\* A command is loaded with all its contract asks for.
LEMMA LoadedAsAsked ==
  ASSUME DefinitionsTyped, NEW how \in {"comment", "command line"}, NEW who, NEW word, NEW route,
         route = CapabilityAction(word) \/ (route = BuiltinRoute(word) /\ route # NoRoute),
         LoadCommand(how, who, word, route)
  PROVE  /\ commandGiven'.kind \in {"nothing", "project", "builtin"}
         /\ NothingAskedIsDropped'
         /\ commandGiven'.kind \in {"project", "builtin"} =>
              /\ commandGiven'.how = how /\ commandGiven'.who = who /\ commandGiven'.word = word
              /\ commandGiven'.kind = "project" => route.source = "project"
<1>1. CASE route.source = "project"
  <2> DEFINE c == FoldersRead[route.slug]
  <2>1. route = CapabilityAction(word)
    <3>1. BuiltinRoute(word).source \in {"builtin", "none"}
      BY DEF BuiltinRoute, NoRoute
    <3> QED
      BY <1>1, <3>1
  <2>2. route.slug \in ProjectSlugs /\ c \in CapabilityDocs[route.slug] \cup {NoFolder}
    BY <1>1, <2>1, ResolvedIsKnown
  <2> HIDE DEF c
  <2>3. CASE Readable(c) /\ SpecialistsPresent(c)
    <3>1. commandGiven' = [kind |-> "project", how |-> how, who |-> who, word |-> word, contract |-> c,
                   execution |-> IF c.execution = "script" THEN "script" ELSE "agent", given |-> GivenTo(c)]
      BY <1>1, <2>3 DEF LoadCommand, c
    <3>2. c.says \subseteq ContractWords
      BY <2>2, <2>3, DefinitionsAssumption DEF Readable
    <3>3. /\ GivenTo(c) = c.says
          /\ c.execution = "script" => "run.sh" \in c.files
          /\ "session" \in c.says => {"browser", "actions", "origins"} \subseteq c.says
          /\ "upload" \in c.says => "fileRoots" \in c.says
      BY <3>2, <2>3, ReadableIsGiven
    <3> QED
      BY <3>1, <3>3, <1>1 DEF NothingAskedIsDropped
  <2>4. CASE ~(Readable(c) /\ SpecialistsPresent(c))
    <3>1. commandGiven' = NothingLoaded
      BY <1>1, <2>4 DEF LoadCommand, c
    <3> QED
      BY <3>1 DEF NothingLoaded, NothingAskedIsDropped
  <2> QED
    BY <2>3, <2>4
<1>2. CASE route.source # "project"
  BY <1>2 DEF LoadCommand, NothingAskedIsDropped
<1> QED
  BY <1>1, <1>2

-----------------------------------------------------------------------------
LEMMA InitDefinitions == DefinitionsInit => DefinitionsTyped /\ CopyInv /\ CommandIsLoaded
<1> SUFFICES ASSUME DefinitionsInit PROVE DefinitionsTyped /\ CopyInv /\ CommandIsLoaded
  OBVIOUS
<1>1. NoFolders \in Folders /\ IdleHydrator.listed \in [Namespaces -> Listing]
  BY NoFoldersTyped DEF IdleHydrator, Listing
<1>2. DefinitionsTyped
  BY <1>1, DefinitionsAssumption
     DEF DefinitionsInit, DefinitionsTyped, Catalogs, Roots, HydratorState, HydratorPlaces, Spent, IdleHydrator, NothingLoaded,
         Verified
<1>3. \A h \in Hydrators : hydrator[h].at = "idle"
  BY DEF DefinitionsInit, IdleHydrator
<1>4. CopyInv
  BY <1>3 DEF CopyInv, OneCopies, LoopsAreCopied, RootStands, Copying, DefinitionsInit, NoRoot
<1>5. CommandIsLoaded
  BY DEF CommandIsLoaded, CommandsStayTheOwners, NothingAskedIsDropped, DefinitionsInit, NothingLoaded
<1> QED
  BY <1>2, <1>4, <1>5

\* A step of one process changes its own record only.
Moves(h, s) == s \in HydratorState /\ Verified(s) /\ hydrator' = [hydrator EXCEPT ![h] = s]

LEMMA MovesTyped ==
  ASSUME DefinitionsTyped, NEW h \in Hydrators, NEW s, Moves(h, s)
  PROVE  /\ hydrator' \in [Hydrators -> HydratorState] /\ hydrator'[h] = s
         /\ \A g \in Hydrators : g # h => hydrator'[g] = hydrator[g]
         /\ \A g \in Hydrators : Verified(hydrator'[g])
  BY DEF Moves, DefinitionsTyped

\* What each step makes of it.
LEMMA ProcessMoves ==
  ASSUME DefinitionsTyped, NEW h \in Hydrators
  PROVE  /\ StartHydration(h) => \E s : Moves(h, s) /\ s.at = "listing"
         /\ \A n \in Namespaces : ListNamespace(h, n) => \E s : Moves(h, s) /\ s.at = "listing"
         /\ ListFails(h) \/ HydrationKilled(h) => \E s : Moves(h, s) /\ s.at \in {"failed", "killed"}
         /\ WriteStaging(h) =>
              \/ \E s : Moves(h, s) /\ s.at = "staged" /\ s.loops = KeepsLoops(definitionsRoot)
              \/ \E s : Moves(h, s) /\ s.at = "failed"
         /\ RemoveRoot(h) => \E s : Moves(h, s) /\ s.at = "removed" /\ s.loops = hydrator[h].loops
         /\ InstallStaging(h) => \E s : Moves(h, s) /\ s.at \in {"ready", "failed"}
         /\ \A who, word : ServeComment(h, who, word) \/ ServeCommandLine(h, word) => \E s : Moves(h, s) /\ s.at = "idle"
<1>h. hydrator[h] \in HydratorState /\ Verified(hydrator[h]) /\ hydrator \in [Hydrators -> HydratorState]
  BY DEF DefinitionsTyped
<1>i. ASSUME NEW place \in HydratorPlaces \ {"staged", "removed"}, hydrator' = [hydrator EXCEPT ![h] = [IdleHydrator EXCEPT !.at = place]]
      PROVE  \E s : Moves(h, s) /\ s.at = place
  <2> DEFINE s == [IdleHydrator EXCEPT !.at = place]
  <2>1. s \in HydratorState /\ s.at = place
    BY DEF IdleHydrator, HydratorState, HydratorPlaces, Listing
  <2>2. Verified(s)
    BY <2>1 DEF Verified
  <2> QED
    BY <1>i, <2>1, <2>2 DEF Moves
<1>p. ASSUME NEW place \in HydratorPlaces, hydrator' = [hydrator EXCEPT ![h].at = place],
             place = "removed" => hydrator[h].at = "staged", place # "staged"
      PROVE  \E s : Moves(h, s) /\ s.at = place /\ s.loops = hydrator[h].loops
  <2> DEFINE s == [hydrator[h] EXCEPT !.at = place]
  <2>1. s \in HydratorState /\ s.at = place /\ s.listed = hydrator[h].listed /\ s.loops = hydrator[h].loops
    BY <1>h DEF HydratorState
  <2>2. Verified(s)
    BY <1>h, <1>p, <2>1 DEF Verified
  <2> QED
    BY <1>p, <2>1, <2>2 DEF Moves
<1>1. StartHydration(h) => \E s : Moves(h, s) /\ s.at = "listing"
  BY <1>i DEF StartHydration, HydratorPlaces
<1>2. ASSUME NEW n \in Namespaces, ListNamespace(h, n) PROVE \E s : Moves(h, s) /\ s.at = "listing"
  <2> DEFINE answer == [revision |-> catalog.revision[n], broken |-> n \in catalog.broken,
                        folders |-> IF n = "capability" THEN catalog.folders ELSE NoFolders]
             s == [hydrator[h] EXCEPT !.listed[n] = answer]
  <2>1. answer \in Listing
    <3>1. catalog.revision[n] \in Nat /\ catalog.folders \in Folders /\ NoFolders \in Folders
      BY NoFoldersTyped, DefinitionsAssumption DEF DefinitionsTyped, Catalogs
    <3> QED
      BY <3>1 DEF Listing
  <2>2. hydrator' = [hydrator EXCEPT ![h] = s]
    BY <1>2 DEF ListNamespace
  <2> HIDE DEF answer
  <2>3. s \in HydratorState /\ s.at = "listing"
    BY <1>2, <2>1, <1>h DEF HydratorState, ListNamespace
  <2> HIDE DEF s
  <2>4. Verified(s)
    BY <2>3 DEF Verified
  <2> QED
    BY <2>2, <2>3, <2>4 DEF Moves
<1>3. ListFails(h) \/ HydrationKilled(h) => \E s : Moves(h, s) /\ s.at \in {"failed", "killed"}
  BY <1>i DEF ListFails, HydrationKilled, HydrationEnds, HydratorPlaces
<1>4. ASSUME WriteStaging(h)
      PROVE  \/ \E s : Moves(h, s) /\ s.at = "staged" /\ s.loops = KeepsLoops(definitionsRoot)
             \/ \E s : Moves(h, s) /\ s.at = "failed"
  <2> DEFINE s == [hydrator[h] EXCEPT !.at = "staged", !.loops = KeepsLoops(definitionsRoot)]
  <2>1. /\ s \in HydratorState /\ s.at = "staged" /\ s.listed = hydrator[h].listed
        /\ s.loops = KeepsLoops(definitionsRoot)
    BY <1>h DEF HydratorState, HydratorPlaces, KeepsLoops, DefinitionsTyped, Roots
  <2>2. CASE AllVerified(hydrator[h].listed)
    <3>1. hydrator' = [hydrator EXCEPT ![h] = s]
      BY <2>2, <1>4 DEF WriteStaging
    <3> HIDE DEF s
    <3>2. Verified(s)
      BY <2>1, <2>2, <1>4 DEF Verified, WriteStaging, AllVerified
    <3> QED
      BY <2>1, <3>1, <3>2 DEF Moves
  <2>3. CASE ~AllVerified(hydrator[h].listed)
    BY <1>4, <2>3, <1>i DEF WriteStaging, HydrationEnds, HydratorPlaces
  <2> QED
    BY <2>2, <2>3
<1>5. RemoveRoot(h) => \E s : Moves(h, s) /\ s.at = "removed" /\ s.loops = hydrator[h].loops
  BY <1>p DEF RemoveRoot, HydratorPlaces
<1>6. InstallStaging(h) => \E s : Moves(h, s) /\ s.at \in {"ready", "failed"}
  BY <1>i DEF InstallStaging, HydrationEnds, HydratorPlaces
<1>7. \A who, word : ServeComment(h, who, word) \/ ServeCommandLine(h, word) => \E s : Moves(h, s) /\ s.at = "idle"
  BY <1>p DEF ServeComment, ServeCommandLine, HydratorPlaces
<1> QED
  BY <1>1, <1>2, <1>3, <1>4, <1>5, <1>6, <1>7

\* Types, and what a command was given, in any checkout.
LEMMA StepDefinitions ==
  DefinitionsTyped /\ CommandIsLoaded /\ [DefinitionsNext]_definitionVars => DefinitionsTyped' /\ CommandIsLoaded'
<1> SUFFICES ASSUME DefinitionsTyped, CommandIsLoaded, [DefinitionsNext]_definitionVars
             PROVE  DefinitionsTyped' /\ CommandIsLoaded'
  OBVIOUS
<1>s. definitionSpent \in Spent /\ MaxEdits \in Nat /\ MaxHydrations \in Nat /\ MaxDefinitionFaults \in Nat
  BY DefinitionsAssumption DEF DefinitionsTyped
<1>c. ASSUME UNCHANGED <<kodyConfig, commandGiven>> PROVE CommandIsLoaded' /\ commandGiven'.kind = commandGiven.kind
  BY <1>c DEF CommandIsLoaded, CommandsStayTheOwners, NothingAskedIsDropped
<1>m. ASSUME NEW h \in Hydrators, \E s : Moves(h, s)
      PROVE  hydrator' \in [Hydrators -> HydratorState] /\ \A g \in Hydrators : Verified(hydrator'[g])
  BY <1>m, MovesTyped
<1>v. ASSUME UNCHANGED hydrator PROVE hydrator' \in [Hydrators -> HydratorState] /\ \A g \in Hydrators : Verified(hydrator'[g])
  BY <1>v DEF DefinitionsTyped
<1>1. ASSUME NEW n \in Namespaces, NEW b \in BOOLEAN, NEW folders \in Folders, PublishDefinitions(n, b, folders)
      PROVE  DefinitionsTyped' /\ CommandIsLoaded'
  <2> DEFINE revision == [catalog.revision EXCEPT ![n] = @ + 1]
             broken == IF b THEN catalog.broken \cup {n} ELSE catalog.broken \ {n}
  <2>1. catalog' = [revision |-> revision, broken |-> broken, folders |-> folders]
    BY <1>1 DEF PublishDefinitions
  <2>2. revision \in [Namespaces -> 0 .. MaxEdits] /\ \A k \in Namespaces : revision[k] <= definitionSpent.edits + 1
    BY <1>1, <1>s DEF PublishDefinitions, DefinitionsTyped, Catalogs, Spent
  <2>3. broken \in SUBSET Namespaces
    BY DEF DefinitionsTyped, Catalogs
  <2> HIDE DEF revision, broken
  <2>4. catalog' \in Catalogs /\ catalog'.revision = revision
    BY <2>1, <2>2, <2>3 DEF Catalogs
  <2>5. definitionSpent' \in Spent /\ definitionSpent'.edits = definitionSpent.edits + 1
    BY <1>1, <1>s DEF PublishDefinitions, Spent
  <2> QED
    BY <2>2, <2>4, <2>5, <1>1, <1>c, <1>v DEF PublishDefinitions, DefinitionsTyped
<1>2. ASSUME NEW h \in Hydrators, StartHydration(h) PROVE DefinitionsTyped' /\ CommandIsLoaded'
  <2>1. definitionSpent' \in Spent /\ definitionSpent'.edits = definitionSpent.edits
    BY <1>2, <1>s DEF StartHydration, Spent
  <2>2. CommandIsLoaded' /\ commandGiven'.kind = "nothing"
    BY <1>2 DEF StartHydration, NothingLoaded, CommandIsLoaded, CommandsStayTheOwners, NothingAskedIsDropped
  <2> QED
    BY <2>1, <2>2, <1>2, <1>m, ProcessMoves DEF StartHydration, DefinitionsTyped
<1>3. ASSUME NEW h \in Hydrators, \E n \in Namespaces : ListNamespace(h, n) PROVE DefinitionsTyped' /\ CommandIsLoaded'
  <2>1. UNCHANGED <<catalog, definitionsRoot, kodyConfig, commandGiven, definitionSpent>>
    BY <1>3 DEF ListNamespace
  <2> QED
    BY <2>1, <1>3, <1>m, <1>c, ProcessMoves DEF DefinitionsTyped
<1>4. ASSUME NEW h \in Hydrators, ListFails(h) \/ HydrationKilled(h) PROVE DefinitionsTyped' /\ CommandIsLoaded'
  <2>1. definitionSpent' \in Spent /\ definitionSpent'.edits = definitionSpent.edits
    <3>1. definitionSpent.faults + 1 \in 0 .. MaxDefinitionFaults
      BY <1>4, <1>s DEF ListFails, HydrationKilled, Spent
    <3>2. ASSUME NEW faults \in 0 .. MaxDefinitionFaults, NEW lost \in BOOLEAN,
                 definitionSpent' = [definitionSpent EXCEPT !.faults = faults, !.lost = lost]
                   \/ definitionSpent' = [definitionSpent EXCEPT !.faults = faults]
          PROVE  definitionSpent' \in Spent /\ definitionSpent'.edits = definitionSpent.edits
      BY <3>2, <1>s DEF Spent
    <3>3. CASE ListFails(h)
      BY <3>1, <3>2, <3>3 DEF ListFails
    <3>4. CASE HydrationKilled(h)
      <4> DEFINE lost == definitionSpent.lost \/ hydrator[h].at = "removed"
      <4>1. definitionSpent' = [definitionSpent EXCEPT !.faults = definitionSpent.faults + 1, !.lost = lost]
        BY <3>4 DEF HydrationKilled
      <4>2. lost \in BOOLEAN
        OBVIOUS
      <4> HIDE DEF lost
      <4> QED
        BY <3>1, <3>2, <4>1, <4>2
    <3> QED
      BY <1>4, <3>3, <3>4
  <2>2. UNCHANGED <<catalog, definitionsRoot, kodyConfig, commandGiven>>
    BY <1>4 DEF ListFails, HydrationKilled
  <2> QED
    BY <2>1, <2>2, <1>4, <1>m, <1>c, ProcessMoves DEF DefinitionsTyped
<1>5. ASSUME NEW h \in Hydrators, WriteStaging(h) PROVE DefinitionsTyped' /\ CommandIsLoaded'
  <2>1. UNCHANGED <<catalog, definitionsRoot, kodyConfig, commandGiven, definitionSpent>>
    BY <1>5 DEF WriteStaging
  <2>2. \E s : Moves(h, s)
    BY <1>5, ProcessMoves
  <2> QED
    BY <2>1, <2>2, <1>m, <1>c DEF DefinitionsTyped
<1>6. ASSUME NEW h \in Hydrators, RemoveRoot(h) PROVE DefinitionsTyped' /\ CommandIsLoaded'
  BY <1>6, <1>m, <1>c, ProcessMoves DEF RemoveRoot, DefinitionsTyped
<1>7. ASSUME NEW h \in Hydrators, InstallStaging(h) PROVE DefinitionsTyped' /\ CommandIsLoaded'
  <2>1. CASE definitionsRoot = NoRoot
    <3> DEFINE listed == hydrator[h].listed
    <3>1. definitionsRoot' = [is |-> "hydrated", loops |-> hydrator[h].loops, listed |-> listed,
                              folders |-> listed["capability"].folders]
      BY <1>7, <2>1 DEF InstallStaging
    <3>2. listed \in [Namespaces -> Listing] /\ hydrator[h].loops \in BOOLEAN
      BY DEF DefinitionsTyped, HydratorState
    <3>3. \A n \in Namespaces : listed[n] # NotListed /\ ~listed[n].broken
      BY <1>7 DEF DefinitionsTyped, Verified, InstallStaging
    <3>4. listed["capability"].folders \in Folders
      BY <3>2, <3>3, DefinitionsAssumption DEF Listing
    <3> HIDE DEF listed
    <3>5. definitionsRoot' \in Roots /\ definitionsRoot'.listed = listed
      BY <3>1, <3>2, <3>4 DEF Roots
    <3> QED
      BY <3>3, <3>5, <1>7, <1>m, <1>c, ProcessMoves DEF InstallStaging, DefinitionsTyped
  <2>2. CASE definitionsRoot # NoRoot
    BY <1>7, <2>2, <1>m, <1>c, ProcessMoves DEF InstallStaging, DefinitionsTyped
  <2> QED
    BY <2>1, <2>2
<1>8. ASSUME NEW h \in Hydrators, NEW who \in {"member", "stranger"}, NEW word \in CommandWords, ServeComment(h, who, word)
      PROVE  DefinitionsTyped' /\ CommandIsLoaded'
  <2> DEFINE route == OperatorAction(word)
  <2>1. route = CapabilityAction(word) \/ (route = BuiltinRoute(word) /\ route # NoRoute)
    BY DEF OperatorAction
  <2>2. LoadCommand("comment", who, word, route)
    BY <1>8 DEF ServeComment
  <2>3. word \in EngineCapabilities => route.source # "project"
    BY DEF OperatorAction, BuiltinRoute, NoRoute
  <2>4. who = "stranger" => kodyConfig.allows \notin {{"unset"}, {"member"}}
    BY <1>8 DEF ServeComment, GateLets, AllowedAuthors
  <2> HIDE DEF route
  <2>5. /\ commandGiven'.kind \in {"nothing", "project", "builtin"}
        /\ NothingAskedIsDropped'
        /\ commandGiven'.kind \in {"project", "builtin"} =>
              /\ commandGiven'.how = "comment" /\ commandGiven'.who = who /\ commandGiven'.word = word
              /\ commandGiven'.kind = "project" => route.source = "project"
    BY <2>1, <2>2, LoadedAsAsked
  <2>6. UNCHANGED <<catalog, definitionsRoot, kodyConfig, definitionSpent>>
    BY <1>8 DEF ServeComment
  <2>7. CommandIsLoaded'
    BY <2>3, <2>4, <2>5, <2>6 DEF CommandIsLoaded, CommandsStayTheOwners
  <2> QED
    BY <2>5, <2>6, <2>7, <1>8, <1>m, ProcessMoves DEF DefinitionsTyped
<1>9. ASSUME NEW h \in Hydrators, NEW word \in CommandWords, ServeCommandLine(h, word)
      PROVE  DefinitionsTyped' /\ CommandIsLoaded'
  <2>1. LoadCommand("command line", "member", word, CapabilityAction(word))
    BY <1>9 DEF ServeCommandLine
  <2>2. /\ commandGiven'.kind \in {"nothing", "project", "builtin"}
        /\ NothingAskedIsDropped'
        /\ commandGiven'.kind \in {"project", "builtin"} => commandGiven'.how = "command line"
    BY <2>1, LoadedAsAsked
  <2>3. UNCHANGED <<catalog, definitionsRoot, kodyConfig, definitionSpent>>
    BY <1>9 DEF ServeCommandLine
  <2>4. CommandIsLoaded'
    BY <2>2 DEF CommandIsLoaded, CommandsStayTheOwners
  <2> QED
    BY <2>2, <2>3, <2>4, <1>9, <1>m, ProcessMoves DEF DefinitionsTyped
<1>10. catalog.folders \in Folders
       /\ \A s \in ProjectSlugs : \A c \in CapabilityDocs[s] : [catalog.folders EXCEPT ![s] = c] \in Folders
  BY DEF DefinitionsTyped, Catalogs, Folders
<1>11. CASE UNCHANGED definitionVars
  BY <1>11, <1>c, <1>v DEF definitionVars, DefinitionsTyped
<1> QED
  BY <1>1, <1>2, <1>3, <1>4, <1>5, <1>6, <1>7, <1>8, <1>9, <1>10, <1>11, DefinitionsAssumption DEF DefinitionsNext

\* The variables of a checkout's definitions keep their types.
THEOREM DefinitionsTypeCorrect == DefinitionsSpec => []DefinitionsTypeOK
<1>1. DefinitionsTyped => DefinitionsTypeOK
  BY DEF DefinitionsTyped, DefinitionsTypeOK, Catalogs, Roots, HydratorState, HydratorPlaces, Folders, Spent
<1> QED
  BY <1>1, InitDefinitions, StepDefinitions, PTL DEF DefinitionsSpec

\* Comments get the engine's own commands, strangers nothing that was not opened
\* to them, and a capability all that its contract asks for, however definitions
\* are stored, copied and killed meanwhile.
THEOREM CommandsAreLoadedWhole == DefinitionsSpec => []OneOwnerOneContract
<1>1. CommandIsLoaded => OneOwnerOneContract
  BY DEF CommandIsLoaded, OneOwnerOneContract
<1> QED
  BY <1>1, InitDefinitions, StepDefinitions, PTL DEF DefinitionsSpec

-----------------------------------------------------------------------------
\* One process copies, so the root it read is the one it replaces.
LEMMA StepCopies ==
  ASSUME ~HydrationsOverlap, DefinitionsTyped, CopyInv, [DefinitionsNext]_definitionVars
  PROVE  CopyInv'
<1>l. definitionSpent.lost \in BOOLEAN /\ (definitionSpent.lost => definitionSpent'.lost)
  <2>1. definitionSpent \in Spent
    BY DEF DefinitionsTyped
  <2> QED
    BY <2>1 DEF Spent, DefinitionsNext, definitionVars, PublishDefinitions, StartHydration, ListNamespace, ListFails, WriteStaging,
       RemoveRoot, InstallStaging, HydrationKilled, ServeComment, ServeCommandLine
<1>m. ASSUME NEW h \in Hydrators, NEW s, Moves(h, s),
             Copying(h) \/ (\A g \in Hydrators : ~Copying(g)) \/ s.at \notin {"listing", "staged", "removed"},
             s.at \in {"staged", "removed"} => s.loops \/ definitionSpent'.lost
      PROVE  /\ OneCopies' /\ LoopsAreCopied' /\ hydrator'[h] = s
             /\ \A g \in Hydrators : g # h => hydrator'[g] = hydrator[g]
  <2>1. hydrator'[h] = s /\ \A g \in Hydrators : g # h => hydrator'[g] = hydrator[g]
    BY <1>m, MovesTyped
  <2>2. OneCopies'
    BY <2>1, <1>m DEF OneCopies, CopyInv, Copying
  <2>3. LoopsAreCopied'
    BY <2>1, <1>m, <1>l DEF LoopsAreCopied, CopyInv
  <2> QED
    BY <2>1, <2>2, <2>3
<1>n. definitionsRoot.loops \in BOOLEAN \/ definitionsRoot = NoRoot
  BY DEF DefinitionsTyped, Roots
<1>1. ASSUME UNCHANGED <<definitionsRoot, hydrator>> PROVE CopyInv'
  BY <1>1, <1>l DEF CopyInv, OneCopies, LoopsAreCopied, RootStands, Copying
<1>2. ASSUME NEW h \in Hydrators, StartHydration(h) PROVE CopyInv'
  <2>1. PICK s : Moves(h, s) /\ s.at = "listing"
    BY <1>2, ProcessMoves
  <2>2. \A g \in Hydrators : ~Copying(g)
    BY <1>2 DEF StartHydration
  <2> QED
    BY <1>m, <1>l, <2>1, <2>2, <1>2 DEF CopyInv, RootStands, StartHydration, Copying
<1>3. ASSUME NEW h \in Hydrators, (\E n \in Namespaces : ListNamespace(h, n)) \/ ListFails(h) \/ HydrationKilled(h) PROVE CopyInv'
  <2>1. PICK s : Moves(h, s) /\ s.at \in {"listing", "failed", "killed"}
    BY <1>3, ProcessMoves
  <2>2. Copying(h) /\ UNCHANGED definitionsRoot
    BY <1>3 DEF ListNamespace, ListFails, HydrationKilled, Copying
  <2>3. hydrator[h].at = "removed" => definitionSpent'.lost
    BY <1>3 DEF ListNamespace, ListFails, HydrationKilled, DefinitionsTyped, Spent
  <2> QED
    BY <1>m, <1>l, <2>1, <2>2, <2>3 DEF CopyInv, RootStands
<1>4. ASSUME NEW h \in Hydrators, WriteStaging(h) PROVE CopyInv'
  <2>1. Copying(h) /\ UNCHANGED <<definitionsRoot, definitionSpent>> /\ hydrator[h].at = "listing"
    BY <1>4 DEF WriteStaging, Copying
  <2>2. KeepsLoops(definitionsRoot) \/ definitionSpent.lost
    BY <2>1 DEF CopyInv, RootStands, OneCopies, KeepsLoops, Copying
  <2>3. PICK s : Moves(h, s) /\ (s.at = "failed" \/ (s.at = "staged" /\ s.loops = KeepsLoops(definitionsRoot)))
    BY <1>4, ProcessMoves
  <2> QED
    BY <1>m, <2>1, <2>2, <2>3 DEF CopyInv, RootStands
<1>5. ASSUME NEW h \in Hydrators, RemoveRoot(h) PROVE CopyInv'
  <2>1. Copying(h) /\ definitionsRoot' = NoRoot /\ UNCHANGED definitionSpent /\ hydrator[h].at = "staged"
    BY <1>5 DEF RemoveRoot, Copying
  <2>2. PICK s : Moves(h, s) /\ s.at = "removed" /\ s.loops = hydrator[h].loops
    BY <1>5, ProcessMoves
  <2> QED
    BY <1>m, <2>1, <2>2 DEF CopyInv, RootStands, LoopsAreCopied
<1>6. ASSUME NEW h \in Hydrators, InstallStaging(h) PROVE CopyInv'
  <2>1. Copying(h) /\ UNCHANGED definitionSpent /\ hydrator[h].at = "removed"
    BY <1>6 DEF InstallStaging, Copying
  <2>2. PICK s : Moves(h, s) /\ s.at \in {"ready", "failed"}
    BY <1>6, ProcessMoves
  <2>3. CASE definitionsRoot = NoRoot
    <3>1. definitionsRoot' # NoRoot /\ definitionsRoot'.loops = hydrator[h].loops
      BY <1>6, <2>3 DEF InstallStaging, NoRoot
    <3> QED
      BY <1>m, <2>1, <2>2, <3>1 DEF CopyInv, RootStands, LoopsAreCopied
  <2>4. CASE definitionsRoot # NoRoot
    <3>1. UNCHANGED definitionsRoot
      BY <1>6, <2>4 DEF InstallStaging
    <3> QED
      BY <1>m, <2>1, <2>2, <2>4, <3>1 DEF CopyInv, RootStands
  <2> QED
    BY <2>3, <2>4
<1>7. ASSUME NEW h \in Hydrators, NEW who, NEW word, ServeComment(h, who, word) \/ ServeCommandLine(h, word) PROVE CopyInv'
  <2>1. UNCHANGED <<definitionsRoot, definitionSpent>> /\ hydrator[h].at = "ready"
    BY <1>7 DEF ServeComment, ServeCommandLine
  <2>2. PICK s : Moves(h, s) /\ s.at = "idle"
    BY <1>7, ProcessMoves
  <2> QED
    BY <1>m, <2>1, <2>2 DEF CopyInv, RootStands
<1>8. ASSUME NEW n, NEW b, NEW folders, PublishDefinitions(n, b, folders) PROVE CopyInv'
  BY <1>8, <1>1 DEF PublishDefinitions
<1> QED
  BY <1>1, <1>2, <1>3, <1>4, <1>5, <1>6, <1>7, <1>8 DEF DefinitionsNext, definitionVars

\* In a checkout where one process copies at a time what stands is one whole,
\* verified copy with the repository's loops, whatever is stored and killed.
THEOREM DefinitionsStayWhole ==
  ASSUME ~HydrationsOverlap
  PROVE  DefinitionsSpec => []DefinitionsHold
<1>1. DefinitionsTyped /\ CopyInv /\ CommandIsLoaded => DefinitionsHold
  BY DEF DefinitionsTyped, CopyInv, RootStands, CommandIsLoaded, DefinitionsHold, HydratedIsWhole, OneOwnerOneContract
<1>2. DefinitionsTyped /\ CopyInv /\ [DefinitionsNext]_definitionVars => CopyInv'
  BY StepCopies
<1> QED
  BY <1>1, <1>2, InitDefinitions, StepDefinitions, PTL DEF DefinitionsSpec


-----------------------------------------------------------------------------
(* Workflow documents: what acceptance says of a graph, and the run of a   *)
(* list of steps (src/workflowValidation.ts, src/job.ts).                  *)

LEMMA NothingFound == \A code, condition : Found(code, condition) = {} => ~condition
BY DEF Found

\* A graph without an issue: its steps have ids, each its own.
LEMMA AcceptedSteps ==
  ASSUME NEW d, d.steps \in Seq(DocSteps), IssuesOf(d, FALSE) = {}, IsGraph(d)
  PROVE  /\ Len(d.steps) \in Nat \ {0} /\ DOMAIN d.steps = 1 .. Len(d.steps) /\ Start(d) \in DocIds(d)
         /\ \A i \in DOMAIN d.steps : d.steps[i] \in DocSteps /\ d.steps[i].id \in DocIds(d) /\ NextIssues(d, i) = {}
         /\ \A i, j \in DOMAIN d.steps : d.steps[i].id = d.steps[j].id => i = j
<1>1. d.steps # << >> /\ Len(d.steps) \in Nat /\ DOMAIN d.steps = 1 .. Len(d.steps)
  <2>1. d.steps # << >>
    BY Zenon DEF IssuesOf
  <2> QED
    BY <2>1
<1>2. Len(d.steps) # 0
  BY <1>1
<1>3. GraphIssues(d) = {} /\ \A i \in DOMAIN d.steps : StepIssues(d, i, FALSE) = {}
  BY <1>1 DEF IssuesOf
<1>4. \A i \in DOMAIN d.steps : d.steps[i].id \notin {"none", "bad"}
  <2> SUFFICES ASSUME NEW i \in DOMAIN d.steps PROVE d.steps[i].id \notin {"none", "bad"}
    OBVIOUS
  <2>1. Found("invalid_step_id", IsGraph(d) /\ d.steps[i].id \in {"none", "bad"}) = {}
    BY <1>3 DEF StepIssues
  <2> QED
    BY <2>1, NothingFound
<1>5. \A i \in DOMAIN d.steps : d.steps[i].id \in DocIds(d)
  BY <1>4 DEF DocIds
<1>6. /\ Found("duplicate_step_id", \E i, j \in DOMAIN d.steps : i # j /\ d.steps[i].id = d.steps[j].id /\ d.steps[i].id \in DocIds(d)) = {}
      /\ \A i \in {j \in DOMAIN d.steps : d.steps[j].id # "none"} : NextIssues(d, i) = {}
      /\ Start(d) \in DocIds(d)
  BY <1>3 DEF GraphIssues
<1>7. \A i, j \in DOMAIN d.steps : d.steps[i].id = d.steps[j].id => i = j
  BY <1>5, <1>6, NothingFound
<1>8. \A i \in DOMAIN d.steps : NextIssues(d, i) = {}
  BY <1>4, <1>6
<1>9. \A i \in DOMAIN d.steps : d.steps[i] \in DocSteps
  OBVIOUS
<1> QED
  BY <1>1, <1>2, <1>5, <1>6, <1>7, <1>8, <1>9

\* An id of such a graph names one place.
LEMMA AcceptedPlaces ==
  ASSUME NEW d, d.steps \in Seq(DocSteps), IssuesOf(d, FALSE) = {}, IsGraph(d)
  PROVE  /\ \A i \in DOMAIN d.steps : Place(d, d.steps[i].id) = i
         /\ \A id \in DocIds(d) : Place(d, id) \in DOMAIN d.steps /\ d.steps[Place(d, id)].id = id
<1>1. DOMAIN d.steps = 1 .. Len(d.steps) /\ \A i, j \in DOMAIN d.steps : d.steps[i].id = d.steps[j].id => i = j
  BY AcceptedSteps
<1>2. ASSUME NEW i \in DOMAIN d.steps PROVE Place(d, d.steps[i].id) = i
  <2>1. i <= i
    BY <1>1, AcceptedSteps
  <2>2. \A j \in DOMAIN d.steps : d.steps[j].id = d.steps[i].id => j = i
    BY <1>1
  <2> QED
    BY <2>1, <2>2 DEF Place
<1>3. \A id \in DocIds(d) : \E i \in DOMAIN d.steps : d.steps[i].id = id
  BY DEF DocIds
<1> QED
  BY <1>2, <1>3

\* Where its connections lead: to its steps or to the end, and one without a
\* bound further on.
LEMMA AcceptedConnections ==
  ASSUME NEW d, d.steps \in Seq(DocSteps), IssuesOf(d, FALSE) = {}, IsGraph(d),
         NEW i \in DOMAIN d.steps, NEW k \in DOMAIN d.steps[i].next
  PROVE  /\ d.steps[i].next[k].to \in DocIds(d) \cup {"$end"}
         /\ Plain(d.steps[i].next[k]) => Len(d.steps[i].next) = 1
         /\ d.steps[i].next[k].to \in DocIds(d) /\ d.steps[i].next[k].max <= 0 => ~(Place(d, d.steps[i].next[k].to) <= i)
<1> DEFINE next == d.steps[i].next
           c == next[k]
           plain == {j \in DOMAIN next : Plain(next[j])}
<1>1. NextIssues(d, i) = {} /\ d.steps[i] \in DocSteps
  BY AcceptedSteps
<1>2. next \in Seq([to : STRING, when : STRING, default : BOOLEAN, max : Int])
  BY <1>1 DEF DocSteps
<1>3. Len(next) \in Nat /\ 1 <= Len(next)
  <2>1. Len(next) \in Nat /\ k \in 1 .. Len(next)
    BY <1>2
  <2> QED
    BY <2>1
<1>4. ConnectionIssues(d, i, c) = {}
  BY <1>1 DEF NextIssues
<1>5. /\ Found("invalid_transition_target", c.to = "bad") = {}
      /\ Found("missing_transition_target", c.to \notin DocIds(d) \cup {"$end", "bad"}) = {}
      /\ Found("unbounded_loop", Backward(d, i, c) /\ c.max <= 0) = {}
  BY <1>4 DEF ConnectionIssues
<1>6. Found("ambiguous_transition", Cardinality(plain) > 1 \/ (plain # {} /\ Len(next) > 1)) = {}
  BY <1>1 DEF NextIssues
<1>7. c.to \in DocIds(d) \cup {"$end"}
  BY <1>5, NothingFound
<1>8. Plain(c) => Len(next) = 1
  <2> SUFFICES ASSUME Plain(c) PROVE Len(next) = 1
    OBVIOUS
  <2>1. plain # {}
    OBVIOUS
  <2>2. ~(Len(next) > 1)
    BY <1>6, <2>1, NothingFound
  <2>3. \A n \in Nat : 1 <= n /\ ~(n > 1) => n = 1
    OBVIOUS
  <2> QED
    BY <1>3, <2>2, <2>3, Zenon
<1>9. c.to \in DocIds(d) /\ c.max <= 0 => ~(Place(d, c.to) <= i)
  BY <1>5, NothingFound DEF Backward
<1> QED
  BY <1>7, <1>8, <1>9

\* So the places along connections without a bound go up.
LEMMA UnboundedGoOn ==
  ASSUME NEW d, d.steps \in Seq(DocSteps), IssuesOf(d, FALSE) = {}, IsGraph(d), NEW id \in DocIds(d), NEW x \in Unbounded(d)[id]
  PROVE  x \in DocIds(d) /\ Place(d, id) \in Nat /\ Place(d, x) \in Nat /\ Place(d, id) < Place(d, x)
<1>1. DOMAIN d.steps = 1 .. Len(d.steps) /\ Len(d.steps) \in Nat
  BY AcceptedSteps
<1> DEFINE i == Place(d, id)
<1>2. i \in DOMAIN d.steps
  BY AcceptedPlaces
<1>3. Unbounded(d)[id] = {d.steps[i].next[k].to : k \in {m \in DOMAIN d.steps[i].next : d.steps[i].next[m].max <= 0}} \cap DocIds(d)
  BY DEF Unbounded
<1> HIDE DEF i
<1>4. PICK k \in DOMAIN d.steps[i].next : d.steps[i].next[k].max <= 0 /\ x = d.steps[i].next[k].to
  BY <1>3
<1>5. x \in DocIds(d)
  BY <1>3
<1>6. ~(Place(d, x) <= i)
  BY <1>2, <1>4, <1>5, AcceptedConnections
<1>7. Place(d, x) \in DOMAIN d.steps
  BY <1>5, AcceptedPlaces
<1> QED
  BY <1>1, <1>2, <1>5, <1>6, <1>7 DEF i

\* Following the connections one by one is what reached[Len(d.steps)] is.
LEMMA CircleIsFollowed ==
  ASSUME NEW d, Len(d.steps) \in Nat \ {0}, NEW id
  PROVE  \E reached :
           /\ reached = [n \in 1 .. Len(d.steps) |->
                           IF n = 1 THEN Unbounded(d)[id] ELSE reached[n - 1] \cup UNION {Unbounded(d)[x] : x \in reached[n - 1]}]
           /\ OnUnboundedCircle(d, id) <=> id \in reached[Len(d.steps)]
<1> DEFINE Further(set) == set \cup UNION {Unbounded(d)[x] : x \in set}
           Follows(n, f) == f = [i \in 1 .. n |-> IF i = 1 THEN Unbounded(d)[id] ELSE Further(f[i - 1])]
           Lost == {n \in 1 .. Len(d.steps) : \A f : ~Follows(n, f)}
<1>1. Lost = {}
  <2> SUFFICES ASSUME Lost # {} PROVE FALSE
    OBVIOUS
  <2>1. PICK n \in Lost : \A k \in Lost : n <= k
    <3>1. Lost \in SUBSET Nat
      OBVIOUS
    <3> QED
      BY <3>1, LeastPlace
  <2>2. n \in 1 .. Len(d.steps) /\ \A f : ~Follows(n, f)
    BY <2>1
  <2>3. n # 1
    <3>1. Follows(1, [i \in 1 .. 1 |-> Unbounded(d)[id]])
      OBVIOUS
    <3> QED
      BY <2>2, <3>1
  <2>4. n - 1 \in 1 .. Len(d.steps) /\ n - 1 \notin Lost
    <3>1. n - 1 \in 1 .. Len(d.steps) /\ ~(n <= n - 1)
      BY <2>2, <2>3
    <3> HIDE DEF Lost
    <3> QED
      BY <3>1, <2>1
  <2>5. PICK g : Follows(n - 1, g)
    BY <2>4
  <2> DEFINE f == [i \in 1 .. n |-> IF i = n THEN Further(g[n - 1]) ELSE g[i]]
  <2>6. \A i \in 1 .. n : i # n => f[i] = g[i]
    OBVIOUS
  <2>7. \A i \in 1 .. n - 1 : g[i] = IF i = 1 THEN Unbounded(d)[id] ELSE Further(g[i - 1])
    BY <2>5
  <2> HIDE DEF Further
  <2>8. \A i \in 1 .. n : f[i] = IF i = 1 THEN Unbounded(d)[id] ELSE Further(f[i - 1])
    <3>1. n \in Nat /\ 1 < n
      BY <2>2, <2>3
    <3>2. f[n] = Further(g[n - 1]) /\ f[n - 1] = g[n - 1]
      BY <3>1
    <3> HIDE DEF f
    <3>3. ASSUME NEW i \in 1 .. n, i # n, i # 1 PROVE f[i] = Further(f[i - 1])
      <4>1. i \in 1 .. n - 1 /\ i - 1 \in 1 .. n /\ i - 1 # n
        BY <3>1, <3>3
      <4>2. f[i] = g[i] /\ f[i - 1] = g[i - 1] /\ g[i] = Further(g[i - 1])
        BY <2>6, <2>7, <3>3, <4>1
      <4> QED
        BY <4>2
    <3>4. f[1] = Unbounded(d)[id]
      <4>1. 1 \in 1 .. n - 1 /\ 1 \in 1 .. n /\ 1 # n
        BY <3>1
      <4> QED
        BY <2>6, <2>7, <4>1
    <3> QED
      BY <3>1, <3>2, <3>3, <3>4
  <2>9. f = [i \in 1 .. n |-> f[i]]
    OBVIOUS
  <2> HIDE DEF f
  <2>10. Follows(n, f)
    BY <2>8, <2>9
  <2> QED
    BY <2>2, <2>10
<1>2. \E f : Follows(Len(d.steps), f)
  <2>1. Len(d.steps) \in 1 .. Len(d.steps)
    OBVIOUS
  <2> HIDE DEF Follows
  <2> QED
    BY <1>1, <2>1
<1>3. OnUnboundedCircle(d, id) <=> id \in (CHOOSE f : Follows(Len(d.steps), f))[Len(d.steps)]
  BY DEF OnUnboundedCircle
<1> QED
  BY <1>2, <1>3

\* A circle of an accepted graph holds a connection with a bound.
LEMMA CirclesAreBounded ==
  ASSUME NEW d, d.steps \in Seq(DocSteps), IssuesOf(d, FALSE) = {}, IsGraph(d), NEW id \in DocIds(d)
  PROVE  ~OnUnboundedCircle(d, id)
<1> DEFINE len == Len(d.steps)
<1>1. len \in Nat \ {0}
  BY AcceptedSteps
<1>2. PICK reached : /\ reached = [n \in 1 .. len |->
                           IF n = 1 THEN Unbounded(d)[id] ELSE reached[n - 1] \cup UNION {Unbounded(d)[x] : x \in reached[n - 1]}]
                     /\ OnUnboundedCircle(d, id) <=> id \in reached[len]
  BY <1>1, CircleIsFollowed
<1> DEFINE Onward(set) == \A x \in set : x \in DocIds(d) /\ Place(d, id) < Place(d, x)
           Back == {n \in 1 .. len : ~Onward(reached[n])}
<1>3. Place(d, id) \in Nat /\ \A x \in DocIds(d) : Place(d, x) \in Nat
  <2>1. \A x \in DocIds(d) : Place(d, x) \in DOMAIN d.steps
    BY AcceptedPlaces
  <2>2. DOMAIN d.steps \subseteq Nat
    BY AcceptedSteps
  <2> QED
    BY <2>1, <2>2
<1>4. \A x \in DocIds(d) : \A y \in Unbounded(d)[x] : y \in DocIds(d) /\ Place(d, x) < Place(d, y)
  BY UnboundedGoOn
<1>5. Back = {}
  <2> SUFFICES ASSUME Back # {} PROVE FALSE
    OBVIOUS
  <2>1. PICK n \in Back : \A k \in Back : n <= k
    <3>1. Back \in SUBSET Nat
      OBVIOUS
    <3> QED
      BY <3>1, LeastPlace
  <2>2. n \in 1 .. len /\ ~Onward(reached[n])
    BY <2>1
  <2>3. n # 1
    <3>1. 1 \in 1 .. len /\ reached[1] = Unbounded(d)[id]
      BY <1>2
    <3>2. Onward(reached[1])
      BY <1>4, <3>1
    <3> QED
      BY <2>2, <3>2
  <2>4. n - 1 \in 1 .. len /\ ~(n <= n - 1)
    BY <2>2, <2>3
  <2>5. Onward(reached[n - 1])
    <3> HIDE DEF Onward
    <3> QED
      BY <2>1, <2>4
  <2>6. reached[n] = reached[n - 1] \cup UNION {Unbounded(d)[x] : x \in reached[n - 1]}
    BY <1>2, <2>2, <2>3
  <2>7. ASSUME NEW y \in reached[n] PROVE y \in DocIds(d) /\ Place(d, id) < Place(d, y)
    <3>1. CASE y \in reached[n - 1]
      BY <2>5, <3>1
    <3>2. CASE y \notin reached[n - 1]
      <4>1. PICK x \in reached[n - 1] : y \in Unbounded(d)[x]
        BY <2>6, <3>2
      <4>2. x \in DocIds(d) /\ Place(d, id) < Place(d, x)
        BY <2>5
      <4>3. y \in DocIds(d) /\ Place(d, x) < Place(d, y)
        BY <1>4, <4>1, <4>2
      <4> QED
        BY <1>3, <4>2, <4>3
    <3> QED
      BY <3>1, <3>2
  <2> QED
    BY <2>2, <2>7
<1>6. Onward(reached[len])
  BY <1>1, <1>5
<1>7. ~(Place(d, id) < Place(d, id))
  BY <1>3
<1> QED
  BY <1>2, <1>6, <1>7

\* Following all connections from the start is what ReachableIn is.
LEMMA ReachIsFollowed ==
  ASSUME NEW d, Len(d.steps) \in Nat
  PROVE  \E reached :
           /\ reached = [n \in 0 .. Len(d.steps) |->
                           IF n = 0 THEN {Start(d)} ELSE reached[n - 1] \cup UNION {LeadsTo(d, id) : id \in reached[n - 1]}]
           /\ ReachableIn(d) = reached[Len(d.steps)]
<1> DEFINE Further(set) == set \cup UNION {LeadsTo(d, id) : id \in set}
           Follows(n, f) == f = [i \in 0 .. n |-> IF i = 0 THEN {Start(d)} ELSE Further(f[i - 1])]
           Lost == {n \in 0 .. Len(d.steps) : \A f : ~Follows(n, f)}
<1>1. Lost = {}
  <2> SUFFICES ASSUME Lost # {} PROVE FALSE
    OBVIOUS
  <2>1. PICK n \in Lost : \A k \in Lost : n <= k
    <3>1. Lost \in SUBSET Nat
      OBVIOUS
    <3> QED
      BY <3>1, LeastPlace
  <2>2. n \in 0 .. Len(d.steps) /\ \A f : ~Follows(n, f)
    BY <2>1
  <2>3. n # 0
    <3>1. Follows(0, [i \in 0 .. 0 |-> {Start(d)}])
      OBVIOUS
    <3> QED
      BY <2>2, <3>1
  <2>4. n - 1 \in 0 .. Len(d.steps) /\ n - 1 \notin Lost
    <3>1. n - 1 \in 0 .. Len(d.steps) /\ ~(n <= n - 1)
      BY <2>2, <2>3
    <3> HIDE DEF Lost
    <3> QED
      BY <3>1, <2>1
  <2>5. PICK g : Follows(n - 1, g)
    BY <2>4
  <2> DEFINE f == [i \in 0 .. n |-> IF i = n THEN Further(g[n - 1]) ELSE g[i]]
  <2>6. \A i \in 0 .. n : i # n => f[i] = g[i]
    OBVIOUS
  <2>7. \A i \in 0 .. n - 1 : g[i] = IF i = 0 THEN {Start(d)} ELSE Further(g[i - 1])
    BY <2>5
  <2> HIDE DEF Further
  <2>8. \A i \in 0 .. n : f[i] = IF i = 0 THEN {Start(d)} ELSE Further(f[i - 1])
    <3>1. n \in Nat /\ 0 < n
      BY <2>2, <2>3
    <3>2. f[n] = Further(g[n - 1]) /\ f[n - 1] = g[n - 1]
      BY <3>1
    <3> HIDE DEF f
    <3>3. ASSUME NEW i \in 0 .. n, i # n, i # 0 PROVE f[i] = Further(f[i - 1])
      <4>1. i \in 0 .. n - 1 /\ i - 1 \in 0 .. n /\ i - 1 # n
        BY <3>1, <3>3
      <4>2. f[i] = g[i] /\ f[i - 1] = g[i - 1] /\ g[i] = Further(g[i - 1])
        BY <2>6, <2>7, <3>3, <4>1
      <4> QED
        BY <4>2
    <3>4. f[0] = {Start(d)}
      <4>1. 0 \in 0 .. n - 1 /\ 0 \in 0 .. n /\ 0 # n
        BY <3>1
      <4> QED
        BY <2>6, <2>7, <4>1
    <3> QED
      BY <3>1, <3>2, <3>3, <3>4
  <2>9. f = [i \in 0 .. n |-> f[i]]
    OBVIOUS
  <2> HIDE DEF f
  <2>10. Follows(n, f)
    BY <2>8, <2>9
  <2> QED
    BY <2>2, <2>10
<1>2. \E f : Follows(Len(d.steps), f)
  <2>1. Len(d.steps) \in 0 .. Len(d.steps)
    OBVIOUS
  <2> HIDE DEF Follows
  <2> QED
    BY <1>1, <2>1
<1>3. ReachableIn(d) = (CHOOSE f : Follows(Len(d.steps), f))[Len(d.steps)]
  BY DEF ReachableIn
<1> QED
  BY <1>2, <1>3

\* A set of steps that no walk from the start leaves holds all it can come to.
LEMMA WalksStay ==
  ASSUME NEW d, Len(d.steps) \in Nat, NEW S, ClosedUnderWalks(d, S)
  PROVE  ReachableIn(d) \subseteq S
<1> DEFINE len == Len(d.steps)
<1>1. PICK reached : /\ reached = [n \in 0 .. len |->
                           IF n = 0 THEN {Start(d)} ELSE reached[n - 1] \cup UNION {LeadsTo(d, id) : id \in reached[n - 1]}]
                     /\ ReachableIn(d) = reached[len]
  BY ReachIsFollowed
<1> DEFINE Left == {n \in 0 .. len : ~(reached[n] \subseteq S)}
<1>2. Left = {}
  <2> SUFFICES ASSUME Left # {} PROVE FALSE
    OBVIOUS
  <2>1. PICK n \in Left : \A k \in Left : n <= k
    <3>1. Left \in SUBSET Nat
      OBVIOUS
    <3> QED
      BY <3>1, LeastPlace
  <2>2. n \in 0 .. len /\ ~(reached[n] \subseteq S)
    BY <2>1
  <2>3. n # 0
    <3>1. 0 \in 0 .. len
      OBVIOUS
    <3>2. reached[0] = {Start(d)}
      BY <1>1, <3>1
    <3> QED
      BY <2>2, <3>2 DEF ClosedUnderWalks
  <2>4. n - 1 \in 0 .. len /\ ~(n <= n - 1)
    BY <2>2, <2>3
  <2>5. reached[n - 1] \subseteq S
    BY <2>1, <2>4
  <2>6. reached[n] = reached[n - 1] \cup UNION {LeadsTo(d, id) : id \in reached[n - 1]}
    BY <1>1, <2>2, <2>3
  <2>7. \A id \in reached[n - 1] : LeadsTo(d, id) \subseteq S
    BY <2>5 DEF ClosedUnderWalks
  <2> QED
    BY <2>2, <2>5, <2>6, <2>7
<1>3. len \in 0 .. len
  OBVIOUS
<1>4. \A n \in 0 .. len : reached[n] \subseteq S
  BY <1>2
<1>5. ReachableIn(d) = reached[len]
  BY <1>1
<1> QED
  BY <1>3, <1>4, <1>5

\* Of an accepted graph every step can be come to, and one can be the last.
LEMMA AllIsComeTo ==
  ASSUME NEW d, d.steps \in Seq(DocSteps), IssuesOf(d, FALSE) = {}, IsGraph(d)
  PROVE  /\ \A S \in SUBSET DocIds(d) : ClosedUnderWalks(d, S) => S = DocIds(d)
         /\ \E id \in DocIds(d) : MayEnd(d, id)
<1>1. Len(d.steps) \in Nat /\ Start(d) \in DocIds(d)
  BY AcceptedSteps
<1>2. GraphIssues(d) = {}
  <2>1. d.steps # << >>
    BY Zenon DEF IssuesOf
  <2> QED
    BY <2>1 DEF IssuesOf
<1>3. Found("unreachable_step", DocIds(d) \ ReachableIn(d) # {}) = {}
      /\ Found("missing_terminal_step", ~\E id \in ReachableIn(d) : MayEnd(d, id)) = {}
  <2> DEFINE dead == Found("unreachable_step", DocIds(d) \ ReachableIn(d) # {})
             endless == Found("missing_terminal_step", ~\E id \in ReachableIn(d) : MayEnd(d, id))
  <2>1. (IF Start(d) \notin DocIds(d) THEN {"missing_start_step"} ELSE dead \cup endless) \subseteq GraphIssues(d)
    BY Zenon DEF GraphIssues
  <2> HIDE DEF dead, endless
  <2>2. dead = {} /\ endless = {}
    BY <1>1, <1>2, <2>1
  <2> QED
    BY <2>2 DEF dead, endless
<1>4. DocIds(d) \ ReachableIn(d) = {} /\ \E id \in ReachableIn(d) : MayEnd(d, id)
  BY <1>3, NothingFound
<1>5. ClosedUnderWalks(d, DocIds(d))
  BY <1>1 DEF ClosedUnderWalks, LeadsTo
<1>6. ReachableIn(d) \subseteq DocIds(d)
  BY <1>1, <1>5, WalksStay
<1>7. ASSUME NEW S \in SUBSET DocIds(d), ClosedUnderWalks(d, S) PROVE S = DocIds(d)
  <2>1. ReachableIn(d) \subseteq S
    BY <1>1, <1>7, WalksStay
  <2> QED
    BY <1>4, <2>1
<1> QED
  BY <1>4, <1>6, <1>7

\* A graph that is accepted is what the interpreter needs.
LEMMA AcceptedIsSound ==
  ASSUME NEW d, d.steps \in Seq(DocSteps), IssuesOf(d, FALSE) = {}, IsGraph(d)
  PROVE  Sound(d)
<1>1. Cardinality(DocIds(d)) = Len(d.steps)
  <2> DEFINE idOf == [i \in 1 .. Len(d.steps) |-> d.steps[i].id]
  <2>1. /\ Len(d.steps) \in Nat /\ DOMAIN d.steps = 1 .. Len(d.steps) /\ \A i \in DOMAIN d.steps : d.steps[i].id \in DocIds(d)
        /\ \A i, j \in DOMAIN d.steps : d.steps[i].id = d.steps[j].id => i = j
    BY AcceptedSteps
  <2>2. \A id \in DocIds(d) : \E i \in 1 .. Len(d.steps) : idOf[i] = id
    BY <2>1 DEF DocIds
  <2>3. idOf \in Bijection(1 .. Len(d.steps), DocIds(d))
    BY <2>1, <2>2 DEF Bijection, Injection, Surjection, IsInjective
  <2>4. ExistsBijection(1 .. Len(d.steps), DocIds(d))
    BY <2>3 DEF ExistsBijection
  <2>5. Cardinality(DocIds(d)) = Len(d.steps)
    BY <2>1, <2>4, FS_CountingElements
  <2> QED
    BY <2>5
<1>2. \A i \in DOMAIN d.steps : \A k \in DOMAIN d.steps[i].next :
        /\ d.steps[i].next[k].to \in DocIds(d) \cup {"$end"}
        /\ Plain(d.steps[i].next[k]) => Len(d.steps[i].next) = 1
  BY AcceptedConnections
<1>3. Start(d) \in DocIds(d)
  BY AcceptedSteps
<1>4. \A id \in DocIds(d) : ~OnUnboundedCircle(d, id)
  BY CirclesAreBounded
<1>5. /\ \A S \in SUBSET DocIds(d) : ClosedUnderWalks(d, S) => S = DocIds(d)
      /\ \E id \in DocIds(d) : MayEnd(d, id)
  BY AllIsComeTo
<1> QED
  BY <1>1, <1>2, <1>3, <1>4, <1>5 DEF Sound

\* What the runs of lists are asked for and answer.
Words == {"none", "completed", "failed", "blocked", "skipped", "running"} \cup AskedEvidence

\* A step of a list that this start is past: it ran or was passed over, or the
\* start was asked to begin after it.
IsSettled(i) ==
  LET step == document.steps[i] IN
  \/ linearRun.steps[i] = "completed" \/ (linearRun.steps[i] = "skipped" /\ step.when # "always")
  \/ linearRun.steps[i] = "failed" /\ step.continues
  \/ linear.asked # "none" /\ linearRun.steps[i] = "none" /\ step.evidence # linear.asked
     /\ \E j \in DOMAIN document.steps : j > i /\ document.steps[j].evidence = linear.asked
LinearTyped ==
  /\ document \in Documents \cup {NoDocument} /\ document.steps \in Seq(DocSteps)
  /\ linear \in [at : {"idle", "accepted", "refused", "choose", "work", "stopped", "ended"}, index : Nat, pr : BOOLEAN,
                 last : Words, asked : Words, starts : Nat]
  /\ linear.index \in 1 .. Len(document.steps) + 1
  /\ linearRun \in [status : {"absent", "running", "done", "failed", "blocked"}, steps : Seq(Words)]
DocumentsInv ==
  /\ LinearTyped
  /\ linear.at = "accepted" => IssuesOf(document, FALSE) = {}
  /\ linear.at \in {"choose", "work"} =>
       DOMAIN linearRun.steps = DOMAIN document.steps /\ \A i \in DOMAIN document.steps : i < linear.index => IsSettled(i)
  /\ linear.at = "work" => linear.index \in DOMAIN document.steps
  /\ linearRun.status = "done" => linear.at = "ended" /\ \A i \in DOMAIN document.steps : IsSettled(i)

\* The step a start begins at, and those before it.
LEMMA ResumedAt ==
  ASSUME NEW d, d.steps \in Seq(DocSteps), NEW asked
  PROVE  /\ ResumeIndex(d, asked) \in 1 .. Len(d.steps) + 1
         /\ \A i \in DOMAIN d.steps : i < ResumeIndex(d, asked) =>
              /\ asked # "none" /\ d.steps[i].evidence # asked
              /\ \E j \in DOMAIN d.steps : j > i /\ d.steps[j].evidence = asked
<1> DEFINE found == {i \in DOMAIN d.steps : d.steps[i].evidence = asked}
<1>1. Len(d.steps) \in Nat /\ DOMAIN d.steps = 1 .. Len(d.steps)
  OBVIOUS
<1>2. CASE asked = "none" \/ found = {}
  <2>1. ResumeIndex(d, asked) = 1
    BY <1>2 DEF ResumeIndex
  <2> QED
    BY <1>1, <2>1
<1>3. CASE asked # "none" /\ found # {}
  <2>1. \A x \in found : x \in Nat
    BY <1>1
  <2>2. \E i \in found : \A j \in found : i <= j
    <3>1. found \in SUBSET Nat
      BY <2>1
    <3> HIDE DEF found
    <3> QED
      BY <1>3, <3>1, LeastPlace
  <2>3. ResumeIndex(d, asked) = CHOOSE i \in found : \A j \in found : i <= j
    BY <1>3 DEF ResumeIndex
  <2>4. ResumeIndex(d, asked) \in found /\ \A j \in found : ResumeIndex(d, asked) <= j
    <3> HIDE DEF found
    <3> QED
      BY <2>2, <2>3
  <2> QED
    BY <1>1, <1>3, <2>4
<1> QED
  BY <1>2, <1>3

LEMMA DocumentsStart == WorkflowDocsInit => DocumentsInv
<1> SUFFICES ASSUME WorkflowDocsInit PROVE DocumentsInv
  OBVIOUS
<1>1. /\ document = NoDocument /\ linearRun = [status |-> "absent", steps |-> << >>]
      /\ linear = [at |-> "idle", index |-> 1, pr |-> FALSE, last |-> "none", asked |-> "none", starts |-> 0]
  BY DEF WorkflowDocsInit
<1>2. Len(document.steps) = 0 /\ document.steps \in Seq(DocSteps)
  <2>1. document = [startAt |-> "none", steps |-> << >>]
    BY <1>1 DEF NoDocument
  <2>2. << >> \in Seq(DocSteps) /\ Len(<< >>) = 0
    OBVIOUS
  <2> QED
    BY <2>1, <2>2
<1>3. LinearTyped
  <2>1. linear \in [at : {"idle", "accepted", "refused", "choose", "work", "stopped", "ended"}, index : Nat, pr : BOOLEAN,
                    last : Words, asked : Words, starts : Nat]
    BY <1>1 DEF Words
  <2>2. << >> \in Seq(Words)
    OBVIOUS
  <2>3. linearRun \in [status : {"absent", "running", "done", "failed", "blocked"}, steps : Seq(Words)]
    BY <1>1, <2>2
  <2>4. linear.index \in 1 .. Len(document.steps) + 1
    BY <1>1, <1>2
  <2> QED
    BY <1>1, <1>2, <2>1, <2>3, <2>4 DEF LinearTyped
<1> QED
  BY <1>1, <1>3 DEF DocumentsInv

LEMMA ReadingKeeps ==
  ASSUME DocumentsInv, ReadDocument
  PROVE  DocumentsInv'
<1>1. LinearTyped
  BY DEF DocumentsInv
<1>2. PICK d \in Documents :
        /\ linear.at = "idle" /\ document = NoDocument /\ document' = d /\ linearRun' = linearRun
        /\ linear' = [linear EXCEPT !.at = IF IssuesOf(d, FALSE) = {} THEN "accepted" ELSE "refused"]
  BY DEF ReadDocument
<1>3. linear.index = 1
  BY <1>1, <1>2 DEF LinearTyped, NoDocument
<1>4. d.steps \in Seq(DocSteps)
  BY WorkflowDocsAssumption
<1>5. Len(d.steps) \in Nat
  BY <1>4
<1>6. /\ linear'.at = (IF IssuesOf(d, FALSE) = {} THEN "accepted" ELSE "refused") /\ linear'.index = 1
      /\ linear' \in [at : {"idle", "accepted", "refused", "choose", "work", "stopped", "ended"}, index : Nat, pr : BOOLEAN,
                      last : Words, asked : Words, starts : Nat]
  BY <1>1, <1>2, <1>3 DEF LinearTyped
<1>7. LinearTyped'
  BY <1>1, <1>2, <1>4, <1>5, <1>6 DEF LinearTyped
<1>8. linearRun.status # "done"
  BY <1>2 DEF DocumentsInv
<1> QED
  BY <1>2, <1>6, <1>7, <1>8 DEF DocumentsInv

LEMMA StartKeeps ==
  ASSUME DocumentsInv, StartLinear
  PROVE  DocumentsInv'
<1>1. LinearTyped
  BY DEF DocumentsInv
<1>2. PICK asked \in (IF linear.starts = 0 THEN AskedEvidence ELSE {linear.asked}) :
        linear' = [at |-> IF IssuesOf(document, TRUE) = {} THEN "choose" ELSE "stopped", index |-> ResumeIndex(document, asked),
                   pr |-> FALSE, last |-> "none", asked |-> asked, starts |-> linear.starts + 1]
  BY DEF StartLinear
<1>3. linearRun' = [linearRun EXCEPT !.steps = Untouched(document)] /\ document' = document /\ linearRun.status # "done"
  BY DEF StartLinear
<1>4. document.steps \in Seq(DocSteps)
  BY <1>1 DEF LinearTyped
<1>5. /\ ResumeIndex(document, asked) \in 1 .. Len(document.steps) + 1
      /\ \A i \in DOMAIN document.steps : i < ResumeIndex(document, asked) =>
              /\ asked # "none" /\ document.steps[i].evidence # asked
              /\ \E j \in DOMAIN document.steps : j > i /\ document.steps[j].evidence = asked
  BY <1>4, ResumedAt
<1>6. asked \in Words
  BY <1>1 DEF LinearTyped, Words
<1>7. Untouched(document) \in Seq(Words) /\ DOMAIN Untouched(document) = DOMAIN document.steps
      /\ \A i \in DOMAIN document.steps : Untouched(document)[i] = "none"
  <2>1. Len(document.steps) \in Nat /\ DOMAIN document.steps = 1 .. Len(document.steps)
    BY <1>4
  <2>2. Untouched(document) = [i \in 1 .. Len(document.steps) |-> "none"]
    BY <2>1 DEF Untouched
  <2>3. \A n \in Nat : [i \in 1 .. n |-> "none"] \in Seq(Words)
    BY DEF Words
  <2> QED
    BY <2>1, <2>2, <2>3
<1>8. linearRun'.steps = Untouched(document) /\ linearRun'.status = linearRun.status
      /\ linearRun' \in [status : {"absent", "running", "done", "failed", "blocked"}, steps : Seq(Words)]
  BY <1>1, <1>3, <1>7 DEF LinearTyped
<1>9. ResumeIndex(document, asked) \in Nat
  BY <1>4, <1>5
<1>10. linear'.index = ResumeIndex(document, asked) /\ linear'.asked = asked /\ linear'.at \in {"choose", "stopped"}
       /\ linear' \in [at : {"idle", "accepted", "refused", "choose", "work", "stopped", "ended"}, index : Nat, pr : BOOLEAN,
                       last : Words, asked : Words, starts : Nat]
  <2>1. linear.starts + 1 \in Nat
    BY <1>1 DEF LinearTyped
  <2> DEFINE opening == IF IssuesOf(document, TRUE) = {} THEN "choose" ELSE "stopped"
             from == ResumeIndex(document, asked)
  <2>2. opening \in {"choose", "stopped"} /\ from \in Nat
    BY <1>9
  <2>3. linear' = [at |-> opening, index |-> from, pr |-> FALSE, last |-> "none", asked |-> asked, starts |-> linear.starts + 1]
    BY <1>2
  <2> HIDE DEF opening, from
  <2>4. linear'.index = from /\ linear'.asked = asked /\ linear'.at \in {"choose", "stopped"}
        /\ linear' \in [at : {"idle", "accepted", "refused", "choose", "work", "stopped", "ended"}, index : Nat, pr : BOOLEAN,
                        last : Words, asked : Words, starts : Nat]
    BY <1>6, <2>1, <2>2, <2>3 DEF Words
  <2> QED
    BY <2>4 DEF from
<1>11. LinearTyped'
  BY <1>1, <1>3, <1>5, <1>8, <1>10 DEF LinearTyped
<1>12. \A i \in DOMAIN document.steps : i < linear'.index => IsSettled(i)'
  BY <1>3, <1>5, <1>7, <1>8, <1>10 DEF IsSettled
<1> QED
  BY <1>3, <1>7, <1>8, <1>10, <1>11, <1>12 DEF DocumentsInv

\* The word a step is marked with.
LEMMA MarkedStep ==
  ASSUME NEW s \in Seq(Words), NEW i, NEW word \in Words
  PROVE  /\ [s EXCEPT ![i] = word] \in Seq(Words) /\ DOMAIN [s EXCEPT ![i] = word] = DOMAIN s
         /\ \A j \in DOMAIN s : j # i => [s EXCEPT ![i] = word][j] = s[j]
<1>1. Len(s) \in Nat /\ DOMAIN s = 1 .. Len(s) /\ \A j \in 1 .. Len(s) : s[j] \in Words
  OBVIOUS
<1> DEFINE marked == [s EXCEPT ![i] = word]
<1>2. DOMAIN marked = 1 .. Len(s) /\ \A j \in 1 .. Len(s) : marked[j] = IF j = i THEN word ELSE s[j]
  BY <1>1
<1>3. marked = [j \in 1 .. Len(s) |-> IF j = i THEN word ELSE s[j]]
  BY <1>1
<1> DEFINE value(j) == IF j = i THEN word ELSE s[j]
<1>4. \A j \in 1 .. Len(s) : value(j) \in Words
  BY <1>1
<1> HIDE DEF value
<1>5. [j \in 1 .. Len(s) |-> value(j)] \in Seq(Words)
  BY <1>1, <1>4
<1> QED
  BY <1>1, <1>2, <1>3, <1>5 DEF value

\* A step becomes settled, and the run goes on to the next.
LEMMA NextIsReached ==
  ASSUME DocumentsInv, linear.at \in {"choose", "work"}, linear.index \in DOMAIN document.steps, NEW end \in Words,
         document' = document, linearRun'.steps = [linearRun.steps EXCEPT ![linear.index] = end],
         linear'.index = linear.index + 1, linear'.asked = linear.asked, NEW here, here = linear.index, IsSettled(here)'
  PROVE  /\ linearRun'.steps \in Seq(Words) /\ DOMAIN linearRun'.steps = DOMAIN document.steps
         /\ \A i \in DOMAIN document.steps : i < linear'.index => IsSettled(i)'
         /\ linear'.index \in 1 .. Len(document.steps) + 1
<1>1. LinearTyped
  BY DEF DocumentsInv
<1>2. DOMAIN linearRun.steps = DOMAIN document.steps /\ \A i \in DOMAIN document.steps : i < linear.index => IsSettled(i)
  BY DEF DocumentsInv
<1>3. linearRun.steps \in Seq(Words) /\ document.steps \in Seq(DocSteps)
  BY <1>1 DEF LinearTyped
<1>4. Len(document.steps) \in Nat /\ DOMAIN document.steps = 1 .. Len(document.steps)
  BY <1>3
<1>5. linearRun'.steps \in Seq(Words) /\ DOMAIN linearRun'.steps = DOMAIN document.steps
      /\ \A i \in DOMAIN document.steps : i # linear.index => linearRun'.steps[i] = linearRun.steps[i]
  BY <1>2, <1>3
<1>6. ASSUME NEW i \in DOMAIN document.steps, i < linear'.index PROVE IsSettled(i)'
  <2>1. CASE i = linear.index
    BY <2>1
  <2>2. CASE i # linear.index
    <3>1. i < linear.index
      BY <1>4, <1>6, <2>2
    <3>2. IsSettled(i) /\ linearRun'.steps[i] = linearRun.steps[i]
      BY <1>2, <1>5, <2>2, <3>1
    <3> QED
      BY <3>2 DEF IsSettled
  <2> QED
    BY <2>1, <2>2
<1>7. linear'.index \in 1 .. Len(document.steps) + 1
  BY <1>4
<1> QED
  BY <1>5, <1>6, <1>7

LEMMA NextStepKeeps ==
  ASSUME DocumentsInv, NextLinearStep
  PROVE  DocumentsInv'
<1>1. LinearTyped
  BY DEF DocumentsInv
<1>2. linear.at = "choose" /\ document' = document
  BY DEF NextLinearStep
<1>3. DOMAIN linearRun.steps = DOMAIN document.steps /\ \A i \in DOMAIN document.steps : i < linear.index => IsSettled(i)
  BY <1>2 DEF DocumentsInv
<1>4. linearRun.status # "done"
  BY <1>2 DEF DocumentsInv
<1>5. document.steps \in Seq(DocSteps) /\ Len(document.steps) \in Nat /\ DOMAIN document.steps = 1 .. Len(document.steps)
      /\ linear.index \in 1 .. Len(document.steps) + 1
  BY <1>1 DEF LinearTyped
<1>6. CASE linear.index > Len(document.steps)
  <2>1. linear' = [linear EXCEPT !.at = "ended"] /\ linearRun' = [linearRun EXCEPT !.status = "done"]
    BY <1>6 DEF NextLinearStep
  <2>2. /\ linear'.at = "ended" /\ linear'.index = linear.index /\ linear'.asked = linear.asked /\ linearRun'.steps = linearRun.steps
        /\ LinearTyped'
    BY <1>1, <1>2, <2>1 DEF LinearTyped
  <2>3. \A i \in DOMAIN document.steps : IsSettled(i)'
    <3> SUFFICES ASSUME NEW i \in DOMAIN document.steps PROVE IsSettled(i)'
      OBVIOUS
    <3>1. i < linear.index
      BY <1>5, <1>6
    <3>2. IsSettled(i)
      BY <1>3, <3>1
    <3> QED
      BY <1>2, <2>2, <3>2 DEF IsSettled
  <2> QED
    BY <1>2, <2>2, <2>3 DEF DocumentsInv
<1>7. CASE ~(linear.index > Len(document.steps))
  <2> DEFINE step == document.steps[linear.index]
  <2>1. linear.index \in DOMAIN document.steps
    BY <1>5, <1>7
  <2>2. \/ ~WouldRun(step) /\ linear' = [linear EXCEPT !.index = @ + 1] /\ linearRun' = [linearRun EXCEPT !.steps[linear.index] = "skipped"]
        \/ linear' = [linear EXCEPT !.at = "stopped"] /\ linearRun' = linearRun
        \/ linear' = [linear EXCEPT !.at = "work"] /\ linearRun' = [linearRun EXCEPT !.status = "running", !.steps[linear.index] = "running"]
    BY <1>7 DEF NextLinearStep
  <2>3. CASE ~WouldRun(step) /\ linear' = [linear EXCEPT !.index = @ + 1] /\ linearRun' = [linearRun EXCEPT !.steps[linear.index] = "skipped"]
    <3>1. /\ linear'.at = "choose" /\ linear'.index = linear.index + 1 /\ linear'.asked = linear.asked
          /\ linear' \in [at : {"idle", "accepted", "refused", "choose", "work", "stopped", "ended"}, index : Nat, pr : BOOLEAN,
                          last : Words, asked : Words, starts : Nat]
      BY <1>1, <1>2, <2>3 DEF LinearTyped
    <3>2. linearRun'.steps = [linearRun.steps EXCEPT ![linear.index] = "skipped"] /\ linearRun'.status = linearRun.status
      BY <1>1, <2>3 DEF LinearTyped
    <3>3. linearRun'.steps[linear.index] = "skipped"
      BY <1>3, <2>1, <3>2
    <3>4. step.when # "always"
      BY <2>3 DEF WouldRun
    <3>5. PICK here : here = linear.index /\ IsSettled(here)'
      <4>1. PICK place : place = linear.index
        OBVIOUS
      <4>2. document'.steps[place].when # "always" /\ linearRun'.steps[place] = "skipped"
        BY <1>2, <3>3, <3>4, <4>1
      <4>3. IsSettled(place)'
        BY <4>2 DEF IsSettled
      <4> QED
        BY <4>1, <4>3
    <3>6. /\ linearRun'.steps \in Seq(Words) /\ DOMAIN linearRun'.steps = DOMAIN document.steps
          /\ \A i \in DOMAIN document.steps : i < linear'.index => IsSettled(i)'
          /\ linear'.index \in 1 .. Len(document.steps) + 1
      BY <1>2, <2>1, <3>1, <3>2, <3>5, NextIsReached DEF Words
    <3>7. linearRun' \in [status : {"absent", "running", "done", "failed", "blocked"}, steps : Seq(Words)]
      BY <1>1, <2>3, <3>2, <3>6 DEF LinearTyped
    <3>8. LinearTyped'
      BY <1>1, <1>2, <3>1, <3>6, <3>7 DEF LinearTyped
    <3> QED
      BY <1>2, <1>4, <3>1, <3>2, <3>6, <3>8 DEF DocumentsInv
  <2>4. CASE linear' = [linear EXCEPT !.at = "stopped"] /\ linearRun' = linearRun
    <3>1. LinearTyped' /\ linear'.at = "stopped"
      BY <1>1, <1>2, <2>4 DEF LinearTyped
    <3> QED
      BY <1>4, <2>4, <3>1 DEF DocumentsInv
  <2>5. CASE linear' = [linear EXCEPT !.at = "work"] /\ linearRun' = [linearRun EXCEPT !.status = "running", !.steps[linear.index] = "running"]
    <3>1. /\ linear'.at = "work" /\ linear'.index = linear.index /\ linear'.asked = linear.asked
          /\ linear' \in [at : {"idle", "accepted", "refused", "choose", "work", "stopped", "ended"}, index : Nat, pr : BOOLEAN,
                          last : Words, asked : Words, starts : Nat]
      BY <1>1, <2>5 DEF LinearTyped
    <3>2. linearRun'.steps = [linearRun.steps EXCEPT ![linear.index] = "running"] /\ linearRun'.status = "running"
      BY <1>1, <2>5 DEF LinearTyped
    <3>3. linearRun'.steps \in Seq(Words) /\ DOMAIN linearRun'.steps = DOMAIN document.steps
          /\ \A i \in DOMAIN document.steps : i # linear.index => linearRun'.steps[i] = linearRun.steps[i]
      <4>1. linearRun.steps \in Seq(Words)
        BY <1>1 DEF LinearTyped
      <4>2. "running" \in Words
        BY DEF Words
      <4> QED
        BY <1>3, <3>2, <4>1, <4>2, MarkedStep
    <3>4. linearRun' \in [status : {"absent", "running", "done", "failed", "blocked"}, steps : Seq(Words)]
      BY <1>1, <2>5, <3>2, <3>3 DEF LinearTyped
    <3>5. LinearTyped'
      BY <1>1, <1>2, <3>1, <3>4 DEF LinearTyped
    <3>6. \A i \in DOMAIN document.steps : i < linear'.index => IsSettled(i)'
      <4> SUFFICES ASSUME NEW i \in DOMAIN document.steps, i < linear.index PROVE IsSettled(i)'
        BY <3>1
      <4>1. IsSettled(i) /\ i # linear.index
        BY <1>3, <1>5
      <4>2. linearRun'.steps[i] = linearRun.steps[i]
        BY <3>3, <4>1
      <4> QED
        BY <1>2, <3>1, <4>1, <4>2 DEF IsSettled
    <3> QED
      BY <1>2, <2>1, <3>1, <3>2, <3>3, <3>5, <3>6 DEF DocumentsInv
  <2> QED
    BY <2>2, <2>3, <2>4, <2>5
<1> QED
  BY <1>6, <1>7

LEMMA FinishKeeps ==
  ASSUME DocumentsInv, FinishLinearStep
  PROVE  DocumentsInv'
<1>1. LinearTyped
  BY DEF DocumentsInv
<1>2. linear.at = "work" /\ document' = document /\ linear.index \in DOMAIN document.steps /\ linearRun.status # "done"
  BY DEF FinishLinearStep, DocumentsInv
<1>3. PICK end \in {"completed", "failed", "blocked"}, pr \in BOOLEAN :
        IF GoesOn(document.steps[linear.index], end)
        THEN /\ linear' = [linear EXCEPT !.at = "choose", !.index = @ + 1, !.pr = pr, !.last = end]
             /\ linearRun' = [linearRun EXCEPT !.steps[linear.index] = end]
        ELSE /\ linear' = [linear EXCEPT !.at = "stopped", !.pr = pr, !.last = end]
             /\ linearRun' = [status |-> end, steps |-> [linearRun.steps EXCEPT ![linear.index] = end]]
  <2>1. linear.pr \in BOOLEAN
    BY <1>1 DEF LinearTyped
  <2>2. PICK end \in {"completed", "failed", "blocked"}, opens \in BOOLEAN :
          LET pr == linear.pr \/ (opens /\ end # "blocked") IN
          IF GoesOn(document.steps[linear.index], end)
          THEN /\ linear' = [linear EXCEPT !.at = "choose", !.index = @ + 1, !.pr = pr, !.last = end]
               /\ linearRun' = [linearRun EXCEPT !.steps[linear.index] = end]
          ELSE /\ linear' = [linear EXCEPT !.at = "stopped", !.pr = pr, !.last = end]
               /\ linearRun' = [status |-> end, steps |-> [linearRun.steps EXCEPT ![linear.index] = end]]
    BY DEF FinishLinearStep
  <2>3. (linear.pr \/ (opens /\ end # "blocked")) \in BOOLEAN
    OBVIOUS
  <2> QED
    BY <2>2, <2>3
<1>4. DOMAIN linearRun.steps = DOMAIN document.steps /\ linearRun.steps \in Seq(Words)
  BY <1>1, <1>2 DEF DocumentsInv, LinearTyped
<1>5. CASE GoesOn(document.steps[linear.index], end)
  <2>1. /\ linear'.at = "choose" /\ linear'.index = linear.index + 1 /\ linear'.asked = linear.asked
        /\ linear' \in [at : {"idle", "accepted", "refused", "choose", "work", "stopped", "ended"}, index : Nat, pr : BOOLEAN,
                        last : Words, asked : Words, starts : Nat]
    <3>1. linear' = [linear EXCEPT !.at = "choose", !.index = @ + 1, !.pr = pr, !.last = end]
      BY <1>3, <1>5
    <3>2. end \in Words /\ linear.index + 1 \in Nat
      BY <1>1 DEF LinearTyped, Words
    <3> QED
      BY <1>1, <3>1, <3>2 DEF LinearTyped
  <2>2. linearRun'.steps = [linearRun.steps EXCEPT ![linear.index] = end] /\ linearRun'.status = linearRun.status
    BY <1>1, <1>3, <1>5 DEF LinearTyped
  <2>3. linearRun'.steps[linear.index] = end
    BY <1>2, <1>4, <2>2
  <2>4. PICK here : here = linear.index /\ IsSettled(here)'
    <3>1. PICK place : place = linear.index
      OBVIOUS
    <3>2. linearRun'.steps[place] = end
      BY <2>3, <3>1
    <3>3. end = "completed" \/ (end = "failed" /\ document'.steps[place].continues)
      BY <1>2, <1>5, <3>1 DEF GoesOn
    <3>4. IsSettled(place)'
      BY <3>2, <3>3 DEF IsSettled
    <3> QED
      BY <3>1, <3>4
  <2>5. /\ linearRun'.steps \in Seq(Words) /\ DOMAIN linearRun'.steps = DOMAIN document.steps
        /\ \A i \in DOMAIN document.steps : i < linear'.index => IsSettled(i)'
        /\ linear'.index \in 1 .. Len(document.steps) + 1
    BY <1>2, <2>1, <2>2, <2>4, NextIsReached DEF Words
  <2>6. linearRun' \in [status : {"absent", "running", "done", "failed", "blocked"}, steps : Seq(Words)]
    BY <1>1, <1>3, <1>5, <2>2, <2>5 DEF LinearTyped
  <2>7. LinearTyped'
    BY <1>1, <1>2, <2>1, <2>5, <2>6 DEF LinearTyped
  <2> QED
    BY <1>2, <2>1, <2>2, <2>5, <2>7 DEF DocumentsInv
<1>6. CASE ~GoesOn(document.steps[linear.index], end)
  <2>1. /\ linear'.at = "stopped" /\ linear'.index = linear.index
        /\ linear' \in [at : {"idle", "accepted", "refused", "choose", "work", "stopped", "ended"}, index : Nat, pr : BOOLEAN,
                        last : Words, asked : Words, starts : Nat]
    <3>1. linear' = [linear EXCEPT !.at = "stopped", !.pr = pr, !.last = end]
      BY <1>3, <1>6
    <3>2. end \in Words
      BY DEF Words
    <3> QED
      BY <1>1, <3>1, <3>2 DEF LinearTyped
  <2>2. [linearRun.steps EXCEPT ![linear.index] = end] \in Seq(Words)
    BY <1>4, MarkedStep DEF Words
  <2>3. end # "completed"
    BY <1>6 DEF GoesOn
  <2>4. /\ linearRun'.status = end
        /\ linearRun' \in [status : {"absent", "running", "done", "failed", "blocked"}, steps : Seq(Words)]
    BY <1>3, <1>6, <2>2, <2>3
  <2>5. LinearTyped'
    BY <1>1, <1>2, <2>1, <2>4 DEF LinearTyped
  <2> QED
    BY <2>1, <2>4, <2>5 DEF DocumentsInv
<1> QED
  BY <1>5, <1>6

(* The steps of a list that a start is past are settled, whatever is asked *)
(* of it and wherever it is killed, and what is accepted has no issue.     *)
THEOREM DocumentsInvariance == WorkflowDocsSpec => []DocumentsInv
<1>1. DocumentsInv /\ [WorkflowDocsNext]_docVars => DocumentsInv'
  <2> SUFFICES ASSUME DocumentsInv, [WorkflowDocsNext]_docVars PROVE DocumentsInv'
    OBVIOUS
  <2>1. CASE UNCHANGED docVars
    BY <2>1 DEF docVars, DocumentsInv, LinearTyped, IsSettled
  <2>2. CASE LinearKilled
    <3>1. linear.at \in {"choose", "work"} /\ linear' = [linear EXCEPT !.at = "stopped"] /\ UNCHANGED <<document, linearRun>>
      BY <2>2 DEF LinearKilled
    <3>2. LinearTyped' /\ linear'.at = "stopped" /\ linearRun'.status # "done"
      BY <3>1 DEF DocumentsInv, LinearTyped
    <3> QED
      BY <3>2 DEF DocumentsInv
  <2> QED
    BY <2>1, <2>2, ReadingKeeps, StartKeeps, NextStepKeeps, FinishKeeps DEF WorkflowDocsNext
<1> QED
  BY <1>1, DocumentsStart, PTL DEF WorkflowDocsSpec

(* A graph that is accepted is sound, and a list of steps is done only     *)
(* when each of its steps is (workflowValidation.ts:47, job.ts:612, 663).  *)
THEOREM DocumentsHoldEach == WorkflowDocsSpec => []DocumentsHold
<1>1. DocumentsInv => DocumentsHold
  <2> SUFFICES ASSUME DocumentsInv PROVE AcceptedGraphsAreSound /\ LinearRunIsWhole
    BY DEF DocumentsHold
  <2>1. AcceptedGraphsAreSound
    <3> SUFFICES ASSUME linear.at = "accepted", IsGraph(document) PROVE Sound(document)
      BY DEF AcceptedGraphsAreSound
    <3>1. document.steps \in Seq(DocSteps) /\ IssuesOf(document, FALSE) = {}
      BY DEF DocumentsInv, LinearTyped
    <3> QED
      BY <3>1, AcceptedIsSound
  <2>2. LinearRunIsWhole
    BY DEF DocumentsInv, LinearRunIsWhole, IsSettled
  <2> QED
    BY <2>1, <2>2
<1> QED
  BY <1>1, DocumentsInvariance, PTL

(* The run of a list stays within its steps, and its record within its     *)
(* words.                                                                  *)
THEOREM DocumentsTypeCorrect == WorkflowDocsSpec => []WorkflowDocsTypeOK
<1>1. DocumentsInv => WorkflowDocsTypeOK
  <2> SUFFICES ASSUME DocumentsInv PROVE WorkflowDocsTypeOK
    OBVIOUS
  <2>1. DOMAIN document = {"startAt", "steps"} /\ DOMAIN NoDocument = {"startAt", "steps"}
    BY WorkflowDocsAssumption DEF DocumentsInv, LinearTyped, NoDocument
  <2> QED
    BY <2>1 DEF DocumentsInv, LinearTyped, WorkflowDocsTypeOK
<1> QED
  BY <1>1, DocumentsInvariance, PTL

-----------------------------------------------------------------------------
(* Profiles: what a document becomes and in which order its scripts run    *)
(* (src/profile.ts, src/lifecycles/prBranch.ts).                           *)

LifecycleScripts == {"verifyWithRetry", "checkCoverageWithRetry", "commitAndPush", "ensurePr", "saveTaskState",
                     "mirrorStateToPr", "advanceFlow", "finalizeTerminal"}
IsList(s) == s \in Seq(Elements(s))

\* A document with the pr-branch lifecycle lists none of the scripts that one
\* adds; those of the engine do not (src/runtime-services, src/implementations).
KeepsToItsOwn(d) ==
  d.lifecycle = "pr-branch" /\ KnobsParse(d.knobs) =>
    /\ IsList(d.pre) /\ IsList(d.post) /\ IsList(d.knobs.extras)
    /\ "syncFlow" \notin Elements(d.pre) \cup Elements(d.knobs.extras)
    /\ Elements(d.post) \cap LifecycleScripts = {}
OwnScriptsOnly ==
  \A docs \in ProfileCandidates :
    /\ IsList(docs) /\ docs # << >>
    /\ \A i \in DOMAIN docs : KeepsToItsOwn(docs[i]) /\ (docs[i].implements # << >> => KeepsToItsOwn(docs[i].implements[1]))

\* One list after another.
LEMMA Joined ==
  ASSUME NEW s, IsList(s), NEW t, IsList(t)
  PROVE  /\ IsList(s \o t) /\ Elements(s \o t) = Elements(s) \cup Elements(t)
         /\ Len(s) \in Nat /\ Len(t) \in Nat /\ Len(s \o t) = Len(s) + Len(t) /\ DOMAIN (s \o t) = 1 .. Len(s) + Len(t)
         /\ DOMAIN s = 1 .. Len(s) /\ DOMAIN t = 1 .. Len(t)
         /\ \A i \in 1 .. Len(s) + Len(t) : (s \o t)[i] = IF i <= Len(s) THEN s[i] ELSE t[i - Len(s)]
<1> DEFINE All == Elements(s) \cup Elements(t)
<1>1. s \in Seq(Elements(s)) /\ t \in Seq(Elements(t))
  BY DEF IsList
<1> HIDE DEF IsList
<1>2. PICK S : S = Elements(s) /\ s \in Seq(S)
  BY <1>1
<1>3. PICK T : T = Elements(t) /\ t \in Seq(T)
  BY <1>1
<1>4. /\ Len(s) \in Nat /\ DOMAIN s = 1 .. Len(s) /\ \A i \in 1 .. Len(s) : s[i] \in S
      /\ Len(t) \in Nat /\ DOMAIN t = 1 .. Len(t) /\ \A i \in 1 .. Len(t) : t[i] \in T
  BY <1>2, <1>3
<1>5. s \in Seq(S \cup T) /\ t \in Seq(S \cup T)
  BY <1>2, <1>3, <1>4
<1>6. /\ s \o t \in Seq(S \cup T) /\ Len(s \o t) = Len(s) + Len(t) /\ DOMAIN (s \o t) = 1 .. Len(s) + Len(t)
      /\ \A i \in 1 .. Len(s) + Len(t) : (s \o t)[i] = IF i <= Len(s) THEN s[i] ELSE t[i - Len(s)]
  BY <1>4, <1>5
<1>7. ASSUME NEW x \in Elements(s \o t) PROVE x \in S \cup T
  <2>1. PICK i \in 1 .. Len(s) + Len(t) : x = (s \o t)[i]
    BY <1>6 DEF Elements
  <2>2. CASE i <= Len(s)
    BY <1>4, <1>6, <2>1, <2>2
  <2>3. CASE ~(i <= Len(s))
    <3>1. i - Len(s) \in 1 .. Len(t)
      BY <1>4, <2>3
    <3> QED
      BY <1>4, <1>6, <2>1, <2>3, <3>1
  <2> QED
    BY <2>2, <2>3
<1>8. ASSUME NEW x \in S PROVE x \in Elements(s \o t)
  <2>1. PICK i \in 1 .. Len(s) : x = s[i]
    BY <1>2, <1>4 DEF Elements
  <2>2. i \in 1 .. Len(s) + Len(t) /\ i <= Len(s)
    BY <1>4
  <2>3. (s \o t)[i] = x
    BY <1>6, <2>1, <2>2
  <2> QED
    BY <1>6, <2>2, <2>3 DEF Elements
<1>9. ASSUME NEW x \in T PROVE x \in Elements(s \o t)
  <2>1. PICK i \in 1 .. Len(t) : x = t[i]
    BY <1>3, <1>4 DEF Elements
  <2>2. PICK j : j = Len(s) + i
    OBVIOUS
  <2>3. j \in 1 .. Len(s) + Len(t) /\ ~(j <= Len(s)) /\ j - Len(s) = i
    BY <1>4, <2>2
  <2>4. (s \o t)[j] = x
    BY <1>6, <2>1, <2>3
  <2> QED
    BY <1>6, <2>3, <2>4 DEF Elements
<1>10. Elements(s \o t) = S \cup T
  BY <1>7, <1>8, <1>9
<1>11. s \o t \in Seq(Elements(s \o t))
  BY <1>6, <1>10
<1> QED
  BY <1>2, <1>3, <1>4, <1>6, <1>10, <1>11 DEF IsList

\* What holds of two lists holds of one after the other, unless the later
\* script is in the first and the earlier one in the second.
LEMMA JoinedBefore ==
  ASSUME NEW s, IsList(s), NEW t, IsList(t), NEW a, NEW b, RunsBefore(s, a, b), RunsBefore(t, a, b),
         a \notin Elements(t) \/ b \notin Elements(s)
  PROVE  RunsBefore(s \o t, a, b)
<1>1. /\ Len(s) \in Nat /\ Len(t) \in Nat /\ DOMAIN s = 1 .. Len(s) /\ DOMAIN t = 1 .. Len(t) /\ DOMAIN (s \o t) = 1 .. Len(s) + Len(t)
      /\ \A i \in 1 .. Len(s) + Len(t) : (s \o t)[i] = IF i <= Len(s) THEN s[i] ELSE t[i - Len(s)]
  BY Joined
<1> SUFFICES ASSUME NEW i \in 1 .. Len(s) + Len(t), NEW j \in 1 .. Len(s) + Len(t), (s \o t)[i] = a, (s \o t)[j] = b
             PROVE  i < j
  BY <1>1 DEF RunsBefore
<1>2. CASE i <= Len(s) /\ j <= Len(s)
  <2>1. i \in DOMAIN s /\ j \in DOMAIN s /\ s[i] = a /\ s[j] = b
    BY <1>1, <1>2
  <2> QED
    BY <2>1 DEF RunsBefore
<1>3. CASE ~(i <= Len(s)) /\ ~(j <= Len(s))
  <2>1. i - Len(s) \in DOMAIN t /\ j - Len(s) \in DOMAIN t /\ t[i - Len(s)] = a /\ t[j - Len(s)] = b
    BY <1>1, <1>3
  <2>2. i - Len(s) < j - Len(s)
    BY <2>1 DEF RunsBefore
  <2> QED
    BY <1>1, <2>2
<1>4. CASE i <= Len(s) /\ ~(j <= Len(s))
  BY <1>1, <1>4
<1>5. CASE ~(i <= Len(s)) /\ j <= Len(s)
  <2>1. i - Len(s) \in DOMAIN t /\ t[i - Len(s)] = a
    BY <1>1, <1>5
  <2>2. j \in DOMAIN s /\ s[j] = b
    BY <1>1, <1>5
  <2> QED
    BY <2>1, <2>2 DEF Elements
<1> QED
  BY <1>2, <1>3, <1>4, <1>5

LEMMA AbsentBefore ==
  ASSUME NEW s, NEW a, NEW b, a \notin Elements(s) \/ b \notin Elements(s)
  PROVE  RunsBefore(s, a, b)
BY DEF RunsBefore, Elements

LEMMA FlagIsList ==
  ASSUME NEW on, NEW script
  PROVE  IsList(Flag(on, script)) /\ Elements(Flag(on, script)) = IF on THEN {script} ELSE {}
<1>1. IsList(<<script>>) /\ Elements(<<script>>) = {script}
  BY DEF IsList, Elements
<1>2. IsList(<< >>) /\ Elements(<< >>) = {}
  BY DEF IsList, Elements
<1> QED
  BY <1>1, <1>2 DEF Flag

Verifying(on) == IF on THEN <<"verifyWithRetry", "checkCoverageWithRetry", "abortUnfinishedGitOps">> ELSE <<>>
Delivering == <<"commitAndPush", "requireDeliveryArtifacts", "ensurePr", "postIssueComment",
                "writeAgentRunSummary", "saveTaskState">>

LEMMA VerifyingIsList ==
  ASSUME NEW on
  PROVE  /\ IsList(Verifying(on))
         /\ Elements(Verifying(on)) = IF on THEN {"verifyWithRetry", "checkCoverageWithRetry", "abortUnfinishedGitOps"} ELSE {}
<1> DEFINE three == <<"verifyWithRetry", "checkCoverageWithRetry", "abortUnfinishedGitOps">>
<1>1. Elements(three) = {"verifyWithRetry", "checkCoverageWithRetry", "abortUnfinishedGitOps"}
  <2>1. DOMAIN three = {1, 2, 3}
    OBVIOUS
  <2> QED
    BY <2>1 DEF Elements
<1>2. IsList(three)
  BY <1>1 DEF IsList
<1>3. IsList(<< >>) /\ Elements(<< >>) = {}
  BY DEF IsList, Elements
<1> QED
  BY <1>1, <1>2, <1>3 DEF Verifying

LEMMA DeliveringIsList ==
  /\ IsList(Delivering)
  /\ Elements(Delivering) = {"commitAndPush", "requireDeliveryArtifacts", "ensurePr", "postIssueComment",
                             "writeAgentRunSummary", "saveTaskState"}
  /\ RunsBefore(Delivering, "commitAndPush", "ensurePr") /\ RunsBefore(Delivering, "ensurePr", "saveTaskState")
<1>1. DOMAIN Delivering = {1, 2, 3, 4, 5, 6}
  BY DEF Delivering
<1>2. /\ Delivering[1] = "commitAndPush" /\ Delivering[2] = "requireDeliveryArtifacts" /\ Delivering[3] = "ensurePr"
      /\ Delivering[4] = "postIssueComment" /\ Delivering[5] = "writeAgentRunSummary" /\ Delivering[6] = "saveTaskState"
  BY DEF Delivering
<1>3. Elements(Delivering) = {"commitAndPush", "requireDeliveryArtifacts", "ensurePr", "postIssueComment",
                             "writeAgentRunSummary", "saveTaskState"}
  BY <1>1, <1>2 DEF Elements
<1>4. IsList(Delivering)
  BY <1>3 DEF IsList, Delivering
<1>5. RunsBefore(Delivering, "commitAndPush", "ensurePr") /\ RunsBefore(Delivering, "ensurePr", "saveTaskState")
  BY <1>1, <1>2 DEF RunsBefore
<1> QED
  BY <1>3, <1>4, <1>5

\* The order the pr-branch lifecycle gives its scripts around those of a
\* document that lists none of them.
LEMMA PostflightInOrder ==
  ASSUME NEW own, IsList(own), Elements(own) \cap LifecycleScripts = {}, NEW k
  PROVE  LET post == PrBranchPostflight(own, k) IN
         /\ post[1] = "parseAgentResult"
         /\ \A a \in {"verifyWithRetry", "checkCoverageWithRetry"} : RunsBefore(post, a, "commitAndPush")
         /\ RunsBefore(post, "commitAndPush", "ensurePr") /\ RunsBefore(post, "ensurePr", "saveTaskState")
         /\ \A a \in {"mirrorStateToPr", "advanceFlow", "finalizeTerminal"} : RunsBefore(post, "saveTaskState", a)
         /\ "finalizeTerminal" \in Elements(post) => post[Len(post)] = "finalizeTerminal"
<1> DEFINE first == <<"parseAgentResult">>
           V == Verifying(k.verify)
           M == Flag(k.mirrorState, "mirrorStateToPr")
           A == Flag(k.advance, "advanceFlow")
           F == Flag(k.finalize, "finalizeTerminal")
           p1 == first \o own
           p2 == p1 \o V
           p3 == p2 \o Delivering
           p4 == p3 \o M
           p5 == p4 \o A
           p6 == p5 \o F
<1>1. PrBranchPostflight(own, k) = p6
  BY DEF PrBranchPostflight, Verifying, Delivering
<1>2. IsList(first) /\ Elements(first) = {"parseAgentResult"} /\ Len(first) = 1 /\ first[1] = "parseAgentResult"
  BY DEF IsList, Elements
<1>3. \A a \in LifecycleScripts : a \notin Elements(own)
  OBVIOUS
<1>4. /\ IsList(V) /\ Elements(V) \subseteq {"verifyWithRetry", "checkCoverageWithRetry", "abortUnfinishedGitOps"}
      /\ IsList(M) /\ Elements(M) \subseteq {"mirrorStateToPr"}
      /\ IsList(A) /\ Elements(A) \subseteq {"advanceFlow"}
      /\ IsList(F) /\ Elements(F) \subseteq {"finalizeTerminal"} /\ (F = << >> \/ F = <<"finalizeTerminal">>)
  BY VerifyingIsList, FlagIsList DEF Flag
<1>d. /\ IsList(Delivering)
      /\ Elements(Delivering) = {"commitAndPush", "requireDeliveryArtifacts", "ensurePr", "postIssueComment",
                             "writeAgentRunSummary", "saveTaskState"}
      /\ RunsBefore(Delivering, "commitAndPush", "ensurePr") /\ RunsBefore(Delivering, "ensurePr", "saveTaskState")
  BY DeliveringIsList
<1> HIDE DEF first, V, M, A, F, p1, p2, p3, p4, p5, p6
<1>5. IsList(p1) /\ Elements(p1) = {"parseAgentResult"} \cup Elements(own) /\ Len(p1) \in Nat \ {0} /\ p1[1] = "parseAgentResult"
  <2>1. /\ IsList(p1) /\ Elements(p1) = {"parseAgentResult"} \cup Elements(own) /\ Len(own) \in Nat /\ Len(p1) = 1 + Len(own)
        /\ \A i \in 1 .. 1 + Len(own) : p1[i] = IF i <= 1 THEN first[i] ELSE own[i - 1]
    <3>1. /\ IsList(p1) /\ Elements(p1) = Elements(first) \cup Elements(own) /\ Len(own) \in Nat /\ Len(p1) = Len(first) + Len(own)
          /\ \A i \in 1 .. Len(first) + Len(own) : p1[i] = IF i <= Len(first) THEN first[i] ELSE own[i - Len(first)]
      BY <1>2, Joined DEF p1
    <3> QED
      BY <1>2, <3>1
  <2>2. 1 \in 1 .. 1 + Len(own) /\ 1 <= 1
    BY <2>1
  <2> QED
    BY <1>2, <2>1, <2>2
<1>6. ASSUME NEW s, NEW t, IsList(s), IsList(t), Len(s) \in Nat \ {0}, s[1] = "parseAgentResult"
      PROVE  IsList(s \o t) /\ Elements(s \o t) = Elements(s) \cup Elements(t) /\ Len(s \o t) \in Nat \ {0} /\ (s \o t)[1] = "parseAgentResult"
  <2>1. /\ IsList(s \o t) /\ Elements(s \o t) = Elements(s) \cup Elements(t) /\ Len(t) \in Nat /\ Len(s \o t) = Len(s) + Len(t)
        /\ \A i \in 1 .. Len(s) + Len(t) : (s \o t)[i] = IF i <= Len(s) THEN s[i] ELSE t[i - Len(s)]
    BY <1>6, Joined
  <2>2. 1 \in 1 .. Len(s) + Len(t) /\ 1 <= Len(s) /\ Len(s) + Len(t) \in Nat \ {0}
    BY <1>6, <2>1
  <2> QED
    BY <1>6, <2>1, <2>2
<1>7. IsList(p2) /\ Elements(p2) = Elements(p1) \cup Elements(V) /\ Len(p2) \in Nat \ {0} /\ p2[1] = "parseAgentResult"
  BY <1>4, <1>5, <1>6 DEF p2
<1>8. IsList(p3) /\ Elements(p3) = Elements(p2) \cup Elements(Delivering) /\ Len(p3) \in Nat \ {0} /\ p3[1] = "parseAgentResult"
  BY <1>d, <1>6, <1>7 DEF p3
<1>9. IsList(p4) /\ Elements(p4) = Elements(p3) \cup Elements(M) /\ Len(p4) \in Nat \ {0} /\ p4[1] = "parseAgentResult"
  BY <1>4, <1>6, <1>8 DEF p4
<1>10. IsList(p5) /\ Elements(p5) = Elements(p4) \cup Elements(A) /\ Len(p5) \in Nat \ {0} /\ p5[1] = "parseAgentResult"
  BY <1>4, <1>6, <1>9 DEF p5
<1>11. IsList(p6) /\ Elements(p6) = Elements(p5) \cup Elements(F) /\ Len(p6) \in Nat \ {0} /\ p6[1] = "parseAgentResult"
  BY <1>4, <1>6, <1>10 DEF p6
<1>12. ASSUME NEW a, NEW b, RunsBefore(p3, a, b), a \notin {"mirrorStateToPr", "advanceFlow", "finalizeTerminal"}
       PROVE  RunsBefore(p6, a, b)
  <2>1. a \notin Elements(M) /\ a \notin Elements(A) /\ a \notin Elements(F)
    BY <1>4, <1>12
  <2>2. RunsBefore(M, a, b) /\ RunsBefore(A, a, b) /\ RunsBefore(F, a, b)
    BY <2>1, AbsentBefore
  <2>3. RunsBefore(p4, a, b)
    BY <1>4, <1>8, <1>12, <2>1, <2>2, JoinedBefore DEF p4
  <2>4. RunsBefore(p5, a, b)
    BY <1>4, <1>9, <2>1, <2>2, <2>3, JoinedBefore DEF p5
  <2> QED
    BY <1>4, <1>10, <2>1, <2>2, <2>4, JoinedBefore DEF p6
<1>13. ASSUME NEW a \in {"verifyWithRetry", "checkCoverageWithRetry"} PROVE RunsBefore(p6, a, "commitAndPush")
  <2>1. "commitAndPush" \notin Elements(p2) /\ a \notin Elements(Delivering)
    BY <1>3, <1>4, <1>5, <1>7, <1>d DEF LifecycleScripts
  <2>2. RunsBefore(p2, a, "commitAndPush") /\ RunsBefore(Delivering, a, "commitAndPush")
    BY <2>1, AbsentBefore
  <2>3. RunsBefore(p3, a, "commitAndPush")
    BY <1>7, <1>d, <2>1, <2>2, JoinedBefore DEF p3
  <2> QED
    BY <1>12, <2>3
<1>14. RunsBefore(p6, "commitAndPush", "ensurePr") /\ RunsBefore(p6, "ensurePr", "saveTaskState")
  <2>1. "ensurePr" \notin Elements(p2) /\ "saveTaskState" \notin Elements(p2)
    BY <1>3, <1>4, <1>5, <1>7 DEF LifecycleScripts
  <2>2. RunsBefore(p2, "commitAndPush", "ensurePr") /\ RunsBefore(p2, "ensurePr", "saveTaskState")
    BY <2>1, AbsentBefore
  <2>3. RunsBefore(p3, "commitAndPush", "ensurePr") /\ RunsBefore(p3, "ensurePr", "saveTaskState")
    BY <1>7, <1>d, <2>1, <2>2, JoinedBefore DEF p3
  <2> QED
    BY <1>12, <2>3
<1>15. ASSUME NEW a \in {"mirrorStateToPr", "advanceFlow", "finalizeTerminal"} PROVE RunsBefore(p6, "saveTaskState", a)
  <2>1. a \notin Elements(p3)
    BY <1>3, <1>4, <1>5, <1>7, <1>8, <1>d DEF LifecycleScripts
  <2>2. RunsBefore(p3, "saveTaskState", a)
    BY <2>1, AbsentBefore
  <2> QED
    BY <1>12, <2>2
<1>16. ASSUME "finalizeTerminal" \in Elements(p6) PROVE p6[Len(p6)] = "finalizeTerminal"
  <2>1. "finalizeTerminal" \notin Elements(p5)
    BY <1>3, <1>4, <1>5, <1>7, <1>8, <1>9, <1>10, <1>d DEF LifecycleScripts
  <2>2. F = <<"finalizeTerminal">>
    <3>1. CASE F = << >>
      BY <1>11, <1>16, <2>1, <3>1 DEF Elements
    <3> QED
      BY <1>4, <3>1
  <2>3. Len(F) = 1 /\ F[1] = "finalizeTerminal"
    BY <2>2
  <2>4. /\ Len(p5) \in Nat /\ Len(p6) = Len(p5) + Len(F)
        /\ \A i \in 1 .. Len(p5) + Len(F) : p6[i] = IF i <= Len(p5) THEN p5[i] ELSE F[i - Len(p5)]
    BY <1>4, <1>10, Joined DEF p6
  <2>5. Len(p6) \in 1 .. Len(p5) + Len(F) /\ ~(Len(p6) <= Len(p5)) /\ Len(p6) - Len(p5) = 1
    BY <2>3, <2>4
  <2> QED
    BY <2>3, <2>4, <2>5
<1> QED
  BY <1>1, <1>11, <1>13, <1>14, <1>15, <1>16

LEMMA PreflightInOrder ==
  ASSUME NEW own, IsList(own), NEW k, IsList(k.extras), "syncFlow" \notin Elements(own) \cup Elements(k.extras)
  PROVE  LET pre == PrBranchPreflight(own, k) IN
         /\ pre[Len(pre)] = "composePrompt"
         /\ "syncFlow" \in Elements(pre) => pre[1] = "syncFlow"
<1> DEFINE S == Flag(k.sync, "syncFlow")
           L == <<"setLifecycleLabel">>
           C == ContextScripts(k)
           P == <<"composePrompt">>
           p1 == S \o L
           p2 == p1 \o own
           p3 == p2 \o C
           p4 == p3 \o P
<1>1. PrBranchPreflight(own, k) = p4
  BY DEF PrBranchPreflight
<1>2. IsList(S) /\ ((S = << >> /\ Elements(S) = {}) \/ S = <<"syncFlow">>)
  BY FlagIsList DEF Flag
<1>3. IsList(L) /\ Elements(L) = {"setLifecycleLabel"} /\ IsList(P) /\ Elements(P) = {"composePrompt"} /\ Len(P) = 1 /\ P[1] = "composePrompt"
  BY DEF IsList, Elements
<1>4. IsList(C) /\ "syncFlow" \notin Elements(C)
  <2> DEFINE load == <<"loadTaskState">>
             rules == <<"loadConventions">>
             prior == IF k.context = "task" THEN <<"loadPriorArt", "loadMemoryContext">> ELSE <<>>
             coverage == <<"loadCoverageRules">>
  <2>1. IsList(load) /\ IsList(rules) /\ IsList(coverage) /\ Elements(load) = {"loadTaskState"} /\ Elements(rules) = {"loadConventions"}
        /\ Elements(coverage) = {"loadCoverageRules"}
    BY DEF IsList, Elements
  <2>2. IsList(prior) /\ Elements(prior) \subseteq {"loadPriorArt", "loadMemoryContext"}
    <3>1. IsList(<<"loadPriorArt", "loadMemoryContext">>) /\ Elements(<<"loadPriorArt", "loadMemoryContext">>) = {"loadPriorArt", "loadMemoryContext"}
      <4>1. DOMAIN <<"loadPriorArt", "loadMemoryContext">> = {1, 2}
        OBVIOUS
      <4>2. Elements(<<"loadPriorArt", "loadMemoryContext">>) = {"loadPriorArt", "loadMemoryContext"}
        BY <4>1 DEF Elements
      <4> QED
        BY <4>2 DEF IsList
    <3>2. IsList(<< >>) /\ Elements(<< >>) = {}
      BY DEF IsList, Elements
    <3> QED
      BY <3>1, <3>2
  <2>3. ContextScripts(k) = IF k.context = "minimal" THEN k.extras ELSE load \o k.extras \o rules \o prior \o coverage
    BY DEF ContextScripts
  <2> HIDE DEF load, rules, prior, coverage
  <2>4. IsList(load \o k.extras) /\ Elements(load \o k.extras) = Elements(load) \cup Elements(k.extras)
    BY <2>1, Joined
  <2>5. IsList(load \o k.extras \o rules) /\ Elements(load \o k.extras \o rules) = Elements(load \o k.extras) \cup Elements(rules)
    BY <2>1, <2>4, Joined
  <2>6. /\ IsList(load \o k.extras \o rules \o prior)
        /\ Elements(load \o k.extras \o rules \o prior) = Elements(load \o k.extras \o rules) \cup Elements(prior)
    BY <2>2, <2>5, Joined
  <2>7. /\ IsList(load \o k.extras \o rules \o prior \o coverage)
        /\ Elements(load \o k.extras \o rules \o prior \o coverage) = Elements(load \o k.extras \o rules \o prior) \cup Elements(coverage)
    BY <2>1, <2>6, Joined
  <2> QED
    BY <2>1, <2>2, <2>3, <2>4, <2>5, <2>6, <2>7
<1> HIDE DEF S, L, C, P, p1, p2, p3, p4
<1>5. IsList(p1) /\ Elements(p1) = Elements(S) \cup {"setLifecycleLabel"}
  <2>1. IsList(p1) /\ Elements(p1) = Elements(S) \cup Elements(L)
    BY <1>2, <1>3, Joined DEF p1
  <2> QED
    BY <1>3, <2>1
<1>6. IsList(p2) /\ Elements(p2) = Elements(p1) \cup Elements(own)
  BY <1>5, Joined DEF p2
<1>7. IsList(p3) /\ Elements(p3) = Elements(p2) \cup Elements(C)
  BY <1>4, <1>6, Joined DEF p3
<1>8. /\ Elements(p4) = Elements(p3) \cup {"composePrompt"} /\ Len(p3) \in Nat /\ Len(p4) = Len(p3) + 1
      /\ \A i \in 1 .. Len(p3) + 1 : p4[i] = IF i <= Len(p3) THEN p3[i] ELSE P[i - Len(p3)]
  <2>1. /\ Elements(p4) = Elements(p3) \cup Elements(P) /\ Len(p3) \in Nat /\ Len(p4) = Len(p3) + Len(P)
        /\ \A i \in 1 .. Len(p3) + Len(P) : p4[i] = IF i <= Len(p3) THEN p3[i] ELSE P[i - Len(p3)]
    BY <1>3, <1>7, Joined DEF p4
  <2> QED
    BY <1>3, <2>1
<1>9. p4[Len(p4)] = "composePrompt"
  <2>1. Len(p4) \in 1 .. Len(p3) + 1 /\ ~(Len(p4) <= Len(p3)) /\ Len(p4) - Len(p3) = 1
    BY <1>8
  <2> QED
    BY <1>3, <1>8, <2>1
<1>10. ASSUME "syncFlow" \in Elements(p4) PROVE p4[1] = "syncFlow"
  <2>1. S = <<"syncFlow">>
    BY <1>2, <1>4, <1>5, <1>6, <1>7, <1>8, <1>10
  <2>2. Len(S) = 1 /\ S[1] = "syncFlow"
    BY <2>1
  <2>3. ASSUME NEW s, NEW t, IsList(s), IsList(t), 1 <= Len(s) PROVE (s \o t)[1] = s[1] /\ 1 <= Len(s \o t)
    <3>1. /\ Len(s) \in Nat /\ Len(t) \in Nat /\ Len(s \o t) = Len(s) + Len(t)
          /\ \A i \in 1 .. Len(s) + Len(t) : (s \o t)[i] = IF i <= Len(s) THEN s[i] ELSE t[i - Len(s)]
      BY <2>3, Joined
    <3>2. 1 \in 1 .. Len(s) + Len(t)
      BY <2>3, <3>1
    <3> QED
      BY <2>3, <3>1, <3>2
  <2>4. p1[1] = "syncFlow" /\ 1 <= Len(p1)
    BY <1>2, <1>3, <2>2, <2>3 DEF p1
  <2>5. p2[1] = "syncFlow" /\ 1 <= Len(p2)
    BY <1>5, <2>3, <2>4 DEF p2
  <2>6. p3[1] = "syncFlow" /\ 1 <= Len(p3)
    BY <1>4, <1>6, <2>3, <2>5 DEF p3
  <2> QED
    BY <1>3, <1>7, <2>3, <2>6 DEF p4
<1> QED
  BY <1>1, <1>9, <1>10

\* What a document becomes: an error, or a profile that keeps the rules.
ProfileHolds(p) ==
  /\ SavesWhatItLoads(p)
  /\ p.lifecycle = "pr-branch" =>
       /\ p.pre[Len(p.pre)] = "composePrompt" /\ p.post[1] = "parseAgentResult"
       /\ "syncFlow" \in Elements(p.pre) => p.pre[1] = "syncFlow"
       /\ \A a \in {"verifyWithRetry", "checkCoverageWithRetry"} : RunsBefore(p.post, a, "commitAndPush")
       /\ RunsBefore(p.post, "commitAndPush", "ensurePr") /\ RunsBefore(p.post, "ensurePr", "saveTaskState")
       /\ \A a \in {"mirrorStateToPr", "advanceFlow", "finalizeTerminal"} : RunsBefore(p.post, "saveTaskState", a)
       /\ "finalizeTerminal" \in Elements(p.post) => p.post[Len(p.post)] = "finalizeTerminal"

LEMMA OwnIsLoaded ==
  ASSUME NEW d, KeepsToItsOwn(d)
  PROVE  LoadOwn(d) = NotLoaded \/ (LoadOwn(d) = Expanded(d) /\ ProfileHolds(LoadOwn(d)))
<1> SUFFICES ASSUME LoadOwn(d) # NotLoaded PROVE LoadOwn(d) = Expanded(d) /\ ProfileHolds(Expanded(d))
  OBVIOUS
<1>1. LoadOwn(d) = Expanded(d) /\ WellFormed(d) /\ SavesWhatItLoads(Expanded(d))
  BY DEF LoadOwn
<1>2. ASSUME d.lifecycle = "pr-branch"
      PROVE  /\ Expanded(d).pre = PrBranchPreflight(d.pre, d.knobs) /\ Expanded(d).post = PrBranchPostflight(d.post, d.knobs)
             /\ IsList(d.pre) /\ IsList(d.post) /\ IsList(d.knobs.extras)
             /\ "syncFlow" \notin Elements(d.pre) \cup Elements(d.knobs.extras) /\ Elements(d.post) \cap LifecycleScripts = {}
  <2>1. KnobsParse(d.knobs)
    BY <1>1, <1>2 DEF WellFormed
  <2> QED
    BY <1>2, <2>1 DEF Expanded, KeepsToItsOwn
<1>3. Expanded(d).lifecycle = d.lifecycle
  BY DEF Expanded
<1>4. ASSUME d.lifecycle = "pr-branch"
      PROVE  LET p == Expanded(d) IN
             /\ p.pre[Len(p.pre)] = "composePrompt" /\ p.post[1] = "parseAgentResult"
             /\ "syncFlow" \in Elements(p.pre) => p.pre[1] = "syncFlow"
             /\ \A a \in {"verifyWithRetry", "checkCoverageWithRetry"} : RunsBefore(p.post, a, "commitAndPush")
             /\ RunsBefore(p.post, "commitAndPush", "ensurePr") /\ RunsBefore(p.post, "ensurePr", "saveTaskState")
             /\ \A a \in {"mirrorStateToPr", "advanceFlow", "finalizeTerminal"} : RunsBefore(p.post, "saveTaskState", a)
             /\ "finalizeTerminal" \in Elements(p.post) => p.post[Len(p.post)] = "finalizeTerminal"
  BY <1>2, <1>4, PostflightInOrder, PreflightInOrder
<1> QED
  BY <1>1, <1>3, <1>4 DEF ProfileHolds

LEMMA DocumentIsLoaded ==
  ASSUME NEW d, KeepsToItsOwn(d), d.implements # << >> => KeepsToItsOwn(d.implements[1])
  PROVE  LoadProfile(d) = NotLoaded \/ (LoadProfile(d).is = "profile" /\ ProfileHolds(LoadProfile(d)))
<1>1. ASSUME NEW o, KeepsToItsOwn(o) PROVE LoadOwn(o) = NotLoaded \/ (LoadOwn(o).is = "profile" /\ ProfileHolds(LoadOwn(o)))
  BY <1>1, OwnIsLoaded DEF Expanded
<1>2. CASE d.implements = << >>
  BY <1>1, <1>2 DEF LoadProfile
<1>3. CASE d.implements # << >>
  <2> DEFINE o == d.implements[1]
             base == LoadOwn(o)
  <2>1. KeepsToItsOwn(o)
    BY <1>3
  <2>2. LoadProfile(d) = IF base = NotLoaded \/ d.tools = {} THEN base ELSE [base EXCEPT !.tools = d.tools]
    BY <1>3 DEF LoadProfile
  <2>3. CASE base = NotLoaded \/ d.tools = {}
    BY <1>1, <2>1, <2>2, <2>3
  <2>4. CASE ~(base = NotLoaded \/ d.tools = {})
    <3>1. base = Expanded(o) /\ ProfileHolds(base)
      BY <2>1, <2>4, OwnIsLoaded
    <3>2. LoadProfile(d) = [base EXCEPT !.tools = d.tools]
      BY <2>2, <2>4
    <3>3. /\ LoadProfile(d).is = "profile" /\ LoadProfile(d).lifecycle = base.lifecycle
          /\ LoadProfile(d).pre = base.pre /\ LoadProfile(d).post = base.post
      BY <3>1, <3>2 DEF Expanded
    <3>4. ProfileHolds(LoadProfile(d))
      BY <3>1, <3>3 DEF ProfileHolds, SavesWhatItLoads
    <3> QED
      BY <3>3, <3>4
  <2> QED
    BY <2>3, <2>4
<1> QED
  BY <1>2, <1>3

\* The candidate that is used: one of them, whichever are passed over.
LEMMA UsedIsOne ==
  ASSUME NEW docs, IsList(docs), docs # << >>
  PROVE  \E i \in DOMAIN docs : (UsableProfile(docs) = LoadProfile(docs[i]) /\ Registered(LoadProfile(docs[i]))) \/ UsableProfile(docs) = NotLoaded
<1>1. Len(docs) \in Nat /\ DOMAIN docs = 1 .. Len(docs) /\ Len(docs) # 0
  <2>1. docs \in Seq(Elements(docs))
    BY DEF IsList
  <2> HIDE DEF IsList
  <2>2. PICK S : docs \in Seq(S)
    BY <2>1
  <2> QED
    BY <2>2
<1> DEFINE Usable == FirstUsable(docs)
           Bounds == {n \in Nat : \A i \in Usable : i <= n}
<1>2. 1 \in Usable /\ \A i \in Usable : i \in 1 .. Len(docs)
  BY <1>1 DEF FirstUsable
<1>3. \E i \in Usable : \A j \in Usable : j <= i
  <2> HIDE DEF Usable
  <2>1. Len(docs) \in Bounds
    BY <1>1, <1>2
  <2>2. PICK n \in Bounds : \A m \in Bounds : n <= m
    <3>1. Bounds \in SUBSET Nat
      OBVIOUS
    <3> QED
      BY <2>1, <3>1, LeastPlace
  <2>3. n \in Nat /\ \A i \in Usable : i <= n
    BY <2>2
  <2>4. n \in Usable
    <3> SUFFICES ASSUME n \notin Usable PROVE FALSE
      OBVIOUS
    <3>1. 1 <= n
      BY <1>2, <2>3
    <3>2. n - 1 \in Bounds /\ ~(n <= n - 1)
      BY <1>1, <1>2, <2>3, <3>1
    <3> QED
      BY <2>2, <3>2
  <2> QED
    BY <2>3, <2>4
<1>4. PICK i \in Usable : i = CHOOSE n \in Usable : \A m \in Usable : m <= n
  <2> HIDE DEF Usable
  <2> QED
    BY <1>3
<1>5. UsableProfile(docs) = IF LoadProfile(docs[i]) = NotLoaded \/ Registered(LoadProfile(docs[i])) THEN LoadProfile(docs[i]) ELSE NotLoaded
  BY <1>4 DEF UsableProfile
<1> QED
  BY <1>1, <1>2, <1>4, <1>5

LEMMA RunIsLoaded ==
  ASSUME OwnScriptsOnly, NEW docs \in ProfileCandidates, RunProfile(docs)
  PROVE  profileRun'.is = "error" \/ (profileRun'.is = "profile" /\ ProfileHolds(profileRun') /\ Registered(profileRun'))
<1>1. profileRun' = UsableProfile(docs)
  BY DEF RunProfile
<1>2. IsList(docs) /\ docs # << >>
  BY DEF OwnScriptsOnly
<1>3. PICK i \in DOMAIN docs : (UsableProfile(docs) = LoadProfile(docs[i]) /\ Registered(LoadProfile(docs[i]))) \/ UsableProfile(docs) = NotLoaded
  BY <1>2, UsedIsOne
<1>4. LoadProfile(docs[i]) = NotLoaded \/ (LoadProfile(docs[i]).is = "profile" /\ ProfileHolds(LoadProfile(docs[i])))
  <2>1. KeepsToItsOwn(docs[i]) /\ (docs[i].implements # << >> => KeepsToItsOwn(docs[i].implements[1]))
    BY DEF OwnScriptsOnly
  <2> QED
    BY <2>1, DocumentIsLoaded
<1>5. NotLoaded.is = "error"
  BY DEF NotLoaded
<1> QED
  BY <1>1, <1>3, <1>4, <1>5

ProfilesInv ==
  \/ profileRun.is \in {"no run", "error"}
  \/ profileRun.is = "profile" /\ ProfileHolds(profileRun) /\ Registered(profileRun)

\* A profile that runs keeps the rules, whichever document it comes from.
THEOREM ProfilesInvariance ==
  ASSUME OwnScriptsOnly
  PROVE  ProfilesSpec => []ProfilesInv
<1>1. ProfilesInit => ProfilesInv
  <2>1. NoProfileRun.is = "no run"
    BY DEF NoProfileRun
  <2> QED
    BY <2>1 DEF ProfilesInit, ProfilesInv
<1>2. ProfilesInv /\ [ProfilesNext]_profileRun => ProfilesInv'
  <2> SUFFICES ASSUME ProfilesInv, [ProfilesNext]_profileRun PROVE ProfilesInv'
    OBVIOUS
  <2>1. CASE UNCHANGED profileRun
    BY <2>1 DEF ProfilesInv, ProfileHolds, Registered, SavesWhatItLoads
  <2>2. CASE EndProfileRun
    BY <2>2 DEF EndProfileRun, NoProfileRun, ProfilesInv
  <2>3. ASSUME NEW docs \in ProfileCandidates, RunProfile(docs) PROVE ProfilesInv'
    <3>1. profileRun'.is = "error" \/ (profileRun'.is = "profile" /\ ProfileHolds(profileRun') /\ Registered(profileRun'))
      BY <2>3, RunIsLoaded
    <3> QED
      BY <3>1 DEF ProfilesInv, ProfileHolds, Registered, SavesWhatItLoads
  <2> QED
    BY <2>1, <2>2, <2>3 DEF ProfilesNext
<1> QED
  BY <1>1, <1>2, PTL DEF ProfilesSpec

(* A profile that runs reads the job state it will save, and one with the  *)
(* pr-branch lifecycle checks before it commits, commits before it opens   *)
(* the pull request, saves the task state after that and closes last       *)
(* (profile.ts:266, lifecycles/prBranch.ts:83): for any documents with that*)
(* lifecycle that do not themselves list a script it adds.                 *)
THEOREM LoadedProfilesHoldEach ==
  ASSUME OwnScriptsOnly
  PROVE  ProfilesSpec => []LoadedProfilesHold
<1>1. ProfilesInv => LoadedProfilesHold
  BY DEF ProfilesInv, ProfileHolds, LoadedProfilesHold
<1> QED
  BY <1>1, ProfilesInvariance, PTL

\* What comes of a run's lookup is a profile, an error or no run.
THEOREM ProfilesTypeCorrect ==
  ASSUME OwnScriptsOnly
  PROVE  ProfilesSpec => []ProfilesTypeOK
<1>1. ProfilesInv => ProfilesTypeOK
  BY DEF ProfilesInv, ProfilesTypeOK
<1> QED
  BY <1>1, ProfilesInvariance, PTL
=============================================================================
