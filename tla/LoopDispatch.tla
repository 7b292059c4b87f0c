----------------------------- MODULE LoopDispatch -----------------------------
(***************************************************************************)
(* Dispatch of scheduled Loops (src/scripts/dispatchLoops.ts).  Several    *)
(* dispatchers (a wake from the backend, a local schedule, a manual run)   *)
(* reserve slots in the backend and run the target of each slot they get,  *)
(* renewing the reservation by a timer meanwhile.                          *)
(*                                                                         *)
(* The clock counts renewal intervals.  Calls to the backend take no time  *)
(* on that scale; only targets do.  A dispatcher reads the clock once, at  *)
(* its start, and takes every lease from that instant.                     *)
(***************************************************************************)
EXTENDS Integers, Sequences, FiniteSets

CONSTANTS
  Dispatcher,    \* processes that run the loop scheduler
  LoopOrder,     \* the enabled Loops, sorted by id
  Kind,          \* dispatcher -> "schedule", "manual" or "wake"
  Requested,     \* dispatcher -> the Loops it is asked for
  Preferred,     \* Loops with a preferred time: due only in the window after it
  Period,        \* Loop -> its schedule, in clock units
  Lease,         \* LOOP_DISPATCH_LEASE_MS
  Horizon,       \* bound: the last instant
  LoopCalls,     \* the calls that may fail
  MaxLoopFaults  \* bound: how many of them do, crashes included

Loop == {LoopOrder[i] : i \in DOMAIN LoopOrder}

ASSUME LoopAssumption ==
  /\ Kind \in [Dispatcher -> {"schedule", "manual", "wake"}]
  /\ Requested \in [Dispatcher -> SUBSET Loop]
  /\ LoopOrder \in Seq(Loop)
  /\ Period \in [Loop -> Nat \ {0}] /\ Preferred \subseteq Loop
  /\ Lease \in Nat \ {0} /\ Horizon \in Nat /\ MaxLoopFaults \in Nat
  /\ LoopCalls \subseteq {"list", "reserve", "create", "renew", "record", "finish", "mark", "crash"}

VARIABLES
  clock,
  at,        \* dispatcher -> where it is
  now,       \* dispatcher -> the instant it started
  todo,      \* dispatcher -> places of the Loops still to dispatch
  exitOk,    \* dispatcher -> the target it ran last succeeded
  renewal,   \* dispatcher -> when its timer fires next
  renewErr,  \* dispatcher -> a renewal failed
  bad,       \* dispatcher -> some result so far is "failed" or "blocked"
  slots,     \* key -> its reservation in the backend
  record,    \* dispatcher -> key -> its run record (agencyRuns)
  wake,      \* dispatcher -> state of the wake it executes
  late,      \* history: dispatchers given a lease that ends before its first renewal
  cut,       \* history: dispatchers that stopped with a finished record and a held slot
  loopFaults

procVars == <<at, now, todo, exitOk, renewal, renewErr, bad>>
loopVars == <<clock, procVars, slots, record, wake, late, cut, loopFaults>>

(* Slots are numbered by period; a manual run has a slot of its own. *)
Slot == 0..Horizon \cup Dispatcher
Key == Loop \X Slot
Free == [status |-> "none"]

(* dueSlot: a Loop with a preferred time is due in one window per period.  *)
Due(l, t) == l \in Preferred => t % Period[l] = 0
DueSlot(l, t) == t \div Period[l]

(* selectRunnableLoops; a wake names its Loop and counts as forced.        *)
Runnable(d) ==
  {i \in DOMAIN LoopOrder : /\ LoopOrder[i] \in Requested[d]
                            /\ Kind[d] = "schedule" => Due(LoopOrder[i], clock)}

(* The for loop takes them in the order of their ids.                      *)
NextPlace(d) == CHOOSE i \in todo[d] : \A j \in todo[d] : i <= j

KeyOf(d, l) == <<l, IF Kind[d] = "manual" THEN d ELSE DueSlot(l, now[d])>>
CurrentLoop(d) == LoopOrder[NextPlace(d)]
Current(d) == KeyOf(d, CurrentLoop(d))

LoopInit ==
  /\ clock = 0
  /\ at = [d \in Dispatcher |-> "idle"]
  /\ now = [d \in Dispatcher |-> 0] /\ todo = [d \in Dispatcher |-> {}]
  /\ exitOk = [d \in Dispatcher |-> FALSE] /\ renewal = [d \in Dispatcher |-> 0]
  /\ renewErr = [d \in Dispatcher |-> FALSE] /\ bad = [d \in Dispatcher |-> FALSE]
  /\ slots = [k \in Key |-> Free]
  /\ record = [d \in Dispatcher |-> [k \in Key |-> "none"]]
  /\ wake = [d \in Dispatcher |-> "none"]
  /\ late = {} /\ cut = {} /\ loopFaults = 0

LoopFails(c) == c \in LoopCalls /\ loopFaults < MaxLoopFaults /\ loopFaults' = loopFaults + 1
Step(d, from, to) == at[d] = from /\ at' = [at EXCEPT ![d] = to]

(* A call that throws ends the whole dispatch. *)
Rejected(d, from, call) ==
  /\ Step(d, from, "gone") /\ LoopFails(call)
  /\ wake' \in {wake} \cup {[wake EXCEPT ![d] = "running"] : k \in {"wake"} \cap {Kind[d]}}
  /\ UNCHANGED <<clock, now, todo, exitOk, renewal, renewErr, bad, slots, record, late>>
  /\ cut' = IF from = "finish" THEN cut \cup {d} ELSE cut
-----------------------------------------------------------------------------
(* dispatchLoops up to dispatchLoopsWith. *)
Wake(d) ==
  /\ Step(d, "idle", "reserve")
  /\ now' = [now EXCEPT ![d] = clock]
  /\ todo' = [todo EXCEPT ![d] = Runnable(d)]
  /\ wake' = [wake EXCEPT ![d] = IF Kind[d] = "wake" THEN "running" ELSE @]
  /\ UNCHANGED <<clock, exitOk, renewal, renewErr, bad, slots, record, late, cut, loopFaults>>

(* What reserveDispatch of the backend answers, by the caller's clock. *)
Held(k, t) == slots[k].status = "held" /\ slots[k].until > t
Duplicate(k, t) == slots[k].status \in {"dispatched", "failed"} \/ Held(k, t)
AtLimit(k, t) == \E j \in Key \ {k} : j[1] = k[1] /\ Held(j, t)
Acquirable(k, t) == ~Duplicate(k, t) /\ ~AtLimit(k, t)

Refused(d) ==
  /\ Step(d, "reserve", "reserve") /\ todo[d] # {}
  /\ ~Acquirable(Current(d), now[d])
  /\ bad' = [bad EXCEPT ![d] = @ \/ ~Duplicate(Current(d), now[d])]
  /\ todo' = [todo EXCEPT ![d] = @ \ {NextPlace(d)}]
  /\ UNCHANGED <<clock, now, exitOk, renewal, renewErr, slots, record, wake, late, cut, loopFaults>>

(* The lease runs from the dispatcher's start, not from this instant. *)
Reserve(d) ==
  LET k == Current(d)
  IN  /\ Step(d, "reserve", "create") /\ todo[d] # {}
      /\ Acquirable(k, now[d])
      /\ slots' = [slots EXCEPT ![k] = [status |-> "held", by |-> d, until |-> now[d] + Lease]]
      /\ late' = IF now[d] + Lease <= clock + 1 THEN late \cup {d} ELSE late
      /\ UNCHANGED <<clock, now, todo, exitOk, renewal, renewErr, bad, record, wake, cut, loopFaults>>

CreateRecord(d) ==
  /\ Step(d, "create", "run")
  /\ record' = [record EXCEPT ![d][Current(d)] = "running"]
  /\ renewal' = [renewal EXCEPT ![d] = clock + 1]
  /\ UNCHANGED <<clock, now, todo, exitOk, renewErr, bad, slots, wake, late, cut, loopFaults>>

Owns(d, k) == slots[k].status = "held" /\ slots[k].by = d

(* The lease is taken from the start of the dispatch again. *)
Renew_FromStart(d) ==
  /\ at[d] = "run" /\ clock >= renewal[d] /\ Owns(d, Current(d))
  /\ slots' = [slots EXCEPT ![Current(d)].until = now[d] + Lease]
  /\ renewal' = [renewal EXCEPT ![d] = clock + 1]
  /\ UNCHANGED <<clock, at, now, todo, exitOk, renewErr, bad, record, wake, late, cut, loopFaults>>

(* The timer fires while the target runs; its failure waits for the end.   *)
Renew(d) ==
  /\ at[d] = "run" /\ clock >= renewal[d]
  /\ \/ /\ Owns(d, Current(d))
        /\ slots' = [slots EXCEPT ![Current(d)].until = clock + Lease]
        /\ UNCHANGED <<renewErr, loopFaults>>
     \/ /\ ~Owns(d, Current(d)) /\ UNCHANGED loopFaults
        /\ renewErr' = [renewErr EXCEPT ![d] = TRUE] /\ UNCHANGED slots
     \/ /\ LoopFails("renew")
        /\ renewErr' = [renewErr EXCEPT ![d] = TRUE] /\ UNCHANGED slots
  /\ renewal' = [renewal EXCEPT ![d] = clock + 1]
  /\ UNCHANGED <<clock, at, now, todo, exitOk, bad, record, wake, late, cut>>

(* The target ends, well or badly, and the timer is stopped. *)
Target(d) ==
  /\ Step(d, "run", "record")
  /\ \E ok \in BOOLEAN : exitOk' = [exitOk EXCEPT ![d] = ok /\ ~renewErr[d]]
  /\ UNCHANGED <<clock, now, todo, renewal, renewErr, bad, slots, record, wake, late, cut, loopFaults>>

Outcome(d, good, ill) == IF exitOk[d] THEN good ELSE ill

FinishRecord(d) ==
  /\ Step(d, "record", "finish")
  /\ record' = [record EXCEPT ![d][Current(d)] = Outcome(d, "succeeded", "failed")]
  /\ UNCHANGED <<clock, now, todo, exitOk, renewal, renewErr, bad, slots, wake, late, cut, loopFaults>>

(* The variables of one turn of the for loop go out of scope. *)
NextLoop(d) ==
  /\ todo' = [todo EXCEPT ![d] = @ \ {NextPlace(d)}]
  /\ exitOk' = [exitOk EXCEPT ![d] = FALSE] /\ renewErr' = [renewErr EXCEPT ![d] = FALSE]
  /\ renewal' = [renewal EXCEPT ![d] = 0]

(* The slot is given back to be claimed again. *)
FinishSlot_Release(d) ==
  /\ Step(d, "finish", "reserve") /\ Owns(d, Current(d))
  /\ slots' = [slots EXCEPT ![Current(d)] = Free]
  /\ bad' = [bad EXCEPT ![d] = @ \/ ~exitOk[d]]
  /\ NextLoop(d)
  /\ UNCHANGED <<clock, now, record, wake, late, cut, loopFaults>>

(* Every slot is finished as dispatched. *)
FinishSlot_AlwaysOk(d) ==
  /\ Step(d, "finish", "reserve") /\ Owns(d, Current(d))
  /\ slots' = [slots EXCEPT ![Current(d)].status = "dispatched"]
  /\ bad' = [bad EXCEPT ![d] = @ \/ ~exitOk[d]]
  /\ NextLoop(d)
  /\ UNCHANGED <<clock, now, record, wake, late, cut, loopFaults>>

(* finishDispatch refuses a reservation that is no longer the caller's. *)
FinishSlot(d) ==
  \/ /\ Step(d, "finish", "reserve") /\ Owns(d, Current(d))
     /\ slots' = [slots EXCEPT ![Current(d)].status = Outcome(d, "dispatched", "failed")]
     /\ bad' = [bad EXCEPT ![d] = @ \/ ~exitOk[d]]
     /\ NextLoop(d)
     /\ UNCHANGED <<clock, now, record, wake, late, cut, loopFaults>>
  \/ /\ Step(d, "finish", "gone") /\ ~Owns(d, Current(d))
     /\ UNCHANGED <<clock, now, todo, exitOk, renewal, renewErr, bad, slots, record, wake, late, cut, loopFaults>>

(* The end of dispatchLoops: the wake tells how it went. *)
MarkWake(d) ==
  /\ Step(d, "reserve", "gone") /\ todo[d] = {}
  /\ wake' = [wake EXCEPT ![d] = IF Kind[d] = "wake"
                                   THEN IF bad[d] THEN "failed" ELSE "succeeded" ELSE @]
  /\ UNCHANGED <<clock, now, todo, exitOk, renewal, renewErr, bad, slots, record, late, cut, loopFaults>>

Throw(d) ==
  \/ Rejected(d, "idle", "list")
  \/ (todo[d] # {} /\ Rejected(d, "reserve", "reserve"))
  \/ Rejected(d, "create", "create")
  \/ Rejected(d, "record", "record")
  \/ Rejected(d, "finish", "finish")
  \/ (todo[d] = {} /\ Rejected(d, "reserve", "mark"))

Dies(d) == \E from \in {"create", "run", "record", "finish"} : Rejected(d, from, "crash")

(* Time passes only while nothing but targets, and their timers, is going on. *)
Resting == {"idle", "run", "gone"}
TimePasses ==
  /\ clock < Horizon /\ clock' = clock + 1
  /\ \A d \in Dispatcher : at[d] \in Resting /\ (at[d] = "run" => clock < renewal[d])
  /\ UNCHANGED <<procVars, slots, record, wake, late, cut, loopFaults>>

Dispatch(d) ==
  \/ Refused(d) \/ Reserve(d) \/ CreateRecord(d) \/ Renew(d) \/ Target(d)
  \/ FinishRecord(d) \/ FinishSlot(d) \/ MarkWake(d) \/ Throw(d)
LoopNext ==
  \/ \E d \in Dispatcher : Wake(d) \/ Dispatch(d) \/ Dies(d)
  \/ TimePasses

LoopSpec == LoopInit /\ [][LoopNext]_loopVars
-----------------------------------------------------------------------------
(* Every variable of the loop dispatch keeps its type. *)
LoopTypeOK ==
  /\ clock \in 0..Horizon
  /\ at \in [Dispatcher -> {"idle", "reserve", "create", "run", "record", "finish", "gone"}]
  /\ \A d \in Dispatcher : at[d] \in {"create", "run", "record", "finish"} => todo[d] # {}
  /\ \A k \in Key : slots[k] = Free \/ /\ slots[k].status \in {"held", "dispatched", "failed"}
                                       /\ slots[k].by \in Dispatcher
  /\ record \in [Dispatcher -> [Key -> {"none", "running", "succeeded", "failed"}]]

Running(d, l) == at[d] = "run" /\ CurrentLoop(d) = l

(* maxConcurrentRuns is 1: two dispatchers run one Loop's target at the    *)
(* same time only when a lease ends before its first renewal, because it   *)
(* starts from an instant read before the Loops dispatched earlier ran, or *)
(* when a renewal failed (reserveLoopDispatch, startLoopLeaseRenewal).     *)
OneTargetPerLoop ==
  \A d, e \in Dispatcher : \A l \in Loop :
    d # e /\ Running(d, l) /\ Running(e, l)
      => {d, e} \cap late # {} \/ renewErr[d] \/ renewErr[e]

(* A slot has at most one successful run record, unless its dispatcher     *)
(* stopped between the record and the slot, or exclusion failed as above.  *)
OneSuccessPerSlot ==
  \A d, e \in Dispatcher, k \in Key :
    d # e /\ record[d][k] = "succeeded" /\ record[e][k] = "succeeded"
      => {d, e} \cap (late \cup cut) # {}

(* A finished slot says what the record of its run says. *)
SlotAgreesWithRecord ==
  \A k \in Key :
    /\ slots[k].status = "dispatched" => record[slots[k].by][k] = "succeeded"
    /\ slots[k].status = "failed" => record[slots[k].by][k] = "failed"

(* What one dispatch per slot means. *)
LoopsRunOnce == OneTargetPerLoop /\ OneSuccessPerSlot /\ SlotAgreesWithRecord
=============================================================================
