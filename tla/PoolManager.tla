---------------------------- MODULE PoolManager ----------------------------
(***************************************************************************)
(* The warm pool of one repository (src/pool/manager.ts) with the machines *)
(* it owns and the runner inside each machine (src/servers/runner-serve).  *)
(*                                                                         *)
(* The owner is one JavaScript process: code between two awaits is atomic, *)
(* and an action is such a segment.  Claims, the refill loop and the       *)
(* sweeps (reconcile on a start, the periodic resync, setMin's rebalance)  *)
(* interleave at the awaits, and a remote call takes effect at Fly or at   *)
(* the runner some time before the owner continues.                        *)
(***************************************************************************)
EXTENDS Integers, Sequences, FiniteSets

CONSTANTS
  Machine,      \* machine ids Fly hands out, never the same one twice
  Claim,        \* claims the dashboard makes, each with a job of its own
  Reconcile,    \* starts of a new owner process after a crash
  Tick,         \* periodic resyncs
  Resize,       \* changes of POOL_MIN
  NoMachine,    \* no machine, no job
  Mins,         \* values POOL_MIN takes
  MaxAttempts,  \* MAX_CLAIM_ATTEMPTS
  FailingFlyCalls, \* the remote calls that may fail
  MaxPoolFaults    \* bound: how many of them do

Sweep == Reconcile \cup Tick \cup Resize
FlyCalls == {"start", "health", "post", "destroy", "create", "suspend", "list", "vanish"}

ASSUME ProcessAssumption ==
  /\ NoMachine \notin Machine \cup Claim /\ IsFiniteSet(Machine)
  /\ Reconcile \cap Tick = {} /\ Reconcile \cap Resize = {} /\ Tick \cap Resize = {}
ASSUME PoolAssumption ==
  /\ Mins \subseteq Nat /\ Mins # {} /\ IsFiniteSet(Mins)
  /\ MaxAttempts \in Nat /\ MaxPoolFaults \in Nat
  /\ FailingFlyCalls \subseteq FlyCalls

VARIABLES
  up,        \* the owner process has this repository's pool
  min,       \* config.min
  free,      \* the free list
  claimed,   \* the claimed set
  boot,      \* where refill is: one loop at a time, booting one machine at a time
  booted,    \* the machine it is booting
  claim,     \* claim -> where it is
  held,      \* claim -> the machine it tries or got
  attempts,  \* claim -> machines tried
  sweep,     \* sweep -> where it is
  listing,   \* sweep -> what listPooled returned: the live and the suspended ids
  doomed,    \* sweep -> machines it is still to destroy
  fly,       \* machine -> its state at Fly
  job,       \* machine -> the job its runner accepted
  killed,    \* history: machines destroyed by the owner while running a job
  poolFaults     \* counter behind MaxPoolFaults

claimVars == <<claim, held, attempts>>
sweepVars == <<sweep, listing, doomed>>
poolVars == <<up, min, free, claimed, boot, booted, claimVars, sweepVars, fly, job, killed, poolFaults>>

NoListing == [live |-> {}, suspended |-> {}]

Trying == {"start", "health", "post", "body", "accepted", "drop"}

PoolTypeOK ==
  /\ up \in BOOLEAN /\ min \in Mins
  /\ free \in Seq(Machine) /\ claimed \subseteq Machine
  /\ boot \in {"idle", "create", "probe", "suspend", "push", "drop"}
  /\ booted \in Machine \cup {NoMachine}
  /\ claim \in [Claim -> Trying \cup {"new", "ok", "failed"}]
  /\ held \in [Claim -> Machine \cup {NoMachine}]
  /\ attempts \in [Claim -> 0 .. MaxAttempts]
  /\ sweep \in [Sweep -> {"new", "listing", "listed", "trim", "cull", "done"}]
  /\ listing \in [Sweep -> [live : SUBSET Machine, suspended : SUBSET Machine]]
  /\ doomed \in [Sweep -> SUBSET Machine]
  /\ fly \in [Machine -> {"none", "started", "suspended", "gone"}]
  /\ job \in [Machine -> Claim \cup {NoMachine}]
  /\ killed \subseteq Machine
  /\ poolFaults \in 0 .. MaxPoolFaults

\* A pool whose reconcile found no machine and has just called refill.
PoolInit ==
  /\ up = TRUE /\ min \in Mins
  /\ free = <<>> /\ claimed = {}
  /\ boot = IF min > 0 THEN "create" ELSE "idle"
  /\ booted = NoMachine
  /\ claim = [c \in Claim |-> "new"]
  /\ held = [c \in Claim |-> NoMachine]
  /\ attempts = [c \in Claim |-> 0]
  /\ sweep = [t \in Sweep |-> "new"]
  /\ listing = [t \in Sweep |-> NoListing]
  /\ doomed = [t \in Sweep |-> {}]
  /\ fly = [m \in Machine |-> "none"]
  /\ job = [m \in Machine |-> NoMachine]
  /\ killed = {} /\ poolFaults = 0

-----------------------------------------------------------------------------
(* Remote calls.                                                           *)

Entries(list) == {list[i] : i \in DOMAIN list}

FlyFails(call) == call \in FailingFlyCalls /\ poolFaults < MaxPoolFaults /\ poolFaults' = poolFaults + 1

\* safeDestroy: an error is logged and the caller goes on as if it had worked.
SafeDestroy(m) ==
  \/ /\ fly' = [fly EXCEPT ![m] = "gone"]
     /\ killed' = IF fly[m] = "started" /\ job[m] # NoMachine THEN killed \cup {m} ELSE killed
     /\ UNCHANGED poolFaults
  \/ FlyFails("destroy") /\ UNCHANGED <<fly, killed>>

ClaimAt(c, label) == claim' = [claim EXCEPT ![c] = label]
SweepAt(t, label) == sweep' = [sweep EXCEPT ![t] = label]

-----------------------------------------------------------------------------
(* refill and bootOne.                                                     *)

\* The machine that refill is booting counts as warm already (booting).
Booting == IF boot = "idle" THEN 0 ELSE 1

\* refill is called with this free list and size; a loop that runs goes on.
TopUp(list, size) ==
  boot' = IF boot = "idle" /\ Len(list) < size THEN "create" ELSE boot

Create ==
  /\ boot = "create"
  /\ \/ \E m \in Machine :
          /\ fly[m] = "none"
          /\ fly' = [fly EXCEPT ![m] = "started"]
          /\ booted' = m /\ boot' = "probe"
          /\ UNCHANGED poolFaults
     \/ FlyFails("create") /\ boot' = "idle" /\ UNCHANGED <<fly, booted>>
  /\ UNCHANGED <<up, min, free, claimed, claimVars, sweepVars, job, killed>>

\* The machine must get an address and answer its health check.
ProbeBooted ==
  /\ boot = "probe"
  /\ \/ boot' = "suspend" /\ UNCHANGED poolFaults
     \/ FlyFails("health") /\ boot' = "drop"
  /\ UNCHANGED <<up, min, free, claimed, booted, claimVars, sweepVars, fly, job, killed>>

\* The machine that did not boot is destroyed, and the loop ends.
DropBooted ==
  /\ boot = "drop"
  /\ SafeDestroy(booted)
  /\ boot' = "idle" /\ booted' = NoMachine
  /\ UNCHANGED <<up, min, free, claimed, claimVars, sweepVars, job>>

\* A failing suspend ends the loop and leaves the machine running.
Suspend ==
  /\ boot = "suspend"
  /\ \/ /\ fly' = [fly EXCEPT ![booted] = IF @ = "started" THEN "suspended" ELSE @]
        /\ boot' = "push"
        /\ UNCHANGED <<booted, poolFaults>>
     \/ FlyFails("suspend") /\ boot' = "idle" /\ booted' = NoMachine /\ UNCHANGED fly
  /\ UNCHANGED <<up, min, free, claimed, claimVars, sweepVars, job, killed>>

\* Faulty variant: the loop is left without looking at the free list again.
Push_Once ==
  /\ boot = "push"
  /\ free' = Append(free, booted)
  /\ booted' = NoMachine /\ boot' = "idle"
  /\ UNCHANGED <<up, min, claimed, claimVars, sweepVars, fly, job, killed, poolFaults>>

\* The suspended machine is free; the loop goes on until there are enough.
Push ==
  /\ boot = "push"
  /\ free' = Append(free, booted)
  /\ booted' = NoMachine
  /\ boot' = IF Len(free') < min THEN "create" ELSE "idle"
  /\ UNCHANGED <<up, min, claimed, claimVars, sweepVars, fly, job, killed, poolFaults>>

-----------------------------------------------------------------------------
(* claim.                                                                  *)

\* Faulty variant: attempts are counted and not limited.
TryNext_Unlimited(c, others) ==
  \/ /\ free # <<>>
     /\ held' = [held EXCEPT ![c] = Head(free)]
     /\ free' = Tail(free)
     /\ claimed' = others \cup {Head(free)}
     /\ attempts' = [attempts EXCEPT ![c] = @ + 1]
     /\ ClaimAt(c, "start")
     /\ UNCHANGED boot
  \/ /\ free = <<>>
     /\ claimed' = others
     /\ held' = [held EXCEPT ![c] = NoMachine]
     /\ ClaimAt(c, "failed")
     /\ TopUp(free, min)
     /\ UNCHANGED <<free, attempts>>

\* Faulty variant: the machine is looked up and stays in the list.
TryNext_Peek(c, others) ==
  \/ /\ free # <<>> /\ attempts[c] < MaxAttempts
     /\ held' = [held EXCEPT ![c] = Head(free)]
     /\ free' = free
     /\ claimed' = others \cup {Head(free)}
     /\ attempts' = [attempts EXCEPT ![c] = @ + 1]
     /\ ClaimAt(c, "start")
     /\ UNCHANGED boot
  \/ /\ free = <<>> \/ attempts[c] = MaxAttempts
     /\ claimed' = others
     /\ held' = [held EXCEPT ![c] = NoMachine]
     /\ ClaimAt(c, "failed")
     /\ TopUp(free, min)
     /\ UNCHANGED <<free, attempts>>

\* The head of claim's loop: shift a machine, or give up and refill.
TryNext(c, others) ==
  \/ /\ free # <<>> /\ attempts[c] < MaxAttempts
     /\ held' = [held EXCEPT ![c] = Head(free)]
     /\ free' = Tail(free)
     /\ claimed' = others \cup {Head(free)}
     /\ attempts' = [attempts EXCEPT ![c] = @ + 1]
     /\ ClaimAt(c, "start")
     /\ UNCHANGED boot
  \/ /\ free = <<>> \/ attempts[c] = MaxAttempts
     /\ claimed' = others
     /\ held' = [held EXCEPT ![c] = NoMachine]
     /\ ClaimAt(c, "failed")
     /\ TopUp(free, min)
     /\ UNCHANGED <<free, attempts>>

Begin(c) ==
  /\ up /\ claim[c] = "new"
  /\ TryNext(c, claimed)
  /\ UNCHANGED <<up, min, booted, sweepVars, fly, job, killed, poolFaults>>

\* Fly ignores the start of a machine that is gone or already awake.
Wake(c) ==
  /\ claim[c] = "start"
  /\ \/ /\ fly' = [fly EXCEPT ![held[c]] = IF @ = "suspended" THEN "started" ELSE @]
        /\ ClaimAt(c, "health")
        /\ UNCHANGED poolFaults
     \/ FlyFails("start") /\ ClaimAt(c, "drop") /\ UNCHANGED fly
  /\ UNCHANGED <<up, min, free, claimed, boot, booted, held, attempts, sweepVars, job, killed>>

\* Faulty variant: the health check of the machine has no timeout.
Probe_Patient(c) ==
  /\ claim[c] = "health"
  /\ fly[held[c]] = "started" /\ ClaimAt(c, "post")
  /\ UNCHANGED <<up, min, free, claimed, boot, booted, held, attempts, sweepVars, fly, job, killed, poolFaults>>

\* The health check of a runner answers whether or not it is busy.
Probe(c) ==
  /\ claim[c] = "health"
  /\ \/ fly[held[c]] = "started" /\ ClaimAt(c, "post") /\ UNCHANGED poolFaults
     \/ fly[held[c]] # "started" /\ ClaimAt(c, "drop") /\ UNCHANGED poolFaults
     \/ FlyFails("health") /\ ClaimAt(c, "drop")
  /\ UNCHANGED <<up, min, free, claimed, boot, booted, held, attempts, sweepVars, fly, job, killed>>

Ready(m) == fly[m] = "started" /\ job[m] = NoMachine

\* POST /run reaches the runner: 409 when it is busy, else it reads the body.
PostJob(c) ==
  /\ claim[c] = "post"
  /\ \/ ClaimAt(c, IF Ready(held[c]) THEN "body" ELSE "drop") /\ UNCHANGED poolFaults
     \/ FlyFails("post") /\ ClaimAt(c, "drop")
  /\ UNCHANGED <<up, min, free, claimed, boot, booted, held, attempts, sweepVars, fly, job, killed>>

\* Faulty variant: the runner does not look at busy again after the body.
Accept_Unchecked(c) ==
  /\ claim[c] = "body"
  /\ job' = [job EXCEPT ![held[c]] = c]
  /\ ClaimAt(c, "accepted")
  /\ UNCHANGED <<up, min, free, claimed, boot, booted, held, attempts, sweepVars, fly, killed, poolFaults>>

\* The runner looks at busy again and takes the job: 202.
Accept(c) ==
  /\ claim[c] = "body"
  /\ IF Ready(held[c])
     THEN job' = [job EXCEPT ![held[c]] = c] /\ ClaimAt(c, "accepted")
     ELSE ClaimAt(c, "drop") /\ UNCHANGED job
  /\ UNCHANGED <<up, min, free, claimed, boot, booted, held, attempts, sweepVars, fly, killed, poolFaults>>

JobReply(c) ==
  /\ claim[c] = "accepted"
  /\ \/ /\ ClaimAt(c, "ok")
        /\ claimed' = claimed \ {held[c]}
        /\ TopUp(free, min)
        /\ UNCHANGED poolFaults
     \/ FlyFails("post") /\ ClaimAt(c, "drop") /\ UNCHANGED <<claimed, boot>>
  /\ UNCHANGED <<up, min, free, booted, held, attempts, sweepVars, fly, job, killed>>

\* Faulty variant: the machine that failed is left as it is.
Drop_Leave(c) ==
  /\ claim[c] = "drop"
  /\ TryNext(c, claimed \ {held[c]})
  /\ UNCHANGED <<up, min, booted, sweepVars, fly, job, killed, poolFaults>>

Drop(c) ==
  /\ claim[c] = "drop"
  /\ SafeDestroy(held[c])
  /\ TryNext(c, claimed \ {held[c]})
  /\ UNCHANGED <<up, min, booted, sweepVars, job>>

-----------------------------------------------------------------------------
(* Sweeps: reconcile, resync and the rebalance of setMin.                  *)

Smaller(a, b) == IF a < b THEN a ELSE b

\* trimFreeSurplus on a free list: the last ones are popped and destroyed.
Trim(t, list, size) ==
  LET kept == SubSeq(list, 1, Smaller(Len(list), size))
  IN /\ free' = kept
     /\ doomed' = [doomed EXCEPT ![t] =
          {list[i] : i \in Len(kept) + 1 .. Len(list)}]

\* setMin: the new size counts at once, the surplus goes, the rest is booted.
SetMin(t) ==
  /\ up /\ t \in Resize /\ sweep[t] = "new"
  /\ \E n \in Mins \ {min} : min' = n /\ Trim(t, free, n)
  /\ SweepAt(t, "cull")
  /\ UNCHANGED <<up, claimed, boot, booted, claimVars, listing, fly, job, killed, poolFaults>>

\* resync begins; reconcile begins with a new owner process, in Start.
BeginResync(t) ==
  /\ up /\ t \in Tick /\ sweep[t] = "new"
  /\ SweepAt(t, "listing")
  /\ UNCHANGED <<up, min, free, claimed, boot, booted, claimVars, listing, doomed,
                 fly, job, killed, poolFaults>>

\* Fly takes the listing; the owner sees it later.
List(t) ==
  /\ sweep[t] = "listing"
  /\ \/ /\ listing' = [listing EXCEPT ![t] =
               [live |-> {m \in Machine : fly[m] \in {"started", "suspended"}},
                suspended |-> {m \in Machine : fly[m] = "suspended"}]]
        /\ SweepAt(t, "listed")
        /\ UNCHANGED poolFaults
     \/ FlyFails("list") /\ SweepAt(t, "done") /\ UNCHANGED listing
  /\ UNCHANGED <<up, min, free, claimed, boot, booted, claimVars, doomed, fly, job, killed>>

\* resync drops the free machines that are not listed, and trims.
Prune(t) ==
  /\ t \in Tick /\ sweep[t] = "listed"
  /\ LET kept == {i \in DOMAIN free : free[i] \in listing[t].live}
     IN \E pick \in [1 .. Cardinality(kept) -> kept] :
          /\ \A i, j \in DOMAIN pick : i < j => pick[i] < pick[j]
          /\ Trim(t, [i \in DOMAIN pick |-> free[pick[i]]], min)
  /\ SweepAt(t, "trim")
  /\ UNCHANGED <<up, min, claimed, boot, booted, claimVars, listing, fly, job, killed, poolFaults>>

\* Faulty variant: the machine that is booting is not counted.
Adopt_NoBooting(t, list, found) ==
  LET room == IF Len(list) < min THEN min - Len(list) ELSE 0
  IN \E new \in [1 .. Smaller(room, Cardinality(found)) -> found] :
       /\ \A i, j \in DOMAIN new : new[i] = new[j] => i = j
       /\ free' = list \o new
       /\ doomed' = [doomed EXCEPT ![t] =
            IF t \in Reconcile \/ boot = "idle" THEN found \ Entries(new) ELSE {}]

\* Found machines are adopted while there is room, and the others destroyed;
\* resync destroys none while a machine is booting.
Adopt(t, list, found) ==
  LET warm == Len(list) + Booting
      room == IF warm < min THEN min - warm ELSE 0
  IN \E new \in [1 .. Smaller(room, Cardinality(found)) -> found] :
       /\ \A i, j \in DOMAIN new : new[i] = new[j] => i = j
       /\ free' = list \o new
       /\ doomed' = [doomed EXCEPT ![t] =
            IF t \in Reconcile \/ boot = "idle" THEN found \ Entries(new) ELSE {}]

AdoptListed(t) ==
  /\ \/ /\ t \in Tick /\ sweep[t] = "trim" /\ doomed[t] = {}
        /\ Adopt(t, free, listing[t].suspended \ (Entries(free) \cup claimed))
     \/ /\ t \in Reconcile /\ sweep[t] = "listed"
        /\ Adopt(t, <<>>, listing[t].suspended)
  /\ SweepAt(t, "cull")
  /\ listing' = [listing EXCEPT ![t] = NoListing]
  /\ UNCHANGED <<up, min, claimed, boot, booted, claimVars, fly, job, killed, poolFaults>>

DestroyOne(t) ==
  /\ sweep[t] \in {"trim", "cull"}
  /\ \E m \in doomed[t] :
       SafeDestroy(m) /\ doomed' = [doomed EXCEPT ![t] = @ \ {m}]
  /\ UNCHANGED <<up, min, free, claimed, boot, booted, claimVars, sweep, listing, job>>

\* Faulty variant: the sweep ends without a refill.
EndSweep_NoRefill(t) ==
  /\ sweep[t] = "cull" /\ doomed[t] = {}
  /\ SweepAt(t, "done")
  /\ UNCHANGED <<up, min, free, claimed, boot, booted, claimVars, listing, doomed,
                 fly, job, killed, poolFaults>>

EndSweep(t) ==
  /\ sweep[t] = "cull" /\ doomed[t] = {}
  /\ SweepAt(t, "done")
  /\ TopUp(free, min)
  /\ UNCHANGED <<up, min, free, claimed, booted, claimVars, listing, doomed,
                 fly, job, killed, poolFaults>>

-----------------------------------------------------------------------------
(* Around the owner.                                                       *)

\* The owner process dies: its memory is gone, and its callers get an error.
OwnerDies ==
  /\ up /\ \E t \in Reconcile : sweep[t] = "new"
  /\ up' = FALSE
  /\ free' = <<>> /\ claimed' = {} /\ boot' = "idle" /\ booted' = NoMachine
  /\ claim' = [c \in Claim |-> IF claim[c] \in Trying THEN "failed" ELSE claim[c]]
  /\ sweep' = [t \in Sweep |-> IF sweep[t] = "new" THEN "new" ELSE "done"]
  /\ held' = [c \in Claim |-> IF claim[c] \in Trying THEN NoMachine ELSE held[c]]
  /\ listing' = [t \in Sweep |-> NoListing]
  /\ doomed' = [t \in Sweep |-> {}]
  /\ UNCHANGED <<min, attempts, fly, job, killed, poolFaults>>

\* createPool in a new process: POOL_MIN is read again, reconcile is started.
Start(t) ==
  /\ ~up /\ t \in Reconcile /\ sweep[t] = "new"
  /\ up' = TRUE
  /\ min' \in Mins
  /\ SweepAt(t, "listing")
  /\ UNCHANGED <<free, claimed, boot, booted, claimVars, listing, doomed, fly, job, killed, poolFaults>>

\* The job ends, its process exits, and Fly destroys the machine.
JobEnds(m) ==
  /\ fly[m] = "started" /\ job[m] # NoMachine
  /\ fly' = [fly EXCEPT ![m] = "gone"]
  /\ UNCHANGED <<up, min, free, claimed, boot, booted, claimVars, sweepVars, job, killed, poolFaults>>

\* A suspended machine is removed by hand.
Vanish(m) ==
  /\ fly[m] = "suspended" /\ FlyFails("vanish")
  /\ fly' = [fly EXCEPT ![m] = "gone"]
  /\ UNCHANGED <<up, min, free, claimed, boot, booted, claimVars, sweepVars, job, killed>>

Refill == Create \/ ProbeBooted \/ DropBooted \/ Suspend \/ Push
Serve(c) == Wake(c) \/ Probe(c) \/ PostJob(c) \/ Accept(c) \/ JobReply(c) \/ Drop(c)
Clean(t) == List(t) \/ Prune(t) \/ AdoptListed(t) \/ DestroyOne(t) \/ EndSweep(t)

PoolNext ==
  \/ Refill
  \/ \E c \in Claim : Begin(c) \/ Serve(c)
  \/ \E t \in Sweep : SetMin(t) \/ BeginResync(t) \/ Start(t) \/ Clean(t)
  \/ OwnerDies
  \/ \E m \in Machine : JobEnds(m) \/ Vanish(m)

PoolSpec == PoolInit /\ [][PoolNext]_poolVars

\* Remote calls settle (each has a timeout or an error), jobs end, and a pool
\* that went down is created again by the dashboard's next request.
PoolFairSpec ==
  /\ PoolSpec
  /\ WF_poolVars(Refill)
  /\ \A c \in Claim : WF_poolVars(Serve(c))
  /\ \A t \in Sweep : WF_poolVars(Clean(t)) /\ WF_poolVars(Start(t))
  /\ \A m \in Machine : WF_poolVars(JobEnds(m))

-----------------------------------------------------------------------------
(* Safety.                                                                 *)

\* Two claims never work on the same machine: the pick is a synchronous shift.
ClaimsAreExclusive ==
  \A c, d \in Claim :
    (c # d /\ claim[c] \in Trying /\ claim[d] \in Trying) => held[c] # held[d]

\* A runner is single-shot, also when two claims reach it at the same time.
OneJobPerMachine ==
  [][\A m \in Machine : job[m] # NoMachine => job'[m] = job[m]]_poolVars

\* A job that is retried on another machine does not run on two: claim forwards
\* it again only after it destroyed the machine whose answer was lost.
JobRunsOnOneMachine ==
  \A m, n \in Machine :
    (m # n /\ job[m] # NoMachine /\ job[m] = job[n]) => fly[m] # "started" \/ fly[n] # "started"

\* Warm machines, which are paid for, never exceed the largest size asked for,
\* although refill, adoption and resizes look at the list at different times.
WarmIsCapped == \E n \in Mins : Len(free) + Booting <= n

\* When nothing is under way and no call failed, the pool is full: no claim,
\* resize or sweep forgets a refill, and none that came while refill was busy
\* is lost.
QuietPoolIsWarm ==
  ( /\ up /\ poolFaults = 0 /\ boot = "idle"
    /\ \A c \in Claim : claim[c] \notin Trying
    /\ \A t \in Sweep : sweep[t] \in {"new", "done"} )
  => Len(free) >= min

-----------------------------------------------------------------------------
(* Liveness, under PoolFairSpec.                                           *)

\* Every claim is answered, so that the dashboard can fall back.
ClaimsEnd == \A c \in Claim : claim[c] \in Trying ~> claim[c] \in {"ok", "failed"}

\* A machine that is awake and idle does not stay so: it is frozen, given a
\* job, or destroyed.
AwakeMachinesSettle ==
  \A m \in Machine :
    (fly[m] = "started" /\ job[m] = NoMachine) ~> (fly[m] # "started" \/ job[m] # NoMachine)

\* Neither a claim nor a machine is left hanging.
PoolSettles == ClaimsEnd /\ AwakeMachinesSettle
=============================================================================
