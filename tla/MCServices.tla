----------------------------- MODULE MCServices -----------------------------
(***************************************************************************)
(* Instances of ChatSession, PoolManager and BrainTurns, side by side: a   *)
(* behaviour is one of the part that "part" names.                         *)
(*   open    the chat, when anything happens that the configuration allows *)
(*   chat    users never post while a turn is being answered, messages are *)
(*           committed at once, and two calls may fail                     *)
(*   pool    claims, a resize and two failing calls, no resync             *)
(*   sweeps  claims, a periodic resync, an owner crash and a reconcile     *)
(*   brain   messages one by one, breaking connections, a server's death   *)
(***************************************************************************)
EXTENDS ChatSession, PoolManager, BrainTurns, TLC

CONSTANTS m1, m2, m3, m4, c1, c2

Symmetry == Permutations({m1, m2, m3}) \cup Permutations({c1, c2})

VARIABLE part
mcVars == <<part, vars, poolVars, brainVars>>

Open == INSTANCE ChatSession WITH MaxFaults <- 1, MaxPosts <- 2
Chat == INSTANCE ChatSession WITH
  Statuses <- {"committed"}, PostsInTurn <- FALSE, OpenAI <- FALSE, Broken <- {},
  MaxPosts <- 4, MaxHandoffs <- 0, MaxStarts <- 3, MaxFaults <- 2

Steady == INSTANCE PoolManager WITH
  Reconcile <- {}, Tick <- {}, MaxAttempts <- 2, MaxPoolFaults <- 2,
  FailingFlyCalls <- {"start", "health", "post", "create", "suspend", "vanish"}
Sweeps == INSTANCE PoolManager WITH
  Machine <- {m1, m2, m3}, Resize <- {}, MaxAttempts <- 3, MaxPoolFaults <- 1,
  FailingFlyCalls <- {"list", "destroy", "post"}

MCInit ==
  /\ part \in {"open", "chat", "pool", "sweeps", "brain"}
  /\ Init /\ BrainInit
  /\ IF part = "sweeps" THEN Sweeps!PoolInit ELSE Steady!PoolInit /\ (part = "pool" \/ min = 1)
MCNext ==
  \/ part = "open" /\ Open!Next /\ UNCHANGED <<part, poolVars, brainVars>>
  \/ part = "chat" /\ Chat!Next /\ UNCHANGED <<part, poolVars, brainVars>>
  \/ part = "pool" /\ Steady!PoolNext /\ UNCHANGED <<part, vars, brainVars>>
  \/ part = "sweeps" /\ Sweeps!PoolNext /\ UNCHANGED <<part, vars, brainVars>>
  \/ part = "brain" /\ BrainNext /\ UNCHANGED <<part, vars, poolVars>>
MCSpec == MCInit /\ [][MCNext]_mcVars

(* The variables of each part have their types.                            *)
ServicesTypeOK == TypeOK /\ BrainTypeOK /\ (part = "pool" => Steady!PoolTypeOK)

(* IdleMeansAnswered holds when nobody posts while a turn is answered.     *)
SteadyIsAnswered == part = "chat" => IdleMeansAnswered

(* The properties of PoolManager, each in the instance it is about.        *)
SteadyPool ==
  part = "pool" => Steady!ClaimsAreExclusive /\ Steady!JobRunsOnOneMachine /\ Steady!QuietPoolIsWarm

(* What chats and pools keep while their steady settings last.             *)
SteadyHolds == SteadyIsAnswered /\ SteadyPool

(* The sweeps of the pool, as they run.                                    *)
SweptPool ==
  /\ [](part = "sweeps" => Sweeps!WarmIsCapped)
  /\ [][part = "sweeps" => \A m \in {m1, m2, m3} : job[m] # NoMachine => job'[m] = job[m]]_mcVars
=============================================================================
