-------------------------- MODULE MCWorkflowRun --------------------------
(***************************************************************************)
(* Instances of WorkflowRun: a release-like graph with a bounded repair    *)
(* loop and a gated last step, and a graph with a skipped step, a default  *)
(* connection, a tolerated failure and an explicit $end.                   *)
(***************************************************************************)
EXTENDS WorkflowRun, TLC

CONSTANTS a, b   \* runners

Always(s) == [of |-> s, among |-> Result]
to(t)     == [to |-> t, kind |-> "always", when |-> {}, max |-> 0]
on(t, w)  == [to |-> t, kind |-> "when", when |-> w, max |-> 0]
upTo(n, e) == [e EXCEPT !.max = n]
otherwise(t) == [to |-> t, kind |-> "default", when |-> {}, max |-> 0]

Ran(x, res) == [exit |-> x, result |-> res]

\* check: fail -> check again (once), pass -> ship; ship is gated.
ReleaseSteps == {"check", "ship"}
ReleaseEdges ==
  [check |-> << on("ship", {"pass"}), upTo(1, on("check", {"fail"})) >>,
   ship  |-> << >>]
ReleaseRunWhen == [s \in ReleaseSteps |-> Always(s)]
ReleaseTolerated == [s \in ReleaseSteps |-> {}]
ReleaseOutcome == {Ran(0, "pass"), Ran(0, "fail"), Ran(0, "none")}

\* lint: passes to pack, anything else goes to fix; fix runs only on a failed
\* lint and returns to it (once); pack ends the run explicitly and is gated.
RepairSteps == {"lint", "fix", "pack"}
RepairEdges ==
  [lint |-> << otherwise("fix"), on("pack", {"pass"}) >>,
   fix  |-> << upTo(1, otherwise("lint")) >>,
   pack |-> << to("$end") >>]
RepairRunWhen ==
  [lint |-> Always("lint"),
   fix  |-> [of |-> "lint", among |-> {"fail"}],
   pack |-> Always("pack")]
RepairTolerated == [s \in RepairSteps |-> IF s = "lint" THEN {Ran(1, "blocked")} ELSE {}]
RepairOutcome == {Ran(0, "pass"), Ran(0, "fail"), Ran(1, "blocked")}

Symmetry == Permutations({a, b})
==========================================================================
