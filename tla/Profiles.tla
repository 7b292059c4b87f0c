------------------------------ MODULE Profiles ------------------------------
(***************************************************************************)
(* The engine's profiles: the documents beside its own implementations and *)
(* runtime services, the rules one is loaded by (profile.ts), the scripts  *)
(* the pr-branch lifecycle puts around its own (lifecycles/prBranch.ts)    *)
(* and the document a run of one name gets (executor.ts).                  *)
(***************************************************************************)
EXTENDS Naturals, Sequences

CONSTANTS
  ProfileCandidates \* sequences of documents: those of one profile name, root by root

VARIABLE profileRun \* the profile of the run that is on, or why there is none

NotLoaded == [is |-> "error"]
NoKnobs == [context |-> "none"]
Flag(on, script) == IF on THEN <<script>> ELSE <<>>

\* validateConfig: the label and a known context; each switch a boolean.
KnobsParse(k) == k # NoKnobs /\ k.context \in {"task", "ci-fix", "minimal"}

\* CONTEXT_BUNDLES with the profile's extras after loadTaskState.
ContextScripts(k) ==
  IF k.context = "minimal" THEN k.extras
  ELSE <<"loadTaskState">> \o k.extras \o <<"loadConventions">>
         \o (IF k.context = "task" THEN <<"loadPriorArt", "loadMemoryContext">> ELSE <<>>) \o <<"loadCoverageRules">>

\* The pr-branch lifecycle wraps a profile's own scripts.
PrBranchPreflight(own, k) ==
  Flag(k.sync, "syncFlow") \o <<"setLifecycleLabel">> \o own \o ContextScripts(k) \o <<"composePrompt">>
PrBranchPostflight(own, k) ==
  <<"parseAgentResult">> \o own
    \o (IF k.verify THEN <<"verifyWithRetry", "checkCoverageWithRetry", "abortUnfinishedGitOps">> ELSE <<>>)
    \o <<"commitAndPush", "requireDeliveryArtifacts", "ensurePr", "postIssueComment",
         "writeAgentRunSummary", "saveTaskState">>
    \o Flag(k.mirrorState, "mirrorStateToPr") \o Flag(k.advance, "advanceFlow")
    \o Flag(k.finalize, "finalizeTerminal")

Elements(s) == {s[i] : i \in DOMAIN s}
StateSavers == {"writeJobStateFile", "parseJobStateFromAgentResult"}
StateLoaders == {"loadCapabilityState", "loadJobFromFile", "loadLiveAgent", "runTickScript",
                 "runScheduledImplementationTick", "runScheduledExecutableTick"}

\* A runtime.json is compiled from the definitions of its implementation and of
\* the capability that one names.
Compiles(d) == d.adapter \in {"none", "known"}

\* Fields that are parsed strictly, one group each.
AuthParses(d) == "auth" \notin d.wrong
InputsParse(d) == d.wrong \cap {"inputs", "claudeCode", "cliTools"} = {}
ArtifactsParse(d) == d.wrong \cap {"inputArtifacts", "outputArtifacts"} = {}
ChildrenParse(d) == (d.role = "container") = d.children /\ "children" \notin d.wrong
ScriptsParse(d) == d.wrong \cap {"both kinds", "no kind", "timeout of a script"} = {}

\* The rules of loadProfile on a document that names no other implementation.
WellFormed(d) ==
  /\ Compiles(d) /\ AuthParses(d) /\ InputsParse(d) /\ ArtifactsParse(d) /\ ChildrenParse(d) /\ ScriptsParse(d)
  /\ d.scheduled => d.schedule
  /\ d.role # "none"
  /\ d.knobs # NoKnobs => d.lifecycle # "none"
  /\ d.lifecycle # "none" => d.lifecycle = "pr-branch" /\ KnobsParse(d.knobs)
  /\ \A t \in d.tools : t # "misspelt"

Expanded(d) ==
  [is |-> "profile", tools |-> d.tools, scheduled |-> d.scheduled, lifecycle |-> d.lifecycle,
   pre |-> IF d.lifecycle = "none" THEN d.pre ELSE PrBranchPreflight(d.pre, d.knobs),
   post |-> IF d.lifecycle = "none" THEN d.post ELSE PrBranchPostflight(d.post, d.knobs)]

SavesWhatItLoads(p) == Elements(p.post) \cap StateSavers # {} => Elements(p.pre) \cap StateLoaders # {}

\* mutant: no check that state which is saved was loaded.
LoadOwn_Unpaired(d) == IF WellFormed(d) THEN Expanded(d) ELSE NotLoaded
LoadOwn(d) == IF WellFormed(d) /\ SavesWhatItLoads(Expanded(d)) THEN Expanded(d) ELSE NotLoaded

\* A document that names an implementation takes everything but its identity
\* and its tools from there.
LoadProfile(d) ==
  IF d.implements = <<>> THEN LoadOwn(d)
  ELSE LET base == LoadOwn(d.implements[1]) IN
       IF base = NotLoaded \/ d.tools = {} THEN base ELSE [base EXCEPT !.tools = d.tools]

Registered(p) == "no such script" \notin Elements(p.pre) \cup Elements(p.post)

\* loadRunnableProfile: candidates whose scripts are missing are passed over, a
\* candidate that does not load ends the run.
FirstUsable(docs) == {i \in DOMAIN docs : \A j \in 1 .. i - 1 : LoadProfile(docs[j]) # NotLoaded /\ ~Registered(LoadProfile(docs[j]))}
UsableProfile(docs) ==
  LET i == CHOOSE n \in FirstUsable(docs) : \A m \in FirstUsable(docs) : m <= n
      p == LoadProfile(docs[i]) IN
  IF p = NotLoaded \/ Registered(p) THEN p ELSE NotLoaded

NoProfileRun == [is |-> "no run"]

RunProfile(docs) ==
  /\ profileRun = NoProfileRun
  /\ profileRun' = UsableProfile(docs)

EndProfileRun == profileRun # NoProfileRun /\ profileRun' = NoProfileRun

ProfilesInit == profileRun = NoProfileRun
ProfilesNext == (\E docs \in ProfileCandidates : RunProfile(docs)) \/ EndProfileRun
ProfilesSpec == ProfilesInit /\ [][ProfilesNext]_profileRun

---------------------------------------------------------------------------
ProfilesTypeOK == profileRun.is \in {"no run", "error", "profile"}

RunsBefore(s, a, b) == \A i, j \in DOMAIN s : s[i] = a /\ s[j] = b => i < j

\* A profile that runs reads the job state it will save, and one with the
\* pr-branch lifecycle checks before it commits, commits before it opens the
\* pull request, saves the task state after that and closes last
\* (profile.ts:266-292, lifecycles/prBranch.ts:83-135).
LoadedProfilesHold ==
  profileRun.is = "profile" =>
    LET p == profileRun IN
    /\ SavesWhatItLoads(p) /\ Registered(p)
    /\ p.lifecycle = "pr-branch" =>
         /\ p.pre[Len(p.pre)] = "composePrompt" /\ p.post[1] = "parseAgentResult"
         /\ "syncFlow" \in Elements(p.pre) => p.pre[1] = "syncFlow"
         /\ \A a \in {"verifyWithRetry", "checkCoverageWithRetry"} : RunsBefore(p.post, a, "commitAndPush")
         /\ RunsBefore(p.post, "commitAndPush", "ensurePr") /\ RunsBefore(p.post, "ensurePr", "saveTaskState")
         /\ \A a \in {"mirrorStateToPr", "advanceFlow", "finalizeTerminal"} : RunsBefore(p.post, "saveTaskState", a)
         /\ "finalizeTerminal" \in Elements(p.post) => p.post[Len(p.post)] = "finalizeTerminal"
=============================================================================
