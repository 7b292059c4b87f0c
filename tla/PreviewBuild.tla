---------------------------- MODULE PreviewBuild ----------------------------
(***************************************************************************)
(* The preview of one pull request (runPreviewBuild.ts): each build of it  *)
(* prepares the Fly app, pushes its image, destroys the machines it finds, *)
(* creates its own and writes the pull request's comment. Builds of two    *)
(* heads run in two workflow runs, side by side. Fly's registry knows an   *)
(* image a little after its push.                                          *)
(***************************************************************************)
EXTENDS Naturals, FiniteSets, SequencesExt

CONSTANTS
  Builds,        \* each of a head of its own
  PreviewFaults, \* "context", "app", "image", "list", "destroy", "create", "lost machine",
                 \* "lookup", "comment", "comment refused", "killed"
  CreateTries,   \* how often a create is tried while the registry does not know the image
  MaxPreviewFaults \* bound

ASSUME PreviewAssumption == IsFiniteSet(Builds) /\ CreateTries \in Nat \ {0}

VARIABLES
  previewBuild,  \* build -> [at, nth, stale, tries, exit, clean, alone]: the nth to start, stale
                 \* as listed, clean while no call failed, alone while no other ran beside it
  flyApp,        \* whether the app exists
  machinesUp,    \* machines of the app, each by the build that made it
  images,        \* images in the app's registry
  previewComments, \* the comments with the marker, each by the build it names
  previewFaults

previewVars == <<previewBuild, flyApp, machinesUp, images, previewComments, previewFaults>>

NewBuild == [at |-> "new", nth |-> 0, stale |-> {}, tries |-> 0, exit |-> 0, clean |-> TRUE, alone |-> TRUE]

PreviewInit ==
  /\ previewBuild = [b \in Builds |-> NewBuild] /\ flyApp = FALSE
  /\ machinesUp = {} /\ images = {} /\ previewComments = <<>> /\ previewFaults = 0
---------------------------------------------------------------------------
BuildAt(b, at) == previewBuild[b].at = at
BuildGoes(b, at) == previewBuild' = [previewBuild EXCEPT ![b].at = at]
PreviewFails(what) ==
  what \in PreviewFaults /\ previewFaults < MaxPreviewFaults /\ previewFaults' = previewFaults + 1
Fine == UNCHANGED previewFaults
Exits(b, code) == previewBuild' = [previewBuild EXCEPT ![b].at = "ended", ![b].exit = code, ![b].clean = FALSE]
\* A call that fails and is passed over.
Passes(b, at) == previewBuild' = [previewBuild EXCEPT ![b].at = at, ![b].clean = FALSE]
Begun == {x \in Builds : previewBuild[x].at # "new"}
BuildRuns(b) == previewBuild[b].at \notin {"new", "ended"}

BuildStarts(b) ==
  /\ BuildAt(b, "new") /\ Fine
  /\ LET nth == Cardinality(Begun) + 1
         others == {x \in Builds : BuildRuns(x)}
     IN previewBuild' = [x \in Builds |->
          IF x = b THEN [NewBuild EXCEPT !.at = "context", !.nth = nth, !.alone = others = {}]
          ELSE IF x \in others THEN [previewBuild[x] EXCEPT !.alone = FALSE] ELSE previewBuild[x]]
  /\ UNCHANGED <<flyApp, machinesUp, images, previewComments>>

\* The preview's context: its secrets, or none to work with.
ReadsContext(b) ==
  /\ BuildAt(b, "context")
  /\ \/ BuildGoes(b, "app") /\ Fine
     \/ \E code \in {1, 99} : Exits(b, code) /\ PreviewFails("context")
  /\ UNCHANGED <<flyApp, machinesUp, images, previewComments>>

\* flyAppExists, flyCreateApp (a name that is taken is fine), flyAllocateSharedIps.
PreparesApp(b) ==
  /\ BuildAt(b, "app")
  /\ \/ flyApp' = TRUE /\ BuildGoes(b, "image") /\ Fine
     \/ PreviewFails("app") /\ Exits(b, 1) /\ (flyApp' = flyApp \/ flyApp' = TRUE)
  /\ UNCHANGED <<machinesUp, images, previewComments>>

\* The docker build and its push; a remote builder that cannot be had is done without.
PushesImage(b) ==
  /\ BuildAt(b, "image")
  /\ \/ images' = images \cup {b} /\ BuildGoes(b, "list") /\ Fine
     \/ PreviewFails("image") /\ Exits(b, 1) /\ UNCHANGED images
  /\ UNCHANGED <<flyApp, machinesUp, previewComments>>

\* flyListMachines. mutant: only the machines of the same head are stale.
StaleOf_Own(b) == machinesUp \cap {b}
StaleOf(b) == machinesUp
ListsStale(b) ==
  /\ BuildAt(b, "list")
  /\ \/ previewBuild' = [previewBuild EXCEPT ![b].at = "destroy", ![b].stale = StaleOf(b)] /\ Fine
     \/ PreviewFails("list") /\ Exits(b, 1)
  /\ UNCHANGED <<flyApp, machinesUp, images, previewComments>>

\* flyDestroyMachine, of each in turn; one that is gone is fine, a failure is passed over.
DestroysStale(b) ==
  /\ BuildAt(b, "destroy")
  /\ LET stale == previewBuild[b].stale
     IN \/ stale = {} /\ BuildGoes(b, "create") /\ Fine /\ UNCHANGED machinesUp
        \/ \E m \in stale :
             \/ /\ machinesUp' = machinesUp \ {m} /\ Fine
                /\ previewBuild' = [previewBuild EXCEPT ![b].stale = @ \ {m}]
             \/ /\ PreviewFails("destroy") /\ UNCHANGED machinesUp
                /\ previewBuild' = [previewBuild EXCEPT ![b].stale = @ \ {m}, ![b].clean = FALSE]
  /\ UNCHANGED <<flyApp, images, previewComments>>

\* flyCreatePreviewMachine: tried again only while the registry does not know
\* the image. An answer that is lost is a failure, and the machine runs.
CreatesMachine(b) ==
  /\ BuildAt(b, "create") /\ b \in images
  /\ \/ machinesUp' = machinesUp \cup {b} /\ BuildGoes(b, "lookup") /\ Fine
     \/ PreviewFails("lost machine") /\ machinesUp' = machinesUp \cup {b} /\ Exits(b, 1)
     \/ PreviewFails("create") /\ Exits(b, 1) /\ UNCHANGED machinesUp
     \/ /\ UNCHANGED machinesUp /\ Fine
        /\ IF previewBuild[b].tries + 1 < CreateTries
           THEN previewBuild' = [previewBuild EXCEPT ![b].tries = @ + 1] ELSE Exits(b, 1)
  /\ UNCHANGED <<flyApp, images, previewComments>>

\* postOrUpdatePreviewComment: a lookup that fails has found none; the answer
\* to the write is not looked at, a write that throws fails the build.
LooksForComment(b) ==
  /\ BuildAt(b, "lookup")
  /\ \/ BuildGoes(b, IF previewComments = <<>> THEN "post" ELSE "patch") /\ Fine
     \/ Passes(b, "post") /\ PreviewFails("lookup")
  /\ UNCHANGED <<flyApp, machinesUp, images, previewComments>>
Commented(b) == IF BuildAt(b, "patch") THEN [previewComments EXCEPT ![1] = b] ELSE Append(previewComments, b)
WritesComment(b) ==
  /\ previewBuild[b].at \in {"post", "patch"}
  /\ \/ previewComments' = Commented(b) /\ BuildGoes(b, "ended") /\ Fine
     \/ previewComments' = Commented(b) /\ Exits(b, 1) /\ PreviewFails("comment")
     \/ UNCHANGED previewComments /\ Exits(b, 1) /\ PreviewFails("comment")
     \/ UNCHANGED previewComments /\ Passes(b, "ended") /\ PreviewFails("comment refused")
  /\ UNCHANGED <<flyApp, machinesUp, images>>

BuildKilled(b) ==
  /\ BuildRuns(b) /\ PreviewFails("killed") /\ Exits(b, 137)
  /\ UNCHANGED <<flyApp, machinesUp, images, previewComments>>

PreviewNext ==
  \E b \in Builds :
    \/ BuildStarts(b) \/ ReadsContext(b) \/ PreparesApp(b) \/ PushesImage(b) \/ ListsStale(b)
    \/ DestroysStale(b) \/ CreatesMachine(b) \/ LooksForComment(b) \/ WritesComment(b) \/ BuildKilled(b)
PreviewSpec == PreviewInit /\ [][PreviewNext]_previewVars
---------------------------------------------------------------------------
(* Machines, images and comments are the builds'.                          *)
PreviewTypeOK ==
  /\ machinesUp \subseteq Builds /\ images \subseteq Builds
  /\ \A b \in Builds : previewBuild[b].stale \subseteq Builds /\ previewBuild[b].tries < CreateTries

(* A build that ran alone and none of whose calls failed leaves its        *)
(* machine as the only one and the first comment naming it, whatever the   *)
(* builds before it left.                                                  *)
CleanBuildIsThePreview ==
  \A b \in Builds :
    BuildAt(b, "ended") /\ previewBuild[b].clean /\ previewBuild[b].alone /\ previewBuild[b].nth = Cardinality(Begun)
      => machinesUp = {b} /\ previewComments[1] = b

(* A build that ended well is up until another build has an image to put   *)
(* in its place.                                                           *)
MachinesAreReplaced ==
  \A b \in Builds :
    BuildAt(b, "ended") /\ previewBuild[b].exit = 0 => b \in machinesUp \/ images \ {b} # {}

(* What the reviewers of a pull request may rely on.                       *)
PreviewHolds == CleanBuildIsThePreview /\ MachinesAreReplaced
=============================================================================
