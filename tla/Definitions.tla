---------------------------- MODULE Definitions ----------------------------
(* The definitions a kody process works from: the catalogue it copies from *)
(* the state backend into the checkout (definition-hydration.ts), the      *)
(* capability folders and their contracts (capabilityFolders.ts), which of *)
(* them a command names (registry.ts), what a capability run is given      *)
(* (scripts/loadSimpleCapability.ts), kody.config.json as far as  *)
(* it decides who is served (config.ts).                                   *)
EXTENDS Naturals, FiniteSets, Sequences

CONSTANTS
  Hydrators,           \* kody processes started in one checkout
  HydrationsOverlap,   \* whether two of them may be copying at once
  Namespaces,          \* the lists the backend keeps; one is "capability"
  EngineCapabilities,  \* slugs of the folders the engine ships
  ProjectSlugs,        \* slugs the backend may hold a capability under
  SafeSlugs,           \* those that are also names by registry's isSafeName
  FolderOrder,         \* the project slugs in the order they are listed
  CapabilityDocs,      \* per slug, the documents it may have
  ConfigFiles,         \* contents of kody.config.json
  DefinitionFaults,    \* subset of {"list", "killed"}
  MaxEdits,            \* bound: edits of the backend's catalogue
  MaxHydrations,       \* bound: processes started
  MaxDefinitionFaults

\* What a contract may say, as far as anything below depends on it; "unknown"
\* stands for every word the engine does not know.
ContractWords == {"secrets", "connections", "timeout", "subagents", "checkpoint", "browser", "protected", "session",
                  "actions", "origins", "upload", "fileRoots", "paths", "configPaths", "unknown"}

ASSUME DefinitionsAssumption ==
  /\ "capability" \in Namespaces /\ SafeSlugs \subseteq ProjectSlugs /\ FolderOrder \in Seq(ProjectSlugs)
  /\ HydrationsOverlap \in BOOLEAN
  /\ \A s \in ProjectSlugs : \A c \in CapabilityDocs[s] : c.says \subseteq ContractWords
  /\ DefinitionFaults \subseteq {"list", "killed"}
  /\ {MaxEdits, MaxHydrations, MaxDefinitionFaults} \subseteq Nat

NoFolder == [execution |-> "no folder"]
NoRoot == [is |-> "absent"]
NotListed == [revision |-> "not listed"]
NothingLoaded == [kind |-> "nothing"]

VARIABLES
  catalog,    \* the backend: [revision, broken, folders]
  definitionsRoot, \* .kody-engine/definitions of the checkout
  hydrator,   \* per process: [at, listed, loops]
  kodyConfig, \* the checkout's kody.config.json
  commandGiven, \* what the last command was given
  definitionSpent \* [edits, starts, faults, lost]; lost: killed while no root stood

definitionVars == <<catalog, definitionsRoot, hydrator, kodyConfig, commandGiven, definitionSpent>>

IdleHydrator == [at |-> "idle", listed |-> [n \in Namespaces |-> NotListed], loops |-> FALSE]
NoFolders == [s \in ProjectSlugs |-> NoFolder]

DefinitionsInit ==
  /\ catalog = [revision |-> [n \in Namespaces |-> 0], broken |-> {}, folders |-> NoFolders]
  /\ definitionsRoot = [is |-> "repository", loops |-> TRUE, folders |-> NoFolders, listed |-> IdleHydrator.listed]
  /\ hydrator = [h \in Hydrators |-> IdleHydrator]
  /\ kodyConfig \in ConfigFiles
  /\ commandGiven = NothingLoaded
  /\ definitionSpent = [edits |-> 0, starts |-> 0, faults |-> 0, lost |-> FALSE]

---------------------------------------------------------------------------
(* Copying the catalogue. All lists are asked for at once and answered at  *)
(* moments of their own.                                                   *)

\* Somebody stores a new revision of one list, whole or with a document whose
\* version is not the hash of its files.
PublishDefinitions(n, broken, folders) ==
  /\ definitionSpent.edits < MaxEdits
  /\ n # "capability" => folders = catalog.folders
  /\ catalog' = [revision |-> [catalog.revision EXCEPT ![n] = @ + 1],
                 broken |-> IF broken THEN catalog.broken \cup {n} ELSE catalog.broken \ {n},
                 folders |-> folders]
  /\ definitionSpent' = [definitionSpent EXCEPT !.edits = @ + 1]
  /\ UNCHANGED <<definitionsRoot, hydrator, kodyConfig, commandGiven>>

Copying(h) == hydrator[h].at \in {"listing", "staged", "removed"}

StartHydration(h) ==
  /\ ~Copying(h) /\ definitionSpent.starts < MaxHydrations
  /\ HydrationsOverlap \/ \A o \in Hydrators : ~Copying(o)
  /\ hydrator' = [hydrator EXCEPT ![h] = [IdleHydrator EXCEPT !.at = "listing"]]
  /\ definitionSpent' = [definitionSpent EXCEPT !.starts = @ + 1]
  /\ commandGiven' = NothingLoaded
  /\ UNCHANGED <<catalog, definitionsRoot, kodyConfig>>

ListNamespace(h, n) ==
  /\ hydrator[h].at = "listing" /\ hydrator[h].listed[n] = NotListed
  /\ hydrator' = [hydrator EXCEPT ![h].listed[n] =
       [revision |-> catalog.revision[n], broken |-> n \in catalog.broken,
        folders |-> IF n = "capability" THEN catalog.folders ELSE NoFolders]]
  /\ UNCHANGED <<catalog, definitionsRoot, kodyConfig, commandGiven, definitionSpent>>

HydrationEnds(h, how) == hydrator' = [hydrator EXCEPT ![h] = [IdleHydrator EXCEPT !.at = how]]

\* A list that cannot be read ends the process, exit 99; the staging directory
\* is removed and the root stays as it was.
ListFails(h) ==
  /\ hydrator[h].at = "listing" /\ "list" \in DefinitionFaults /\ definitionSpent.faults < MaxDefinitionFaults
  /\ HydrationEnds(h, "failed")
  /\ definitionSpent' = [definitionSpent EXCEPT !.faults = @ + 1]
  /\ UNCHANGED <<catalog, definitionsRoot, kodyConfig, commandGiven>>

\* mutant: only the capabilities' hashes are compared.
AllVerified_Capabilities(listed) == ~listed["capability"].broken
AllVerified(listed) == \A n \in Namespaces : ~listed[n].broken

\* preserveRepositoryDefinitions: the loops are the repository's, not the backend's.
KeepsLoops(r) == r # NoRoot /\ r.loops

WriteStaging(h) ==
  /\ hydrator[h].at = "listing" /\ \A n \in Namespaces : hydrator[h].listed[n] # NotListed
  /\ IF AllVerified(hydrator[h].listed)
       THEN hydrator' = [hydrator EXCEPT ![h].at = "staged", ![h].loops = KeepsLoops(definitionsRoot)]
       ELSE HydrationEnds(h, "failed")
  /\ UNCHANGED <<catalog, definitionsRoot, kodyConfig, commandGiven, definitionSpent>>

RemoveRoot(h) ==
  /\ hydrator[h].at = "staged"
  /\ definitionsRoot' = NoRoot
  /\ hydrator' = [hydrator EXCEPT ![h].at = "removed"]
  /\ UNCHANGED <<catalog, kodyConfig, commandGiven, definitionSpent>>

\* The staging directory is renamed over the place; a root another process put
\* there meanwhile makes that fail.
InstallStaging(h) ==
  /\ hydrator[h].at = "removed"
  /\ IF definitionsRoot = NoRoot
       THEN /\ definitionsRoot' = [is |-> "hydrated", loops |-> hydrator[h].loops, listed |-> hydrator[h].listed,
                        folders |-> hydrator[h].listed["capability"].folders]
            /\ HydrationEnds(h, "ready")
       ELSE HydrationEnds(h, "failed") /\ UNCHANGED definitionsRoot
  /\ UNCHANGED <<catalog, kodyConfig, commandGiven, definitionSpent>>

HydrationKilled(h) ==
  /\ Copying(h) /\ "killed" \in DefinitionFaults /\ definitionSpent.faults < MaxDefinitionFaults
  /\ HydrationEnds(h, "killed")
  /\ definitionSpent' = [definitionSpent EXCEPT !.faults = @ + 1, !.lost = @ \/ hydrator[h].at = "removed"]
  /\ UNCHANGED <<catalog, definitionsRoot, kodyConfig, commandGiven>>

---------------------------------------------------------------------------
(* Capability folders: what a contract may say, and who it may say it to.  *)

SessionAccepted(c) ==
  LET Says(words) == c.says \cap words # {} IN
  /\ Says({"protected", "session"}) => Says({"browser"})
  /\ Says({"session"}) => c.execution = "agent" /\ Says({"actions"}) /\ Says({"origins"})
  /\ Says({"session"}) /\ Says({"upload"}) => Says({"fileRoots"})
  /\ Says({"actions", "origins", "upload", "fileRoots"}) => Says({"session"})
PathsAccepted(c) == "configPaths" \in c.says => "paths" \in c.says
\* mutant: secrets and connections are read for any execution.
ContractAccepted_Secrets(c) ==
  "unknown" \notin c.says /\ c.says \cap {"subagents", "checkpoint"} = {} /\ PathsAccepted(c) /\ SessionAccepted(c)
ContractAccepted(c) ==
  LET Says(words) == c.says \cap words # {} IN
  /\ "unknown" \notin c.says /\ PathsAccepted(c) /\ SessionAccepted(c)
  /\ Says({"secrets", "connections", "timeout"}) => c.execution = "script"
  /\ Says({"subagents", "checkpoint"}) => c.execution = "agent"

\* readCapabilityFolder: anything wrong with a folder makes it no folder at all.
Readable(c) ==
  /\ c # NoFolder /\ ContractAccepted(c)
  /\ c.execution = "script" => "run.sh" \in c.files

FoldersRead == IF definitionsRoot = NoRoot THEN NoFolders ELSE definitionsRoot.folders
ActionOf(s) == IF FoldersRead[s].action = "own" THEN s ELSE FoldersRead[s].action

\* Places of the project folders that own an action.
Owners(word) ==
  {i \in DOMAIN FolderOrder :
     LET s == FolderOrder[i] IN s \in SafeSlugs /\ Readable(FoldersRead[s]) /\ ActionOf(s) = word}

NoRoute == [source |-> "none"]
BuiltinRoute(word) == IF word \in EngineCapabilities THEN [source |-> "builtin", slug |-> word] ELSE NoRoute

\* resolveCapabilityAction: the project's capabilities come first, of those that
\* own the action the one listed first.
CapabilityAction(word) ==
  IF Owners(word) # {}
    THEN [source |-> "project", slug |-> FolderOrder[CHOOSE i \in Owners(word) : \A k \in Owners(word) : i <= k]]
    ELSE BuiltinRoute(word)

\* mutant: comments are resolved as command lines are.
OperatorAction_Project(word) == CapabilityAction(word)
\* resolveOperatorCapabilityAction: the engine's own commands come first.
OperatorAction(word) == IF BuiltinRoute(word) # NoRoute THEN BuiltinRoute(word) ELSE CapabilityAction(word)

---------------------------------------------------------------------------
(* kody.config.json: a section that is checked makes the whole file        *)
(* unreadable when it is wrong; what is wrong elsewhere is dropped.        *)

ModelsStand == kodyConfig.wrong \cap {"model", "modelConfig", "automaticModels"} = {}
RepositoryNamed == "github" \notin kodyConfig.wrong
AccessStands == "access" \notin kodyConfig.wrong
CompanyStands == kodyConfig.wrong \cap {"activeCapabilities", "activeGoals"} = {}
ReleaseStands == kodyConfig.wrong \cap {"releaseVersion", "releaseDeployment"} = {}
ConfigLoads == kodyConfig.is = "json" /\ ModelsStand /\ RepositoryNamed /\ CompanyStands /\ ReleaseStands /\ AccessStands
AllowedAuthors == IF kodyConfig.allows = {"unset"} THEN {"member"} ELSE kodyConfig.allows
GateLets(who) == ~ConfigLoads \/ AllowedAuthors = {} \/ who \in AllowedAuthors

---------------------------------------------------------------------------
(* Commands, of a process whose copy of the catalogue is in place.         *)

\* What capability-run puts before its agent or script (loadSimpleCapability).
GivenTo(c) ==
  c.says \cap ({"browser", "protected", "session", "actions", "origins", "upload", "fileRoots",
                "checkpoint", "paths", "configPaths", "subagents"}
               \cup IF c.execution = "script" THEN {"secrets", "connections", "timeout"} ELSE {})

SpecialistsPresent(c) == "subagents" \in c.says => c.execution # "script" /\ "specialist" \in c.files

LoadCommand(how, who, word, route) ==
  commandGiven' =
    IF route.source = "project"
      THEN LET c == FoldersRead[route.slug] IN
           IF Readable(c) /\ SpecialistsPresent(c)
             THEN [kind |-> "project", how |-> how, who |-> who, word |-> word, contract |-> c,
                   execution |-> IF c.execution = "script" THEN "script" ELSE "agent", given |-> GivenTo(c)]
             ELSE NothingLoaded
      ELSE [kind |-> "builtin", how |-> how, who |-> who, word |-> word]

\* "@kody <word>" on an issue or a pull request.
ServeComment(h, who, word) ==
  /\ hydrator[h].at = "ready" /\ GateLets(who) /\ ConfigLoads /\ OperatorAction(word) # NoRoute
  /\ LoadCommand("comment", who, word, OperatorAction(word))
  /\ hydrator' = [hydrator EXCEPT ![h].at = "idle"]
  /\ UNCHANGED <<catalog, definitionsRoot, kodyConfig, definitionSpent>>

\* "kody <word>" on a command line, and the steps of a workflow; init alone
\* needs no configuration.
ServeCommandLine(h, word) ==
  /\ hydrator[h].at = "ready" /\ (ConfigLoads \/ word = "init") /\ CapabilityAction(word) # NoRoute
  /\ LoadCommand("command line", "member", word, CapabilityAction(word))
  /\ hydrator' = [hydrator EXCEPT ![h].at = "idle"]
  /\ UNCHANGED <<catalog, definitionsRoot, kodyConfig, definitionSpent>>

---------------------------------------------------------------------------
CommandWords == EngineCapabilities \cup ProjectSlugs

DefinitionsNext ==
  \/ \E n \in Namespaces, b \in BOOLEAN : PublishDefinitions(n, b, catalog.folders)
  \/ \E s \in ProjectSlugs : \E c \in CapabilityDocs[s] :
       PublishDefinitions("capability", FALSE, [catalog.folders EXCEPT ![s] = c])
  \/ \E h \in Hydrators :
       \/ StartHydration(h) \/ ListFails(h) \/ WriteStaging(h) \/ RemoveRoot(h) \/ InstallStaging(h) \/ HydrationKilled(h)
       \/ \E n \in Namespaces : ListNamespace(h, n)
       \/ \E who \in {"member", "stranger"}, word \in CommandWords : ServeComment(h, who, word)
       \/ \E word \in CommandWords : ServeCommandLine(h, word)

DefinitionsSpec == DefinitionsInit /\ [][DefinitionsNext]_definitionVars

---------------------------------------------------------------------------
DefinitionsTypeOK ==
  /\ catalog.revision \in [Namespaces -> 0 .. MaxEdits] /\ catalog.broken \subseteq Namespaces
  /\ \A s \in ProjectSlugs : catalog.folders[s] \in CapabilityDocs[s] \cup {NoFolder}
  /\ definitionsRoot = NoRoot \/ (definitionsRoot.loops \in BOOLEAN /\ DOMAIN definitionsRoot.listed = Namespaces)
  /\ \A h \in Hydrators : hydrator[h].at \in {"idle", "listing", "staged", "removed", "ready", "failed", "killed"}
  /\ kodyConfig \in ConfigFiles
  /\ commandGiven.kind \in {"nothing", "project", "builtin"}
  /\ definitionSpent \in [edits : 0 .. MaxEdits, starts : 0 .. MaxHydrations, faults : 0 .. MaxDefinitionFaults, lost : BOOLEAN]

\* What stands in the checkout is one whole, verified copy with the
\* repository's own loops in it; it is missing, or the loops are, only once a
\* process was killed between its two file operations
\* (definition-hydration.ts:122-186).
HydratedIsWhole ==
  /\ definitionsRoot = NoRoot => definitionSpent.lost \/ \E h \in Hydrators : hydrator[h].at = "removed"
  /\ definitionsRoot # NoRoot => definitionsRoot.loops \/ definitionSpent.lost
  /\ definitionsRoot # NoRoot /\ definitionsRoot.is = "hydrated" =>
       \A n \in Namespaces : definitionsRoot.listed[n] # NotListed /\ ~definitionsRoot.listed[n].broken

\* A comment that names a command of the engine gets the engine's, whatever the
\* project has stored under that name, and only a repository that opened its
\* gate serves strangers (registry.ts:272-288, config.ts:486-531).
CommandsStayTheOwners ==
  commandGiven.kind \in {"project", "builtin"} /\ commandGiven.how = "comment" =>
    /\ commandGiven.word \in EngineCapabilities => commandGiven.kind = "builtin"
    /\ commandGiven.who = "stranger" => kodyConfig.allows \notin {{"unset"}, {"member"}}

\* Whatever a contract asks for is either refused when the folder is read or
\* there when the capability runs: nothing it says is silently left out, and
\* what only a script or only an agent may have goes to no other
\* (capabilityFolders.ts:224-392 against loadSimpleCapability.ts:20-75).
NothingAskedIsDropped ==
  commandGiven.kind = "project" =>
    /\ commandGiven.given = commandGiven.contract.says
    /\ commandGiven.execution = "script" => "run.sh" \in commandGiven.contract.files
    /\ "session" \in commandGiven.given => {"browser", "actions", "origins"} \subseteq commandGiven.given
    /\ "upload" \in commandGiven.given => "fileRoots" \in commandGiven.given

\* One owner of every word, one contract for every run.
OneOwnerOneContract == CommandsStayTheOwners /\ NothingAskedIsDropped

\* What the definitions of a checkout promise to every reader of them.
DefinitionsHold == HydratedIsWhole /\ OneOwnerOneContract
============================================================================
