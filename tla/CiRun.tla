-------------------------------- MODULE CiRun --------------------------------
(***************************************************************************)
(* One run of `kody ci` (src/entry.ts, src/kody-cli.ts, src/dispatch.ts):  *)
(* from the event, the run request or the flag that started the process to *)
(* one job, a fan-out of watches, an answer to the person who asked, or    *)
(* nothing.  An event is routed twice: autoDispatch decides whether there  *)
(* is a job, and autoDispatchTyped later classifies what had none.         *)
(***************************************************************************)
EXTENDS Naturals, Sequences, FiniteSets

CONSTANTS
  CiStarts,     \* what may start the process: records as built by the instance
  DefaultFor,   \* subset of {"issue", "pr"} with a default action configured
  MembersOnly,  \* config.access.allowedAssociations is set
  OnPullRequest,\* config.onPullRequest names an action
  Watches,      \* watch -> the minutes its schedule names
  WakeMinute, WindowMinutes, \* when the wake comes, and KODY_SCHEDULE_WINDOW_SEC in minutes
  JobExits,     \* exit codes of the job
  CiFaults,     \* subset of {"config", "install", "github", "crash"}
  MaxCiFaults   \* bound of the model

WordKinds == {"word", "number", "enum", "keyword", "flag", "unflag"}

ASSUME CiRunAssumption ==
  /\ \A s \in CiStarts : s.by \in {"person", "outsider", "bot"} /\ s.words \in Seq(WordKinds)
  /\ DefaultFor \subseteq {"issue", "pr"} /\ {MembersOnly, OnPullRequest} \subseteq BOOLEAN
  /\ WakeMinute \in Nat /\ WindowMinutes \in Nat /\ JobExits \subseteq Nat /\ MaxCiFaults \in Nat

VARIABLES
  ciStart,  \* what started this run, and the words after the command
  ci,       \* [at, config, job, exit, words, left, ran, faults]: the process
  shown     \* [comments, label, lost]: what people see, and whether showing it failed
ciVars == <<ciStart, ci, shown>>

NothingSaid == [args |-> [target |-> 0, base |-> 0, prefer |-> 0, force |-> 0], left |-> << >>]
CiRunInit ==
  /\ ciStart \in CiStarts
  /\ ci = [at |-> "config", config |-> "ok", job |-> "none", exit |-> 0, words |-> NothingSaid,
           left |-> {}, ran |-> {}, faults |-> 0]
  /\ shown = [comments |-> {}, label |-> "none", lost |-> FALSE]

-----------------------------------------------------------------------------
CiFault(fault) == fault \in CiFaults /\ ci.faults < MaxCiFaults
Faulted(process) == [process EXCEPT !.faults = @ + 1]
CiEnded(process, code) == [process EXCEPT !.at = "ended", !.exit = code]

(* A comment and a label on the target; each may fail, and nothing is      *)
(* retried or remembered.                                                  *)
Shows(comments, label, process) ==
  \/ ci' = process /\ shown' = [shown EXCEPT !.comments = @ \cup comments, !.label = IF label = "none" THEN @ ELSE label]
  \/ /\ CiFault("github") /\ ci' = Faulted(process)
     /\ shown' = [shown EXCEPT !.lost = TRUE]

(* loadConfig reads the same file whenever it is called.                   *)
LoadCiConfig ==
  /\ ci.at = "config"
  /\ \/ ci' = [ci EXCEPT !.at = "merged"]
     \/ CiFault("config") /\ ci' = Faulted([ci EXCEPT !.at = "merged", !.config = "invalid"])
  /\ UNCHANGED <<ciStart, shown>>

(* A merged pull request with one of the engine's labels ends the issue's  *)
(* lifecycle, and the run.                                                 *)
Merged == ciStart.event = "pull_request" /\ ciStart.pr = "merged" /\ ciStart.labelled
FinalizeMerged ==
  /\ ci.at = "merged"
  /\ IF Merged THEN Shows({}, "done", CiEnded(ci, 0)) ELSE ci' = [ci EXCEPT !.at = "dispatch"] /\ UNCHANGED shown
  /\ UNCHANGED ciStart

(* The membership gate; without a readable configuration there is none.    *)
CommenterAllowed == ciStart.by # "outsider" \/ ~MembersOnly \/ ci.config = "invalid"
TypedToken == ciStart.token \in {"known", "unknown"}
HasDefault == ci.config = "ok" /\ (IF ciStart.onPr THEN "pr" ELSE "issue") \in DefaultFor
CommentRoutes_AnyAuthor ==  \* mutant
  /\ ciStart.mention /\ CommenterAllowed
  /\ (ciStart.token = "known" \/ (~TypedToken /\ HasDefault))
CommentRoutes ==
  /\ ciStart.mention /\ CommenterAllowed /\ ciStart.by # "bot"
  /\ (ciStart.token = "known" \/ (~TypedToken /\ HasDefault))
DispatchRoutes == ciStart.number /\ ciStart.names \in {"none", "capability"}
PullRequestRoutes == OnPullRequest /\ ci.config = "ok" /\ ciStart.pr = "opened" /\ ~ciStart.release
RoutesEvent ==
  CASE ciStart.event = "comment" -> CommentRoutes
    [] ciStart.event = "dispatch" -> DispatchRoutes
    [] ciStart.event = "pull_request" -> PullRequestRoutes
    [] OTHER -> FALSE

(* The words after the command, parsed against the profile's inputs: a flag*)
(* takes the next word, a number, a keyword and a value of the enum each   *)
(* fill an input that is still empty, and the rest is left over.  The      *)
(* event's number then replaces what the words gave for the target.        *)
FlagWords == {"flag", "unflag"}
FlagsValue(words, i) == i \in 2 .. Len(words) /\ words[i - 1] = "flag" /\ words[i] \notin FlagWords
FillsInput(said, input, i) ==
  IF said.args[input] = 0 THEN [said EXCEPT !.args[input] = i] ELSE [said EXCEPT !.left = Append(@, i)]
TakesWord_NoLeft(words, said, i) ==  \* mutant
  IF FlagsValue(words, i) THEN said
  ELSE CASE words[i] = "flag" /\ FlagsValue(words, i + 1) -> [said EXCEPT !.args.base = i + 1]
         [] words[i] = "number" -> FillsInput(said, "target", i)
         [] words[i] = "enum" -> FillsInput(said, "prefer", i)
         [] words[i] = "keyword" -> FillsInput(said, "force", i)
         [] words[i] = "word" -> [said EXCEPT !.left = Append(@, i)]
         [] OTHER -> said
TakesWord(words, said, i) ==
  IF FlagsValue(words, i) THEN said
  ELSE CASE words[i] = "flag" /\ FlagsValue(words, i + 1) -> [said EXCEPT !.args.base = i + 1]
         [] words[i] = "number" -> FillsInput(said, "target", i)
         [] words[i] = "enum" -> FillsInput(said, "prefer", i)
         [] words[i] = "keyword" -> FillsInput(said, "force", i)
         [] OTHER -> [said EXCEPT !.left = Append(@, i)]
ParsedWords(words) ==
  LET said[i \in 0 .. Len(words)] == IF i = 0 THEN NothingSaid ELSE TakesWord(words, said[i - 1], i)
  IN [said[Len(words)] EXCEPT !.args.target = 0]

(* What a run without a routed event does: a request, a forced action, a   *)
(* manual dispatch and a wake each have their own way; an event that none  *)
(* of them takes is classified.                                            *)
OneShotAsked ==
  \/ ciStart.request \in {"goal", "loop", "workflow"}
  \/ ciStart.request = "none" /\ ciStart.event = "none" /\ ciStart.names # "none"
  \/ ciStart.request = "none" /\ ciStart.event = "dispatch" /\ ciStart.names # "none" /\ (ciStart.number => ciStart.names = "workflow")
FanOutAsked ==
  \/ ciStart.request = "fanout"
  \/ ciStart.event = "schedule"
  \/ ciStart.event = "dispatch" /\ ~ciStart.number /\ ciStart.names = "none"
DispatchEvent ==
  /\ ci.at = "dispatch"
  /\ LET other == ciStart.request # "invalid" /\ ~ciStart.flag /\ ~RoutesEvent
         asked == other /\ ciStart.request # "unsupported"
         nothing == ciStart.event = "none" /\ ciStart.request = "none"
     IN ci' =
       CASE ciStart.request = "invalid" -> CiEnded(ci, 64)
         [] ciStart.request # "invalid" /\ (ciStart.flag \/ RoutesEvent) ->
              [ci EXCEPT !.at = "preflight", !.words = ParsedWords(ciStart.words)]
         [] other /\ ciStart.request = "unsupported" -> CiEnded(ci, 64)
         [] asked /\ OneShotAsked -> [ci EXCEPT !.at = "oneShot"]
         [] asked /\ ~OneShotAsked /\ FanOutAsked -> [ci EXCEPT !.at = "fanOut"]
         [] asked /\ ~OneShotAsked /\ ~FanOutAsked /\ nothing -> CiEnded(ci, 64)
         [] OTHER -> [ci EXCEPT !.at = "classify"]
  /\ UNCHANGED <<ciStart, shown>>

(* A one-shot run needs a capability, a workflow, a loop or a watch of the *)
(* name, and a configuration; its failures show in the exit code only.     *)
OneShotResolves == ciStart.request \in {"goal", "loop", "workflow"} \/ ciStart.names \in {"capability", "workflow", "loop", "watch"}
ExitByte(code) == IF code <= 255 THEN code ELSE 99
RunOneShot ==
  /\ ci.at = "oneShot"
  /\ \/ ci.config = "invalid" /\ ci' = CiEnded(ci, 99)
     \/ ci.config = "ok" /\ ~OneShotResolves /\ ci' = CiEnded(ci, 64)
     \/ ci.config = "ok" /\ OneShotResolves /\ CiFault("install") /\ ci' = Faulted(CiEnded(ci, 99))
     \/ /\ ci.config = "ok" /\ OneShotResolves
        /\ \E code \in JobExits : ci' = CiEnded([ci EXCEPT !.job = "oneShot"], ExitByte(code))
  /\ UNCHANGED <<ciStart, shown>>

(* What had no route: a command of a bot is refused and shown, a word that *)
(* is no command is answered, anything else ends quietly - unless there    *)
(* was no default because the configuration is broken.                     *)
IsComment == ciStart.event = "comment" /\ ciStart.mention
RejectedComment == IsComment /\ ciStart.by = "bot" /\ TypedToken
UnrecognizedComment == IsComment /\ ciStart.by # "bot" /\ CommenterAllowed /\ TypedToken
ClassifyEvent ==
  /\ ci.at = "classify"
  /\ IF RejectedComment THEN Shows({"rejected"}, "failed", CiEnded(ci, 64))
     ELSE IF UnrecognizedComment THEN Shows({"unrecognized"}, "none", CiEnded(ci, 0))
     ELSE /\ ci' = CiEnded(ci, IF IsComment /\ ciStart.by # "bot" /\ CommenterAllowed /\ ci.config = "invalid" THEN 64 ELSE 0)
          /\ UNCHANGED shown
  /\ UNCHANGED ciStart

(* The checkout is prepared and the job run; a preparation that fails, a   *)
(* crash, and an exit the job's own scripts do not explain are shown.      *)
FailureTail(process) == Shows({"failure"}, "failed", process)
PrepareJob ==
  /\ ci.at = "preflight"
  /\ \/ ci' = [ci EXCEPT !.at = "job"] /\ UNCHANGED shown
     \/ CiFault("install") /\ FailureTail(Faulted(CiEnded(ci, 99)))
  /\ UNCHANGED ciStart
ShowsItself_More(code) == code \in 0 .. 4  \* mutant
ShowsItself(code) == code \in 0 .. 3
RunCiJob ==
  /\ ci.at = "job"
  /\ \/ ci.config = "invalid" /\ FailureTail(CiEnded(ci, 99))
     \/ /\ ci.config = "ok"
        /\ \E code \in JobExits :
             LET process == CiEnded([ci EXCEPT !.job = "target"], code) IN
             IF ShowsItself(code) THEN ci' = process /\ UNCHANGED shown ELSE FailureTail(process)
     \/ ci.config = "ok" /\ CiFault("crash") /\ FailureTail(Faulted(CiEnded([ci EXCEPT !.job = "target"], 99)))
  /\ UNCHANGED ciStart

(* A wake runs every watch whose schedule names a minute of the window, a  *)
(* manual dispatch all of them, side by side; one that fails or crashes    *)
(* counts in the exit code and stops no other.                             *)
DueWatch(watch) == \E i \in 0 .. WindowMinutes - 1 : i <= WakeMinute /\ WakeMinute - i \in Watches[watch]
ForcedWatches == ciStart.event = "dispatch" \/ ciStart.request = "fanout"
MatchingWatches == {w \in DOMAIN Watches : ForcedWatches \/ DueWatch(w)}
FanOut ==
  /\ ci.at = "fanOut"
  /\ \/ MatchingWatches = {} /\ ci' = CiEnded(ci, 0)
     \/ MatchingWatches # {} /\ CiFault("install") /\ ci' = Faulted(CiEnded(ci, 99))
     \/ MatchingWatches # {} /\ ci.config = "invalid" /\ ci' = CiEnded(ci, 99)
     \/ MatchingWatches # {} /\ ci.config = "ok" /\ ci' = [ci EXCEPT !.at = "watches", !.job = "fanOut", !.left = MatchingWatches]
  /\ UNCHANGED <<ciStart, shown>>
RunWatch ==
  /\ ci.at = "watches"
  /\ \E w \in ci.left :
       \E code \in JobExits \cup {99} :
         LET process == [ci EXCEPT !.left = @ \ {w}, !.ran = @ \cup {w}, !.exit = IF code > @ THEN code ELSE @] IN
         ci' = IF process.left = {} THEN [process EXCEPT !.at = "ended"] ELSE process
  /\ UNCHANGED <<ciStart, shown>>

CiRunNext ==
  \/ LoadCiConfig \/ FinalizeMerged \/ DispatchEvent \/ RunOneShot \/ ClassifyEvent \/ PrepareJob \/ RunCiJob \/ FanOut \/ RunWatch
CiRunSpec == CiRunInit /\ [][CiRunNext]_ciVars

-----------------------------------------------------------------------------
CiRunTypeOK ==
  /\ ci.at \in {"config", "merged", "dispatch", "oneShot", "classify", "preflight", "job", "fanOut", "watches", "ended"}
  /\ ci.config \in {"ok", "invalid"} /\ ci.job \in {"none", "oneShot", "target", "fanOut"} /\ ci.exit \in Nat
  /\ ci.ran \cup ci.left \subseteq DOMAIN Watches
  /\ shown.comments \subseteq {"rejected", "unrecognized", "failure"} /\ shown.label \in {"none", "done", "failed"}

(* Whoever addresses the engine is served or told: a command of a person   *)
(* who may give one runs, or its failure is shown; a word that is no       *)
(* command is answered; a bot's command and an outsider's run nothing, the *)
(* bot's visibly; a run on a target that ends with anything its job does   *)
(* not report itself leaves the failed label (dispatch.ts:96, 234;         *)
(* kody-cli.ts:667).                                                       *)
AskedByPerson == IsComment /\ (ciStart.by = "person" \/ (ciStart.by = "outsider" /\ ~MembersOnly))
AddressedIsAnswered ==
  (ci.at = "ended" /\ ~shown.lost /\ ciStart.request = "none" /\ ~ciStart.flag) =>
    /\ (AskedByPerson /\ ciStart.token = "known") => (ci.job = "target" \/ "failure" \in shown.comments)
    /\ (AskedByPerson /\ ciStart.token = "unknown") => "unrecognized" \in shown.comments
    /\ (AskedByPerson /\ ~TypedToken) => (ci.job = "target" \/ "failure" \in shown.comments \/ ~HasDefault)
    /\ RejectedComment => (ci.job = "none" /\ shown.label = "failed")
    /\ (IsComment /\ ~AskedByPerson) => ci.job = "none"
    /\ (ci.job = "target" /\ ci.exit \notin 0 .. 3) => shown.label = "failed"

(* No word the operator wrote is dropped: what fills no input reaches the  *)
(* job as its reason or in the input that takes the rest.  The exceptions  *)
(* are a flag given again, whose last value counts, and a number, which the*)
(* event's own replaces in the target's input (dispatch.ts:356, 366).      *)
GivenAgain(words, i) ==
  /\ ci.words.args.base > i
  /\ (words[i] = "flag" \/ (i > 1 /\ words[i - 1] = "flag"))
WordsReachTheJob ==
  ci.job = "target" =>
    \A i \in DOMAIN ciStart.words :
      \/ ciStart.words[i] = "number"
      \/ \E k \in DOMAIN ci.words.left : ci.words.left[k] = i
      \/ \E input \in DOMAIN ci.words.args : ci.words.args[input] = i
      \/ GivenAgain(ciStart.words, i)

(* Both: who asks is answered, and what they wrote arrives.                *)
CommandsAreServed == AddressedIsAnswered /\ WordsReachTheJob
=============================================================================
