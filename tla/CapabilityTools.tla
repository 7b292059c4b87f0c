--------------------------- MODULE CapabilityTools ---------------------------
(***************************************************************************)
(* The tools a capability's agent has instead of a shell                   *)
(* (src/capabilityMcp.ts): tracking issues and comments that must exist    *)
(* once, recommendations to the operator, dispatched workflow runs and the *)
(* repository's Todo.  Each tool is a read of GitHub or of the backend     *)
(* followed by a write; between the two other agents and people go on, and *)
(* either call may fail, a write also after it took effect.  A recurring   *)
(* agent calls the same tools with the same keys on every tick.            *)
(***************************************************************************)
EXTENDS Naturals, Sequences, FiniteSets

CONSTANTS
  ToolAgents,      \* agents that use the tools
  TrackersOverlap, \* two agents may be in a tracking tool at the same time
  TrackKeys,       \* the keys of findings
  Recommendations, \* what is recommended: [by, intent ("none": no marker), text]
  ListLimit,       \* issues of one listing: 100 in the code
  Dispatchable,    \* name -> [needs: "issue", "pr" or "none", takes: BOOLEAN]
  TodoItems, Texts,  \* ids of the items of the one Todo, and what they may say
  TodoExists,      \* the Todo is there from the start
  TodoTries,       \* attempts of one reconciliation: 3 in the code
  ToolFaults,      \* subset of {"read", "refused", "lost"}
  MaxToolCalls, MaxToolFaults  \* bounds of the model

Legacy == "finding"  \* the item id that later reports replace
NoTodoItem == [done |-> FALSE, text |-> "none"]
TodoItem == {NoTodoItem} \cup [done : BOOLEAN, text : Texts]
NoItems == [i \in TodoItems |-> NoTodoItem]

ASSUME CapabilityToolsAssumption ==
  /\ TrackersOverlap \in BOOLEAN /\ TodoExists \in BOOLEAN /\ Legacy \in TodoItems
  /\ ListLimit \in Nat /\ TodoTries \in Nat \ {0} /\ MaxToolCalls \in Nat /\ MaxToolFaults \in Nat

VARIABLES
  tracked,   \* sequence of the issues, oldest first: [key, open, notes: keys of its comments]
  asks,      \* sequence of the recommendations on the pull request
  todoDoc,   \* the stored Todo: [exists, version, items]
  toolUse,   \* agent -> [at, want, saw, tries]: the tool it is in, what it read
  toolLog    \* [calls, faults, ran: the started runs]
toolVars == <<tracked, asks, todoDoc, toolUse, toolLog>>

NoTool == [at |-> "idle", want |-> [tool |-> "none"], saw |-> 0, tries |-> 0]
Tracking(use) == use.want.tool \in {"issue", "comment", "recommend"}

CapabilityToolsInit ==
  /\ tracked = << >> /\ asks = << >>
  /\ todoDoc = [exists |-> TodoExists, version |-> 0, items |-> NoItems]
  /\ toolUse = [a \in ToolAgents |-> NoTool]
  /\ toolLog = [calls |-> 0, faults |-> 0, ran |-> {}]

-----------------------------------------------------------------------------
MayFail(fault) == fault \in ToolFaults /\ toolLog.faults < MaxToolFaults
ToolFault == toolLog' = [toolLog EXCEPT !.faults = @ + 1]
Answers(a) == toolUse' = [toolUse EXCEPT ![a] = NoTool]

(* What an agent may ask for: the keys are stable, the status of an item   *)
(* and its text are not.                                                   *)
Wants ==
  [tool : {"issue"}, key : TrackKeys] \cup [tool : {"comment"}, key : TrackKeys]
  \cup [tool : {"recommend"}, ask : Recommendations] \cup [tool : {"start"}, name : DOMAIN Dispatchable, on : {"none", "issue", "pr"}]
  \cup [tool : {"todo"}, id : TodoItems, item : [done : BOOLEAN, text : Texts]]
CallTool(a) ==
  /\ toolUse[a].at = "idle" /\ toolLog.calls < MaxToolCalls
  /\ \E want \in Wants :
       LET use == [NoTool EXCEPT !.at = "read", !.want = want] IN
       /\ (Tracking(use) /\ ~TrackersOverlap) => \A b \in ToolAgents : ~Tracking(toolUse[b])
       /\ toolUse' = [toolUse EXCEPT ![a] = use]
  /\ toolLog' = [toolLog EXCEPT !.calls = @ + 1]
  /\ UNCHANGED <<tracked, asks, todoDoc>>

(* Any read may fail, which is the answer of every tool but the Todo's.    *)
ReadFails(a) ==
  /\ toolUse[a].at = "read" /\ toolUse[a].want.tool # "todo" /\ MayFail("read")
  /\ Answers(a) /\ ToolFault
  /\ UNCHANGED <<tracked, asks, todoDoc>>

(* A write refused, done, or done with its answer lost; either way the     *)
(* tool answers.                                                           *)
Writes(a, effect, rest) ==
  /\ toolUse[a].at = "write"
  /\ \/ effect /\ UNCHANGED toolLog
     \/ effect /\ MayFail("lost") /\ ToolFault
     \/ MayFail("refused") /\ ToolFault /\ UNCHANGED rest
  /\ Answers(a)

(* ensure_issue: the newest open issues are searched for the key's marker, *)
(* and the issue created when none has it.                                 *)
OpenIssues == {i \in DOMAIN tracked : tracked[i].open}
Listed_Page == {i \in OpenIssues : Cardinality({j \in OpenIssues : j > i}) < ListLimit - 1}  \* mutant
Listed == {i \in OpenIssues : Cardinality({j \in OpenIssues : j > i}) < ListLimit}
Marked(key) == {i \in Listed : tracked[i].key = key}
FindIssue(a) ==
  /\ toolUse[a].at = "read" /\ toolUse[a].want.tool = "issue"
  /\ IF Marked(toolUse[a].want.key) # {} THEN Answers(a) ELSE toolUse' = [toolUse EXCEPT ![a].at = "write"]
  /\ UNCHANGED <<tracked, asks, todoDoc, toolLog>>
OpenTracker(a) ==
  /\ toolUse[a].want.tool = "issue"
  /\ Writes(a, tracked' = Append(tracked, [key |-> toolUse[a].want.key, open |-> TRUE, notes |-> {}]), tracked)
  /\ UNCHANGED <<asks, todoDoc>>

(* ensure_comment, on the oldest open issue: a comment with the key's      *)
(* marker is looked for, and posted when there is none.  A second comment  *)
(* of a key is kept apart from the first.                                  *)
OldestTracker == CHOOSE i \in OpenIssues : \A j \in OpenIssues : i <= j
FindComment(a) ==
  /\ toolUse[a].at = "read" /\ toolUse[a].want.tool = "comment" /\ OpenIssues # {}
  /\ IF \E note \in tracked[OldestTracker].notes : note.key = toolUse[a].want.key THEN Answers(a)
     ELSE toolUse' = [toolUse EXCEPT ![a].at = "write", ![a].saw = OldestTracker]
  /\ UNCHANGED <<tracked, asks, todoDoc, toolLog>>
PostComment(a) ==
  /\ toolUse[a].want.tool = "comment"
  /\ Writes(a, tracked' = [tracked EXCEPT ![toolUse[a].saw].notes =
                             @ \cup {[key |-> toolUse[a].want.key, n |-> Cardinality(@)]}], tracked)
  /\ UNCHANGED <<asks, todoDoc>>

(* recommend_to_operator: another recommendation of the capability is the  *)
(* same one when both intents are, when the older one has no intent, or    *)
(* when it has the text of one without.                                    *)
Repeats(old, new) ==
  /\ old.by = new.by
  /\ CASE new.intent # "none" /\ old.intent # "none" -> new.intent = old.intent
       [] new.intent # "none" /\ old.intent = "none" -> TRUE
       [] new.intent = "none" -> old.text = new.text
FindRecommendation(a) ==
  /\ toolUse[a].at = "read" /\ toolUse[a].want.tool = "recommend"
  /\ IF \E i \in DOMAIN asks : Repeats(asks[i], toolUse[a].want.ask) THEN Answers(a)
     ELSE toolUse' = [toolUse EXCEPT ![a].at = "write"]
  /\ UNCHANGED <<tracked, asks, todoDoc, toolLog>>
PostRecommendation(a) ==
  /\ toolUse[a].want.tool = "recommend"
  /\ Writes(a, asks' = Append(asks, toolUse[a].want.ask), asks)
  /\ UNCHANGED <<tracked, todoDoc>>

(* start_capability and the repair tools: the number is forwarded only to  *)
(* a capability that takes one, and the target's kind looked up only for   *)
(* one that requires a kind.                                               *)
Forwarded(want) == IF Dispatchable[want.name].takes THEN want.on ELSE "none"
StartRun(a) ==
  /\ toolUse[a].at = "read" /\ toolUse[a].want.tool = "start"
  /\ LET want == toolUse[a].want
         needs == Dispatchable[want.name].needs
         started == [name |-> want.name, on |-> Forwarded(want)] IN
     IF needs # "none" /\ started.on \notin {"none", needs} THEN UNCHANGED toolLog
     ELSE \/ toolLog' = [toolLog EXCEPT !.ran = @ \cup {started}]
          \/ MayFail("refused") /\ ToolFault
  /\ Answers(a)
  /\ UNCHANGED <<tracked, asks, todoDoc>>

(* reconcile_todo: the document is read with its token; an item that is as *)
(* wanted ends the call, otherwise the document is written back with the   *)
(* item set and the report's fallback item removed.                        *)
DropsLegacy(items, id) == id # Legacy /\ items[Legacy] # NoTodoItem
Reconciled(items, want) ==
  [i \in TodoItems |-> IF i = want.id THEN want.item
                       ELSE IF i = Legacy /\ DropsLegacy(items, want.id) THEN NoTodoItem ELSE items[i]]
TryFails(a) ==
  LET use == toolUse[a] IN
  toolUse' = [toolUse EXCEPT ![a] = IF use.tries + 1 = TodoTries THEN NoTool
                                    ELSE [use EXCEPT !.at = "read", !.tries = @ + 1, !.saw = 0]]
ReadTodo(a) ==
  /\ toolUse[a].at = "read" /\ toolUse[a].want.tool = "todo"
  /\ LET want == toolUse[a].want IN
     \/ /\ IF todoDoc.items[want.id] = want.item /\ ~DropsLegacy(todoDoc.items, want.id) THEN Answers(a)
           ELSE toolUse' = [toolUse EXCEPT ![a].at = "save", ![a].saw = todoDoc]
        /\ UNCHANGED toolLog
     \/ MayFail("read") /\ TryFails(a) /\ ToolFault
  /\ UNCHANGED <<tracked, asks, todoDoc>>

(* saveRepoDoc sends the token of the document that was read, and no token *)
(* when there was none; the backend refuses a token that is not current.   *)
TokenHolds_Never(seen) == TRUE  \* mutant
TokenHolds(seen) == seen.exists => todoDoc.version = seen.version
SaveTodo(a) ==
  /\ toolUse[a].at = "save"
  /\ LET use == toolUse[a] IN
     IF TokenHolds(use.saw)
     THEN \/ /\ todoDoc' = [exists |-> TRUE, version |-> todoDoc.version + 1, items |-> Reconciled(use.saw.items, use.want)]
             /\ \/ toolUse' = [toolUse EXCEPT ![a].at = "verify"] /\ UNCHANGED toolLog
                \/ MayFail("lost") /\ TryFails(a) /\ ToolFault
          \/ MayFail("refused") /\ TryFails(a) /\ ToolFault /\ UNCHANGED todoDoc
     ELSE TryFails(a) /\ UNCHANGED <<todoDoc, toolLog>>
  /\ UNCHANGED <<tracked, asks>>
VerifyTodo(a) ==
  /\ toolUse[a].at = "verify"
  /\ IF todoDoc.items[toolUse[a].want.id] = toolUse[a].want.item THEN Answers(a) ELSE TryFails(a)
  /\ UNCHANGED <<tracked, asks, todoDoc, toolLog>>

(* People close issues; the next tick opens another one.                   *)
CloseIssue ==
  /\ \E i \in OpenIssues : tracked' = [tracked EXCEPT ![i].open = FALSE]
  /\ toolLog.calls < MaxToolCalls
  /\ UNCHANGED <<asks, todoDoc, toolUse, toolLog>>

CapabilityToolsNext ==
  \/ \E a \in ToolAgents :
       \/ CallTool(a) \/ ReadFails(a) \/ FindIssue(a) \/ OpenTracker(a) \/ FindComment(a) \/ PostComment(a)
       \/ FindRecommendation(a) \/ PostRecommendation(a) \/ StartRun(a)
       \/ ReadTodo(a) \/ SaveTodo(a) \/ VerifyTodo(a)
  \/ CloseIssue
CapabilityToolsSpec == CapabilityToolsInit /\ [][CapabilityToolsNext]_toolVars

-----------------------------------------------------------------------------
CapabilityToolsTypeOK ==
  /\ \A i \in DOMAIN tracked : tracked[i].key \in TrackKeys /\ tracked[i].open \in BOOLEAN
  /\ asks \in Seq(Recommendations)
  /\ todoDoc.items \in [TodoItems -> TodoItem] /\ todoDoc.version \in Nat /\ todoDoc.exists \in BOOLEAN
  /\ \A a \in ToolAgents : toolUse[a].at \in {"idle", "read", "write", "save", "verify"}

(* However often ticks repeat, fail or lose an answer: one open issue and  *)
(* one comment per key, and no two recommendations of a capability with    *)
(* the same intent (capabilityMcp.ts:432, 451, 246).                       *)
TrackedOnce ==
  /\ \A i, j \in OpenIssues : tracked[i].key = tracked[j].key => i = j
  /\ \A i \in DOMAIN tracked : \A m, n \in tracked[i].notes : m.key = n.key => m = n
  /\ \A i, j \in DOMAIN asks : i # j => ~(asks[i].by = asks[j].by /\ asks[i].intent = asks[j].intent
                                          /\ asks[i].text = asks[j].text)

(* Agents that reconcile items of one Todo at the same time keep each      *)
(* other's: a write changes the item of its own call only, and the report's*)
(* fallback item (capabilityMcp.ts:956).                                   *)
OthersItemsStay ==
  [][\A i \in TodoItems : todoDoc'.items[i] # todoDoc.items[i] =>
        \/ i = Legacy
        \/ \E a \in ToolAgents : toolUse[a].at = "save" /\ toolUse[a].want.id = i]_toolVars
=============================================================================
