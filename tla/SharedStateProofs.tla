-------------------------- MODULE SharedStateProofs --------------------------
(***************************************************************************)
(* What agents and ticks share is written by read, decide, write: the      *)
(* trackers, recommendations and the Todo of CapabilityTools, the states   *)
(* of TickStates.  What is written once and not lost, for any number of    *)
(* agents, ticks, calls and faults.  And what the sessions of one host     *)
(* share: the proxies of ModelProxy, the codex app-server of CodexTurns.   *)
(* And the goals that QA runs put into one manifest, of QaGoals.           *)
(***************************************************************************)
EXTENDS CapabilityTools, MCHost, FiniteSetTheorems, WellFoundedInduction, TLAPS

(* The issues, comments and recommendations.                               *)

TrackNotes == {N \in SUBSET [key : TrackKeys, n : Nat] : IsFiniteSet(N)}
Tracker == [key : TrackKeys, open : BOOLEAN, notes : TrackNotes]
TodoDocs == [exists : BOOLEAN, version : Nat, items : [TodoItems -> TodoItem]]
ToolUse ==
  [at : {"idle", "read", "write", "save", "verify"}, want : Wants \cup {[tool |-> "none"]},
   saw : Nat \cup TodoDocs, tries : Nat]
ToolUses == {u \in ToolUse : u.at = "save" => u.want.tool = "todo" /\ u.saw \in TodoDocs}

ToolsTyped ==
  /\ tracked \in Seq(Tracker) /\ asks \in Seq(Recommendations) /\ todoDoc \in TodoDocs
  /\ toolUse \in [ToolAgents -> ToolUses]

\* One agent at a time is in a tracking tool.
OneTracks == \A a, b \in ToolAgents : Tracking(toolUse[a]) /\ Tracking(toolUse[b]) => a = b

\* What an agent is about to write is not there.
Missing(a) ==
  LET use == toolUse[a] IN
  use.at = "write" =>
    /\ Tracking(use)
    /\ use.want.tool = "issue" => \A i \in OpenIssues : tracked[i].key # use.want.key
    /\ use.want.tool = "comment" =>
         use.saw \in DOMAIN tracked /\ \A note \in tracked[use.saw].notes : note.key # use.want.key
    /\ use.want.tool = "recommend" => \A i \in DOMAIN asks : ~Repeats(asks[i], use.want.ask)

TrackInv == ToolsTyped /\ OneTracks /\ TrackedOnce /\ \A a \in ToolAgents : Missing(a)

\* The page of ensure_issue shows every open issue there can be.
PageIsEnough == IsFiniteSet(TrackKeys) /\ Cardinality(TrackKeys) <= ListLimit

\* A set of numbers that is not empty has a least one.
LEMMA LeastNumber ==
  ASSUME NEW T \in SUBSET Nat, T # {}
  PROVE  \E x \in T : \A y \in T : x <= y
<1> DEFINE Less == OpToRel(<, Nat)
<1>1. IsWellFoundedOn(Less, Nat)
  BY NatLessThanWellFounded
<1>2. \A x, y \in Nat : <<y, x>> \in Less <=> y < x
  BY DEF OpToRel
<1> HIDE DEF Less
<1>3. PICK x \in T : \A y \in T : <<y, x>> \notin Less
  BY <1>1, WFMin
<1>4. \A y \in T : ~(y < x)
  BY <1>2, <1>3
<1> QED
  BY <1>3, <1>4

\* What each want asks for.
LEMMA WantTypes ==
  ASSUME NEW w \in Wants \cup {[tool |-> "none"]}
  PROVE  /\ w.tool \in {"issue", "comment"} => w.key \in TrackKeys
         /\ w.tool = "recommend" => w.ask \in Recommendations
         /\ w.tool = "todo" => w.id \in TodoItems /\ w.item \in TodoItem
  BY DEF Wants, TodoItem

\* While one open issue has each key, one page lists them all.
LEMMA AllAreListed ==
  ASSUME ToolsTyped, TrackedOnce, PageIsEnough
  PROVE  Listed = OpenIssues
<1> SUFFICES ASSUME NEW i \in OpenIssues
             PROVE  Cardinality({j \in OpenIssues : j > i}) < ListLimit
  BY DEF Listed
<1> DEFINE S == {j \in OpenIssues : j > i}
           T == TrackKeys \ {tracked[i].key}
           f == [j \in S |-> tracked[j].key]
<1>1. OpenIssues \subseteq DOMAIN tracked /\ \A j \in OpenIssues : tracked[j].key \in TrackKeys /\ j \in Nat
  <2>1. DOMAIN tracked = 1 .. Len(tracked) /\ Len(tracked) \in Nat
    BY DEF ToolsTyped
  <2>2. \A j \in DOMAIN tracked : tracked[j] \in Tracker
    BY <2>1 DEF ToolsTyped
  <2>3. \A j \in DOMAIN tracked : j \in Nat
    BY <2>1
  <2> QED
    BY <2>2, <2>3 DEF OpenIssues, Tracker
<1>2. \A j, k \in OpenIssues : tracked[j].key = tracked[k].key => j = k
  BY DEF TrackedOnce
<1>3. IsFiniteSet(T) /\ Cardinality(T) = Cardinality(TrackKeys) - 1
  BY <1>1, FS_RemoveElement DEF PageIsEnough
<1>4. \A j \in S : j # i
  BY <1>1
<1>5. f \in Injection(S, T)
  BY <1>1, <1>2, <1>4 DEF Injection, IsInjective
<1>6. Cardinality(S) <= Cardinality(T)
  BY <1>3, <1>5, FS_Injection
<1>7. IsFiniteSet(S) /\ Cardinality(S) \in Nat /\ Cardinality(TrackKeys) \in Nat
  BY <1>3, <1>5, FS_Injection, FS_CardinalityType DEF PageIsEnough
<1>8. ListLimit \in Nat
  BY CapabilityToolsAssumption
<1> QED
  BY <1>3, <1>6, <1>7, <1>8 DEF PageIsEnough

\* An agent moves, and nothing is written that is looked for.
LEMMA MoveKeeps ==
  ASSUME TrackInv, NEW a \in ToolAgents, NEW u \in ToolUses,
         toolUse' = [toolUse EXCEPT ![a] = u], UNCHANGED <<tracked, asks>>, todoDoc' \in TodoDocs,
         Tracking(u) => Tracking(toolUse[a]) \/ \A b \in ToolAgents : ~Tracking(toolUse[b]),
         Missing(a)'
  PROVE  TrackInv'
<1>1. ToolsTyped'
  BY DEF TrackInv, ToolsTyped
<1>2. toolUse'[a] = u /\ \A b \in ToolAgents \ {a} : toolUse'[b] = toolUse[b]
  BY DEF TrackInv, ToolsTyped
<1>3. OneTracks'
  BY <1>2 DEF TrackInv, OneTracks, Tracking
<1>4. TrackedOnce'
  BY DEF TrackInv, TrackedOnce, OpenIssues
<1>5. \A b \in ToolAgents \ {a} : Missing(b)'
  BY <1>2 DEF TrackInv, Missing, OpenIssues, Tracking
<1> QED
  BY <1>1, <1>3, <1>4, <1>5 DEF TrackInv

\* An agent that is given an answer is in no tool.
LEMMA IdleUse ==
  NoTool \in ToolUses /\ ~Tracking(NoTool) /\ NoTool.at = "idle"
BY DEF NoTool, ToolUses, ToolUse, Tracking

\* An agent that is answered looks for nothing any more.
LEMMA AnswerKeeps ==
  ASSUME TrackInv, NEW a \in ToolAgents, Answers(a), UNCHANGED <<tracked, asks>>, todoDoc' \in TodoDocs
  PROVE  TrackInv'
<1>1. toolUse' = [toolUse EXCEPT ![a] = NoTool] /\ toolUse'[a] = NoTool
  BY DEF Answers, TrackInv, ToolsTyped
<1>2. Missing(a)'
  BY <1>1, IdleUse DEF Missing
<1> QED
  BY <1>1, <1>2, IdleUse, MoveKeeps

\* An agent that will not write a tracked thing next.
LEMMA TodoMoveKeeps ==
  ASSUME TrackInv, NEW a \in ToolAgents, NEW u \in ToolUses, toolUse' = [toolUse EXCEPT ![a] = u],
         UNCHANGED <<tracked, asks>>, todoDoc' \in TodoDocs,
         u.at # "write", Tracking(u) => Tracking(toolUse[a])
  PROVE  TrackInv'
<1>1. toolUse'[a] = u
  BY DEF TrackInv, ToolsTyped
<1>2. Missing(a)'
  BY <1>1 DEF Missing
<1> QED
  BY <1>2, MoveKeeps

\* Who writes is the only one that writes.
LEMMA OneWrites ==
  ASSUME TrackInv, NEW a \in ToolAgents, toolUse[a].at = "write", NEW b \in ToolAgents, b # a
  PROVE  toolUse[b].at # "write"
BY DEF TrackInv, Missing, OneTracks

\* A write that took effect, after which nobody is writing.
LEMMA WriteKeeps ==
  ASSUME TrackInv, NEW a \in ToolAgents, toolUse[a].at = "write", Answers(a), UNCHANGED todoDoc,
         tracked' \in Seq(Tracker), asks' \in Seq(Recommendations), TrackedOnce'
  PROVE  TrackInv'
<1>1. toolUse' = [toolUse EXCEPT ![a] = NoTool] /\ toolUse'[a] = NoTool
      /\ \A b \in ToolAgents \ {a} : toolUse'[b] = toolUse[b]
  BY DEF Answers, TrackInv, ToolsTyped
<1>2. ToolsTyped'
  BY <1>1, IdleUse DEF TrackInv, ToolsTyped
<1>3. \A b \in ToolAgents : toolUse'[b].at # "write"
  BY <1>1, IdleUse, OneWrites
<1>4. OneTracks'
  BY <1>1, IdleUse DEF TrackInv, OneTracks, Tracking
<1> QED
  BY <1>2, <1>3, <1>4 DEF TrackInv, Missing

\* ensure_issue creates an issue of a key that no open issue has.
LEMMA OpenTrackerKeeps ==
  ASSUME TrackInv, NEW a \in ToolAgents, OpenTracker(a)
  PROVE  TrackInv'
<1> DEFINE new == [key |-> toolUse[a].want.key, open |-> TRUE, notes |-> {}]
<1>1. /\ toolUse[a].want.tool = "issue" /\ toolUse[a].at = "write" /\ Answers(a) /\ UNCHANGED <<asks, todoDoc>>
      /\ tracked' = Append(tracked, new) \/ tracked' = tracked
  BY DEF OpenTracker, Writes
<1>2. todoDoc' \in TodoDocs
  BY <1>1 DEF TrackInv, ToolsTyped
<1>3. CASE tracked' = tracked
  BY <1>1, <1>2, <1>3, AnswerKeeps
<1>4. CASE tracked' = Append(tracked, new)
  <2>1. toolUse[a].want.key \in TrackKeys
    BY <1>1, WantTypes DEF TrackInv, ToolsTyped, ToolUses, ToolUse
  <2>2. {} \in TrackNotes
    BY FS_EmptySet DEF TrackNotes
  <2>3. new \in Tracker
    BY <2>1, <2>2 DEF Tracker
  <2>4. tracked \in Seq(Tracker)
    BY DEF TrackInv, ToolsTyped
  <2>5. /\ tracked' \in Seq(Tracker) /\ DOMAIN tracked = 1 .. Len(tracked)
        /\ DOMAIN tracked' = DOMAIN tracked \cup {Len(tracked) + 1}
        /\ tracked'[Len(tracked) + 1] = new
        /\ \A i \in DOMAIN tracked : tracked'[i] = tracked[i]
    BY <1>4, <2>3, <2>4
  <2>6. OpenIssues' = OpenIssues \cup {Len(tracked) + 1}
    BY <2>5 DEF OpenIssues
  <2>7. \A i \in OpenIssues : tracked[i].key # new.key /\ i \in DOMAIN tracked
    BY <1>1 DEF TrackInv, Missing, OpenIssues
  <2>8. TrackedOnce'
    BY <1>1, <2>5, <2>6, <2>7 DEF TrackInv, TrackedOnce
  <2>9. asks' \in Seq(Recommendations)
    BY <1>1 DEF TrackInv, ToolsTyped
  <2> QED
    BY <1>1, <2>5, <2>8, <2>9, WriteKeeps
<1> QED
  BY <1>1, <1>3, <1>4

\* ensure_comment posts a comment of a key that the issue has no comment of.
LEMMA PostCommentKeeps ==
  ASSUME TrackInv, NEW a \in ToolAgents, PostComment(a)
  PROVE  TrackInv'
<1> DEFINE at == toolUse[a].saw
           notes == tracked[at].notes
           new == [key |-> toolUse[a].want.key, n |-> Cardinality(notes)]
<1>1. /\ toolUse[a].want.tool = "comment" /\ toolUse[a].at = "write" /\ Answers(a) /\ UNCHANGED <<asks, todoDoc>>
      /\ tracked' = [tracked EXCEPT ![at].notes = notes \cup {new}] \/ tracked' = tracked
  BY DEF PostComment, Writes
<1>2. todoDoc' \in TodoDocs
  BY <1>1 DEF TrackInv, ToolsTyped
<1>3. CASE tracked' = tracked
  BY <1>1, <1>2, <1>3, AnswerKeeps
<1>4. CASE tracked' = [tracked EXCEPT ![at].notes = notes \cup {new}]
  <2>1. toolUse[a].want.key \in TrackKeys
    BY <1>1, WantTypes DEF TrackInv, ToolsTyped, ToolUses, ToolUse
  <2>2. tracked \in Seq(Tracker)
    BY DEF TrackInv, ToolsTyped
  <2>3. at \in DOMAIN tracked /\ \A note \in notes : note.key # toolUse[a].want.key
    BY <1>1 DEF TrackInv, Missing
  <2>4. tracked[at] \in Tracker /\ notes \in TrackNotes
    <3>1. tracked[at] \in Tracker
      BY <2>2, <2>3
    <3> QED
      BY <3>1 DEF Tracker
  <2>5. notes \cup {new} \in TrackNotes
    <3>1. notes \subseteq [key : TrackKeys, n : Nat] /\ IsFiniteSet(notes)
      BY <2>4 DEF TrackNotes
    <3>2. new \in [key : TrackKeys, n : Nat]
      BY <2>1, <3>1, FS_CardinalityType
    <3>3. IsFiniteSet(notes \cup {new})
      BY <3>1, FS_AddElement
    <3> QED
      BY <3>1, <3>2, <3>3 DEF TrackNotes
  <2> HIDE DEF new
  <2>6. /\ tracked' \in Seq(Tracker) /\ DOMAIN tracked' = DOMAIN tracked
        /\ tracked'[at].notes = notes \cup {new}
        /\ \A i \in DOMAIN tracked : /\ tracked'[i].key = tracked[i].key /\ tracked'[i].open = tracked[i].open
                                     /\ i # at => tracked'[i].notes = tracked[i].notes
    <3>1. [tracked[at] EXCEPT !.notes = notes \cup {new}] \in Tracker
      BY <2>4, <2>5 DEF Tracker
    <3>2. tracked' = [tracked EXCEPT ![at] = [tracked[at] EXCEPT !.notes = notes \cup {new}]]
      BY <1>4
    <3>3. \A i \in DOMAIN tracked : tracked[i] \in Tracker
      BY <2>2
    <3> QED
      BY <2>2, <2>3, <2>5, <3>1, <3>2, <3>3 DEF Tracker
  <2>7. OpenIssues' = OpenIssues
    BY <2>6 DEF OpenIssues
  <2>8. new.key = toolUse[a].want.key
    BY DEF new
  <2>9. TrackedOnce'
    <3>1. \A i, j \in OpenIssues : tracked[i].key = tracked[j].key => i = j
      BY DEF TrackInv, TrackedOnce
    <3>2. \A i \in DOMAIN tracked : \A m, n \in tracked[i].notes : m.key = n.key => m = n
      BY DEF TrackInv, TrackedOnce
    <3>3. \A m, n \in tracked'[at].notes : m.key = n.key => m = n
      BY <2>3, <2>6, <2>8, <3>2
    <3>4. \A i, j \in OpenIssues' : tracked'[i].key = tracked'[j].key => i = j
      BY <2>6, <2>7, <3>1 DEF OpenIssues
    <3>5. asks' = asks
      BY <1>1
    <3> QED
      BY <2>6, <3>2, <3>3, <3>4, <3>5 DEF TrackInv, TrackedOnce
  <2>10. asks' \in Seq(Recommendations)
    BY <1>1 DEF TrackInv, ToolsTyped
  <2> QED
    BY <1>1, <2>6, <2>9, <2>10, WriteKeeps
<1> QED
  BY <1>1, <1>3, <1>4

\* recommend_to_operator posts what repeats nothing.
LEMMA PostRecommendationKeeps ==
  ASSUME TrackInv, NEW a \in ToolAgents, PostRecommendation(a)
  PROVE  TrackInv'
<1> DEFINE new == toolUse[a].want.ask
<1>1. /\ toolUse[a].want.tool = "recommend" /\ toolUse[a].at = "write" /\ Answers(a) /\ UNCHANGED <<tracked, todoDoc>>
      /\ asks' = Append(asks, new) \/ asks' = asks
  BY DEF PostRecommendation, Writes
<1>2. todoDoc' \in TodoDocs
  BY <1>1 DEF TrackInv, ToolsTyped
<1>3. CASE asks' = asks
  BY <1>1, <1>2, <1>3, AnswerKeeps
<1>4. CASE asks' = Append(asks, new)
  <2>1. new \in Recommendations
    BY <1>1, WantTypes DEF TrackInv, ToolsTyped, ToolUses, ToolUse
  <2>2. asks \in Seq(Recommendations)
    BY DEF TrackInv, ToolsTyped
  <2> HIDE DEF new
  <2>3. /\ asks' \in Seq(Recommendations) /\ DOMAIN asks' = DOMAIN asks \cup {Len(asks) + 1}
        /\ asks'[Len(asks) + 1] = new /\ \A i \in DOMAIN asks : asks'[i] = asks[i]
    BY <1>4, <2>1, <2>2
  <2>4. \A i \in DOMAIN asks : ~Repeats(asks[i], new)
    BY <1>1 DEF TrackInv, Missing, new
  <2>5. \A i \in DOMAIN asks : ~(asks[i].by = new.by /\ asks[i].intent = new.intent /\ asks[i].text = new.text)
    BY <2>4 DEF Repeats
  <2>6. TrackedOnce'
    BY <1>1, <2>3, <2>5 DEF TrackInv, TrackedOnce, OpenIssues
  <2>7. tracked' \in Seq(Tracker)
    BY <1>1 DEF TrackInv, ToolsTyped
  <2> QED
    BY <1>1, <2>3, <2>6, <2>7, WriteKeeps
<1> QED
  BY <1>1, <1>3, <1>4

\* What an agent saw is looked for again by nobody else before it writes.
LEMMA FindIssueKeeps ==
  ASSUME TrackInv, PageIsEnough, NEW a \in ToolAgents, FindIssue(a)
  PROVE  TrackInv'
<1> DEFINE u == [toolUse[a] EXCEPT !.at = "write"]
<1>1. /\ toolUse[a].want.tool = "issue" /\ UNCHANGED <<tracked, asks, todoDoc>> /\ todoDoc' \in TodoDocs
      /\ \/ Answers(a)
         \/ Marked(toolUse[a].want.key) = {} /\ toolUse' = [toolUse EXCEPT ![a] = u]
  BY DEF FindIssue, TrackInv, ToolsTyped
<1>2. CASE Answers(a)
  BY <1>1, <1>2, AnswerKeeps
<1>3. CASE Marked(toolUse[a].want.key) = {} /\ toolUse' = [toolUse EXCEPT ![a] = u]
  <2>1. u \in ToolUses /\ u.at = "write" /\ u.want = toolUse[a].want
    BY DEF TrackInv, ToolsTyped, ToolUses, ToolUse
  <2>2. \A i \in OpenIssues : tracked[i].key # u.want.key
    BY <1>3, <2>1, AllAreListed DEF Marked, TrackInv
  <2>3. toolUse'[a] = u /\ Tracking(u) /\ Tracking(toolUse[a])
    BY <1>1, <1>3, <2>1 DEF Tracking, TrackInv, ToolsTyped
  <2>4. Missing(a)'
    BY <1>1, <2>1, <2>2, <2>3 DEF Missing, OpenIssues
  <2> QED
    BY <1>1, <1>3, <2>1, <2>3, <2>4, MoveKeeps
<1> QED
  BY <1>1, <1>2, <1>3

\* ensure_comment looks at the oldest open issue.
LEMMA FindCommentKeeps ==
  ASSUME TrackInv, NEW a \in ToolAgents, FindComment(a)
  PROVE  TrackInv'
<1> DEFINE u == [toolUse[a] EXCEPT !.at = "write", !.saw = OldestTracker]
<1>1. /\ toolUse[a].want.tool = "comment" /\ UNCHANGED <<tracked, asks, todoDoc>> /\ todoDoc' \in TodoDocs
      /\ OpenIssues # {}
      /\ \/ Answers(a)
         \/ /\ \A note \in tracked[OldestTracker].notes : note.key # toolUse[a].want.key
            /\ toolUse' = [toolUse EXCEPT ![a] = u]
  BY DEF FindComment, TrackInv, ToolsTyped, ToolUses, ToolUse
<1>2. CASE Answers(a)
  BY <1>1, <1>2, AnswerKeeps
<1>3. CASE /\ \A note \in tracked[OldestTracker].notes : note.key # toolUse[a].want.key
           /\ toolUse' = [toolUse EXCEPT ![a] = u]
  <2>1. OldestTracker \in DOMAIN tracked /\ OldestTracker \in Nat
    <3>1. tracked \in Seq(Tracker)
      BY DEF TrackInv, ToolsTyped
    <3>2. \A i \in DOMAIN tracked : i \in Nat
      BY <3>1
    <3>3. OpenIssues \in SUBSET Nat
      BY <3>2 DEF OpenIssues
    <3>4. \E i \in OpenIssues : \A j \in OpenIssues : i <= j
      BY <1>1, <3>3, LeastNumber
    <3>5. OldestTracker \in OpenIssues
      BY <3>4 DEF OldestTracker
    <3> QED
      BY <3>2, <3>5 DEF OpenIssues
  <2>2. u \in ToolUses /\ u.at = "write" /\ u.want = toolUse[a].want /\ u.saw = OldestTracker
    BY <2>1 DEF TrackInv, ToolsTyped, ToolUses, ToolUse
  <2>3. toolUse'[a] = u /\ Tracking(u) /\ Tracking(toolUse[a])
    BY <1>1, <1>3, <2>2 DEF Tracking, TrackInv, ToolsTyped
  <2> HIDE DEF u
  <2>4. Missing(a)'
    BY <1>1, <1>3, <2>1, <2>2, <2>3 DEF Missing
  <2> QED
    BY <1>1, <1>3, <2>2, <2>3, <2>4, MoveKeeps
<1> QED
  BY <1>1, <1>2, <1>3

\* recommend_to_operator looks at every recommendation.
LEMMA FindRecommendationKeeps ==
  ASSUME TrackInv, NEW a \in ToolAgents, FindRecommendation(a)
  PROVE  TrackInv'
<1> DEFINE u == [toolUse[a] EXCEPT !.at = "write"]
<1>1. /\ toolUse[a].want.tool = "recommend" /\ UNCHANGED <<tracked, asks, todoDoc>> /\ todoDoc' \in TodoDocs
      /\ \/ Answers(a)
         \/ /\ \A i \in DOMAIN asks : ~Repeats(asks[i], toolUse[a].want.ask)
            /\ toolUse' = [toolUse EXCEPT ![a] = u]
  BY DEF FindRecommendation, TrackInv, ToolsTyped
<1>2. CASE Answers(a)
  BY <1>1, <1>2, AnswerKeeps
<1>3. CASE /\ \A i \in DOMAIN asks : ~Repeats(asks[i], toolUse[a].want.ask)
           /\ toolUse' = [toolUse EXCEPT ![a] = u]
  <2>1. u \in ToolUses /\ u.at = "write" /\ u.want = toolUse[a].want
    BY DEF TrackInv, ToolsTyped, ToolUses, ToolUse
  <2>2. toolUse'[a] = u /\ Tracking(u) /\ Tracking(toolUse[a])
    BY <1>1, <1>3, <2>1 DEF Tracking, TrackInv, ToolsTyped
  <2> HIDE DEF u
  <2>3. \A o, n : Repeats(o, n)' <=> Repeats(o, n)
    BY DEF Repeats
  <2>4. Missing(a)'
    BY <1>1, <1>3, <2>1, <2>2, <2>3 DEF Missing
  <2> QED
    BY <1>1, <1>3, <2>1, <2>2, <2>4, MoveKeeps
<1> QED
  BY <1>1, <1>2, <1>3

\* An agent calls a tool: a tracking one when no other agent is in one.
LEMMA CallToolKeeps ==
  ASSUME TrackInv, ~TrackersOverlap, NEW a \in ToolAgents, CallTool(a)
  PROVE  TrackInv'
<1>1. PICK want \in Wants :
        LET use == [NoTool EXCEPT !.at = "read", !.want = want] IN
        /\ Tracking(use) => \A b \in ToolAgents : ~Tracking(toolUse[b])
        /\ toolUse' = [toolUse EXCEPT ![a] = use]
  BY DEF CallTool
<1> DEFINE u == [NoTool EXCEPT !.at = "read", !.want = want]
<1>2. u \in ToolUses /\ u.at = "read"
  BY DEF NoTool, ToolUses, ToolUse
<1>3. toolUse' = [toolUse EXCEPT ![a] = u] /\ (Tracking(u) => \A b \in ToolAgents : ~Tracking(toolUse[b]))
  BY <1>1
<1> HIDE DEF u
<1>4. UNCHANGED <<tracked, asks>> /\ todoDoc' \in TodoDocs
  BY DEF CallTool, TrackInv, ToolsTyped
<1>5. Missing(a)'
  BY <1>2, <1>3 DEF Missing, TrackInv, ToolsTyped
<1> QED
  BY <1>2, <1>3, <1>4, <1>5, MoveKeeps

\* Somebody closes an issue.
LEMMA CloseIssueKeeps ==
  ASSUME TrackInv, CloseIssue
  PROVE  TrackInv'
<1>1. PICK i \in OpenIssues : tracked' = [tracked EXCEPT ![i].open = FALSE]
  BY DEF CloseIssue
<1>2. UNCHANGED <<asks, todoDoc, toolUse>>
  BY DEF CloseIssue
<1>3. tracked \in Seq(Tracker) /\ i \in DOMAIN tracked /\ \A j \in DOMAIN tracked : tracked[j] \in Tracker
  <2>1. tracked \in Seq(Tracker)
    BY DEF TrackInv, ToolsTyped
  <2> QED
    BY <2>1 DEF OpenIssues
<1>4. /\ tracked' \in Seq(Tracker) /\ DOMAIN tracked' = DOMAIN tracked
      /\ \A j \in DOMAIN tracked : /\ tracked'[j].key = tracked[j].key /\ tracked'[j].notes = tracked[j].notes
                                   /\ tracked'[j].open => tracked[j].open
  <2>1. tracked' = [tracked EXCEPT ![i] = [tracked[i] EXCEPT !.open = FALSE]]
    BY <1>1
  <2>2. [tracked[i] EXCEPT !.open = FALSE] \in Tracker
    BY <1>3 DEF Tracker
  <2>3. \A j \in DOMAIN tracked : tracked'[j] = IF j = i THEN [tracked[i] EXCEPT !.open = FALSE] ELSE tracked[j]
    BY <1>3, <2>1
  <2>4. /\ [tracked[i] EXCEPT !.open = FALSE].key = tracked[i].key
        /\ [tracked[i] EXCEPT !.open = FALSE].notes = tracked[i].notes
        /\ [tracked[i] EXCEPT !.open = FALSE].open = FALSE
    BY <1>3 DEF Tracker
  <2>5. tracked' \in Seq(Tracker) /\ DOMAIN tracked' = DOMAIN tracked
    BY <1>3, <2>1, <2>2
  <2> QED
    BY <2>3, <2>4, <2>5
<1>5. OpenIssues' \subseteq OpenIssues
  BY <1>4 DEF OpenIssues
<1>6. TrackedOnce'
  BY <1>2, <1>4, <1>5 DEF TrackInv, TrackedOnce, OpenIssues
<1>7. \A a \in ToolAgents : Missing(a)'
  <2> SUFFICES ASSUME NEW a \in ToolAgents PROVE Missing(a)'
    OBVIOUS
  <2>1. Missing(a) /\ toolUse'[a] = toolUse[a] /\ asks' = asks
    BY <1>2 DEF TrackInv
  <2>2. \A o, n : Repeats(o, n)' <=> Repeats(o, n)
    BY DEF Repeats
  <2>3. \A j \in OpenIssues' : j \in OpenIssues /\ tracked'[j].key = tracked[j].key
    BY <1>4, <1>5 DEF OpenIssues
  <2> QED
    BY <1>4, <2>1, <2>2, <2>3 DEF Missing, Tracking
<1> QED
  BY <1>2, <1>4, <1>6, <1>7 DEF TrackInv, ToolsTyped, OneTracks

\* The moves of reconcile_todo.
LEMMA TryFailsMove ==
  ASSUME ToolsTyped, NEW a \in ToolAgents, TryFails(a)
  PROVE  \E u \in ToolUses : /\ toolUse' = [toolUse EXCEPT ![a] = u] /\ u.at \in {"idle", "read"}
                             /\ Tracking(u) => Tracking(toolUse[a])
<1> DEFINE again == [toolUse[a] EXCEPT !.at = "read", !.tries = @ + 1, !.saw = 0]
<1>1. toolUse[a] \in ToolUses
  BY DEF ToolsTyped
<1>2. again \in ToolUses /\ again.at = "read" /\ again.want = toolUse[a].want
  <2>1. toolUse[a].tries + 1 \in Nat /\ 0 \in Nat \cup TodoDocs
    BY <1>1 DEF ToolUses, ToolUse
  <2>2. again = [toolUse[a] EXCEPT !.at = "read", !.tries = toolUse[a].tries + 1, !.saw = 0]
    OBVIOUS
  <2> QED
    BY <1>1, <2>1, <2>2 DEF ToolUses, ToolUse
<1>3. toolUse' = [toolUse EXCEPT ![a] = NoTool] \/ toolUse' = [toolUse EXCEPT ![a] = again]
  BY DEF TryFails
<1> HIDE DEF again
<1> QED
  BY <1>2, <1>3, IdleUse DEF Tracking

\* ReadTodo saves what it reads, or answers, or fails.
LEMMA ReadTodoMove ==
  ASSUME ToolsTyped, NEW a \in ToolAgents, ReadTodo(a)
  PROVE  \E u \in ToolUses : /\ toolUse' = [toolUse EXCEPT ![a] = u] /\ u.at # "write"
                             /\ Tracking(u) => Tracking(toolUse[a])
                             /\ u.at = "save" => u.saw = todoDoc
<1> DEFINE saves == [toolUse[a] EXCEPT !.at = "save", !.saw = todoDoc]
<1>1. toolUse[a] \in ToolUses /\ todoDoc \in TodoDocs /\ toolUse[a].want.tool = "todo"
  BY DEF ToolsTyped, ReadTodo
<1>2. saves \in ToolUses /\ saves.at = "save" /\ saves.want = toolUse[a].want /\ saves.saw = todoDoc
  BY <1>1 DEF ToolUses, ToolUse
<1>3. Answers(a) \/ toolUse' = [toolUse EXCEPT ![a] = saves] \/ TryFails(a)
  BY DEF ReadTodo
<1> HIDE DEF saves
<1>4. CASE TryFails(a)
  BY <1>4, TryFailsMove
<1>5. CASE Answers(a)
  BY <1>5, IdleUse DEF Answers
<1>6. CASE toolUse' = [toolUse EXCEPT ![a] = saves]
  BY <1>2, <1>6 DEF Tracking
<1> QED
  BY <1>3, <1>4, <1>5, <1>6

\* SaveTodo writes over what holds its token, or fails.
LEMMA SaveTodoMove ==
  ASSUME ToolsTyped, NEW a \in ToolAgents, SaveTodo(a)
  PROVE  /\ todoDoc' \in TodoDocs
         /\ \E u \in ToolUses : /\ toolUse' = [toolUse EXCEPT ![a] = u] /\ u.at \notin {"write", "save"}
                                /\ Tracking(u) => Tracking(toolUse[a])
         /\ \/ todoDoc' = todoDoc
            \/ /\ TokenHolds(toolUse[a].saw)
               /\ todoDoc' = [exists |-> TRUE, version |-> todoDoc.version + 1,
                              items |-> Reconciled(toolUse[a].saw.items, toolUse[a].want)]
<1> DEFINE checks == [toolUse[a] EXCEPT !.at = "verify"]
           doc == [exists |-> TRUE, version |-> todoDoc.version + 1,
                   items |-> Reconciled(toolUse[a].saw.items, toolUse[a].want)]
<1>1. toolUse[a] \in ToolUses /\ todoDoc \in TodoDocs /\ toolUse[a].at = "save"
  BY DEF ToolsTyped, SaveTodo
<1>2. toolUse[a].want.tool = "todo" /\ toolUse[a].saw \in TodoDocs /\ toolUse[a].want \in Wants \cup {[tool |-> "none"]}
  BY <1>1 DEF ToolUses, ToolUse
<1>3. toolUse[a].want.item \in TodoItem /\ NoTodoItem \in TodoItem
  BY <1>2, WantTypes DEF TodoItem
<1>4. Reconciled(toolUse[a].saw.items, toolUse[a].want) \in [TodoItems -> TodoItem]
  <2>1. \A i \in TodoItems : toolUse[a].saw.items[i] \in TodoItem
    BY <1>2 DEF TodoDocs
  <2> QED
    BY <1>3, <2>1 DEF Reconciled
<1>5. doc \in TodoDocs
  BY <1>1, <1>4 DEF TodoDocs
<1>6. checks \in ToolUses /\ checks.at = "verify" /\ checks.want = toolUse[a].want
  BY <1>1 DEF ToolUses, ToolUse
<1>7. /\ toolUse' = [toolUse EXCEPT ![a] = checks] \/ TryFails(a)
      /\ todoDoc' = todoDoc \/ (TokenHolds(toolUse[a].saw) /\ todoDoc' = doc)
  BY DEF SaveTodo
<1>8. \E u \in ToolUses : /\ toolUse' = [toolUse EXCEPT ![a] = u] /\ u.at \notin {"write", "save"}
                          /\ Tracking(u) => Tracking(toolUse[a])
  <2> HIDE DEF checks
  <2>1. CASE TryFails(a)
    BY <2>1, TryFailsMove
  <2>2. CASE toolUse' = [toolUse EXCEPT ![a] = checks]
    BY <1>6, <2>2 DEF Tracking
  <2> QED
    BY <1>7, <2>1, <2>2
<1> QED
  BY <1>1, <1>5, <1>7, <1>8

\* VerifyTodo answers or fails.
LEMMA VerifyTodoMove ==
  ASSUME ToolsTyped, NEW a \in ToolAgents, VerifyTodo(a)
  PROVE  \E u \in ToolUses : /\ toolUse' = [toolUse EXCEPT ![a] = u] /\ u.at \notin {"write", "save"}
                             /\ Tracking(u) => Tracking(toolUse[a])
<1>1. CASE TryFails(a)
  BY <1>1, TryFailsMove
<1>2. CASE Answers(a)
  BY <1>2, IdleUse DEF Answers
<1> QED
  BY <1>1, <1>2 DEF VerifyTodo

\* Every step keeps what the tracking tools rely on.
LEMMA TrackStep ==
  ASSUME TrackInv, PageIsEnough, ~TrackersOverlap, [CapabilityToolsNext]_toolVars
  PROVE  TrackInv'
<1>1. ToolsTyped /\ todoDoc \in TodoDocs
  BY DEF TrackInv, ToolsTyped
<1>2. ASSUME NEW a \in ToolAgents, ReadFails(a) \/ StartRun(a)
      PROVE  TrackInv'
  <2>1. Answers(a) /\ UNCHANGED <<tracked, asks, todoDoc>>
    BY <1>2 DEF ReadFails, StartRun
  <2> QED
    BY <1>1, <2>1, AnswerKeeps
<1>3. ASSUME NEW a \in ToolAgents, ReadTodo(a) PROVE TrackInv'
  <2>1. UNCHANGED <<tracked, asks, todoDoc>>
    BY <1>3 DEF ReadTodo
  <2> QED
    BY <1>1, <1>3, <2>1, ReadTodoMove, TodoMoveKeeps
<1>4. ASSUME NEW a \in ToolAgents, SaveTodo(a) PROVE TrackInv'
  <2>1. UNCHANGED <<tracked, asks>>
    BY <1>4 DEF SaveTodo
  <2> QED
    BY <1>1, <1>4, <2>1, SaveTodoMove, TodoMoveKeeps
<1>5. ASSUME NEW a \in ToolAgents, VerifyTodo(a) PROVE TrackInv'
  <2>1. UNCHANGED <<tracked, asks, todoDoc>>
    BY <1>5 DEF VerifyTodo
  <2> QED
    BY <1>1, <1>5, <2>1, VerifyTodoMove, TodoMoveKeeps
<1>6. CASE UNCHANGED toolVars
  <2>1. \A o, n : Repeats(o, n)' <=> Repeats(o, n)
    BY DEF Repeats
  <2> QED
    BY <1>6, <2>1 DEF toolVars, TrackInv, ToolsTyped, OneTracks, TrackedOnce, Missing, OpenIssues, Tracking
<1> QED
  BY <1>2, <1>3, <1>4, <1>5, <1>6, CallToolKeeps, FindIssueKeeps, OpenTrackerKeeps, FindCommentKeeps,
     PostCommentKeeps, FindRecommendationKeeps, PostRecommendationKeeps, CloseIssueKeeps
  DEF CapabilityToolsNext

\* The types hold at the start.
LEMMA ToolsStart ==
  ASSUME CapabilityToolsInit
  PROVE  ToolsTyped
<1>1. /\ tracked = << >> /\ asks = << >> /\ todoDoc = [exists |-> TodoExists, version |-> 0, items |-> NoItems]
      /\ toolUse = [a \in ToolAgents |-> NoTool]
  BY DEF CapabilityToolsInit
<1>2. todoDoc \in TodoDocs
  BY <1>1, CapabilityToolsAssumption DEF TodoDocs, NoItems, TodoItem
<1> QED
  BY <1>1, <1>2, IdleUse DEF ToolsTyped

\* capabilityMcp.ts:432, 451, 246: while the tools that track are used one at a
\* time, and a page of open issues holds one for each key, nothing is tracked
\* or recommended twice, however often ticks repeat, fail or lose an answer.
THEOREM TrackedOnceEach ==
  ASSUME ~TrackersOverlap, PageIsEnough
  PROVE  CapabilityToolsSpec => []TrackedOnce
<1>1. CapabilityToolsInit => TrackInv
  <2> SUFFICES ASSUME CapabilityToolsInit PROVE TrackInv
    OBVIOUS
  <2>1. /\ tracked = << >> /\ asks = << >> /\ todoDoc = [exists |-> TodoExists, version |-> 0, items |-> NoItems]
        /\ toolUse = [a \in ToolAgents |-> NoTool]
    BY DEF CapabilityToolsInit
  <2>3. ToolsTyped
    BY ToolsStart
  <2>4. OneTracks /\ \A a \in ToolAgents : Missing(a)
    BY <2>1, IdleUse DEF OneTracks, Missing
  <2>5. TrackedOnce
    BY <2>1 DEF TrackedOnce, OpenIssues
  <2> QED
    BY <2>3, <2>4, <2>5 DEF TrackInv
<1>2. TrackInv /\ [CapabilityToolsNext]_toolVars => TrackInv'
  BY TrackStep
<1>3. TrackInv => TrackedOnce
  BY DEF TrackInv
<1> QED
  BY <1>1, <1>2, <1>3, PTL DEF CapabilityToolsSpec
-----------------------------------------------------------------------------
(* The Todo.                                                               *)

\* Any write of a tracking tool leaves the types.
LEMMA TrackersTyped ==
  ASSUME ToolsTyped, NEW a \in ToolAgents, OpenTracker(a) \/ PostComment(a) \/ PostRecommendation(a)
  PROVE  tracked' \in Seq(Tracker) /\ asks' \in Seq(Recommendations) /\ Answers(a) /\ UNCHANGED todoDoc
<1> DEFINE want == toolUse[a].want
           at == toolUse[a].saw
<1>1. /\ tracked \in Seq(Tracker) /\ asks \in Seq(Recommendations)
      /\ toolUse[a] \in ToolUses
  BY DEF ToolsTyped
<1>2. /\ want.tool \in {"issue", "comment"} => want.key \in TrackKeys
      /\ want.tool = "recommend" => want.ask \in Recommendations
  BY <1>1, WantTypes DEF ToolUses, ToolUse
<1>3. CASE OpenTracker(a)
  <2>1. {} \in TrackNotes
    BY FS_EmptySet DEF TrackNotes
  <2>2. want.tool = "issue" /\ [key |-> want.key, open |-> TRUE, notes |-> {}] \in Tracker
    BY <1>2, <1>3, <2>1 DEF OpenTracker, Tracker
  <2>3. /\ tracked' = Append(tracked, [key |-> want.key, open |-> TRUE, notes |-> {}]) \/ tracked' = tracked
        /\ UNCHANGED <<asks, todoDoc>> /\ Answers(a)
    BY <1>3 DEF OpenTracker, Writes
  <2> QED
    BY <1>1, <2>2, <2>3
<1>4. CASE PostComment(a)
  <2> DEFINE notes == tracked[at].notes
             new == [key |-> want.key, n |-> Cardinality(notes)]
             issue == [tracked[at] EXCEPT !.notes = notes \cup {new}]
  <2>1. /\ tracked' = [tracked EXCEPT ![at] = issue] \/ tracked' = tracked
        /\ UNCHANGED <<asks, todoDoc>> /\ Answers(a) /\ want.tool = "comment"
    BY <1>4 DEF PostComment, Writes
  <2>2. ASSUME at \in DOMAIN tracked PROVE issue \in Tracker
    <3>1. tracked[at] \in Tracker
      BY <1>1, <2>2
    <3>2. notes \subseteq [key : TrackKeys, n : Nat] /\ IsFiniteSet(notes)
      BY <3>1 DEF Tracker, TrackNotes
    <3>3. new \in [key : TrackKeys, n : Nat]
      BY <1>2, <2>1, <3>2, FS_CardinalityType
    <3>4. IsFiniteSet(notes \cup {new})
      BY <3>2, FS_AddElement
    <3>5. notes \cup {new} \in TrackNotes
      BY <3>2, <3>3, <3>4 DEF TrackNotes
    <3> QED
      BY <3>1, <3>5 DEF Tracker
  <2> HIDE DEF issue
  <2>3. tracked' \in Seq(Tracker)
    BY <1>1, <2>1, <2>2
  <2> QED
    BY <1>1, <2>1, <2>3
<1>5. CASE PostRecommendation(a)
  <2>1. /\ asks' = Append(asks, want.ask) \/ asks' = asks
        /\ UNCHANGED <<tracked, todoDoc>> /\ Answers(a) /\ want.tool = "recommend"
    BY <1>5 DEF PostRecommendation, Writes
  <2> QED
    BY <1>1, <1>2, <2>1
<1> QED
  BY <1>3, <1>4, <1>5

\* A step is one of a person, the write of a Todo, or a move of one agent.
AgentMoves(a) ==
  /\ UNCHANGED todoDoc
  /\ \E u \in ToolUses : /\ toolUse' = [toolUse EXCEPT ![a] = u]
                         /\ u.at = "save" => u.saw = todoDoc

\* Every step keeps the types and is one of these.
LEMMA ToolSteps ==
  ASSUME ToolsTyped, CapabilityToolsNext
  PROVE  /\ ToolsTyped'
         /\ \/ UNCHANGED <<todoDoc, toolUse>>
            \/ \E a \in ToolAgents : AgentMoves(a) \/ SaveTodo(a)
<1>1. /\ tracked \in Seq(Tracker) /\ asks \in Seq(Recommendations) /\ todoDoc \in TodoDocs
      /\ toolUse \in [ToolAgents -> ToolUses]
  BY DEF ToolsTyped
<1>2. ASSUME NEW a \in ToolAgents, AgentMoves(a), tracked' \in Seq(Tracker), asks' \in Seq(Recommendations)
      PROVE  ToolsTyped'
  BY <1>1, <1>2 DEF AgentMoves, ToolsTyped
<1>3. ASSUME NEW a \in ToolAgents, Answers(a), UNCHANGED todoDoc
      PROVE  AgentMoves(a)
  BY <1>3, IdleUse DEF Answers, AgentMoves
<1>4. ASSUME NEW a \in ToolAgents, CallTool(a)
      PROVE  AgentMoves(a) /\ UNCHANGED <<tracked, asks>>
  <2>1. PICK want \in Wants : toolUse' = [toolUse EXCEPT ![a] = [NoTool EXCEPT !.at = "read", !.want = want]]
    BY <1>4 DEF CallTool
  <2> DEFINE u == [NoTool EXCEPT !.at = "read", !.want = want]
  <2>2. u \in ToolUses /\ u.at = "read"
    BY DEF NoTool, ToolUses, ToolUse
  <2>3. UNCHANGED <<tracked, asks, todoDoc>>
    BY <1>4 DEF CallTool
  <2> HIDE DEF u
  <2>4. toolUse' = [toolUse EXCEPT ![a] = u]
    BY <2>1 DEF u
  <2> QED
    BY <2>2, <2>3, <2>4 DEF AgentMoves
<1>5. ASSUME NEW a \in ToolAgents, ReadFails(a) \/ StartRun(a)
      PROVE  AgentMoves(a) /\ UNCHANGED <<tracked, asks>>
  BY <1>3, <1>5 DEF ReadFails, StartRun
<1>6. ASSUME NEW a \in ToolAgents, FindIssue(a) \/ FindRecommendation(a)
      PROVE  AgentMoves(a) /\ UNCHANGED <<tracked, asks>>
  <2> DEFINE u == [toolUse[a] EXCEPT !.at = "write"]
  <2>1. u \in ToolUses /\ u.at = "write"
    BY <1>1 DEF ToolUses, ToolUse
  <2>2. Answers(a) \/ toolUse' = [toolUse EXCEPT ![a] = u]
    BY <1>6 DEF FindIssue, FindRecommendation
  <2>3. UNCHANGED <<tracked, asks, todoDoc>>
    BY <1>6 DEF FindIssue, FindRecommendation
  <2> HIDE DEF u
  <2> QED
    BY <1>3, <2>1, <2>2, <2>3 DEF AgentMoves
<1>7. ASSUME NEW a \in ToolAgents, FindComment(a)
      PROVE  AgentMoves(a) /\ UNCHANGED <<tracked, asks>>
  <2> DEFINE u == [toolUse[a] EXCEPT !.at = "write", !.saw = OldestTracker]
  <2>1. OldestTracker \in Nat
    <3>1. \A i \in DOMAIN tracked : i \in Nat
      BY <1>1
    <3>2. OpenIssues \in SUBSET Nat /\ OpenIssues # {}
      BY <1>7, <3>1 DEF OpenIssues, FindComment
    <3>3. \E i \in OpenIssues : \A j \in OpenIssues : i <= j
      BY <3>2, LeastNumber
    <3>4. OldestTracker \in OpenIssues
      BY <3>3 DEF OldestTracker
    <3> QED
      BY <3>2, <3>4
  <2>2. u \in ToolUses /\ u.at = "write"
    BY <1>1, <2>1 DEF ToolUses, ToolUse
  <2>3. Answers(a) \/ toolUse' = [toolUse EXCEPT ![a] = u]
    BY <1>7 DEF FindComment
  <2>4. UNCHANGED <<tracked, asks, todoDoc>>
    BY <1>7 DEF FindComment
  <2> HIDE DEF u
  <2> QED
    BY <1>3, <2>2, <2>3, <2>4 DEF AgentMoves
<1>8. ASSUME NEW a \in ToolAgents, ReadTodo(a)
      PROVE  AgentMoves(a) /\ UNCHANGED <<tracked, asks>>
  <2>1. UNCHANGED <<tracked, asks, todoDoc>>
    BY <1>8 DEF ReadTodo
  <2> QED
    BY <1>8, <2>1, ReadTodoMove DEF AgentMoves
<1>9. ASSUME NEW a \in ToolAgents, VerifyTodo(a)
      PROVE  AgentMoves(a) /\ UNCHANGED <<tracked, asks>>
  <2>1. UNCHANGED <<tracked, asks, todoDoc>>
    BY <1>9 DEF VerifyTodo
  <2> QED
    BY <1>9, <2>1, VerifyTodoMove DEF AgentMoves
<1>10. ASSUME NEW a \in ToolAgents, SaveTodo(a)
       PROVE  ToolsTyped'
  <2>1. UNCHANGED <<tracked, asks>>
    BY <1>10 DEF SaveTodo
  <2> QED
    BY <1>1, <1>10, <2>1, SaveTodoMove DEF ToolsTyped
<1>11. ASSUME CloseIssue
       PROVE  ToolsTyped' /\ UNCHANGED <<todoDoc, toolUse>>
  <2>1. PICK i \in OpenIssues : tracked' = [tracked EXCEPT ![i].open = FALSE]
    BY <1>11 DEF CloseIssue
  <2>2. UNCHANGED <<asks, todoDoc, toolUse>>
    BY <1>11 DEF CloseIssue
  <2>3. i \in DOMAIN tracked /\ tracked[i] \in Tracker
    BY <1>1 DEF OpenIssues
  <2>4. tracked' \in Seq(Tracker)
    <3>1. [tracked[i] EXCEPT !.open = FALSE] \in Tracker
      BY <2>3 DEF Tracker
    <3> DEFINE closed == [tracked[i] EXCEPT !.open = FALSE]
    <3>2. tracked' = [tracked EXCEPT ![i] = closed] /\ closed \in Tracker
      BY <2>1, <3>1
    <3> HIDE DEF closed
    <3> QED
      BY <1>1, <2>3, <3>2
  <2> QED
    BY <1>1, <2>2, <2>4 DEF ToolsTyped
<1>12. ASSUME NEW a \in ToolAgents, OpenTracker(a) \/ PostComment(a) \/ PostRecommendation(a)
       PROVE  AgentMoves(a) /\ ToolsTyped'
  BY <1>2, <1>3, <1>12, TrackersTyped
<1>13. ASSUME NEW a \in ToolAgents, AgentMoves(a), UNCHANGED <<tracked, asks>>
       PROVE  ToolsTyped'
  BY <1>1, <1>2, <1>13
<1> QED
  BY <1>4, <1>5, <1>6, <1>7, <1>8, <1>9, <1>10, <1>11, <1>12, <1>13 DEF CapabilityToolsNext

\* What an agent read of the Todo is older than what is stored, or the same.
TodoSeen(a) ==
  toolUse[a].at = "save" =>
    /\ toolUse[a].saw.exists /\ toolUse[a].saw.version <= todoDoc.version
    /\ toolUse[a].saw.version = todoDoc.version => toolUse[a].saw = todoDoc

TodoInv == ToolsTyped /\ todoDoc.exists /\ \A a \in ToolAgents : TodoSeen(a)

\* Every step keeps what is read of the Todo, and changes its own item only.
LEMMA TodoStep ==
  ASSUME TodoInv, [CapabilityToolsNext]_toolVars
  PROVE  /\ TodoInv'
         /\ \A i \in TodoItems : todoDoc'.items[i] # todoDoc.items[i] =>
              \/ i = Legacy
              \/ \E a \in ToolAgents : toolUse[a].at = "save" /\ toolUse[a].want.id = i
<1>1. ToolsTyped /\ todoDoc \in TodoDocs /\ toolUse \in [ToolAgents -> ToolUses]
  BY DEF TodoInv, ToolsTyped
<1>2. CASE UNCHANGED toolVars
  BY <1>2 DEF toolVars, TodoInv, TodoSeen, ToolsTyped
<1>3. CASE CapabilityToolsNext
  <2>1. ToolsTyped'
    BY <1>1, <1>3, ToolSteps
  <2>2. CASE UNCHANGED <<todoDoc, toolUse>>
    BY <2>1, <2>2 DEF TodoInv, TodoSeen
  <2>3. ASSUME NEW a \in ToolAgents, AgentMoves(a)
        PROVE  TodoInv' /\ todoDoc' = todoDoc
    <3>1. PICK u \in ToolUses : toolUse' = [toolUse EXCEPT ![a] = u] /\ (u.at = "save" => u.saw = todoDoc)
      BY <2>3 DEF AgentMoves
    <3>2. todoDoc' = todoDoc /\ todoDoc.version \in Nat
      BY <1>1, <2>3 DEF AgentMoves, TodoDocs
    <3>3. \A b \in ToolAgents : toolUse'[b] = IF b = a THEN u ELSE toolUse[b]
      BY <1>1, <3>1
    <3>4. \A b \in ToolAgents : TodoSeen(b)'
      BY <3>1, <3>2, <3>3 DEF TodoInv, TodoSeen
    <3> QED
      BY <2>1, <3>2, <3>4 DEF TodoInv
  <2>4. ASSUME NEW a \in ToolAgents, SaveTodo(a)
        PROVE  /\ TodoInv'
               /\ \A i \in TodoItems : todoDoc'.items[i] # todoDoc.items[i] =>
                    i = Legacy \/ toolUse[a].want.id = i
    <3>1. PICK u \in ToolUses : toolUse' = [toolUse EXCEPT ![a] = u] /\ u.at \notin {"write", "save"}
      BY <1>1, <2>4, SaveTodoMove
    <3>2. \A b \in ToolAgents : toolUse'[b] = IF b = a THEN u ELSE toolUse[b]
      BY <1>1, <3>1
    <3>3. CASE todoDoc' = todoDoc
      BY <2>1, <3>1, <3>2, <3>3 DEF TodoInv, TodoSeen
    <3>4. CASE /\ TokenHolds(toolUse[a].saw)
               /\ todoDoc' = [exists |-> TRUE, version |-> todoDoc.version + 1,
                              items |-> Reconciled(toolUse[a].saw.items, toolUse[a].want)]
      <4>1. toolUse[a].at = "save" /\ TodoSeen(a)
        BY <2>4 DEF SaveTodo, TodoInv
      <4>2. toolUse[a].saw = todoDoc
        BY <3>4, <4>1 DEF TodoSeen, TokenHolds
      <4>3. todoDoc'.exists /\ todoDoc'.version = todoDoc.version + 1 /\ todoDoc.version \in Nat
            /\ todoDoc'.items = Reconciled(todoDoc.items, toolUse[a].want)
        BY <1>1, <3>4, <4>2 DEF TodoDocs
      <4>4. \A i \in TodoItems : todoDoc'.items[i] # todoDoc.items[i] => i = Legacy \/ toolUse[a].want.id = i
        BY <4>3 DEF Reconciled
      <4>5. ASSUME NEW b \in ToolAgents, toolUse'[b].at = "save"
            PROVE  TodoSeen(b)'
        <5>1. b # a /\ toolUse'[b] = toolUse[b] /\ TodoSeen(b)
          BY <3>1, <3>2, <4>5 DEF TodoInv
        <5>2. toolUse[b].saw \in TodoDocs /\ toolUse[b].saw.version \in Nat
          BY <1>1, <4>5, <5>1 DEF ToolUses, TodoDocs
        <5> QED
          BY <4>3, <4>5, <5>1, <5>2 DEF TodoSeen
      <4> QED
        BY <2>1, <4>3, <4>4, <4>5 DEF TodoInv, TodoSeen
    <3> QED
      BY <1>1, <2>4, <3>3, <3>4, SaveTodoMove
  <2>5. ASSUME NEW a \in ToolAgents, SaveTodo(a) PROVE toolUse[a].at = "save"
    BY <2>5 DEF SaveTodo
  <2> QED
    BY <1>1, <1>3, <2>2, <2>3, <2>4, <2>5, ToolSteps
<1> QED
  BY <1>2, <1>3

\* The variables of the tools have their types.
THEOREM CapabilityToolsTypeCorrect == CapabilityToolsSpec => []CapabilityToolsTypeOK
<1>1. CapabilityToolsInit => ToolsTyped
  BY ToolsStart
<1>2. ToolsTyped /\ [CapabilityToolsNext]_toolVars => ToolsTyped'
  <2>1. ToolsTyped /\ UNCHANGED toolVars => ToolsTyped'
    BY DEF toolVars, ToolsTyped
  <2> QED
    BY <2>1, ToolSteps
<1>3. ToolsTyped => CapabilityToolsTypeOK
  <2> SUFFICES ASSUME ToolsTyped PROVE CapabilityToolsTypeOK
    OBVIOUS
  <2>1. \A i \in DOMAIN tracked : tracked[i] \in Tracker
    BY DEF ToolsTyped
  <2>2. \A a \in ToolAgents : toolUse[a] \in ToolUses
    BY DEF ToolsTyped
  <2> QED
    BY <2>1, <2>2 DEF ToolsTyped, CapabilityToolsTypeOK, Tracker, TodoDocs, ToolUses, ToolUse
<1> QED
  BY <1>1, <1>2, <1>3, PTL DEF CapabilityToolsSpec

\* capabilityMcp.ts:956: agents that reconcile items of a Todo that is there
\* keep each other's items, whatever they read before and however calls fail:
\* the token of what was read refuses the write of whoever saw less.
THEOREM OthersItemsStayThere ==
  ASSUME TodoExists
  PROVE  CapabilityToolsSpec => OthersItemsStay
<1>1. CapabilityToolsInit => TodoInv
  BY ToolsStart, IdleUse DEF CapabilityToolsInit, TodoInv, TodoSeen
<1>2. TodoInv /\ [CapabilityToolsNext]_toolVars => TodoInv'
  BY TodoStep
<1>3. TodoInv /\ [CapabilityToolsNext]_toolVars =>
        [\A i \in TodoItems : todoDoc'.items[i] # todoDoc.items[i] =>
           \/ i = Legacy
           \/ \E a \in ToolAgents : toolUse[a].at = "save" /\ toolUse[a].want.id = i]_toolVars
  BY TodoStep
<1> QED
  BY <1>1, <1>2, <1>3, PTL DEF CapabilityToolsSpec, OthersItemsStay
-----------------------------------------------------------------------------
(* The states of the ticks.                                                *)

Memories == [seq : Nat, mark : Nat, ledger : SUBSET Ticks]
JobTicks ==
  [kind : {"agent", "script", "live"}, at : {"idle", "load", "work", "save", "log", "over"},
   call : {"token", "sent"}, again : BOOLEAN, asked : Nat, until : Nat, read : Memories,
   next : SUBSET Ticks, stamp : Nat, exit : {0, 1, 99}]

TicksTyped ==
  /\ sharing \in TickKinds /\ memory \in Memories /\ jobTick \in [Ticks -> JobTicks]
  /\ wrote \in SUBSET Ticks /\ unaware \in BOOLEAN /\ activity \in Seq(Ticks)
  /\ time \in 1 .. LastTime /\ tickRuns \in 0 .. MaxTickRuns

\* A call that is under way has a token that outlives it.
TokenLasts(t) ==
  t.at \in {"load", "save", "log"} /\ t.call = "sent" =>
    time - t.asked <= CallTime /\ t.until > t.asked + TokenMargin

\* What a tick read is older than what is stored, or the same: by the number
\* of writes, and for a live agent also by the revision it gives back.
Sees(t) ==
  /\ t.read.seq <= memory.seq
  /\ t.read.seq = memory.seq => t.read = memory
  /\ t.kind = "live" => t.read.mark <= memory.mark /\ (t.read.mark = memory.mark => t.read = memory)

\* A tick that saves keeps what it read; one that went well has stored its
\* entry, and is in the log only when it is over.
TickFine(n, t) ==
  /\ t.at # "idle" => t.kind \in sharing
  /\ TokenLasts(t)
  /\ t.at \in {"work", "save"} => Sees(t)
  /\ t.at = "save" => t.read.ledger \subseteq t.next
  /\ t.at \in {"log", "over"} /\ t.exit = 0 /\ n \in t.next => n \in wrote
  /\ \A i \in DOMAIN activity : activity[i] = n => t.at = "over"

TickInv ==
  /\ TicksTyped /\ LedgerIsKept /\ expired = FALSE
  /\ \A i, j \in DOMAIN activity : i # j => activity[i] # activity[j]
  /\ \A n \in Ticks : TickFine(n, jobTick[n]) /\ (n > tickRuns => jobTick[n].at = "idle")

\* The constants of the ticks are numbers.
LEMMA TickNumbers ==
  /\ TokenLife \in Nat /\ TokenMargin \in Nat /\ CallTime \in Nat /\ LastTime \in Nat /\ MaxTickRuns \in Nat
  /\ CallTime < TokenMargin /\ TokenMargin < TokenLife /\ LastTime > 0
  /\ Ticks \subseteq Nat
BY TickAssumption DEF Ticks

\* The next record of a tick: another call, an exit code, its end.
LEMMA CallsRecord ==
  ASSUME NEW t \in JobTicks, NEW at \in {"load", "work", "save", "log"}
  PROVE  /\ Calls(t, at) \in JobTicks /\ Calls(t, at).at = at /\ Calls(t, at).call = "token"
         /\ Calls(t, at).kind = t.kind /\ Calls(t, at).next = t.next /\ Calls(t, at).exit = t.exit
         /\ Calls(t, at).read = t.read
BY DEF Calls, JobTicks

\* A tick that is given an exit code.
LEMMA ExitRecord ==
  ASSUME NEW t \in JobTicks, NEW code \in {1, 99}
  PROVE  /\ ExitsWith(t, code) \in JobTicks /\ ExitsWith(t, code).exit # 0
         /\ ExitsWith(t, code).at = t.at /\ ExitsWith(t, code).kind = t.kind
         /\ ExitsWith(t, code).next = t.next /\ ExitsWith(t, code).call = t.call /\ ExitsWith(t, code).read = t.read
BY DEF ExitsWith, JobTicks

\* A tick that goes on to the activity log.
LEMMA LogsRecord ==
  ASSUME NEW t \in JobTicks
  PROVE  /\ Logs(t) \in JobTicks /\ Logs(t).at = "log" /\ Logs(t).call = "token"
         /\ Logs(t).kind = t.kind /\ Logs(t).next = t.next /\ Logs(t).exit = t.exit
<1> DEFINE c == Calls(t, "log")
<1>1. c \in JobTicks /\ c.at = "log" /\ c.call = "token" /\ c.kind = t.kind /\ c.next = t.next /\ c.exit = t.exit
  BY CallsRecord
<1>2. NoMemory \in Memories
  BY DEF NoMemory, Memories
<1> HIDE DEF c
<1>3. Logs(t) = [c EXCEPT !.read = NoMemory, !.stamp = 0]
  BY DEF Logs, c
<1> DEFINE x == [c EXCEPT !.read = NoMemory]
<1>4. /\ x \in JobTicks /\ x.at = "log" /\ x.call = "token" /\ x.kind = t.kind /\ x.next = t.next
      /\ x.exit = t.exit
  BY <1>1, <1>2 DEF JobTicks
<1>5. Logs(t) = [x EXCEPT !.stamp = 0]
  BY <1>3
<1> HIDE DEF x
<1> QED
  BY <1>4, <1>5 DEF JobTicks

\* A tick that is over.
LEMMA OverRecord ==
  ASSUME NEW t \in JobTicks
  PROVE  /\ Over(t) \in JobTicks /\ Over(t).at = "over"
         /\ Over(t).kind = t.kind /\ Over(t).next = t.next /\ Over(t).exit = t.exit
<1>1. NoJobTick \in JobTicks
  BY DEF NoJobTick, NoMemory, JobTicks, Memories
<1> QED
  BY <1>1 DEF Over, JobTicks

\* A call that failed leaves its tick in order.
LEMMA FailureFine ==
  ASSUME TickInv, NEW n \in Ticks, jobTick[n].at \in {"load", "save", "log"}
  PROVE  /\ AfterFailure(jobTick[n]) \in JobTicks /\ TickFine(n, AfterFailure(jobTick[n]))
         /\ AfterFailure(jobTick[n]).at \in {"log", "over"}
         /\ jobTick[n].at = "log" => AfterFailure(jobTick[n]).at = "over"
<1> DEFINE t == jobTick[n]
           x == ExitsWith(t, 99)
<1>1. t \in JobTicks /\ TickFine(n, t)
  BY DEF TickInv, TicksTyped
<1>2. \A i \in DOMAIN activity : activity[i] # n
  BY <1>1 DEF TickFine
<1>3. x \in JobTicks /\ x.exit # 0 /\ x.kind = t.kind /\ x.next = t.next
  BY <1>1, ExitRecord
<1>4. CASE t.at = "log"
  <2>1. AfterFailure(t) = [t EXCEPT !.at = "over"]
    BY <1>4 DEF AfterFailure
  <2>2. /\ AfterFailure(t) \in JobTicks /\ AfterFailure(t).at = "over" /\ AfterFailure(t).kind = t.kind
        /\ AfterFailure(t).exit = t.exit /\ AfterFailure(t).next = t.next
    BY <1>1, <2>1 DEF JobTicks
  <2> QED
    BY <1>1, <1>4, <2>2 DEF TickFine, TokenLasts
<1>5. CASE t.at = "save" /\ t.kind # "live"
  <2>1. AfterFailure(t) = Logs(x)
    BY <1>5 DEF AfterFailure
  <2>2. /\ Logs(x) \in JobTicks /\ Logs(x).at = "log" /\ Logs(x).call = "token"
        /\ Logs(x).kind = t.kind /\ Logs(x).exit # 0
    BY <1>3, LogsRecord
  <2> QED
    BY <1>1, <1>2, <1>5, <2>1, <2>2 DEF TickFine, TokenLasts
<1>6. CASE t.at = "load" \/ (t.at = "save" /\ t.kind = "live")
  <2>1. AfterFailure(t) = [x EXCEPT !.at = "over"]
    BY <1>6 DEF AfterFailure
  <2> HIDE DEF x
  <2>2. /\ AfterFailure(t) \in JobTicks /\ AfterFailure(t).at = "over" /\ AfterFailure(t).kind = t.kind
        /\ AfterFailure(t).exit # 0
    BY <1>3, <2>1 DEF JobTicks
  <2> QED
    BY <1>1, <1>6, <2>2 DEF TickFine, TokenLasts
<1> QED
  BY <1>4, <1>5, <1>6

\* A tick goes on, and what is shared stays.
LEMMA TickMoveKeeps ==
  ASSUME TickInv, NEW n \in Ticks, NEW t \in JobTicks, TickFine(n, t), TickGoes(n, t), Remembered,
         UNCHANGED <<time, expired>>, tickRuns' \in tickRuns .. MaxTickRuns, n <= tickRuns'
  PROVE  TickInv'
<1> DEFINE u == IF t.at = "over" THEN Over(t) ELSE t
<1>1. u \in JobTicks /\ TickFine(n, u)
  BY OverRecord DEF TickFine, TokenLasts
<1> HIDE DEF u
<1>2. jobTick' = [jobTick EXCEPT ![n] = u]
  BY DEF TickGoes, u
<1>3. UNCHANGED <<sharing, memory, wrote, unaware, activity, time, expired>>
  BY DEF Remembered
<1>4. TicksTyped'
  BY <1>1, <1>2, <1>3 DEF TickInv, TicksTyped
<1>5. \A k \in Ticks : jobTick'[k] = IF k = n THEN u ELSE jobTick[k]
  BY <1>2 DEF TickInv, TicksTyped
<1>6. \A k, r : TickFine(k, r)' <=> TickFine(k, r)
  BY <1>3 DEF TickFine, TokenLasts, Sees
<1>7. \A k \in Ticks : TickFine(k, jobTick[k])'
  BY <1>1, <1>3, <1>5 DEF TickInv, TickFine, TokenLasts, Sees
<1>8. \A k \in Ticks : k > tickRuns' => jobTick'[k].at = "idle"
  BY <1>5, TickNumbers DEF TickInv, TicksTyped
<1> QED
  BY <1>3, <1>4, <1>7, <1>8 DEF TickInv, LedgerIsKept

\* A tick of which something is going on was started.
LEMMA TickStarted ==
  ASSUME TickInv, NEW n \in Ticks, jobTick[n].at # "idle"
  PROVE  /\ jobTick[n] \in JobTicks /\ TickFine(n, jobTick[n]) /\ n <= tickRuns
         /\ tickRuns \in tickRuns .. MaxTickRuns
BY TickNumbers DEF TickInv, TicksTyped

\* A call that fails.
LEMMA FailureKeeps ==
  ASSUME TickInv, NEW n \in Ticks, jobTick[n].at \in {"load", "save", "log"},
         TickGoes(n, AfterFailure(jobTick[n])), Remembered, UNCHANGED <<time, expired, tickRuns>>
  PROVE  TickInv'
<1> DEFINE w == AfterFailure(jobTick[n])
<1>1. w \in JobTicks /\ TickFine(n, w) /\ TickGoes(n, w)
  BY FailureFine
<1> HIDE DEF w
<1>2. n <= tickRuns' /\ tickRuns' \in tickRuns .. MaxTickRuns
  BY TickStarted
<1> QED
  BY <1>1, <1>2, TickMoveKeeps

\* A tick starts.
LEMMA StartKeeps ==
  ASSUME TickInv, NEW kind \in sharing, StartJobTick(kind)
  PROVE  TickInv'
<1> DEFINE new == [NoJobTick EXCEPT !.kind = kind]
           t == Calls(new, "load")
<1>1. /\ tickRuns < MaxTickRuns /\ tickRuns' = tickRuns + 1 /\ TickGoes(tickRuns + 1, t)
      /\ UNCHANGED <<time, expired>> /\ Remembered
  BY DEF StartJobTick
<1>2. tickRuns + 1 \in Ticks /\ tickRuns \in Nat /\ tickRuns' \in tickRuns .. MaxTickRuns
  BY <1>1, TickNumbers DEF TickInv, TicksTyped, Ticks
<1>3. kind \in {"agent", "script", "live"}
  BY TickAssumption DEF TickInv, TicksTyped
<1>4. new \in JobTicks /\ new.kind = kind
  BY <1>3 DEF NoJobTick, NoMemory, JobTicks, Memories
<1> HIDE DEF new
<1>5. t \in JobTicks /\ t.at = "load" /\ t.call = "token" /\ t.kind = kind
  BY <1>4, CallsRecord
<1> HIDE DEF t
<1>6. \A i \in DOMAIN activity : activity[i] # tickRuns + 1
  <2>1. jobTick[tickRuns + 1].at = "idle"
    BY <1>2, TickNumbers DEF TickInv
  <2> QED
    BY <1>2, <2>1 DEF TickInv, TickFine
<1>7. TickFine(tickRuns + 1, t)
  BY <1>5, <1>6 DEF TickFine, TokenLasts
<1> QED
  BY <1>1, <1>2, <1>5, <1>7, TickMoveKeeps, TickNumbers

\* A token that is taken lasts longer than its call.
LEMMA TakeTokenKeeps ==
  ASSUME TickInv, NEW n \in Ticks, TakeToken(n)
  PROVE  TickInv'
<1> DEFINE t == jobTick[n]
           With(until) == [t EXCEPT !.call = "sent", !.asked = time, !.until = until]
<1>1. /\ t.at \in {"load", "save", "log"} /\ UNCHANGED <<time, expired, tickRuns>> /\ Remembered
      /\ \/ TokenUsable(t) /\ TickGoes(n, With(t.until))
         \/ TickGoes(n, With(time + TokenLife))
         \/ TickGoes(n, AfterFailure(t))
  BY DEF TakeToken
<1>2. t \in JobTicks /\ TickFine(n, t) /\ n <= tickRuns /\ tickRuns \in tickRuns .. MaxTickRuns
  BY <1>1, TickStarted
<1>3. time \in Nat /\ t.until \in Nat
  BY <1>2, TickNumbers DEF TickInv, TicksTyped, JobTicks
<1>4. ASSUME NEW until \in Nat, until > time + TokenMargin, TickGoes(n, With(until))
      PROVE  TickInv'
  <2> DEFINE u == With(until)
  <2>1. /\ u \in JobTicks /\ u.at = t.at /\ u.kind = t.kind /\ u.read = t.read /\ u.next = t.next /\ u.exit = t.exit
        /\ u.asked = time /\ u.until = until
    BY <1>2, <1>3 DEF JobTicks
  <2> HIDE DEF u
  <2>2. TokenLasts(u)
    BY <1>3, <1>4, <2>1, TickNumbers DEF TokenLasts
  <2>3. TickFine(n, u)
    BY <1>1, <1>2, <2>1, <2>2 DEF TickFine, Sees
  <2>4. TickGoes(n, u)
    BY <1>4 DEF u
  <2> QED
    BY <1>1, <1>2, <2>1, <2>3, <2>4, TickMoveKeeps
<1>5. CASE TokenUsable(t) /\ TickGoes(n, With(t.until))
  <2>1. t.until > time + TokenMargin
    BY <1>3, <1>5, TickNumbers DEF TokenUsable, Lasting
  <2> QED
    BY <1>3, <1>4, <1>5, <2>1
<1>6. CASE TickGoes(n, With(time + TokenLife))
  <2>1. time + TokenLife > time + TokenMargin /\ time + TokenLife \in Nat
    BY <1>3, TickNumbers
  <2> QED
    BY <1>4, <1>6, <2>1
<1>7. CASE TickGoes(n, AfterFailure(t))
  BY <1>1, <1>2, <1>7, FailureKeeps
<1> QED
  BY <1>1, <1>5, <1>6, <1>7

\* The backend refuses a token only when it is told to: none has ended.
LEMMA TokenGood ==
  ASSUME TickInv, NEW n \in Ticks, Waiting(n)
  PROVE  Accepted(n)
<1>1. jobTick[n] \in JobTicks /\ TokenLasts(jobTick[n]) /\ time \in Nat
  BY TickNumbers DEF TickInv, TicksTyped, TickFine
<1>2. jobTick[n].until \in Nat /\ jobTick[n].asked \in Nat
  BY <1>1 DEF JobTicks
<1> QED
  BY <1>1, <1>2, TickNumbers DEF Waiting, TokenLasts, Accepted

\* A refused call is made again or fails.
LEMMA CallRefusedKeeps ==
  ASSUME TickInv, NEW n \in Ticks, CallRefused(n)
  PROVE  TickInv'
<1> DEFINE t == jobTick[n]
           again == [t EXCEPT !.call = "token", !.again = TRUE, !.asked = 0, !.until = 0]
<1>1. /\ t.at \in {"load", "save", "log"} /\ Waiting(n) /\ UNCHANGED <<time, tickRuns>> /\ Remembered
      /\ TickGoes(n, AfterFailure(t)) \/ TickGoes(n, again)
  BY DEF CallRefused, Waiting, AfterRefusal
<1>2. expired' = expired
  BY <1>1, TokenGood DEF CallRefused
<1>3. t \in JobTicks /\ TickFine(n, t) /\ n <= tickRuns /\ tickRuns \in tickRuns .. MaxTickRuns
  BY <1>1, TickStarted
<1>4. CASE TickGoes(n, AfterFailure(t))
  BY <1>1, <1>2, <1>3, <1>4, FailureKeeps
<1>5. CASE TickGoes(n, again)
  <2>1. /\ again \in JobTicks /\ again.at = t.at /\ again.kind = t.kind /\ again.read = t.read
        /\ again.next = t.next /\ again.exit = t.exit /\ again.call = "token"
    BY <1>3 DEF JobTicks
  <2> HIDE DEF again
  <2>2. TickFine(n, again)
    BY <1>1, <1>3, <2>1 DEF TickFine, TokenLasts, Sees
  <2> QED
    BY <1>1, <1>2, <1>3, <1>5, <2>1, <2>2, TickMoveKeeps
<1> QED
  BY <1>1, <1>4, <1>5

\* A lost request fails.
LEMMA RequestLostKeeps ==
  ASSUME TickInv, NEW n \in Ticks, RequestLost(n)
  PROVE  TickInv'
<1>1. /\ jobTick[n].at \in {"load", "save", "log"} /\ UNCHANGED <<time, tickRuns, expired>> /\ Remembered
      /\ TickGoes(n, AfterFailure(jobTick[n]))
  BY DEF RequestLost, Waiting
<1> QED
  BY <1>1, FailureKeeps

\* A tick is given the state, or ends.
LEMMA LoadsKeeps ==
  ASSUME TickInv, NEW n \in Ticks, NEW kind, NEW found, Loads(n, kind, found)
  PROVE  TickInv'
<1> DEFINE t == jobTick[n]
           c == Calls(t, "work")
           u == [c EXCEPT !.read = memory]
<1>1. /\ t.at = "load" /\ UNCHANGED <<time, tickRuns, expired>> /\ Remembered
      /\ TickGoes(n, u) \/ TickGoes(n, AfterFailure(t))
  BY DEF Loads, Sent, Waiting, TickAt, Answered
<1>2. t \in JobTicks /\ TickFine(n, t) /\ n <= tickRuns /\ tickRuns \in tickRuns .. MaxTickRuns
  BY <1>1, TickStarted
<1>3. CASE TickGoes(n, AfterFailure(t))
  BY <1>1, <1>2, <1>3, FailureKeeps
<1>4. CASE TickGoes(n, u)
  <2>1. c \in JobTicks /\ c.at = "work" /\ c.kind = t.kind
    BY <1>2, CallsRecord
  <2>2. memory \in Memories /\ memory.seq \in Nat /\ memory.mark \in Nat
    BY DEF TickInv, TicksTyped, Memories
  <2> HIDE DEF c
  <2>3. u \in JobTicks /\ u.at = "work" /\ u.kind = t.kind /\ u.read = memory
    BY <2>1, <2>2 DEF JobTicks
  <2> HIDE DEF u
  <2>4. TickFine(n, u)
    BY <1>1, <1>2, <2>2, <2>3 DEF TickFine, TokenLasts, Sees
  <2> QED
    BY <1>1, <1>2, <1>4, <2>3, <2>4, TickMoveKeeps
<1> QED
  BY <1>1, <1>3, <1>4

\* What an agent or a script makes of the state keeps what was there.
LEMMA WorksKeeps ==
  ASSUME TickInv, NEW n \in Ticks, AgentWorks(n) \/ ScriptWorks(n)
  PROVE  TickInv'
<1> DEFINE t == jobTick[n]
           c == Calls(t, "save")
           s(next) == [c EXCEPT !.next = next, !.stamp = time]
<1>1. /\ t.at = "work" /\ UNCHANGED <<time, tickRuns, expired>> /\ Remembered
      /\ \/ \E next \in {WithEntry(n), CarriedOn(t)} :
              TickGoes(n, Saves(t, next)) \/ TickGoes(n, ExitsWith(Saves(t, next), 1))
         \/ \E code \in {1, 99} : TickGoes(n, Fails(t, code))
  BY DEF AgentWorks, ScriptWorks, Works, TickAt
<1>2. t \in JobTicks /\ TickFine(n, t) /\ n <= tickRuns /\ tickRuns \in tickRuns .. MaxTickRuns
  BY <1>1, TickStarted
<1>3. \A next \in {WithEntry(n), CarriedOn(t)} : t.read.ledger \subseteq next /\ next \in SUBSET Ticks
  BY <1>2 DEF WithEntry, CarriedOn, JobTicks, Memories
<1>4. ASSUME NEW next \in SUBSET Ticks, t.read.ledger \subseteq next
      PROVE  /\ Saves(t, next) \in JobTicks /\ Saves(t, next).at = "save" /\ Saves(t, next).next = next
             /\ Saves(t, next).kind = t.kind /\ Saves(t, next).read = t.read /\ Saves(t, next).call = "token"
  <2>1. c \in JobTicks /\ c.at = "save" /\ c.kind = t.kind /\ c.read = t.read /\ c.call = "token" /\ time \in Nat
    BY <1>2, CallsRecord, TickNumbers DEF TickInv, TicksTyped
  <2>2. Saves(t, next) = s(next)
    BY DEF Saves
  <2> HIDE DEF c
  <2> DEFINE x == [c EXCEPT !.next = next]
  <2>3. /\ x \in JobTicks /\ x.at = "save" /\ x.kind = t.kind /\ x.read = t.read /\ x.call = "token"
        /\ x.next = next
    BY <1>4, <2>1 DEF JobTicks
  <2>4. s(next) = [x EXCEPT !.stamp = time]
    OBVIOUS
  <2> HIDE DEF x
  <2> QED
    BY <2>1, <2>2, <2>3, <2>4 DEF JobTicks
<1>5. ASSUME NEW u \in JobTicks, u.at = "save", u.call = "token", u.kind = t.kind, u.read = t.read,
             t.read.ledger \subseteq u.next, TickGoes(n, u)
      PROVE  TickInv'
  <2>1. TickFine(n, u)
    BY <1>1, <1>2, <1>5 DEF TickFine, TokenLasts, Sees
  <2> QED
    BY <1>1, <1>2, <1>5, <2>1, TickMoveKeeps
<1>6. ASSUME NEW next \in {WithEntry(n), CarriedOn(t)}, TickGoes(n, Saves(t, next))
      PROVE  TickInv'
  BY <1>3, <1>4, <1>5, <1>6
<1>7. ASSUME NEW next \in {WithEntry(n), CarriedOn(t)}, TickGoes(n, ExitsWith(Saves(t, next), 1))
      PROVE  TickInv'
  BY <1>3, <1>4, <1>5, <1>7, ExitRecord
<1>8. ASSUME NEW code \in {1, 99}, TickGoes(n, Fails(t, code))
      PROVE  TickInv'
  <2> DEFINE x == ExitsWith(t, code)
  <2>1. x \in JobTicks /\ x.exit # 0 /\ x.kind = t.kind
    BY <1>2, ExitRecord
  <2>2. Fails(t, code) = [x EXCEPT !.at = "over"]
    BY DEF Fails
  <2> HIDE DEF x
  <2>3. /\ Fails(t, code) \in JobTicks /\ Fails(t, code).at = "over" /\ Fails(t, code).exit # 0
        /\ Fails(t, code).kind = t.kind
    BY <2>1, <2>2 DEF JobTicks
  <2>4. TickFine(n, Fails(t, code))
    BY <1>1, <1>2, <2>3 DEF TickFine, TokenLasts
  <2> QED
    BY <1>1, <1>2, <1>8, <2>3, <2>4, TickMoveKeeps
<1> QED
  BY <1>1, <1>6, <1>7, <1>8

\* A state is stored over what its writer read, or over nothing, or over what
\* it could not tell from it.
LEMMA StoresKeeps ==
  ASSUME TickInv, NEW n \in Ticks, WriteJobStateFile(n) \/ SaveLiveAgentState(n)
  PROVE  TickInv'
<1> DEFINE t == jobTick[n]
           over == [t EXCEPT !.at = "over"]
           stored == IF t.kind = "live" THEN over ELSE Logs(t)
           mark == IF t.kind = "live" THEN t.read.mark + 1 ELSE t.stamp
<1>1. /\ t.at = "save" /\ UNCHANGED <<time, tickRuns, expired>> /\ Stores(n, mark, stored)
  BY DEF WriteJobStateFile, SaveLiveAgentState, Stores, Sent, Waiting, TickAt, Answered
<1>2. t \in JobTicks /\ TickFine(n, t) /\ n <= tickRuns /\ tickRuns \in tickRuns .. MaxTickRuns
  BY <1>1, TickStarted
<1>3. /\ memory \in Memories /\ memory.seq \in Nat /\ memory.mark \in Nat
      /\ t.read \in Memories /\ t.read.seq \in Nat /\ t.read.mark \in Nat /\ t.stamp \in Nat /\ t.next \in SUBSET Ticks
  BY <1>2 DEF TickInv, TicksTyped, Memories, JobTicks
<1>4. CASE Expected(t) /\ ~Seen(t)
  <2>1. TickGoes(n, AfterFailure(t)) /\ Remembered
    BY <1>1, <1>4 DEF Stores, Answered
  <2> QED
    BY <1>1, <2>1, FailureKeeps
<1>5. CASE ~(Expected(t) /\ ~Seen(t))
  <2>1. /\ TickGoes(n, stored) \/ TickGoes(n, AfterFailure(t))
        /\ memory' = [seq |-> memory.seq + 1, mark |-> mark, ledger |-> t.next]
        /\ wrote' = wrote \cup (t.next \cap {n})
        /\ unaware' = (unaware \/ (t.kind # "live" /\ t.read.seq # memory.seq /\ (t.read.seq = 0 \/ Seen(t))))
        /\ UNCHANGED <<sharing, activity>>
    BY <1>1, <1>5 DEF Stores, Answered
  <2>2. /\ memory' \in Memories /\ memory'.seq = memory.seq + 1 /\ memory'.mark = mark /\ memory'.ledger = t.next
        /\ mark \in Nat
    BY <1>3, <2>1 DEF Memories
  <2>3. t.kind = "live" => t.read = memory /\ memory'.mark = memory.mark + 1
    BY <1>1, <1>2, <1>3, <1>5, <2>2 DEF Expected, Seen, TickFine, Sees
  <2>4. ~unaware' => ~unaware /\ t.read = memory
    BY <1>1, <1>2, <1>5, <2>1, <2>3 DEF Expected, TickFine, Sees, TickInv, TicksTyped
  <2>5. LedgerIsKept'
    BY <1>1, <1>2, <2>1, <2>2, <2>4 DEF TickInv, LedgerIsKept, TickFine
  <2>6. /\ over \in JobTicks /\ over.at = "over" /\ over.kind = t.kind /\ over.next = t.next /\ over.exit = t.exit
    BY <1>2 DEF JobTicks
  <2> HIDE DEF over
  <2>7. PICK u \in JobTicks :
          /\ jobTick' = [jobTick EXCEPT ![n] = u] /\ u.at \in {"log", "over"} /\ u.kind = t.kind
          /\ u.call = "sent" => u.at = "over"
          /\ u.exit = 0 /\ n \in u.next => n \in wrote'
    <3>1. CASE TickGoes(n, stored) /\ t.kind = "live"
      <4>1. jobTick' = [jobTick EXCEPT ![n] = Over(over)]
        BY <2>6, <3>1 DEF TickGoes
      <4>2. Over(over) \in JobTicks /\ Over(over).at = "over" /\ Over(over).kind = t.kind /\ Over(over).next = t.next
        BY <2>6, OverRecord
      <4> QED
        BY <2>1, <4>1, <4>2
    <3>2. CASE TickGoes(n, stored) /\ t.kind # "live"
      <4>1. Logs(t) \in JobTicks /\ Logs(t).at = "log" /\ Logs(t).call = "token" /\ Logs(t).kind = t.kind
            /\ Logs(t).next = t.next
        BY <1>2, LogsRecord
      <4>2. jobTick' = [jobTick EXCEPT ![n] = Logs(t)]
        BY <3>2, <4>1 DEF TickGoes
      <4> QED
        BY <2>1, <4>1, <4>2
    <3>3. CASE TickGoes(n, AfterFailure(t))
      <4> DEFINE x == ExitsWith(t, 99)
      <4>1. x \in JobTicks /\ x.exit # 0 /\ x.kind = t.kind
        BY <1>2, ExitRecord
      <4>2. CASE t.kind # "live"
        <5>1. AfterFailure(t) = Logs(x)
          BY <1>1, <4>2 DEF AfterFailure
        <5>2. Logs(x) \in JobTicks /\ Logs(x).at = "log" /\ Logs(x).call = "token" /\ Logs(x).kind = t.kind
              /\ Logs(x).exit # 0
          BY <4>1, LogsRecord
        <5>3. jobTick' = [jobTick EXCEPT ![n] = Logs(x)]
          BY <3>3, <5>1, <5>2 DEF TickGoes
        <5> QED
          BY <5>2, <5>3
      <4>3. CASE t.kind = "live"
        <5> DEFINE y == [x EXCEPT !.at = "over"]
        <5>1. AfterFailure(t) = y
          BY <1>1, <4>3 DEF AfterFailure
        <5> HIDE DEF x
        <5>2. y \in JobTicks /\ y.at = "over" /\ y.kind = t.kind /\ y.exit # 0
          BY <4>1 DEF JobTicks
        <5> HIDE DEF y
        <5>3. jobTick' = [jobTick EXCEPT ![n] = Over(y)]
          BY <3>3, <5>1, <5>2 DEF TickGoes
        <5>4. Over(y) \in JobTicks /\ Over(y).at = "over" /\ Over(y).kind = t.kind /\ Over(y).exit # 0
          BY <5>2, OverRecord
        <5> QED
          BY <5>3, <5>4
      <4> QED
        BY <4>2, <4>3
    <3> QED
      BY <2>1, <3>1, <3>2, <3>3
  <2>8. \A k \in Ticks : jobTick'[k] = IF k = n THEN u ELSE jobTick[k]
    BY <2>7 DEF TickInv, TicksTyped
  <2>9. TicksTyped'
    BY <1>1, <2>1, <2>2, <2>7 DEF TickInv, TicksTyped
  <2>10. TickFine(n, jobTick[n])'
    <3>1. \A i \in DOMAIN activity : activity[i] # n
      BY <1>1, <1>2 DEF TickFine
    <3>2. u.call = "sent" => u.at = "over"
      BY <2>7
    <3> QED
      BY <1>1, <1>2, <2>1, <2>7, <2>8, <3>1, <3>2 DEF TickFine, TokenLasts
  <2>11. ASSUME NEW k \in Ticks, k # n PROVE TickFine(k, jobTick[k])'
    <3>1. TickFine(k, jobTick[k]) /\ jobTick'[k] = jobTick[k] /\ jobTick[k] \in JobTicks
      BY <2>8, <2>11 DEF TickInv, TicksTyped
    <3>2. jobTick[k].read.seq \in Nat /\ jobTick[k].read.mark \in Nat
      BY <3>1 DEF JobTicks, Memories
    <3>3. jobTick[k].at # "idle" => (jobTick[k].kind = "live" <=> t.kind = "live")
      BY <1>1, <1>2, <3>1, TickAssumption DEF TickFine, TickInv, TicksTyped
    <3>4. jobTick[k].at \in {"work", "save"} => Sees(jobTick[k])'
      BY <1>3, <2>2, <2>3, <3>1, <3>2, <3>3 DEF TickFine, Sees
    <3> QED
      BY <1>1, <2>1, <3>1, <3>4 DEF TickFine, TokenLasts
  <2>12. \A k \in Ticks : k > tickRuns' => jobTick'[k].at = "idle"
    BY <1>1, <1>2, <2>8, TickNumbers DEF TickInv, TicksTyped
  <2> QED
    BY <1>1, <2>1, <2>5, <2>9, <2>10, <2>11, <2>12 DEF TickInv
<1> QED
  BY <1>4, <1>5

\* appendCompanyActivity is the last call of a tick, whatever comes back.
LEMMA AppendKeeps ==
  ASSUME TickInv, NEW n \in Ticks, AppendActivity(n)
  PROVE  TickInv'
<1> DEFINE t == jobTick[n]
           over == [t EXCEPT !.at = "over"]
<1>1. /\ t.at = "log" /\ UNCHANGED <<time, tickRuns, expired>> /\ UNCHANGED <<sharing, memory, wrote, unaware>>
      /\ TickGoes(n, over) \/ TickGoes(n, AfterFailure(t))
  BY DEF AppendActivity, Sent, Waiting, TickAt, Answered
<1>2. activity' = Append(activity, n)
  BY DEF AppendActivity
<1>3. t \in JobTicks /\ TickFine(n, t) /\ n <= tickRuns /\ tickRuns \in tickRuns .. MaxTickRuns
  BY <1>1, TickStarted
<1>4. AfterFailure(t) = over
  BY <1>1 DEF AfterFailure
<1>5. over \in JobTicks /\ over.at = "over" /\ over.kind = t.kind /\ over.next = t.next /\ over.exit = t.exit
  BY <1>3 DEF JobTicks
<1> HIDE DEF over
<1> DEFINE u == Over(over)
<1>6. jobTick' = [jobTick EXCEPT ![n] = u]
  BY <1>1, <1>4, <1>5 DEF TickGoes
<1>7. u \in JobTicks /\ u.at = "over" /\ u.kind = t.kind /\ u.next = t.next /\ u.exit = t.exit
  BY <1>5, OverRecord
<1> HIDE DEF u
<1>8. \A k \in Ticks : jobTick'[k] = IF k = n THEN u ELSE jobTick[k]
  BY <1>6 DEF TickInv, TicksTyped
<1>9. /\ activity \in Seq(Ticks) /\ activity' \in Seq(Ticks) /\ Len(activity) \in Nat
      /\ DOMAIN activity' = DOMAIN activity \cup {Len(activity) + 1} /\ activity'[Len(activity) + 1] = n
      /\ \A i \in DOMAIN activity : activity'[i] = activity[i]
  BY <1>2 DEF TickInv, TicksTyped
<1>10. \A i \in DOMAIN activity : activity[i] # n
  BY <1>1, <1>3 DEF TickFine
<1>11. \A i, j \in DOMAIN activity' : i # j => activity'[i] # activity'[j]
  BY <1>9, <1>10 DEF TickInv
<1>12. TicksTyped'
  BY <1>1, <1>6, <1>7, <1>9 DEF TickInv, TicksTyped
<1>13. TickFine(n, jobTick[n])'
  BY <1>1, <1>3, <1>7, <1>8 DEF TickFine, TokenLasts
<1>14. ASSUME NEW k \in Ticks, k # n PROVE TickFine(k, jobTick[k])'
  <2>1. TickFine(k, jobTick[k]) /\ jobTick'[k] = jobTick[k]
    BY <1>8, <1>14 DEF TickInv
  <2> QED
    BY <1>1, <1>9, <1>14, <2>1 DEF TickFine, TokenLasts, Sees
<1>15. \A k \in Ticks : k > tickRuns' => jobTick'[k].at = "idle"
  BY <1>1, <1>3, <1>8, TickNumbers DEF TickInv, TicksTyped
<1> QED
  BY <1>1, <1>11, <1>12, <1>13, <1>14, <1>15 DEF TickInv, LedgerIsKept

\* Time passes, but not beyond the end of a call.
LEMMA JobTimeKeeps ==
  ASSUME TickInv, JobTimePasses
  PROVE  TickInv'
<1>1. /\ time < LastTime /\ time' = time + 1
      /\ \A n \in Ticks : Waiting(n) => time' - jobTick[n].asked <= CallTime
      /\ UNCHANGED <<jobTick, expired, tickRuns, sharing, memory, wrote, unaware, activity>>
  BY DEF JobTimePasses, Remembered
<1>2. TicksTyped'
  BY <1>1, TickNumbers DEF TickInv, TicksTyped
<1>3. ASSUME NEW n \in Ticks PROVE TickFine(n, jobTick[n])'
  <2>1. TickFine(n, jobTick[n])
    BY DEF TickInv
  <2>2. TokenLasts(jobTick[n])'
    BY <1>1, <2>1 DEF TickFine, TokenLasts, Waiting
  <2> QED
    BY <1>1, <2>1, <2>2 DEF TickFine, Sees
<1> QED
  BY <1>1, <1>2, <1>3 DEF TickInv, LedgerIsKept

\* Every step keeps what ticks rely on.
LEMMA TickStep ==
  ASSUME TickInv, [TicksNext]_tickVars
  PROVE  TickInv'
<1>1. CASE UNCHANGED tickVars
  BY <1>1 DEF tickVars, TickInv, TicksTyped, TickFine, TokenLasts, Sees, LedgerIsKept
<1>2. ASSUME NEW n \in Ticks, LoadJobFromFile(n) \/ RunTickScript(n) \/ LoadLiveAgent(n)
      PROVE  TickInv'
  BY <1>2, LoadsKeeps DEF LoadJobFromFile, RunTickScript, LoadLiveAgent
<1> QED
  BY <1>1, <1>2, StartKeeps, TakeTokenKeeps, CallRefusedKeeps, RequestLostKeeps, WorksKeeps, StoresKeeps,
     AppendKeeps, JobTimeKeeps
  DEF TicksNext

\* It holds at the start.
LEMMA TicksStart ==
  ASSUME TicksInit
  PROVE  TickInv
<1>1. /\ sharing \in TickKinds /\ memory \in {NoMemory, OldState}
      /\ jobTick = [n \in Ticks |-> NoJobTick] /\ wrote = {} /\ unaware = FALSE /\ activity = <<>>
      /\ expired = FALSE /\ time = 1 /\ tickRuns = 0
  BY DEF TicksInit
<1>2. NoJobTick \in JobTicks /\ NoJobTick.at = "idle" /\ NoMemory \in Memories /\ OldState \in Memories
  BY DEF NoJobTick, NoMemory, OldState, JobTicks, Memories
<1>3. TicksTyped
  <2>1. 1 \in 1 .. LastTime /\ 0 \in 0 .. MaxTickRuns
    BY TickNumbers
  <2>2. jobTick \in [Ticks -> JobTicks] /\ memory \in Memories
    BY <1>1, <1>2
  <2>3. activity \in Seq(Ticks)
    BY <1>1
  <2> QED
    BY <1>1, <2>1, <2>2, <2>3 DEF TicksTyped
<1>4. \A n \in Ticks : TickFine(n, jobTick[n]) /\ jobTick[n].at = "idle"
  BY <1>1, <1>2 DEF TickFine, TokenLasts
<1> QED
  BY <1>1, <1>3, <1>4 DEF TickInv, LedgerIsKept

\* The variables of the ticks have their types.
THEOREM TicksTypeCorrect == TicksSpec => []TicksTypeOK
<1>1. TickInv => TicksTypeOK
  <2> SUFFICES ASSUME TickInv PROVE TicksTypeOK
    OBVIOUS
  <2>1. \A n \in Ticks : jobTick[n] \in JobTicks
    BY DEF TickInv, TicksTyped
  <2> QED
    BY <2>1 DEF TickInv, TicksTyped, TicksTypeOK, JobTicks, Memories, Ticks
<1>2. TickInv /\ [TicksNext]_tickVars => TickInv'
  BY TickStep
<1> QED
  BY <1>1, <1>2, TicksStart, PTL DEF TicksSpec

\* What ticks of a capability store is not lost to one another, a tick that
\* ends well has stored its decision, each is logged once, and no token ends
\* while its call is under way: for any number of ticks, kinds that share a
\* state, times and faults (runTickScript, loadJobFromFile, writeJobStateFile,
\* saveLiveAgentState, githubOidcToken).
THEOREM TickStatesHoldEach == TicksSpec => []TickStatesHold
<1>1. TickInv /\ [TicksNext]_tickVars => TickInv'
  BY TickStep
<1>2. TickInv => TickStatesHold
  <2> SUFFICES ASSUME TickInv PROVE TickStatesHold
    OBVIOUS
  <2>1. \A n \in Ticks : TickAt(n, "over") /\ jobTick[n].exit = 0 /\ n \in jobTick[n].next => n \in wrote
    BY DEF TickInv, TickFine, TickAt
  <2> QED
    BY <2>1 DEF TickInv, TickStatesHold, TicksAreHonest, TokensLastTheirCall
<1> QED
  BY TicksStart, <1>1, <1>2, PTL DEF TicksSpec
-----------------------------------------------------------------------------
(* The proxies of a host.                                                  *)
Places == {"idle", "look", "ask", "wait", "use", "failed", "ended", "killed"}
ProxyRecord ==
  [id : Nat \ {0}, groups : {ServedGroups(UserModels[u]) : u \in ProxyUsers}, port : 1 .. ProxyPorts, is : {"booting", "up", "hung"}]
UserRecord == [at : Places, port : 1 .. ProxyPorts, child : 0 .. MaxProxies, older : SUBSET Nat, again : BOOLEAN]
ProxiesTyped ==
  /\ proxies \in SUBSET ProxyRecord /\ proxyUser \in [ProxyUsers -> UserRecord] /\ proxyCount \in 0 .. MaxProxies
Listens(x) == x.is \in {"up", "hung"}
ProxiesDiffer ==
  /\ \A x, y \in proxies : x.id = y.id => x = y
  /\ \A x \in proxies : x.id <= proxyCount
  /\ \A x, y \in proxies : x.port = y.port /\ Listens(x) /\ Listens(y) => x = y
\* What a session knows of the proxies: those that were up when it looked listen
\* on the first port, if they still run, and one it works through serves it.
SessionKnows(all, u, s) ==
  /\ s.at \in {"idle", "look", "ask"} => s.child = 0 /\ s.port = 1
  /\ s.at \in {"idle", "look"} => s.older = {}
  /\ \A x \in all : x.id \in s.older => Listens(x) /\ x.port = 1
  /\ s.at \in {"wait", "use"} =>
       \A x \in all : x.port = s.port /\ x.is = "up" /\ x.id \in s.older => NeededGroups(UserModels[u]) \subseteq x.groups
IdsAreKnown == \A u \in ProxyUsers : \A n \in proxyUser[u].older : n <= proxyCount
ProxyInv ==
  /\ ProxiesTyped /\ ProxiesDiffer /\ NoProxyIsLeft /\ IdsAreKnown
  /\ \A u \in ProxyUsers : SessionKnows(proxies, u, proxyUser[u])

LEMMA IdleUser ==
  NoProxyUser \in UserRecord /\ NoProxyUser.older = {} /\ NoProxyUser.child = 0 /\ NoProxyUser.port = 1 /\ NoProxyUser.at = "idle"
BY ProxyAssumption DEF NoProxyUser, UserRecord, Places

LEMMA ProxiesStart == ProxiesInit => ProxyInv
<1> SUFFICES ASSUME ProxiesInit PROVE ProxyInv
  OBVIOUS
<1>2. proxies = {} /\ proxyCount = 0 /\ \A u \in ProxyUsers : proxyUser[u] = NoProxyUser
  BY DEF ProxiesInit
<1>3. ProxiesTyped
  BY IdleUser, ProxyAssumption DEF ProxiesInit, ProxiesTyped
<1>4. \A u \in ProxyUsers : SessionKnows(proxies, u, proxyUser[u])
  BY <1>2 DEF SessionKnows, NoProxyUser
<1>5. IdsAreKnown
  BY <1>2 DEF IdsAreKnown, NoProxyUser
<1> QED
  BY <1>2, <1>3, <1>4, <1>5 DEF ProxyInv, ProxiesDiffer, NoProxyIsLeft

\* A session goes on, with proxies gone that were its own.
LEMMA SessionGoesOn ==
  ASSUME ProxyInv, NEW u \in ProxyUsers, NEW s \in UserRecord, UserGoes(u, s), proxies' \subseteq proxies, UNCHANGED proxyCount,
         SessionKnows(proxies', u, s), \A n \in s.older : n <= proxyCount,
         s.child # proxyUser[u].child => \A x \in proxies' : x.id = proxyUser[u].child => x.is = "hung"
  PROVE  ProxyInv'
<1>1. /\ ProxiesTyped' /\ proxyUser'[u] = s /\ \A v \in ProxyUsers : v # u => proxyUser'[v] = proxyUser[v]
  BY DEF ProxyInv, ProxiesTyped, UserGoes
<1>2. ProxiesDiffer'
  BY DEF ProxyInv, ProxiesDiffer
<1>3. NoProxyIsLeft'
  <2> SUFFICES ASSUME NEW x \in proxies', x.is # "hung" PROVE \E v \in ProxyUsers : x.id = proxyUser'[v].child
    BY DEF NoProxyIsLeft
  <2>1. PICK v \in ProxyUsers : x.id = proxyUser[v].child
    BY DEF ProxyInv, NoProxyIsLeft
  <2> QED
    BY <1>1, <2>1
<1>4. IdsAreKnown'
  BY <1>1 DEF ProxyInv, IdsAreKnown
<1>5. ASSUME NEW v \in ProxyUsers PROVE SessionKnows(proxies', v, proxyUser'[v])
  BY <1>1 DEF ProxyInv, SessionKnows
<1>6. \A v \in ProxyUsers : SessionKnows(proxies, v, proxyUser[v])'
  BY <1>5 DEF SessionKnows
<1> QED
  BY <1>1, <1>2, <1>3, <1>4, <1>6 DEF ProxyInv

\* A session starts a proxy in the place of its own.
LEMMA SessionSpawns ==
  ASSUME ProxyInv, NEW u \in ProxyUsers, NEW port \in 1 .. ProxyPorts, NEW again \in BOOLEAN,
         SpawnOn(u, port, Without({proxyUser[u].child}), again),
         \A x \in proxies : x.port = port /\ x.is = "up" /\ x.id \in proxyUser[u].older => NeededGroups(UserModels[u]) \subseteq x.groups
  PROVE  ProxyInv'
<1> DEFINE n == proxyCount + 1
           fresh == [id |-> n, groups |-> ServedGroups(UserModels[u]), port |-> port, is |-> "booting"]
           s == [proxyUser[u] EXCEPT !.at = "wait", !.port = port, !.child = n, !.again = again]
           rest == Without({proxyUser[u].child})
<1>1. /\ proxyCount' = n /\ proxies' = rest \cup {fresh} /\ UserGoes(u, s) /\ proxyCount < MaxProxies
  BY DEF SpawnOn
<1>2. /\ proxyUser[u] \in UserRecord /\ proxyCount \in 0 .. MaxProxies /\ MaxProxies \in Nat /\ n \in 1 .. MaxProxies
      /\ rest \subseteq proxies /\ \A x \in rest : x.id # proxyUser[u].child
  BY <1>1, ProxyAssumption DEF ProxyInv, ProxiesTyped, Without
<1>3. fresh \in ProxyRecord /\ fresh.id = n /\ fresh.port = port /\ fresh.is = "booting" /\ ~Listens(fresh)
  <2> DEFINE groups == ServedGroups(UserModels[u])
             All == {ServedGroups(UserModels[v]) : v \in ProxyUsers}
  <2>1. groups \in All /\ fresh = [id |-> n, groups |-> groups, port |-> port, is |-> "booting"]
    OBVIOUS
  <2>2. ProxyRecord = [id : Nat \ {0}, groups : All, port : 1 .. ProxyPorts, is : {"booting", "up", "hung"}]
    BY DEF ProxyRecord
  <2> HIDE DEF groups, All, fresh
  <2>3. n \in Nat \ {0}
    BY <1>2
  <2> QED
    BY <2>1, <2>2, <2>3 DEF Listens
<1>4. s \in UserRecord /\ s.at = "wait" /\ s.port = port /\ s.child = n /\ s.older = proxyUser[u].older
  <2>1. "wait" \in Places /\ n \in 0 .. MaxProxies
    BY <1>2 DEF Places
  <2> HIDE DEF n
  <2> QED
    BY <1>2, <2>1 DEF UserRecord
<1> HIDE DEF fresh, s, rest
<1>5. /\ ProxiesTyped' /\ proxyUser'[u] = s /\ \A v \in ProxyUsers : v # u => proxyUser'[v] = proxyUser[v]
  BY <1>1, <1>2, <1>3, <1>4 DEF ProxyInv, ProxiesTyped, UserGoes
<1>6. \A x \in proxies : x.id \in Nat /\ x.id <= proxyCount /\ x.id # n
  BY <1>2 DEF ProxyInv, ProxiesTyped, ProxiesDiffer, ProxyRecord
<1>7. ProxiesDiffer'
  BY <1>1, <1>2, <1>3, <1>6 DEF ProxyInv, ProxiesDiffer
<1>8. NoProxyIsLeft'
  <2> SUFFICES ASSUME NEW x \in proxies', x.is # "hung" PROVE \E v \in ProxyUsers : x.id = proxyUser'[v].child
    BY DEF NoProxyIsLeft
  <2>1. CASE x = fresh
    BY <1>3, <1>4, <1>5, <2>1
  <2>2. CASE x \in rest
    <3>1. PICK v \in ProxyUsers : x.id = proxyUser[v].child
      BY <1>2, <2>2 DEF ProxyInv, NoProxyIsLeft
    <3> QED
      BY <1>2, <1>5, <2>2, <3>1
  <2> QED
    BY <1>1, <2>1, <2>2
<1>9. \A v \in ProxyUsers : \A k \in proxyUser[v].older : k \in Nat /\ k <= proxyCount /\ k # n
  BY <1>2 DEF ProxyInv, IdsAreKnown, ProxiesTyped, UserRecord
<1>10. IdsAreKnown'
  BY <1>1, <1>2, <1>4, <1>5, <1>9 DEF IdsAreKnown
<1>11. ASSUME NEW v \in ProxyUsers PROVE SessionKnows(proxies', v, proxyUser'[v])
  <2>1. CASE v = u
    <3>1. \A x \in proxies' : x.id \in s.older => x \in proxies
      BY <1>1, <1>2, <1>3, <1>4, <1>9
    <3> QED
      BY <1>4, <1>5, <2>1, <3>1 DEF ProxyInv, SessionKnows
  <2>2. CASE v # u
    <3>1. \A x \in proxies' : x.id \in proxyUser[v].older => x \in proxies
      BY <1>1, <1>2, <1>3, <1>9
    <3>2. SessionKnows(proxies', v, proxyUser[v])
      BY <3>1 DEF ProxyInv, SessionKnows
    <3> QED
      BY <1>5, <2>2, <3>2
  <2> QED
    BY <2>1, <2>2
<1>12. \A v \in ProxyUsers : SessionKnows(proxies, v, proxyUser[v])'
  BY <1>11 DEF SessionKnows
<1> QED
  BY <1>5, <1>7, <1>8, <1>10, <1>12 DEF ProxyInv

\* A proxy changes: it boots into a free port, hangs, or is gone.
LEMMA ProxyChanges ==
  ASSUME ProxyInv, NEW x \in proxies, UNCHANGED <<proxyUser, proxyCount>>, NEW is \in {"up", "hung"},
         \/ proxies' = proxies \ {x}
         \/ /\ proxies' = (proxies \ {x}) \cup {[x EXCEPT !.is = is]}
            /\ (x.is = "up" /\ is = "hung") \/ (x.is = "booting" /\ is = "up" /\ Bound(x.port) = {})
  PROVE  ProxyInv'
<1>1. CASE proxies' = proxies \ {x}
  BY <1>1 DEF ProxyInv, ProxiesTyped, ProxiesDiffer, NoProxyIsLeft, IdsAreKnown, SessionKnows
<1>2. CASE /\ proxies' = (proxies \ {x}) \cup {[x EXCEPT !.is = is]}
           /\ (x.is = "up" /\ is = "hung") \/ (x.is = "booting" /\ is = "up" /\ Bound(x.port) = {})
  <2> DEFINE y == [x EXCEPT !.is = is]
  <2>1. x \in ProxyRecord
    BY DEF ProxyInv, ProxiesTyped
  <2>2. y \in ProxyRecord /\ y.id = x.id /\ y.port = x.port /\ y.groups = x.groups /\ y.is = is /\ Listens(y)
    BY <2>1 DEF ProxyRecord, Listens
  <2>3. proxies' = (proxies \ {x}) \cup {y}
    BY <1>2
  <2> HIDE DEF y
  <2>4. ProxiesTyped'
    BY <2>2, <2>3 DEF ProxyInv, ProxiesTyped
  <2>5. \A z \in proxies : z # x /\ z.port = x.port => ~Listens(z)
    BY <1>2 DEF ProxyInv, ProxiesDiffer, Listens, Bound
  <2>6. ProxiesDiffer'
    BY <2>2, <2>3, <2>5 DEF ProxyInv, ProxiesDiffer
  <2>7. NoProxyIsLeft'
    BY <1>2, <2>2, <2>3 DEF ProxyInv, NoProxyIsLeft
  <2>8. \A v \in ProxyUsers : SessionKnows(proxies, v, proxyUser[v])'
    <3> SUFFICES ASSUME NEW v \in ProxyUsers PROVE SessionKnows(proxies', v, proxyUser[v])
      BY DEF SessionKnows
    <3>1. SessionKnows(proxies, v, proxyUser[v])
      BY DEF ProxyInv
    <3>2. x.id \in proxyUser[v].older => Listens(x) /\ y.is = "hung"
      BY <1>2, <2>2, <3>1 DEF SessionKnows, Listens
    <3> QED
      BY <2>2, <2>3, <3>1, <3>2 DEF SessionKnows
  <2> QED
    BY <2>4, <2>6, <2>7, <2>8 DEF ProxyInv, IdsAreKnown
<1> QED
  BY <1>1, <1>2

\* Nobody's child is 0.
LEMMA NoChild ==
  ASSUME ProxyInv, NEW u \in ProxyUsers, proxyUser[u].child = 0
  PROVE  Without({proxyUser[u].child}) = proxies
BY DEF ProxyInv, ProxiesTyped, ProxyRecord, Without

\* Ids tell proxies apart, and children sessions: a session's child is its own,
\* so who kills it leaves every other with an owner.
LEMMA ProxyTypes ==
  ASSUME ProxyInv, NEW u \in ProxyUsers
  PROVE  /\ proxyUser[u] \in UserRecord /\ proxies \subseteq ProxyRecord /\ SessionKnows(proxies, u, proxyUser[u])
         /\ \A n \in proxyUser[u].older : n <= proxyCount
BY DEF ProxyInv, ProxiesTyped, IdsAreKnown

LEMMA ProxyIsResolved ==
  ASSUME ProxyInv, NEW u \in ProxyUsers, ResolveLitellm(u)
  PROVE  ProxyInv'
<1>1. PICK at \in {"look", "failed"} : UserGoes(u, [NoProxyUser EXCEPT !.at = at])
  BY DEF ResolveLitellm
<1> DEFINE s == [NoProxyUser EXCEPT !.at = at]
<1>2. s \in UserRecord /\ s.older = {} /\ s.child = 0 /\ s.port = 1 /\ s.at = at
  <2>1. at \in Places
    BY DEF Places
  <2> QED
    BY <2>1, IdleUser DEF UserRecord
<1>3. proxyUser[u].child = 0 /\ UNCHANGED <<proxies, proxyCount>>
  BY ProxyTypes DEF SessionKnows, ResolveLitellm, UserAt
<1> HIDE DEF s
<1>4. SessionKnows(proxies', u, s)
  BY <1>2 DEF SessionKnows
<1> QED
  BY <1>1, <1>2, <1>3, <1>4, SessionGoesOn DEF s

LEMMA ProxyIsLookedFor ==
  ASSUME ProxyInv, NEW u \in ProxyUsers, LookForProxy(u)
  PROVE  ProxyInv'
<1>1. /\ proxyUser[u] \in UserRecord /\ proxyUser[u].child = 0 /\ proxyUser[u].port = 1 /\ proxyUser[u].older = {}
      /\ 1 \in 1 .. ProxyPorts
  BY ProxyTypes, ProxyAssumption DEF SessionKnows, LookForProxy, UserAt
<1>2. CASE Healthy(u)
  <2> DEFINE up == {x.id : x \in Up(1)}
             s == [proxyUser[u] EXCEPT !.at = "ask", !.older = up]
  <2>1. UserGoes(u, s) /\ UNCHANGED <<proxies, proxyCount>>
    BY <1>2 DEF LookForProxy
  <2>2. up \in SUBSET Nat /\ \A n \in up : n <= proxyCount
    BY ProxyTypes DEF Up, ProxyInv, ProxiesDiffer, ProxyRecord
  <2>3. \A x \in proxies : x.id \in up => Listens(x) /\ x.port = 1
    BY DEF Up, ProxyInv, ProxiesDiffer, Listens
  <2> HIDE DEF up
  <2>4. s \in UserRecord /\ s.older = up /\ s.child = 0 /\ s.port = 1 /\ s.at = "ask"
    BY <1>1, <2>2 DEF UserRecord, Places
  <2> HIDE DEF s
  <2>5. SessionKnows(proxies', u, s)
    BY <2>1, <2>3, <2>4 DEF SessionKnows
  <2> QED
    BY <1>1, <2>1, <2>2, <2>4, <2>5, SessionGoesOn
<1>3. CASE ~Healthy(u)
  <2>1. SpawnOn(u, 1, proxies, FALSE)
    BY <1>3 DEF LookForProxy
  <2>2. SpawnOn(u, 1, Without({proxyUser[u].child}), FALSE)
    BY <1>1, <2>1, NoChild
  <2> QED
    BY <1>1, <2>2, SessionSpawns
<1> QED
  BY <1>2, <1>3

\* The first free port beyond the first.
LEMMA FirstFreePort ==
  ASSUME FreePorts # {}
  PROVE  (CHOOSE n \in FreePorts : \A k \in FreePorts : n <= k) \in FreePorts
<1>1. FreePorts \in SUBSET Nat
  BY DEF FreePorts
<1>2. \E n \in FreePorts : \A k \in FreePorts : n <= k
  BY <1>1, LeastNumber
<1> QED
  BY <1>2

\* One proxy listens on a port: when one there serves, whoever is up there does.
LEMMA ProxyIsAsked ==
  ASSUME ProxyInv, NEW u \in ProxyUsers, AskProxy(u)
  PROVE  ProxyInv'
<1>1. /\ proxyUser[u] \in UserRecord /\ proxyUser[u].child = 0 /\ proxyUser[u].port = 1
      /\ \A n \in proxyUser[u].older : n <= proxyCount
      /\ \A x \in proxies : x.id \in proxyUser[u].older => Listens(x) /\ x.port = 1
  BY ProxyTypes DEF SessionKnows, AskProxy, UserAt
<1>2. ASSUME NEW at \in {"use", "failed"}, UserGoes(u, [proxyUser[u] EXCEPT !.at = at]), UNCHANGED <<proxies, proxyCount>>,
             at = "use" => Serves(u, 1)
      PROVE  ProxyInv'
  <2> DEFINE s == [proxyUser[u] EXCEPT !.at = at]
  <2>1. s \in UserRecord /\ s.at = at /\ s.child = 0 /\ s.port = 1 /\ s.older = proxyUser[u].older
    BY <1>1 DEF UserRecord, Places
  <2> HIDE DEF s
  <2>2. at = "use" => \A x \in proxies : x.port = 1 /\ x.is = "up" => NeededGroups(UserModels[u]) \subseteq x.groups
    BY <1>2 DEF Serves, Up, ProxyInv, ProxiesDiffer, Listens
  <2>3. SessionKnows(proxies', u, s)
    BY <1>1, <1>2, <2>1, <2>2 DEF SessionKnows
  <2> QED
    BY <1>1, <1>2, <2>1, <2>3, SessionGoesOn DEF s
<1>3. CASE Serves(u, 1) \/ FreePorts = {}
  BY <1>2, <1>3 DEF AskProxy
<1>4. CASE ~Serves(u, 1) /\ FreePorts # {}
  <2> DEFINE port == CHOOSE n \in FreePorts : \A k \in FreePorts : n <= k
  <2>1. port \in FreePorts /\ SpawnOn(u, port, proxies, FALSE)
    BY <1>4, FirstFreePort DEF AskProxy
  <2> HIDE DEF port
  <2>2. port \in 1 .. ProxyPorts /\ port # 1
    BY <2>1, ProxyAssumption DEF FreePorts
  <2> QED
    BY <1>1, <2>1, <2>2, NoChild, SessionSpawns
<1> QED
  BY <1>3, <1>4

\* A session that waits, or works, goes on with what it knows.
LEMMA SessionMoves ==
  ASSUME ProxyInv, NEW u \in ProxyUsers, UserAt(u, "wait") \/ UserAt(u, "use"), UNCHANGED <<proxies, proxyCount>>,
         NEW at \in {"use", "killed"}, UserGoes(u, [proxyUser[u] EXCEPT !.at = at])
  PROVE  ProxyInv'
<1> DEFINE s == [proxyUser[u] EXCEPT !.at = at]
<1>1. proxyUser[u] \in UserRecord /\ SessionKnows(proxies, u, proxyUser[u]) /\ \A n \in proxyUser[u].older : n <= proxyCount
  BY ProxyTypes
<1>2. /\ s \in UserRecord /\ s.at = at /\ s.child = proxyUser[u].child /\ s.port = proxyUser[u].port
      /\ s.older = proxyUser[u].older
  BY <1>1 DEF UserRecord, Places
<1> HIDE DEF s
<1>3. SessionKnows(proxies', u, s)
  BY <1>1, <1>2 DEF SessionKnows, UserAt
<1> QED
  BY <1>1, <1>2, <1>3, SessionGoesOn DEF s

\* A session gives its proxy up: it is gone, or hangs.
LEMMA SessionGivesUp ==
  ASSUME ProxyInv, NEW u \in ProxyUsers, NEW at \in {"failed", "ended"}, UNCHANGED proxyCount,
         UserGoes(u, [proxyUser[u] EXCEPT !.at = at, !.child = 0]),
         \/ proxies' = Without({proxyUser[u].child})
         \/ UNCHANGED proxies /\ \E x \in proxies : x.id = proxyUser[u].child /\ x.is = "hung"
  PROVE  ProxyInv'
<1> DEFINE s == [proxyUser[u] EXCEPT !.at = at, !.child = 0]
<1>1. proxyUser[u] \in UserRecord /\ SessionKnows(proxies, u, proxyUser[u]) /\ \A n \in proxyUser[u].older : n <= proxyCount
  BY ProxyTypes
<1>2. s \in UserRecord /\ s.at = at /\ s.port = proxyUser[u].port /\ s.older = proxyUser[u].older
  <2>1. at \in Places /\ 0 \in 0 .. MaxProxies
    BY ProxyAssumption DEF Places
  <2> QED
    BY <1>1, <2>1 DEF UserRecord
<1> HIDE DEF s
<1>3. proxies' \subseteq proxies /\ \A x \in proxies' : x.id = proxyUser[u].child => x.is = "hung"
  BY DEF Without, ProxyInv, ProxiesDiffer
<1>4. SessionKnows(proxies', u, s)
  BY <1>1, <1>2, <1>3 DEF SessionKnows
<1> QED
  BY <1>1, <1>2, <1>3, <1>4, SessionGoesOn DEF s

LEMMA ProxyIsRestarted ==
  ASSUME ProxyInv, NEW u \in ProxyUsers, EnsureHealthy(u)
  PROVE  ProxyInv'
<1>1. proxyUser[u].port \in 1 .. ProxyPorts /\ SessionKnows(proxies, u, proxyUser[u])
  BY ProxyTypes DEF UserRecord
<1> QED
  BY <1>1, SessionSpawns DEF EnsureHealthy, UserAt, SessionKnows

LEMMA ProxyLives ==
  ASSUME ProxyInv, NEW x \in proxies, ProxyBoots(x) \/ ProxyBreaks(x)
  PROVE  ProxyInv'
<1>1. CASE ProxyBoots(x) /\ Bound(x.port) = {}
  BY <1>1, ProxyChanges DEF ProxyBoots
<1>2. CASE ProxyBoots(x) /\ Bound(x.port) # {}
  <2>1. proxies' = proxies \ {x}
    BY <1>2 DEF ProxyBoots
  <2> QED
    BY <1>2, <2>1, ProxyChanges DEF ProxyBoots
<1>3. CASE ProxyBreaks(x)
  BY <1>3, ProxyChanges DEF ProxyBreaks
<1> QED
  BY <1>1, <1>2, <1>3

\* In every state of sessions that start, find, lose and end proxies, ids are
\* unique, a port has one listener, and a session knows what it works through.
THEOREM ProxyInvariance == ModelProxySpec => []ProxyInv
<1>1. ProxyInv /\ [ModelProxyNext]_proxyVars => ProxyInv'
  <2> SUFFICES ASSUME ProxyInv, [ModelProxyNext]_proxyVars PROVE ProxyInv'
    OBVIOUS
  <2>1. ASSUME NEW u \in ProxyUsers, WaitForHealth(u) \/ WaitedAgainInVain(u) \/ UserKilled(u) PROVE ProxyInv'
    BY <2>1, SessionMoves DEF WaitForHealth, WaitedAgainInVain, UserKilled, UserAt
  <2>2. ASSUME NEW u \in ProxyUsers, WaitedInVain(u) \/ EndProxyUse(u) PROVE ProxyInv'
    BY <2>2, SessionGivesUp DEF WaitedInVain, EndProxyUse
  <2>3. ASSUME UNCHANGED proxyVars PROVE ProxyInv'
    BY <2>3 DEF proxyVars, ProxyInv, ProxiesTyped, ProxiesDiffer, NoProxyIsLeft, IdsAreKnown, SessionKnows
  <2> QED
    BY <2>1, <2>2, <2>3, ProxyIsResolved, ProxyIsLookedFor, ProxyIsAsked, ProxyIsRestarted, ProxyLives DEF ModelProxyNext
<1> QED
  BY <1>1, ProxiesStart, PTL DEF ModelProxySpec

\* THEOREM: proxies and sessions keep their types, and a port has one listener
\* (ModelProxyTypeOK).
THEOREM ModelProxyTypeCorrect == ModelProxySpec => []ModelProxyTypeOK
<1>1. ProxyInv => ModelProxyTypeOK
  <2> SUFFICES ASSUME ProxyInv, NEW n \in 1 .. ProxyPorts PROVE Cardinality(Bound(n)) <= 1
    BY DEF ProxyInv, ProxiesTyped, UserRecord, ModelProxyTypeOK
  <2>1. \A x, y \in Bound(n) : x = y
    BY DEF Bound, ProxyInv, ProxiesDiffer, Listens
  <2>2. CASE Bound(n) = {}
    BY <2>2, FS_EmptySet
  <2>3. CASE Bound(n) # {}
    <3>1. PICK x : Bound(n) = {x}
      BY <2>1, <2>3
    <3> QED
      BY <3>1, FS_Singleton
  <2> QED
    BY <2>2, <2>3
<1> QED
  BY <1>1, ProxyInvariance, PTL

\* THEOREM: a proxy that was up before a session looked serves it when the session
\* works through it, and only a killed session's or a hung proxy has no owner
\* (ProxiesHold), for any sessions, models, ports and faults.
THEOREM ProxiesHoldEach == ModelProxySpec => []ProxiesHold
<1>1. ProxyInv => ProxiesHold
  BY DEF ProxyInv, ProxiesHold, ReusedProxyServes, SessionKnows, UserAt, Up
<1> QED
  BY <1>1, ProxyInvariance, PTL
-----------------------------------------------------------------------------
(* The chats of a codex app-server.                                        *)
CodexPlaces == {"idle", "initialize", "resume", "start", "turn", "hung"}
ThreadOrNone == 0 .. MaxThreads
CodexState == [at : CodexPlaces, n : Nat, read : [CodexSessions -> ThreadOrNone], thread : ThreadOrNone, got : SUBSET Nat]
CodexHistory ==
  [threads : ThreadOrNone, faults : Nat, first : [CodexSessions -> ThreadOrNone], strayed : SUBSET Threads,
   moved : SUBSET CodexSessions]
CodexTyped ==
  /\ codexClient \in [is : {"none", "up", "dead"}, ready : BOOLEAN]
  /\ threadMap \in [CodexSessions -> ThreadOrNone] /\ turnWaiters \in [Threads -> CodexSessions \cup {NoOne}]
  /\ codexTurn \in [CodexSessions -> CodexState] /\ codexWork \in SUBSET [thread : Threads, n : Nat]
  /\ codexPast \in CodexHistory

\* A thread is of one session, in the file, in every copy of it, and at the
\* server.
OwnsThread(map, turns, s, t) ==
  map[s] = t \/ (\E x \in CodexSessions : turns[x].read[s] = t) \/ (turns[s].at = "turn" /\ turns[s].thread = t)
ThreadsAreOwn ==
  \A t \in Threads : \A s \in CodexSessions : OwnsThread(threadMap, codexTurn, s, t) =>
    t <= codexPast.threads /\ \A r \in CodexSessions : OwnsThread(threadMap, codexTurn, r, t) => r = s

\* Who waits for a thread is at its turn there, and work on a thread that was
\* never given up is that turn's.
WaitersAreAtTurns ==
  \A s \in CodexSessions :
    /\ \A t \in Threads : turnWaiters[t] = s <=> TurnAt(s, "turn") /\ codexTurn[s].thread = t
    /\ TurnAt(s, "turn") => /\ codexTurn[s].thread \in Threads /\ \E w \in codexWork : w.thread = codexTurn[s].thread
                            /\ codexTurn[s].thread \notin codexPast.strayed => codexTurn[s].got \subseteq {codexTurn[s].n}
    /\ ~TurnAt(s, "turn") => codexTurn[s].got = {}
WorkIsWaitedFor ==
  \A w \in codexWork : w.thread \notin codexPast.strayed =>
    \E s \in CodexSessions : turnWaiters[w.thread] = s /\ w.n = codexTurn[s].n

\* What a session knows of its first thread.
KnowsThread(past, map, s, m) ==
  /\ s \notin past.moved => map[s] = past.first[s]
  /\ m.at \in {"initialize", "resume", "start"} /\ s \notin past.moved => m.read[s] = past.first[s]
  /\ m.at = "start" /\ m.read[s] # 0 => s \in past.moved
  /\ m.at = "resume" => m.read[s] # 0
  /\ m.at = "turn" => m.thread = past.first[s] \/ s \in past.moved
OnlyDeadHang == \A s \in CodexSessions : TurnAt(s, "hung") => codexClient.is = "dead"
CodexInv ==
  /\ CodexTyped /\ ThreadsAreOwn /\ WaitersAreAtTurns /\ WorkIsWaitedFor /\ RepliesAreTheirTurns /\ OnlyDeadHang
  /\ \A s \in CodexSessions : KnowsThread(codexPast, threadMap, s, codexTurn[s])

LEMMA IdleChat ==
  ASSUME NEW n \in Nat
  PROVE  /\ IdleTurn(n) \in CodexState /\ IdleTurn(n).at = "idle" /\ IdleTurn(n).n = n /\ IdleTurn(n).got = {}
         /\ \A s \in CodexSessions : IdleTurn(n).read[s] = 0
         /\ \A past, map, s : (s \notin past.moved => map[s] = past.first[s]) => KnowsThread(past, map, s, IdleTurn(n))
<1>1. NoThreads \in [CodexSessions -> ThreadOrNone] /\ 0 \in ThreadOrNone
  BY CodexAssumption DEF NoThreads, ThreadOrNone
<1>2. IdleTurn(n) \in CodexState /\ IdleTurn(n).at = "idle" /\ IdleTurn(n).n = n /\ IdleTurn(n).got = {} /\ IdleTurn(n).read = NoThreads
  BY <1>1 DEF IdleTurn, CodexState, CodexPlaces
<1> HIDE DEF IdleTurn
<1> QED
  BY <1>2 DEF NoThreads, KnowsThread

LEMMA ChatTypes ==
  ASSUME CodexInv, NEW s \in CodexSessions
  PROVE  /\ codexTurn[s] \in CodexState /\ codexPast \in CodexHistory /\ threadMap \in [CodexSessions -> ThreadOrNone]
         /\ KnowsThread(codexPast, threadMap, s, codexTurn[s]) /\ s # NoOne
BY CodexAssumption DEF CodexInv, CodexTyped

LEMMA ChatsStart == CodexInit => CodexInv
<1> SUFFICES ASSUME CodexInit PROVE CodexInv
  OBVIOUS
<1>1. /\ codexTurn = [s \in CodexSessions |-> IdleTurn(0)] /\ codexWork = {} /\ codexReplies = {} /\ threadMap = NoThreads
      /\ turnWaiters = [t \in Threads |-> NoOne] /\ codexClient = [is |-> "none", ready |-> FALSE]
      /\ codexPast = [threads |-> 0, faults |-> 0, first |-> NoThreads, strayed |-> {}, moved |-> {}]
  BY DEF CodexInit
<1>2. NoThreads \in [CodexSessions -> ThreadOrNone] /\ 0 \in ThreadOrNone /\ \A s \in CodexSessions : NoThreads[s] = 0
  BY CodexAssumption DEF NoThreads, ThreadOrNone
<1>3. codexPast \in CodexHistory
  BY <1>1, <1>2 DEF CodexHistory
<1>4. CodexTyped
  BY <1>1, <1>2, <1>3, IdleChat DEF CodexTyped
<1>5. \A s \in CodexSessions : codexTurn[s] = IdleTurn(0) /\ threadMap[s] = 0 /\ codexPast.first[s] = 0
  BY <1>1, <1>2
<1>6. ThreadsAreOwn
  BY <1>5, IdleChat DEF ThreadsAreOwn, OwnsThread, Threads
<1>7. WaitersAreAtTurns /\ OnlyDeadHang
  BY <1>1, <1>5, IdleChat, CodexAssumption DEF WaitersAreAtTurns, OnlyDeadHang, TurnAt
<1>8. \A s \in CodexSessions : KnowsThread(codexPast, threadMap, s, codexTurn[s])
  BY <1>5, IdleChat
<1> QED
  BY <1>1, <1>4, <1>6, <1>7, <1>8 DEF CodexInv, WorkIsWaitedFor, RepliesAreTheirTurns

\* A chat that is not at its turn asks on, or ends.
LEMMA ChatAsks ==
  ASSUME CodexInv, NEW s \in CodexSessions, NEW m \in CodexState, codexTurn' = [codexTurn EXCEPT ![s] = m],
         ~TurnAt(s, "turn"), m.at # "turn", m.got = {}, UNCHANGED <<threadMap, turnWaiters, codexWork, codexReplies>>,
         \A r \in CodexSessions : m.read[r] \in {0, threadMap[r], codexTurn[s].read[r]},
         NEW moved \in SUBSET {s}, codexPast' \in CodexHistory, codexPast'.threads = codexPast.threads,
         codexPast'.first = codexPast.first, codexPast'.strayed = codexPast.strayed, codexPast'.moved = codexPast.moved \cup moved,
         KnowsThread(codexPast', threadMap, s, m),
         codexClient' \in [is : {"none", "up", "dead"}, ready : BOOLEAN],
         codexClient.is = "dead" \/ m.at = "hung" => codexClient'.is = "dead"
  PROVE  CodexInv'
<1>1. codexTurn'[s] = m /\ \A r \in CodexSessions : r # s => codexTurn'[r] = codexTurn[r]
  BY DEF CodexInv, CodexTyped
<1>2. CodexTyped'
  BY DEF CodexInv, CodexTyped
<1>3. ASSUME NEW r \in CodexSessions, NEW t \in Threads, OwnsThread(threadMap, codexTurn', r, t)
      PROVE  OwnsThread(threadMap, codexTurn, r, t)
  <2>1. t # 0
    BY DEF Threads
  <2>2. CASE \E x \in CodexSessions : codexTurn'[x].read[r] = t
    BY <1>1, <2>1, <2>2 DEF OwnsThread
  <2>3. CASE threadMap[r] = t \/ (codexTurn'[r].at = "turn" /\ codexTurn'[r].thread = t)
    BY <1>1, <2>3 DEF OwnsThread
  <2> QED
    BY <1>3, <2>2, <2>3 DEF OwnsThread
<1>4. ThreadsAreOwn'
  BY <1>3 DEF CodexInv, ThreadsAreOwn
<1>5. WaitersAreAtTurns'
  BY <1>1 DEF CodexInv, WaitersAreAtTurns, TurnAt
<1>6. WorkIsWaitedFor'
  BY <1>1 DEF CodexInv, WorkIsWaitedFor, WaitersAreAtTurns, TurnAt, CodexTyped
<1>7. OnlyDeadHang'
  BY <1>1 DEF CodexInv, OnlyDeadHang, TurnAt
<1>8. \A r \in CodexSessions : KnowsThread(codexPast, threadMap, r, codexTurn[r])'
  <2> SUFFICES ASSUME NEW r \in CodexSessions PROVE KnowsThread(codexPast', threadMap, r, codexTurn'[r])
    BY DEF KnowsThread
  <2>1. CASE r = s
    BY <1>1, <2>1
  <2>2. CASE r # s
    BY <1>1, <2>2 DEF CodexInv, KnowsThread
  <2> QED
    BY <2>1, <2>2
<1> QED
  BY <1>2, <1>4, <1>5, <1>6, <1>7, <1>8 DEF CodexInv, RepliesAreTheirTurns

\* A chat's turn begins, in its own thread or in a new one.
LEMMA ChatRuns ==
  ASSUME CodexInv, NEW s \in CodexSessions, NEW t \in Threads, RunTurn(s, t), codexTurn[s].at \in {"resume", "start"},
         UNCHANGED <<codexClient, codexReplies>>, threadMap' \in [CodexSessions -> ThreadOrNone], codexPast' \in CodexHistory,
         codexPast'.strayed = codexPast.strayed,
         \/ t = codexTurn[s].read[s] /\ codexPast'.threads = codexPast.threads
         \/ t = codexPast.threads + 1 /\ codexPast'.threads = t,
         \A r \in CodexSessions : threadMap'[r] \in {threadMap[r], codexTurn[s].read[r]} \/ (r = s /\ threadMap'[r] = t),
         \A r \in CodexSessions \ {s} : codexPast'.first[r] = codexPast.first[r] /\
           (r \notin codexPast'.moved => r \notin codexPast.moved /\ threadMap'[r] = threadMap[r]),
         \A r \in CodexSessions : r \in codexPast.moved => r \in codexPast'.moved,
         s \notin codexPast'.moved => threadMap'[s] = t /\ codexPast'.first[s] = t
  PROVE  CodexInv'
<1>1. /\ codexTurn[s] \in CodexState /\ codexPast \in CodexHistory /\ t # 0 /\ t \in ThreadOrNone /\ t \in Nat
      /\ codexPast.threads \in Nat
  BY ChatTypes, CodexAssumption DEF CodexHistory, ThreadOrNone, Threads
<1> DEFINE m == [codexTurn[s] EXCEPT !.at = "turn", !.thread = t]
           work == [thread |-> t, n |-> codexTurn[s].n]
<1>2. /\ m \in CodexState /\ m.at = "turn" /\ m.thread = t /\ m.read = codexTurn[s].read /\ m.got = codexTurn[s].got
      /\ m.n = codexTurn[s].n
  BY <1>1 DEF CodexState, CodexPlaces
<1>3. /\ codexTurn' = [codexTurn EXCEPT ![s] = m] /\ turnWaiters' = [turnWaiters EXCEPT ![t] = s]
      /\ codexWork' = codexWork \cup {work}
  BY DEF RunTurn, CodexInv, CodexTyped
<1>4. work \in [thread : Threads, n : Nat] /\ work.thread = t /\ work.n = codexTurn[s].n
  BY <1>1 DEF CodexState
<1> HIDE DEF m, work
<1>5. /\ codexTurn'[s] = m /\ \A r \in CodexSessions : r # s => codexTurn'[r] = codexTurn[r]
      /\ turnWaiters'[t] = s /\ \A x \in Threads : x # t => turnWaiters'[x] = turnWaiters[x]
  BY <1>3 DEF CodexInv, CodexTyped
<1>6. CodexTyped'
  BY <1>2, <1>3, <1>4 DEF CodexInv, CodexTyped
<1>7. ASSUME NEW r \in CodexSessions, NEW x \in Threads, OwnsThread(threadMap', codexTurn', r, x)
      PROVE  OwnsThread(threadMap, codexTurn, r, x) \/ (r = s /\ x = t)
  <2>1. CASE \E y \in CodexSessions : codexTurn'[y].read[r] = x
    BY <1>2, <1>5, <2>1 DEF OwnsThread
  <2>2. CASE threadMap'[r] = x
    BY <2>2 DEF OwnsThread
  <2>3. CASE codexTurn'[r].at = "turn" /\ codexTurn'[r].thread = x
    BY <1>2, <1>5, <2>3 DEF OwnsThread
  <2> QED
    BY <1>7, <2>1, <2>2, <2>3 DEF OwnsThread
<1>8. ASSUME NEW r \in CodexSessions, OwnsThread(threadMap, codexTurn, r, t) PROVE r = s
  <2>1. t <= codexPast.threads
    BY <1>8 DEF CodexInv, ThreadsAreOwn
  <2>2. t = codexTurn[s].read[s]
    BY <1>1, <2>1
  <2> QED
    BY <1>8, <2>2 DEF CodexInv, ThreadsAreOwn, OwnsThread
<1>9. codexPast.threads <= codexPast'.threads /\ t <= codexPast'.threads
  <2>1. CASE t = codexTurn[s].read[s] /\ codexPast'.threads = codexPast.threads
    BY <1>1, <2>1 DEF CodexInv, ThreadsAreOwn, OwnsThread
  <2>2. CASE t = codexPast.threads + 1 /\ codexPast'.threads = t
    BY <1>1, <2>2
  <2> QED
    BY <2>1, <2>2
<1>10. ThreadsAreOwn'
  <2> SUFFICES ASSUME NEW x \in Threads, NEW r \in CodexSessions, OwnsThread(threadMap', codexTurn', r, x)
               PROVE  /\ x <= codexPast'.threads
                      /\ \A q \in CodexSessions : OwnsThread(threadMap', codexTurn', q, x) => q = r
    BY DEF ThreadsAreOwn, OwnsThread
  <2>1. CASE x = t
    BY <1>7, <1>8, <1>9, <2>1
  <2>2. CASE x # t
    <3>1. OwnsThread(threadMap, codexTurn, r, x) /\ x <= codexPast.threads
      BY <1>7, <2>2 DEF CodexInv, ThreadsAreOwn
    <3>2. x <= codexPast'.threads
      BY <1>1, <1>9, <3>1 DEF CodexHistory, ThreadOrNone, Threads
    <3> QED
      BY <1>7, <2>2, <3>1, <3>2 DEF CodexInv, ThreadsAreOwn
  <2> QED
    BY <2>1, <2>2
<1>11. ~TurnAt(s, "turn") /\ codexTurn[s].got = {} /\ \A r \in CodexSessions : turnWaiters[t] # r
  <2>1. ~TurnAt(s, "turn") /\ codexTurn[s].got = {}
    BY DEF TurnAt, CodexInv, WaitersAreAtTurns
  <2>2. ASSUME NEW r \in CodexSessions, turnWaiters[t] = r PROVE FALSE
    <3>1. OwnsThread(threadMap, codexTurn, r, t) /\ TurnAt(r, "turn")
      BY <2>2 DEF CodexInv, WaitersAreAtTurns, TurnAt, OwnsThread
    <3> QED
      BY <1>8, <2>1, <3>1
  <2> QED
    BY <2>1, <2>2
<1>12. WaitersAreAtTurns'
  <2> SUFFICES ASSUME NEW r \in CodexSessions
               PROVE  /\ \A x \in Threads : turnWaiters'[x] = r <=> codexTurn'[r].at = "turn" /\ codexTurn'[r].thread = x
                      /\ codexTurn'[r].at = "turn" =>
                           /\ codexTurn'[r].thread \in Threads /\ \E w \in codexWork' : w.thread = codexTurn'[r].thread
                           /\ codexTurn'[r].thread \notin codexPast.strayed => codexTurn'[r].got \subseteq {codexTurn'[r].n}
                      /\ codexTurn'[r].at # "turn" => codexTurn'[r].got = {}
    BY DEF WaitersAreAtTurns, TurnAt
  <2>1. CASE r = s
    BY <1>2, <1>3, <1>4, <1>5, <1>11, <2>1 DEF CodexInv, WaitersAreAtTurns, TurnAt
  <2>2. CASE r # s
    BY <1>3, <1>5, <1>11, <2>2 DEF CodexInv, WaitersAreAtTurns, TurnAt
  <2> QED
    BY <2>1, <2>2
<1>13. WorkIsWaitedFor'
  <2> SUFFICES ASSUME NEW w \in codexWork', w.thread \notin codexPast.strayed
               PROVE  \E r \in CodexSessions : turnWaiters'[w.thread] = r /\ w.n = codexTurn'[r].n
    BY DEF WorkIsWaitedFor
  <2>1. CASE w = work
    BY <1>2, <1>4, <1>5, <2>1
  <2>2. CASE w # work
    <3>1. PICK r \in CodexSessions : turnWaiters[w.thread] = r /\ w.n = codexTurn[r].n
      BY <1>3, <2>2 DEF CodexInv, WorkIsWaitedFor
    <3>2. w.thread \in Threads /\ w.thread # t /\ r # s
      BY <1>3, <1>11, <2>2, <3>1 DEF CodexInv, CodexTyped, WaitersAreAtTurns
    <3> QED
      BY <1>5, <3>1, <3>2
  <2> QED
    BY <2>1, <2>2
<1>14. OnlyDeadHang'
  BY <1>2, <1>5 DEF CodexInv, OnlyDeadHang, TurnAt
<1>15. \A r \in CodexSessions : KnowsThread(codexPast, threadMap, r, codexTurn[r])'
  <2> SUFFICES ASSUME NEW r \in CodexSessions PROVE KnowsThread(codexPast', threadMap', r, codexTurn'[r])
    BY DEF KnowsThread
  <2>1. CASE r = s
    BY <1>2, <1>5, <2>1 DEF KnowsThread
  <2>2. CASE r # s
    <3>1. KnowsThread(codexPast, threadMap, r, codexTurn[r]) /\ codexTurn'[r] = codexTurn[r] /\ codexPast'.first[r] = codexPast.first[r]
      BY <1>5, <2>2, ChatTypes
    <3> QED
      BY <2>2, <3>1 DEF KnowsThread
  <2> QED
    BY <2>1, <2>2
<1> QED
  BY <1>6, <1>10, <1>12, <1>13, <1>14, <1>15 DEF CodexInv, RepliesAreTheirTurns

\* A chat's turn is over: its waiter goes, and the server's work unless it goes on
\* after an error.
LEMMA ChatEnds ==
  ASSUME CodexInv, NEW s \in CodexSessions, NEW t \in Threads, turnWaiters[t] = s, TurnEnds(s),
         turnWaiters' = [turnWaiters EXCEPT ![t] = NoOne], codexWork' \subseteq codexWork,
         \A w \in codexWork : w.thread # t => w \in codexWork', \A w \in codexWork' : w.thread = t => t \in codexPast'.strayed,
         codexPast' \in CodexHistory, codexPast.strayed \subseteq codexPast'.strayed, codexPast'.threads = codexPast.threads,
         codexPast'.first = codexPast.first, codexPast'.moved = codexPast.moved, UNCHANGED <<codexClient, threadMap>>,
         RepliesAreTheirTurns'
  PROVE  CodexInv'
<1>1. /\ codexTurn[s] \in CodexState /\ codexTurn[s].n \in Nat /\ codexTurn[s].at = "turn" /\ codexTurn[s].thread = t
      /\ KnowsThread(codexPast, threadMap, s, codexTurn[s])
  BY ChatTypes DEF CodexState, CodexInv, WaitersAreAtTurns, TurnAt
<1> DEFINE m == IdleTurn(codexTurn[s].n)
<1>2. m \in CodexState /\ m.at = "idle" /\ m.got = {} /\ \A r \in CodexSessions : m.read[r] = 0
  BY <1>1, IdleChat
<1>3. KnowsThread(codexPast', threadMap', s, m)
  BY <1>1, IdleChat DEF KnowsThread
<1>4. codexTurn' = [codexTurn EXCEPT ![s] = m]
  BY DEF TurnEnds, CodexInv, CodexTyped
<1> HIDE DEF m
<1>5. /\ codexTurn'[s] = m /\ \A r \in CodexSessions : r # s => codexTurn'[r] = codexTurn[r]
      /\ turnWaiters'[t] = NoOne /\ \A x \in Threads : x # t => turnWaiters'[x] = turnWaiters[x]
  BY <1>4 DEF CodexInv, CodexTyped
<1>6. CodexTyped'
  BY <1>2, <1>4 DEF CodexInv, CodexTyped
<1>7. ASSUME NEW r \in CodexSessions, NEW x \in Threads, OwnsThread(threadMap, codexTurn', r, x)
      PROVE  OwnsThread(threadMap, codexTurn, r, x)
  <2>1. CASE \E y \in CodexSessions : codexTurn'[y].read[r] = x
    BY <1>2, <1>5, <2>1 DEF OwnsThread, Threads
  <2>2. CASE threadMap[r] = x \/ (codexTurn'[r].at = "turn" /\ codexTurn'[r].thread = x)
    BY <1>2, <1>5, <2>2 DEF OwnsThread
  <2> QED
    BY <1>7, <2>1, <2>2 DEF OwnsThread
<1>8. ThreadsAreOwn'
  BY <1>7 DEF CodexInv, ThreadsAreOwn
<1>9. WaitersAreAtTurns'
  <2> SUFFICES ASSUME NEW r \in CodexSessions
               PROVE  /\ \A x \in Threads : turnWaiters'[x] = r <=> codexTurn'[r].at = "turn" /\ codexTurn'[r].thread = x
                      /\ codexTurn'[r].at = "turn" =>
                           /\ codexTurn'[r].thread \in Threads /\ \E w \in codexWork' : w.thread = codexTurn'[r].thread
                           /\ codexTurn'[r].thread \notin codexPast'.strayed => codexTurn'[r].got \subseteq {codexTurn'[r].n}
                      /\ codexTurn'[r].at # "turn" => codexTurn'[r].got = {}
    BY DEF WaitersAreAtTurns, TurnAt
  <2>1. CASE r = s
    BY <1>1, <1>2, <1>5, <2>1, CodexAssumption DEF CodexInv, WaitersAreAtTurns, TurnAt
  <2>2. CASE r # s
    <3>1. codexTurn[r].at = "turn" => codexTurn[r].thread # t
      BY <2>2 DEF CodexInv, WaitersAreAtTurns, TurnAt
    <3> QED
      BY <1>5, <2>2, <3>1, CodexAssumption DEF CodexInv, WaitersAreAtTurns, TurnAt
  <2> QED
    BY <2>1, <2>2
<1>10. WorkIsWaitedFor'
  <2> SUFFICES ASSUME NEW w \in codexWork', w.thread \notin codexPast'.strayed
               PROVE  \E r \in CodexSessions : turnWaiters'[w.thread] = r /\ w.n = codexTurn'[r].n
    BY DEF WorkIsWaitedFor
  <2>1. w.thread \in Threads /\ w.thread # t
    BY DEF CodexInv, CodexTyped
  <2>2. PICK r \in CodexSessions : turnWaiters[w.thread] = r /\ w.n = codexTurn[r].n
    BY DEF CodexInv, WorkIsWaitedFor
  <2>3. r # s
    BY <1>1, <2>1, <2>2 DEF CodexInv, WaitersAreAtTurns
  <2> QED
    BY <1>5, <2>1, <2>2, <2>3
<1>11. OnlyDeadHang'
  BY <1>2, <1>5 DEF CodexInv, OnlyDeadHang, TurnAt
<1>12. \A r \in CodexSessions : KnowsThread(codexPast, threadMap, r, codexTurn[r])'
  <2> SUFFICES ASSUME NEW r \in CodexSessions PROVE KnowsThread(codexPast', threadMap', r, codexTurn'[r])
    BY DEF KnowsThread
  <2>1. CASE r = s
    BY <1>3, <1>5, <2>1
  <2>2. CASE r # s
    BY <1>5, <2>2 DEF CodexInv, KnowsThread
  <2> QED
    BY <2>1, <2>2
<1> QED
  BY <1>6, <1>8, <1>9, <1>10, <1>11, <1>12 DEF CodexInv

LEMMA HistoryGoesOn ==
  ASSUME NEW past \in CodexHistory, NEW s \in CodexSessions
  PROVE  /\ AFault(past) \in CodexHistory /\ AFault(past).threads = past.threads /\ AFault(past).first = past.first
         /\ AFault(past).strayed = past.strayed /\ AFault(past).moved = past.moved
         /\ LET moved == [past EXCEPT !.moved = @ \cup {s}]
            IN /\ moved \in CodexHistory /\ moved.threads = past.threads /\ moved.first = past.first
               /\ moved.strayed = past.strayed /\ moved.moved = past.moved \cup {s}
         /\ \A thread \in Threads : LET strayed == [past EXCEPT !.strayed = @ \cup {thread}]
            IN /\ strayed \in CodexHistory /\ strayed.threads = past.threads /\ strayed.first = past.first
               /\ strayed.strayed = past.strayed \cup {thread} /\ strayed.moved = past.moved
BY DEF CodexHistory, AFault

LEMMA ChatStarts ==
  ASSUME CodexInv, NEW s \in CodexSessions, TurnStarts(s)
  PROVE  CodexInv'
<1> DEFINE old == codexTurn[s]
           at == IF codexClient.is = "none" THEN "initialize" ELSE NextRequest(s, threadMap[s] # 0)
           m == [IdleTurn(old.n + 1) EXCEPT !.read = threadMap, !.at = at]
<1>1. /\ old \in CodexState /\ old.n + 1 \in Nat /\ codexPast \in CodexHistory /\ threadMap \in [CodexSessions -> ThreadOrNone]
      /\ KnowsThread(codexPast, threadMap, s, old) /\ old.at = "idle"
  BY ChatTypes DEF CodexState, TurnStarts, TurnAt
<1>2. at \in {"initialize", "resume", "start", "hung"}
  BY DEF NextRequest
<1>3. codexTurn' = [codexTurn EXCEPT ![s] = m]
  BY DEF TurnStarts, CodexInv, CodexTyped
<1>4. /\ at = "start" => threadMap[s] = 0
      /\ at = "resume" => threadMap[s] # 0
      /\ at = "hung" => codexClient.is = "dead"
  BY DEF NextRequest, ClientUp, CodexInv, CodexTyped
<1>5. /\ UNCHANGED <<threadMap, turnWaiters, codexWork, codexReplies, codexPast>>
      /\ codexClient' \in [is : {"none", "up", "dead"}, ready : BOOLEAN]
      /\ codexClient.is = "dead" \/ at = "hung" => codexClient'.is = "dead"
  BY <1>4 DEF TurnStarts, CodexInv, CodexTyped
<1> HIDE DEF at
<1>6. m \in CodexState /\ m.at = at /\ m.read = threadMap /\ m.got = {}
  <2> DEFINE fresh == IdleTurn(old.n + 1)
  <2>1. fresh \in CodexState /\ fresh.got = {}
    BY <1>1, IdleChat
  <2>2. m = [fresh EXCEPT !.read = threadMap, !.at = at]
    OBVIOUS
  <2> HIDE DEF fresh, m, old
  <2>3. at \in CodexPlaces
    BY <1>2 DEF CodexPlaces
  <2> QED
    BY <1>1, <2>1, <2>2, <2>3 DEF CodexState
<1> HIDE DEF old, m
<1>7. KnowsThread(codexPast', threadMap, s, m)
  BY <1>1, <1>2, <1>4, <1>5, <1>6 DEF KnowsThread
<1>8. ~TurnAt(s, "turn") /\ m.at # "turn" /\ \A r \in CodexSessions : m.read[r] \in {0, threadMap[r], codexTurn[s].read[r]}
  BY <1>1, <1>2, <1>6 DEF TurnAt, old
<1>9. codexPast'.moved = codexPast.moved \cup {} /\ {} \in SUBSET {s}
  BY <1>5
<1> QED
  BY <1>1, <1>3, <1>5, <1>6, <1>7, <1>8, <1>9, ChatAsks

\* What the initialized server lets a chat do: ask for its thread, start another,
\* or end.
LEMMA ChatIsInitialized ==
  ASSUME CodexInv, NEW s \in CodexSessions, Initialized(s)
  PROVE  CodexInv'
<1>1. /\ codexTurn[s] \in CodexState /\ codexPast \in CodexHistory /\ codexTurn[s].at = "initialize" /\ codexTurn[s].got = {}
      /\ KnowsThread(codexPast, threadMap, s, codexTurn[s]) /\ codexTurn[s].n \in Nat
  BY ChatTypes DEF Initialized, TurnAt, CodexInv, WaitersAreAtTurns, CodexState
<1>2. UNCHANGED <<threadMap, turnWaiters, codexWork, codexReplies>> /\ ~TurnAt(s, "turn")
  BY <1>1 DEF Initialized, TurnAt
<1>3. /\ codexClient' \in [is : {"none", "up", "dead"}, ready : BOOLEAN] /\ codexClient.is # "dead"
  BY DEF Initialized, ClientUp, CodexInv, CodexTyped
<1>4. ASSUME NEW at \in {"resume", "start"}, CodexGoes(s, at), NEW moved \in SUBSET {s}, codexPast' \in CodexHistory,
             codexPast'.threads = codexPast.threads, codexPast'.first = codexPast.first, codexPast'.strayed = codexPast.strayed,
             codexPast'.moved = codexPast.moved \cup moved, at = "start" => codexTurn[s].read[s] = 0 \/ s \in moved,
             at = "resume" => codexTurn[s].read[s] # 0
      PROVE  CodexInv'
  <2> DEFINE m == [codexTurn[s] EXCEPT !.at = at]
  <2>1. codexTurn' = [codexTurn EXCEPT ![s] = m]
    BY <1>4 DEF CodexGoes, CodexInv, CodexTyped
  <2>2. m \in CodexState /\ m.at = at /\ m.read = codexTurn[s].read /\ m.got = {}
    BY <1>1 DEF CodexState, CodexPlaces
  <2> HIDE DEF m
  <2>3. KnowsThread(codexPast', threadMap, s, m)
    BY <1>1, <1>4, <2>2 DEF KnowsThread
  <2> QED
    BY <1>2, <1>3, <1>4, <2>1, <2>2, <2>3, ChatAsks
<1>5. ASSUME TurnEnds(s), UNCHANGED codexPast PROVE CodexInv'
  <2> DEFINE m == IdleTurn(codexTurn[s].n)
  <2>1. codexTurn' = [codexTurn EXCEPT ![s] = m]
    BY <1>5 DEF TurnEnds, CodexInv, CodexTyped
  <2>2. m \in CodexState /\ m.at = "idle" /\ m.got = {} /\ (\A r \in CodexSessions : m.read[r] = 0) /\ KnowsThread(codexPast', threadMap, s, m)
    BY <1>1, <1>5, IdleChat DEF KnowsThread
  <2> HIDE DEF m
  <2>3. codexPast'.moved = codexPast.moved \cup {} /\ {} \in SUBSET {s}
    BY <1>5
  <2> QED
    BY <1>1, <1>2, <1>3, <1>5, <2>1, <2>2, <2>3, ChatAsks
<1>6. CASE CodexGoes(s, IF codexTurn[s].read[s] # 0 THEN "resume" ELSE "start") /\ UNCHANGED codexPast
  <2>1. codexPast'.moved = codexPast.moved \cup {} /\ {} \in SUBSET {s}
    BY <1>6
  <2> QED
    BY <1>1, <1>4, <1>6, <2>1
<1>7. CASE CodexGoes(s, "start") /\ codexPast' = [codexPast EXCEPT !.moved = @ \cup {s}]
  <2>1. /\ codexPast' \in CodexHistory /\ codexPast'.threads = codexPast.threads /\ codexPast'.first = codexPast.first
        /\ codexPast'.strayed = codexPast.strayed /\ codexPast'.moved = codexPast.moved \cup {s}
    BY <1>1, <1>7 DEF CodexHistory
  <2> QED
    BY <1>4, <1>7, <2>1
<1> QED
  BY <1>5, <1>6, <1>7 DEF Initialized

LEMMA ChatIsResumed ==
  ASSUME CodexInv, NEW s \in CodexSessions, Resumed(s)
  PROVE  CodexInv'
<1>1. /\ codexTurn[s] \in CodexState /\ codexPast \in CodexHistory /\ codexTurn[s].at = "resume" /\ codexTurn[s].got = {}
      /\ KnowsThread(codexPast, threadMap, s, codexTurn[s]) /\ threadMap \in [CodexSessions -> ThreadOrNone]
  BY ChatTypes DEF Resumed, TurnAt, CodexInv, WaitersAreAtTurns
<1>2. UNCHANGED <<codexClient, threadMap, codexReplies>>
  BY DEF Resumed
<1>3. CASE RunTurn(s, codexTurn[s].read[s]) /\ UNCHANGED codexPast
  <2>1. codexTurn[s].read[s] \in Threads /\ (s \notin codexPast.moved => threadMap[s] = codexTurn[s].read[s] /\ codexPast.first[s] = codexTurn[s].read[s])
    BY <1>1 DEF KnowsThread, CodexState, Threads, ThreadOrNone
  <2> QED
    <3> DEFINE thread == codexTurn[s].read[s]
    <3>1. /\ RunTurn(s, thread) /\ codexPast' \in CodexHistory /\ codexPast' = codexPast /\ threadMap' = threadMap
          /\ s \notin codexPast'.moved => threadMap'[s] = thread /\ codexPast'.first[s] = thread
      BY <1>1, <1>2, <1>3, <2>1
    <3>2. thread \in Threads /\ thread = codexTurn[s].read[s]
      BY <2>1
    <3> HIDE DEF thread
    <3> QED
      BY <1>1, <1>2, <3>1, <3>2, ChatRuns
<1>4. CASE CodexGoes(s, "start") /\ codexPast' = AFault([codexPast EXCEPT !.moved = @ \cup {s}]) /\ UNCHANGED <<turnWaiters, codexWork>>
  <2> DEFINE m == [codexTurn[s] EXCEPT !.at = "start"]
  <2>1. codexTurn' = [codexTurn EXCEPT ![s] = m]
    BY <1>4 DEF CodexGoes, CodexInv, CodexTyped
  <2>2. m \in CodexState /\ m.at = "start" /\ m.read = codexTurn[s].read /\ m.got = {}
    BY <1>1 DEF CodexState, CodexPlaces
  <2> HIDE DEF m
  <2>3. /\ codexPast' \in CodexHistory /\ codexPast'.threads = codexPast.threads /\ codexPast'.first = codexPast.first
        /\ codexPast'.strayed = codexPast.strayed /\ codexPast'.moved = codexPast.moved \cup {s}
    <3> DEFINE past == [codexPast EXCEPT !.moved = @ \cup {s}]
    <3>1. /\ past \in CodexHistory /\ past.threads = codexPast.threads /\ past.first = codexPast.first
          /\ past.strayed = codexPast.strayed /\ past.moved = codexPast.moved \cup {s}
      BY <1>1, HistoryGoesOn
    <3>2. codexPast' = AFault(past)
      BY <1>4
    <3> HIDE DEF past
    <3> QED
      BY <3>1, <3>2, HistoryGoesOn
  <2>4. KnowsThread(codexPast', threadMap, s, m)
    BY <1>1, <2>2, <2>3 DEF KnowsThread
  <2>5. codexClient' \in [is : {"none", "up", "dead"}, ready : BOOLEAN] /\ codexClient.is # "dead" /\ ~TurnAt(s, "turn")
    BY <1>1, <1>2 DEF Resumed, ClientUp, CodexInv, CodexTyped, TurnAt
  <2> QED
    BY <1>2, <1>4, <2>1, <2>2, <2>3, <2>4, <2>5, ChatAsks
<1> QED
  BY <1>3, <1>4 DEF Resumed

\* A new thread: the map is written as it was read, so another session's thread
\* may be taken from the file, which is told.
LEMMA ThreadIsStarted ==
  ASSUME CodexInv, NEW s \in CodexSessions, Started(s)
  PROVE  CodexInv'
<1> DEFINE thread == codexPast.threads + 1
           overwritten == {x \in CodexSessions \ {s} : threadMap[x] # codexTurn[s].read[x]}
           writes == codexTurn[s].read[s] = 0
<1>1. /\ codexTurn[s] \in CodexState /\ codexPast \in CodexHistory /\ codexTurn[s].at = "start" /\ codexTurn[s].got = {}
      /\ KnowsThread(codexPast, threadMap, s, codexTurn[s]) /\ threadMap \in [CodexSessions -> ThreadOrNone]
      /\ codexTurn[s].n \in Nat /\ codexTurn[s].read \in [CodexSessions -> ThreadOrNone]
  BY ChatTypes DEF Started, TurnAt, CodexInv, WaitersAreAtTurns, CodexState
<1>2. UNCHANGED <<codexClient, codexReplies>>
  BY DEF Started
<1>3. CASE /\ thread \in Threads /\ RunTurn(s, thread)
           /\ threadMap' = IF writes THEN WrittenMap(s, thread) ELSE threadMap
           /\ codexPast' = [codexPast EXCEPT !.threads = thread, !.first[s] = IF @ = 0 THEN thread ELSE @,
                !.moved = @ \cup IF writes THEN overwritten ELSE {}]
  <2> DEFINE over == IF writes THEN overwritten ELSE {}
             first == [codexPast.first EXCEPT ![s] = IF @ = 0 THEN thread ELSE @]
  <2>1. thread \in ThreadOrNone /\ first \in [CodexSessions -> ThreadOrNone] /\ over \in SUBSET CodexSessions
    BY <1>1, <1>3 DEF CodexHistory, Threads, ThreadOrNone
  <2>2. codexPast' = [codexPast EXCEPT !.threads = thread, !.first = first, !.moved = @ \cup over]
    BY <1>1, <1>3 DEF CodexHistory
  <2>3. /\ first[s] = IF codexPast.first[s] = 0 THEN thread ELSE codexPast.first[s]
        /\ \A r \in CodexSessions \ {s} : first[r] = codexPast.first[r]
    BY <1>1 DEF CodexHistory
  <2>4. /\ threadMap' \in [CodexSessions -> ThreadOrNone]
        /\ \A r \in CodexSessions \ {s} : threadMap'[r] = IF writes THEN codexTurn[s].read[r] ELSE threadMap[r]
        /\ threadMap'[s] = IF writes THEN thread ELSE threadMap[s]
    BY <1>1, <1>3, <2>1 DEF WrittenMap
  <2>5. \A r \in CodexSessions : r \in over <=> writes /\ r # s /\ threadMap[r] # codexTurn[s].read[r]
    OBVIOUS
  <2> HIDE DEF thread, over, first, overwritten
  <2>6. /\ codexPast' \in CodexHistory /\ codexPast'.threads = thread /\ codexPast'.first = first
        /\ codexPast'.strayed = codexPast.strayed /\ codexPast'.moved = codexPast.moved \cup over
    BY <1>1, <2>1, <2>2 DEF CodexHistory
  <2>7. s \notin codexPast.moved => writes /\ codexPast.first[s] = 0
    BY <1>1 DEF KnowsThread
  <2>8. s \notin codexPast'.moved => threadMap'[s] = thread /\ codexPast'.first[s] = thread
    BY <2>3, <2>4, <2>6, <2>7
  <2>9. \A r \in CodexSessions \ {s} : codexPast'.first[r] = codexPast.first[r] /\
          (r \notin codexPast'.moved => r \notin codexPast.moved /\ threadMap'[r] = threadMap[r])
    BY <2>3, <2>4, <2>5, <2>6
  <2>10. \A r \in CodexSessions : threadMap'[r] \in {threadMap[r], codexTurn[s].read[r]} \/ (r = s /\ threadMap'[r] = thread)
    BY <2>4
  <2>11. thread = codexPast.threads + 1 /\ thread \in Threads /\ RunTurn(s, thread)
    BY <1>3 DEF thread
  <2> HIDE DEF writes
  <2> QED
    BY <1>1, <1>2, <2>4, <2>6, <2>8, <2>9, <2>10, <2>11, ChatRuns
<1>4. CASE CodexFails("start") /\ TurnEnds(s) /\ codexPast' = AFault(codexPast) /\ UNCHANGED <<threadMap, turnWaiters, codexWork>>
  <2> DEFINE m == IdleTurn(codexTurn[s].n)
  <2>1. codexTurn' = [codexTurn EXCEPT ![s] = m]
    BY <1>4 DEF TurnEnds, CodexInv, CodexTyped
  <2>2. /\ codexPast' \in CodexHistory /\ codexPast'.threads = codexPast.threads /\ codexPast'.first = codexPast.first
        /\ codexPast'.strayed = codexPast.strayed /\ codexPast'.moved = codexPast.moved \cup {} /\ {} \in SUBSET {s}
    BY <1>1, <1>4 DEF CodexHistory, AFault
  <2>3. m \in CodexState /\ m.at = "idle" /\ m.got = {} /\ (\A r \in CodexSessions : m.read[r] = 0) /\ KnowsThread(codexPast', threadMap, s, m)
    BY <1>1, <2>2, IdleChat DEF KnowsThread
  <2> HIDE DEF m
  <2>4. codexClient' \in [is : {"none", "up", "dead"}, ready : BOOLEAN] /\ codexClient.is # "dead" /\ ~TurnAt(s, "turn")
    BY <1>1, <1>2 DEF Started, ClientUp, CodexInv, CodexTyped, TurnAt
  <2> QED
    BY <1>2, <1>4, <2>1, <2>2, <2>3, <2>4, ChatAsks
<1> QED
  BY <1>3, <1>4 DEF Started

\* The server's turn of a waiting session.
LEMMA WaiterIsAtTurn ==
  ASSUME CodexInv, NEW t \in Threads, NEW s \in CodexSessions, turnWaiters[t] = s
  PROVE  codexTurn[s].at = "turn" /\ codexTurn[s].thread = t
BY DEF CodexInv, WaitersAreAtTurns, TurnAt

LEMMA TurnIsRejected ==
  ASSUME CodexInv, NEW s \in CodexSessions, TurnRejected(s)
  PROVE  CodexInv'
<1> DEFINE t == codexTurn[s].thread
           own == [thread |-> t, n |-> codexTurn[s].n]
<1>1. t \in Threads /\ turnWaiters[t] = s /\ codexPast \in CodexHistory
  BY ChatTypes DEF TurnRejected, TurnAt, CodexInv, WaitersAreAtTurns
<1>2. /\ turnWaiters' = [turnWaiters EXCEPT ![t] = NoOne] /\ codexWork' = codexWork \ {own} /\ TurnEnds(s)
      /\ codexPast' = AFault(codexPast) /\ UNCHANGED <<codexClient, threadMap, codexReplies>>
  BY DEF TurnRejected
<1>3. /\ codexPast' \in CodexHistory /\ codexPast'.threads = codexPast.threads /\ codexPast'.first = codexPast.first
      /\ codexPast'.strayed = codexPast.strayed /\ codexPast'.moved = codexPast.moved
  BY <1>1, <1>2, HistoryGoesOn
<1>4. own.thread = t
  OBVIOUS
<1>5. ASSUME NEW w \in codexWork', w.thread = t, t \notin codexPast.strayed PROVE FALSE
  <2>1. w \in [thread : Threads, n : Nat] /\ w # own /\ w \in codexWork
    BY <1>2 DEF CodexInv, CodexTyped
  <2>2. PICK r \in CodexSessions : turnWaiters[t] = r /\ w.n = codexTurn[r].n
    BY <1>5, <2>1 DEF CodexInv, WorkIsWaitedFor
  <2> QED
    BY <1>1, <1>5, <2>1, <2>2
<1>6. RepliesAreTheirTurns'
  BY <1>2, <1>3 DEF CodexInv, RepliesAreTheirTurns
<1> HIDE DEF t, own
<1>7. \A w \in codexWork : w.thread # t => w \in codexWork'
  BY <1>2, <1>4
<1> QED
  BY <1>1, <1>2, <1>3, <1>5, <1>6, <1>7, ChatEnds

\* Text goes to who waits; on a thread that was never given up it is its own.
LEMMA TextIsGiven ==
  ASSUME CodexInv, NEW w \in codexWork, TextOf(w)
  PROVE  CodexInv'
<1> DEFINE s == turnWaiters[w.thread]
           m == [codexTurn[s] EXCEPT !.got = @ \cup {w.n}]
<1>1. w.thread \in Threads /\ w.n \in Nat /\ s \in CodexSessions
  BY DEF TextOf, CodexInv, CodexTyped
<1>2. /\ codexTurn[s] \in CodexState /\ codexTurn[s].at = "turn" /\ codexTurn[s].thread = w.thread
      /\ w.thread \notin codexPast.strayed => w.n = codexTurn[s].n /\ codexTurn[s].got \subseteq {codexTurn[s].n}
  BY <1>1, ChatTypes, WaiterIsAtTurn DEF CodexInv, WorkIsWaitedFor, WaitersAreAtTurns, TurnAt
<1>3. codexTurn' = [codexTurn EXCEPT ![s] = m]
  BY <1>1 DEF TextOf, CodexInv, CodexTyped
<1>4. UNCHANGED <<codexClient, threadMap, turnWaiters, codexWork, codexReplies, codexPast>>
  BY DEF TextOf
<1> HIDE DEF s
<1>5. /\ m \in CodexState /\ m.at = codexTurn[s].at /\ m.thread = codexTurn[s].thread /\ m.read = codexTurn[s].read
      /\ m.n = codexTurn[s].n /\ m.got = codexTurn[s].got \cup {w.n}
  BY <1>1, <1>2 DEF CodexState
<1> HIDE DEF m
<1>6. codexTurn'[s] = m /\ \A r \in CodexSessions : r # s => codexTurn'[r] = codexTurn[r]
  BY <1>1, <1>3 DEF CodexInv, CodexTyped
<1>7. CodexTyped'
  BY <1>3, <1>4, <1>5 DEF CodexInv, CodexTyped
<1>8. \A r \in CodexSessions : /\ codexTurn'[r].at = codexTurn[r].at /\ codexTurn'[r].thread = codexTurn[r].thread
                               /\ codexTurn'[r].read = codexTurn[r].read /\ codexTurn'[r].n = codexTurn[r].n
  BY <1>5, <1>6
<1>9. ThreadsAreOwn'
  BY <1>4, <1>8 DEF CodexInv, ThreadsAreOwn, OwnsThread
<1>10. WaitersAreAtTurns'
  BY <1>2, <1>4, <1>5, <1>6, <1>8 DEF CodexInv, WaitersAreAtTurns, TurnAt
<1>11. WorkIsWaitedFor' /\ OnlyDeadHang' /\ RepliesAreTheirTurns'
  BY <1>4, <1>8 DEF CodexInv, WorkIsWaitedFor, OnlyDeadHang, TurnAt, RepliesAreTheirTurns
<1>12. \A r \in CodexSessions : KnowsThread(codexPast, threadMap, r, codexTurn[r])'
  BY <1>4, <1>8 DEF CodexInv, KnowsThread
<1> QED
  BY <1>7, <1>9, <1>10, <1>11, <1>12 DEF CodexInv

\* A turn ends for who waits: with its own text, unless the thread was given up.
LEMMA TurnIsEnded ==
  ASSUME CodexInv, NEW w \in codexWork, EndOf(w)
  PROVE  CodexInv'
<1> DEFINE s == turnWaiters[w.thread]
<1>1. w.thread \in Threads /\ w \in [thread : Threads, n : Nat] /\ s \in CodexSessions \cup {NoOne}
  BY DEF CodexInv, CodexTyped
<1>2. codexWork' = codexWork \ {w} /\ UNCHANGED <<codexClient, threadMap, codexPast>>
  BY DEF EndOf
<1>3. CASE s = NoOne
  <2>1. UNCHANGED <<turnWaiters, codexTurn, codexReplies>>
    BY <1>3 DEF EndOf
  <2>2. \A r \in CodexSessions : TurnAt(r, "turn") => codexTurn[r].thread # w.thread
    BY <1>3, CodexAssumption DEF CodexInv, WaitersAreAtTurns
  <2>3. WaitersAreAtTurns'
    BY <1>2, <2>1, <2>2 DEF CodexInv, WaitersAreAtTurns, TurnAt
  <2> QED
    BY <1>2, <2>1, <2>3 DEF CodexInv, CodexTyped, ThreadsAreOwn, OwnsThread, WorkIsWaitedFor, RepliesAreTheirTurns, OnlyDeadHang,
      TurnAt, KnowsThread
<1>4. CASE s # NoOne
  <2>1. s \in CodexSessions
    BY <1>1, <1>4
  <2>2. /\ codexTurn[s].at = "turn" /\ codexTurn[s].thread = w.thread
        /\ w.thread \notin codexPast.strayed => w.n = codexTurn[s].n /\ codexTurn[s].got \subseteq {codexTurn[s].n}
    BY <1>1, <2>1, WaiterIsAtTurn DEF CodexInv, WorkIsWaitedFor, WaitersAreAtTurns, TurnAt
  <2> DEFINE reply == [of |-> s, n |-> codexTurn[s].n, thread |-> w.thread, got |-> codexTurn[s].got, by |-> w.n]
  <2>3. /\ turnWaiters' = [turnWaiters EXCEPT ![w.thread] = NoOne] /\ TurnEnds(s)
        /\ codexReplies' = codexReplies \cup (IF codexTurn[s].got = {} THEN {} ELSE {reply})
    BY <1>4 DEF EndOf
  <2>4. reply.thread = w.thread /\ reply.got = codexTurn[s].got /\ reply.n = codexTurn[s].n /\ reply.by = w.n
    OBVIOUS
  <2> HIDE DEF reply
  <2>5. RepliesAreTheirTurns'
    <3> SUFFICES ASSUME NEW r \in codexReplies', r.thread \notin codexPast.strayed PROVE r.got = {r.n} /\ r.by = r.n
      BY <1>2 DEF RepliesAreTheirTurns
    <3>1. CASE r \in codexReplies
      BY <3>1 DEF CodexInv, RepliesAreTheirTurns
    <3>2. CASE r = reply /\ codexTurn[s].got # {}
      BY <2>2, <2>4, <3>2
    <3> QED
      BY <2>3, <3>1, <3>2
  <2>6. ASSUME NEW x \in codexWork', x.thread = w.thread, x.thread \notin codexPast.strayed PROVE FALSE
    <3>1. x \in codexWork /\ x # w /\ x \in [thread : Threads, n : Nat]
      BY <1>2 DEF CodexInv, CodexTyped
    <3>2. PICK r \in CodexSessions : turnWaiters[x.thread] = r /\ x.n = codexTurn[r].n
      BY <2>6, <3>1 DEF CodexInv, WorkIsWaitedFor
    <3>3. x.n = w.n
      BY <2>2, <2>6, <3>2
    <3> QED
      BY <1>1, <2>6, <3>1, <3>3
  <2>7. \A x \in codexWork : x.thread # w.thread => x \in codexWork'
    BY <1>2
  <2>8. codexPast' \in CodexHistory
    BY <1>2 DEF CodexInv, CodexTyped
  <2> QED
    BY <1>1, <1>2, <2>1, <2>3, <2>5, <2>6, <2>7, <2>8, ChatEnds
<1> QED
  BY <1>3, <1>4

LEMMA ErrorIsTold ==
  ASSUME CodexInv, NEW w \in codexWork, ErrorOf(w)
  PROVE  CodexInv'
<1> DEFINE s == turnWaiters[w.thread]
<1>1. w.thread \in Threads /\ w \in [thread : Threads, n : Nat] /\ s \in CodexSessions /\ codexPast \in CodexHistory
  BY DEF ErrorOf, CodexInv, CodexTyped
<1>2. /\ turnWaiters' = [turnWaiters EXCEPT ![w.thread] = NoOne] /\ TurnEnds(s)
      /\ UNCHANGED <<codexClient, threadMap, codexReplies>>
  BY DEF ErrorOf
<1>3. w.thread \notin codexPast.strayed => w.n = codexTurn[s].n
  BY <1>1 DEF CodexInv, WorkIsWaitedFor
<1>4. CASE codexWork' = codexWork \ {w} /\ codexPast' = AFault(codexPast)
  <2>1. /\ codexPast' \in CodexHistory /\ codexPast'.threads = codexPast.threads /\ codexPast'.first = codexPast.first
        /\ codexPast'.strayed = codexPast.strayed /\ codexPast'.moved = codexPast.moved
    BY <1>1, <1>4, HistoryGoesOn
  <2>2. ASSUME NEW x \in codexWork', x.thread = w.thread, x.thread \notin codexPast.strayed PROVE FALSE
    <3>1. x \in codexWork /\ x # w /\ x \in [thread : Threads, n : Nat]
      BY <1>4 DEF CodexInv, CodexTyped
    <3>2. PICK r \in CodexSessions : turnWaiters[x.thread] = r /\ x.n = codexTurn[r].n
      BY <2>2, <3>1 DEF CodexInv, WorkIsWaitedFor
    <3>3. x.n = w.n
      BY <1>3, <2>2, <3>2
    <3> QED
      BY <1>1, <2>2, <3>1, <3>3
  <2>3. RepliesAreTheirTurns' /\ \A x \in codexWork : x.thread # w.thread => x \in codexWork'
    BY <1>2, <1>4, <2>1 DEF CodexInv, RepliesAreTheirTurns
  <2> QED
    BY <1>1, <1>2, <1>4, <2>1, <2>2, <2>3, ChatEnds
<1>5. CASE UNCHANGED codexWork /\ codexPast' = AFault([codexPast EXCEPT !.strayed = @ \cup {w.thread}])
  <2> DEFINE past == [codexPast EXCEPT !.strayed = @ \cup {w.thread}]
  <2>1. /\ past \in CodexHistory /\ past.threads = codexPast.threads /\ past.first = codexPast.first
        /\ past.strayed = codexPast.strayed \cup {w.thread} /\ past.moved = codexPast.moved
    BY <1>1 DEF CodexHistory
  <2>2. codexPast' = AFault(past)
    BY <1>5
  <2> HIDE DEF past
  <2>3. /\ codexPast' \in CodexHistory /\ codexPast'.threads = codexPast.threads /\ codexPast'.first = codexPast.first
        /\ codexPast'.strayed = codexPast.strayed \cup {w.thread} /\ codexPast'.moved = codexPast.moved
    BY <1>1, <2>1, <2>2, HistoryGoesOn
  <2>4. RepliesAreTheirTurns'
    BY <1>2, <2>3 DEF CodexInv, RepliesAreTheirTurns
  <2> QED
    BY <1>1, <1>2, <1>5, <2>3, <2>4, ChatEnds
<1> QED
  BY <1>4, <1>5 DEF ErrorOf

\* The server's process ends: nobody waits, and nothing is under way.
LEMMA AllTurnsStop ==
  ASSUME CodexInv, codexTurn' \in [CodexSessions -> CodexState],
         \A s \in CodexSessions : LET m == codexTurn'[s] IN
           /\ m.at \in {"idle", "hung"} /\ m.got = {} /\ (m.at = "hung" => codexClient'.is = "dead")
           /\ \A r \in CodexSessions : m.read[r] \in {0, codexTurn[s].read[r]},
         codexClient' \in [is : {"none", "up", "dead"}, ready : BOOLEAN], codexWork' = {}, turnWaiters' = [t \in Threads |-> NoOne],
         codexPast' = AFault(codexPast), UNCHANGED <<threadMap, codexReplies>>
  PROVE  CodexInv'
<1>1. codexPast \in CodexHistory /\ threadMap \in [CodexSessions -> ThreadOrNone]
  BY DEF CodexInv, CodexTyped
<1>2. /\ codexPast' \in CodexHistory /\ codexPast'.threads = codexPast.threads /\ codexPast'.first = codexPast.first
      /\ codexPast'.strayed = codexPast.strayed /\ codexPast'.moved = codexPast.moved
  BY <1>1 DEF CodexHistory, AFault
<1>3. CodexTyped'
  BY <1>1, <1>2 DEF CodexTyped
<1>4. ASSUME NEW r \in CodexSessions, NEW t \in Threads, OwnsThread(threadMap, codexTurn', r, t)
      PROVE  OwnsThread(threadMap, codexTurn, r, t)
  BY <1>4 DEF OwnsThread, Threads
<1>5. ThreadsAreOwn'
  BY <1>2, <1>4 DEF CodexInv, ThreadsAreOwn
<1>6. WaitersAreAtTurns' /\ WorkIsWaitedFor' /\ OnlyDeadHang'
  BY CodexAssumption DEF WaitersAreAtTurns, WorkIsWaitedFor, OnlyDeadHang, TurnAt
<1>7. \A s \in CodexSessions : KnowsThread(codexPast, threadMap, s, codexTurn[s])'
  BY <1>2 DEF CodexInv, KnowsThread
<1> QED
  BY <1>2, <1>3, <1>5, <1>6, <1>7 DEF CodexInv, RepliesAreTheirTurns

LEMMA ChildHasEnded ==
  ASSUME CodexInv, ChildExits
  PROVE  CodexInv'
<1>1. ASSUME NEW s \in CodexSessions
      PROVE  /\ AfterExit(s) \in CodexState /\ AfterExit(s).at \in {"idle", "hung"} /\ AfterExit(s).got = {}
             /\ \A r \in CodexSessions : AfterExit(s).read[r] \in {0, codexTurn[s].read[r]}
  <2>1. codexTurn[s] \in CodexState /\ codexTurn[s].n \in Nat /\ (codexTurn[s].at # "turn" => codexTurn[s].got = {})
    BY DEF CodexInv, CodexTyped, CodexState, WaitersAreAtTurns, TurnAt
  <2>2. CASE codexTurn[s].at = "hung" \/ (codexTurn[s].at \in {"initialize", "resume"} /\ codexTurn[s].read[s] # 0)
    <3>1. AfterExit(s) = [codexTurn[s] EXCEPT !.at = "hung"]
      BY <2>2 DEF AfterExit
    <3> QED
      BY <2>1, <2>2, <3>1 DEF CodexState, CodexPlaces
  <2>3. CASE ~(codexTurn[s].at = "hung" \/ (codexTurn[s].at \in {"initialize", "resume"} /\ codexTurn[s].read[s] # 0))
    <3>1. AfterExit(s) = IdleTurn(codexTurn[s].n)
      BY <2>3 DEF AfterExit
    <3> QED
      BY <2>1, <3>1, IdleChat
  <2> QED
    BY <2>2, <2>3
<1>2. codexTurn' = [s \in CodexSessions |-> AfterExit(s)]
  BY DEF ChildExits
<1>3. codexClient' \in [is : {"none", "up", "dead"}, ready : BOOLEAN] /\ codexClient'.is = "dead"
  BY DEF ChildExits, CodexInv, CodexTyped
<1> QED
  BY <1>1, <1>2, <1>3, AllTurnsStop DEF ChildExits

LEMMA BrainHasRestarted ==
  ASSUME CodexInv, BrainRestarts
  PROVE  CodexInv'
<1>1. \A s \in CodexSessions : codexTurn[s].n \in Nat
  BY DEF CodexInv, CodexTyped, CodexState
<1>2. codexTurn' = [s \in CodexSessions |-> IdleTurn(codexTurn[s].n)]
  BY DEF BrainRestarts
<1>3. codexClient' \in [is : {"none", "up", "dead"}, ready : BOOLEAN]
  BY DEF BrainRestarts
<1> QED
  BY <1>1, <1>2, <1>3, IdleChat, AllTurnsStop DEF BrainRestarts

\* In every state of chats that share a server which refuses, errs, ends and is
\* started again, threads have one owner and waiters are at their turns.
THEOREM CodexInvariance == CodexSpec => []CodexInv
<1>1. CodexInv /\ [CodexNext]_codexVars => CodexInv'
  <2> SUFFICES ASSUME CodexInv, [CodexNext]_codexVars PROVE CodexInv'
    OBVIOUS
  <2>1. ASSUME UNCHANGED codexVars PROVE CodexInv'
    BY <2>1 DEF codexVars, CodexInv, CodexTyped, ThreadsAreOwn, OwnsThread, WaitersAreAtTurns, WorkIsWaitedFor, OnlyDeadHang,
      RepliesAreTheirTurns, KnowsThread, TurnAt
  <2> QED
    BY <2>1, ChatStarts, ChatIsInitialized, ChatIsResumed, ThreadIsStarted, TurnIsRejected, TextIsGiven, TurnIsEnded, ErrorIsTold,
      ChildHasEnded, BrainHasRestarted DEF CodexNext
<1> QED
  BY <1>1, ChatsStart, PTL DEF CodexSpec

\* THEOREM: the client, the file, the waiters and the server's turns keep their
\* types (CodexTypeOK).
THEOREM CodexTypeCorrect == CodexSpec => []CodexTypeOK
<1>1. CodexInv => CodexTypeOK
  BY DEF CodexInv, CodexTyped, CodexTypeOK, ThreadOrNone
<1> QED
  BY <1>1, CodexInvariance, PTL

\* THEOREM: a stored reply is the text of the turn that asked, a chat stays in its
\* thread unless its thread could not be resumed or was taken from the file, and
\* a turn has a waiter and work that will end it (CodexTurnsHold), for any chats,
\* turns, threads and faults.
THEOREM CodexTurnsHoldEach == CodexSpec => []CodexTurnsHold
<1>1. CodexInv => CodexTurnsHold
  <2> SUFFICES ASSUME CodexInv PROVE CodexTurnsHold
    OBVIOUS
  <2>1. ContextIsKept
    BY DEF CodexInv, ContextIsKept, KnowsThread, TurnAt
  <2>2. TurnsAreHeard
    BY DEF CodexInv, TurnsAreHeard, WaitersAreAtTurns, OnlyDeadHang
  <2> QED
    BY <2>1, <2>2 DEF CodexInv, CodexTurnsHold
<1> QED
  BY <1>1, CodexInvariance, PTL

\* THEOREM: the processes of one host keep what is theirs, proxies and turns
\* (SharedServersHold).
THEOREM SharedServersHoldEach == ModelProxySpec /\ CodexSpec => []SharedServersHold
<1>1. ProxiesHold /\ CodexTurnsHold => SharedServersHold
  BY DEF SharedServersHold
<1> QED
  BY <1>1, ProxiesHoldEach, CodexTurnsHoldEach, PTL

(* The goals that QA runs make: manifest, names and tickets.               *)
QaNumbers == 1 .. MaxQaRuns + MaxQaEdits
ReportOrNone == QaReports \cup {NoReport}
QaPlaces == {"idle", "comment", "record", "read", "list", "tickets"}
QaNames == NamedGoals \cup {"none"}
QaIds == GoalIds \cup {<<"none", 0>>}
QaExits == {0, 1, 3, 4, 137}
QaLeft == {"nothing", "comment", "record", "list"}
QaRecord ==
  [at : QaPlaces, n : Nat, named : QaNames, report : ReportOrNone, number : Nat, seen : SUBSET GoalIds, id : QaIds, todo : Nat,
   exit : QaExits, left : QaLeft]
Manifest == [listed : SUBSET GoalIds, readable : BOOLEAN]
QaTyped ==
  /\ manifests \in Seq(Manifest) /\ filed \in SUBSET [goal : GoalIds, run : Nat, finding : Nat]
  /\ storedBy \in [GoalIds -> SUBSET Nat] /\ qaRun \in [QaProcesses -> QaRecord] /\ blind \in BOOLEAN
  /\ onceListed \in SUBSET GoalIds /\ qaRuns \in 0 .. MaxQaRuns /\ qaEdits \in 0 .. MaxQaEdits

\* The runs that have something at a goal.
UsersOf(stored, tickets, g) == stored[g] \cup {t.run : t \in {x \in tickets : x.goal = g}}
UsedOnce ==
  \A g \in QaFocus \X QaNumbers :
    /\ UsersOf(storedBy, filed, g) # {} => g \in onceListed
    /\ ~blind => \E x : UsersOf(storedBy, filed, g) \subseteq {x}

\* What is listed is counted: a name for every run that has none yet is free.
Naming == \E p \in QaProcesses : qaRun[p].at \in {"read", "list"}
ListsAreCounted ==
  /\ IsFiniteSet(onceListed) /\ Cardinality(onceListed) + (IF Naming THEN 1 ELSE 0) <= qaRuns + qaEdits
  /\ \A i \in DOMAIN manifests : manifests[i].listed \subseteq onceListed
  /\ manifests = <<>> => onceListed = {}

\* What a run that is about to list, or has listed, knows of the manifest.
RunKnows(r) ==
  /\ r.number <= Len(manifests)
  /\ r.at = "list" =>
       /\ r.named = "none" /\ r.id \in QaFocus \X QaNumbers /\ r.seen \subseteq onceListed
       /\ ~blind => r.number = Len(manifests) /\ onceListed \subseteq r.seen /\ r.id \notin onceListed
  /\ r.at = "tickets" =>
       /\ r.named # "none" => r.named \in NamedGoals /\ r.id = <<r.named, 1>>
       /\ r.named = "none" => /\ r.left = "list" /\ r.id \in QaFocus \X QaNumbers /\ r.id \in onceListed
                              /\ ~blind => UsersOf(storedBy, filed, r.id) \subseteq {r.n}
  /\ r.at = "idle" /\ r.report.kind # "none" /\ r.exit = VerdictExit(r.report) => r.left # "nothing" \/ r.named # "none"
QaInv == QaTyped /\ UsedOnce /\ ListsAreCounted /\ ListedGoalsStay /\ \A p \in QaProcesses : RunKnows(qaRun[p])

\* One run at a time, a dashboard that does not write while it goes, and goals
\* attached to by name that no run would make up; what else may happen is told in
\* the README.
OneQaRun == ~DashboardRaces /\ (\A p, q \in QaProcesses : p = q) /\ NamedGoals \cap QaFocus = {}

\* A manifest that lists less goals than there are names leaves one.
LEMMA NameIsNew ==
  ASSUME NEW focus \in QaFocus, NEW taken \in SUBSET GoalIds, IsFiniteSet(taken), Cardinality(taken) < MaxQaRuns + MaxQaEdits
  PROVE  NewGoalId(focus, taken) \in QaFocus \X QaNumbers /\ NewGoalId(focus, taken) \notin taken
<1> DEFINE Free == {n \in QaNumbers : <<focus, n>> \notin taken}
<1>1. MaxQaRuns + MaxQaEdits \in Nat
  BY QaAssumption
<1>2. Free # {}
  <2> SUFFICES ASSUME \A n \in QaNumbers : <<focus, n>> \in taken PROVE FALSE
    OBVIOUS
  <2> DEFINE f == [n \in QaNumbers |-> <<focus, n>>]
  <2>1. f \in Injection(QaNumbers, taken)
    BY DEF Injection, IsInjective
  <2> HIDE DEF f
  <2>2. Cardinality(QaNumbers) <= Cardinality(taken)
    BY <2>1, FS_Injection
  <2>3. Cardinality(QaNumbers) = MaxQaRuns + MaxQaEdits
    BY <1>1, FS_Interval DEF QaNumbers
  <2>4. Cardinality(taken) \in Nat
    BY FS_CardinalityType
  <2> QED
    BY <1>1, <2>2, <2>3, <2>4
<1>3. Free \in SUBSET Nat
  BY DEF QaNumbers
<1>4. PICK n \in Free : \A k \in Free : n <= k
  BY <1>2, <1>3, LeastNumber
<1>5. n \in QaNumbers /\ <<focus, n>> \notin taken /\ \A k \in 1 .. n - 1 : <<focus, k>> \in taken
  <2> SUFFICES ASSUME NEW k \in 1 .. n - 1 PROVE <<focus, k>> \in taken
    BY <1>4
  <2>1. n \in Nat /\ k \in Nat /\ k < n /\ k \in QaNumbers
    BY <1>1, <1>3, <1>4 DEF QaNumbers
  <2>2. k \notin Free
    BY <1>4, <2>1
  <2> QED
    BY <2>1, <2>2
<1> DEFINE Chosen == CHOOSE m \in 1 .. MaxQaRuns + MaxQaEdits : <<focus, m>> \notin taken /\ \A k \in 1 .. m - 1 : <<focus, k>> \in taken
<1>6. Chosen \in QaNumbers /\ <<focus, Chosen>> \notin taken
  BY <1>5 DEF QaNumbers
<1>7. NewGoalId(focus, taken) = <<focus, Chosen>>
  BY DEF NewGoalId
<1> HIDE DEF Chosen
<1> QED
  BY <1>6, <1>7

LEMMA QaWords ==
  /\ {"idle", "comment", "record", "read", "list", "tickets"} = QaPlaces /\ {"nothing", "comment", "record", "list"} = QaLeft
  /\ {0, 1, 3, 4, 137} = QaExits /\ GoalIds \subseteq QaIds /\ <<"none", 0>> \in QaIds /\ NamedGoals \cup {"none"} = QaNames
  BY DEF QaPlaces, QaLeft, QaExits, QaIds, QaNames

LEMMA IdleQaRun == NoQaRun \in QaRecord /\ NoQaRun.at = "idle" /\ NoQaRun.report.kind = "none" /\ NoQaRun.number = 0
<1>1. NoReport \in ReportOrNone /\ NoReport.kind = "none"
  BY DEF NoReport, ReportOrNone
<1> DEFINE noId == <<"none", 0>>
<1>2. /\ noId \in QaIds /\ "none" \in QaNames /\ "idle" \in QaPlaces /\ 0 \in QaExits /\ "nothing" \in QaLeft
      /\ {} \in SUBSET GoalIds
  BY DEF QaPlaces, QaLeft, QaExits, QaIds, QaNames
<1>3. NoQaRun = [at |-> "idle", n |-> 0, named |-> "none", report |-> NoReport, number |-> 0, seen |-> {},
                   id |-> noId, todo |-> 0, exit |-> 0, left |-> "nothing"]
  BY DEF NoQaRun
<1> HIDE DEF noId
<1> QED
  BY <1>1, <1>2, <1>3 DEF QaRecord

LEMMA QaStarts == QaGoalsInit => QaInv
<1> SUFFICES ASSUME QaGoalsInit PROVE QaInv
  OBVIOUS
<1>1. NoQaRun \in QaRecord /\ NoQaRun.at = "idle" /\ NoQaRun.report.kind = "none" /\ NoQaRun.number = 0
  BY IdleQaRun
<1>2. /\ manifests = <<>> /\ filed = {} /\ storedBy = [g \in GoalIds |-> {}] /\ qaRun = [p \in QaProcesses |-> NoQaRun]
      /\ blind = FALSE /\ onceListed = {} /\ qaRuns = 0 /\ qaEdits = 0
  BY DEF QaGoalsInit
<1>3. QaTyped
  <2>1. manifests \in Seq(Manifest) /\ filed \in SUBSET [goal : GoalIds, run : Nat, finding : Nat]
    BY <1>2
  <2>2. storedBy \in [GoalIds -> SUBSET Nat]
    BY <1>2
  <2>3. qaRun \in [QaProcesses -> QaRecord]
    BY <1>1, <1>2
  <2>4. blind \in BOOLEAN
    BY <1>2
  <2>5. onceListed \in SUBSET GoalIds /\ qaRuns \in 0 .. MaxQaRuns /\ qaEdits \in 0 .. MaxQaEdits
    BY <1>2, QaAssumption
  <2> QED
    BY <2>1, <2>2, <2>3, <2>4, <2>5 DEF QaTyped
<1>4. UsedOnce
  <2>1. ASSUME NEW g \in GoalIds PROVE UsersOf(storedBy, filed, g) = {}
    <3>1. storedBy[g] = {} /\ filed = {}
      BY <1>2
    <3> QED
      BY <3>1 DEF UsersOf
  <2>2. QaFocus \X QaNumbers \subseteq GoalIds
    BY DEF GoalIds, QaNumbers
  <2> QED
    BY <2>1, <2>2 DEF UsedOnce
<1>5. ListsAreCounted
  <2>1. ~Naming
    BY <1>1, <1>2 DEF Naming
  <2> QED
    BY <1>2, <2>1, FS_EmptySet DEF ListsAreCounted
<1>6. \A p \in QaProcesses : RunKnows(qaRun[p])
  BY <1>1, <1>2 DEF RunKnows
<1> QED
  BY <1>2, <1>3, <1>4, <1>5, <1>6 DEF QaInv, ListedGoalsStay

LEMMA QaTypes ==
  ASSUME QaInv, NEW p \in QaProcesses
  PROVE  /\ qaRun[p] \in QaRecord /\ RunKnows(qaRun[p]) /\ Len(manifests) \in Nat
         /\ QaFocus \X QaNumbers \subseteq GoalIds
  BY DEF QaInv, QaTyped, GoalIds, QaNumbers

\* A run goes on without a word to the manifest: it starts, reports, ends.
LEMMA QaGoesOn ==
  ASSUME QaInv, OneQaRun, NEW p \in QaProcesses, NEW r \in QaRecord, QaGoes(p, r), UNCHANGED <<manifests, onceListed, qaEdits>>,
         qaRuns' \in 0 .. MaxQaRuns, qaRuns <= qaRuns', blind' \in BOOLEAN, blind => blind',
         filed' \in SUBSET [goal : GoalIds, run : Nat, finding : Nat], storedBy' \in [GoalIds -> SUBSET Nat], UsedOnce',
         r.at \in {"read", "list"} => qaRuns < qaRuns' \/ qaRun[p].at \in {"read", "list"}, RunKnows(r)'
  PROVE  QaInv'
<1>1. qaRun'[p] = r /\ \A q \in QaProcesses : q = p
  BY DEF QaInv, QaTyped, QaGoes, OneQaRun
<1>2. QaTyped'
  BY DEF QaInv, QaTyped, QaGoes
<1>3. Cardinality(onceListed) \in Nat
  BY FS_CardinalityType DEF QaInv, ListsAreCounted
<1>4. qaRuns \in Nat /\ qaRuns' \in Nat /\ qaEdits \in Nat
  BY QaAssumption DEF QaInv, QaTyped
<1>5. ListsAreCounted'
  <2>1. (Naming' <=> r.at \in {"read", "list"}) /\ (Naming <=> qaRun[p].at \in {"read", "list"})
    BY <1>1 DEF Naming
  <2>2. Cardinality(onceListed) + (IF Naming' THEN 1 ELSE 0) <= qaRuns' + qaEdits
    <3>1. CASE Naming' /\ ~Naming
      BY <1>3, <1>4, <2>1, <3>1 DEF QaInv, ListsAreCounted
    <3>2. CASE ~Naming' \/ Naming
      BY <1>3, <1>4, <2>1, <3>2 DEF QaInv, ListsAreCounted
    <3> QED
      BY <3>1, <3>2
  <2> QED
    BY <2>2 DEF QaInv, ListsAreCounted
<1>6. ListedGoalsStay'
  BY DEF QaInv, ListedGoalsStay
<1>7. \A q \in QaProcesses : RunKnows(qaRun[q])'
  BY <1>1 DEF RunKnows
<1> QED
  BY <1>2, <1>5, <1>6, <1>7 DEF QaInv

LEMMA UsesStay ==
  ASSUME QaInv, UNCHANGED <<storedBy, filed, onceListed>>, blind => blind'
  PROVE  UsedOnce'
BY DEF QaInv, UsedOnce, UsersOf

\* A run files under the goal it listed, or under one it was told.
LEMMA UsesAreAdded ==
  ASSUME QaInv, OneQaRun, NEW p \in QaProcesses, QaAt(p, "tickets"), UNCHANGED <<onceListed, blind>>,
         \A g \in GoalIds : UsersOf(storedBy', filed', g) \subseteq
           UsersOf(storedBy, filed, g) \cup IF g = qaRun[p].id THEN {qaRun[p].n} ELSE {}
  PROVE  /\ UsedOnce'
         /\ qaRun[p].named = "none" /\ ~blind => UsersOf(storedBy', filed', qaRun[p].id) \subseteq {qaRun[p].n}
<1> DEFINE r == qaRun[p]
<1>1. /\ r.named # "none" => r.named \in NamedGoals /\ r.id = <<r.named, 1>>
      /\ r.named = "none" => /\ r.id \in QaFocus \X QaNumbers /\ r.id \in onceListed
                             /\ ~blind => UsersOf(storedBy, filed, r.id) \subseteq {r.n}
      /\ QaFocus \X QaNumbers \subseteq GoalIds
  BY QaTypes DEF RunKnows, QaAt
<1> HIDE DEF r
<1>2. \A g \in QaFocus \X QaNumbers : g = r.id => r.named = "none"
  BY <1>1 DEF OneQaRun
<1>3. \A g \in QaFocus \X QaNumbers :
        UsersOf(storedBy', filed', g) \subseteq UsersOf(storedBy, filed, g) \cup (IF g = r.id THEN {r.n} ELSE {})
  BY <1>1 DEF r
<1>4. ASSUME NEW g \in QaFocus \X QaNumbers
      PROVE  /\ UsersOf(storedBy', filed', g) # {} => g \in onceListed
             /\ ~blind => \E x : UsersOf(storedBy', filed', g) \subseteq {x}
  <2>1. CASE g = r.id
    BY <1>1, <1>2, <1>3, <2>1
  <2>2. CASE g # r.id
    BY <1>3, <2>2 DEF QaInv, UsedOnce
  <2> QED
    BY <2>1, <2>2
<1>5. UsedOnce'
  BY <1>4 DEF UsedOnce, UsersOf
<1> QED
  BY <1>1, <1>3, <1>5 DEF r

LEMMA QaIsStarted ==
  ASSUME QaInv, OneQaRun, NEW p \in QaProcesses, NEW entry \in {"tracked", "standalone", "promote"},
         NEW named \in NamedGoals \cup {"none"}, NEW report \in QaReports, StartQa(p, entry, named, report)
  PROVE  QaInv'
<1>1. qaRuns' \in 0 .. MaxQaRuns /\ qaRuns < qaRuns' /\ qaRuns <= qaRuns' /\ qaRuns' \in Nat
  BY QaAssumption DEF QaInv, QaTyped, StartQa
<1>2. UNCHANGED <<manifests, onceListed, qaEdits, blind, filed, storedBy>> /\ blind \in BOOLEAN
  BY DEF StartQa, Manifested, QaInv, QaTyped
<1>3. /\ filed' \in SUBSET [goal : GoalIds, run : Nat, finding : Nat] /\ storedBy' \in [GoalIds -> SUBSET Nat]
  BY <1>2 DEF QaInv, QaTyped
<1>4. NoQaRun \in QaRecord /\ NoQaRun.at = "idle" /\ NoQaRun.report.kind = "none" /\ NoQaRun.number = 0
  BY IdleQaRun
<1>5. ASSUME NEW r \in QaRecord, QaGoes(p, r), r.number = 0, r.at \notin {"list", "tickets"},
             r.at = "idle" => r.report.kind = "none"
      PROVE  QaInv'
  <2>1. RunKnows(r)'
    BY <1>2, <1>5, QaTypes DEF RunKnows
  <2> QED
    BY <1>1, <1>2, <1>3, <1>5, <2>1, UsesStay, QaGoesOn
<1>6. ASSUME NEW exit \in {1, 3}, QaGoes(p, [NoQaRun EXCEPT !.n = qaRuns', !.exit = exit]) PROVE QaInv'
  <2> DEFINE r == [NoQaRun EXCEPT !.n = qaRuns', !.exit = exit]
  <2>1. exit \in QaExits
    BY DEF QaExits
  <2>2. r \in QaRecord /\ r.number = NoQaRun.number /\ r.at = NoQaRun.at /\ r.report = NoQaRun.report
    BY <1>1, <1>4, <2>1 DEF QaRecord
  <2>3. QaGoes(p, r)
    BY <1>6
  <2> HIDE DEF r
  <2> QED
    BY <1>4, <1>5, <2>2, <2>3
<1>7. ASSUME NEW at \in {"comment", "read", "record"},
             QaGoes(p, [NoQaRun EXCEPT !.n = qaRuns', !.named = named, !.report = report, !.todo = report.findings, !.at = at])
      PROVE  QaInv'
  <2> DEFINE r == [NoQaRun EXCEPT !.n = qaRuns', !.named = named, !.report = report, !.todo = report.findings, !.at = at]
  <2>1. report.findings \in Nat /\ report \in ReportOrNone /\ named \in QaNames /\ at \in QaPlaces
    BY QaAssumption DEF ReportOrNone, QaNames, QaPlaces
  <2>2. r \in QaRecord /\ r.number = NoQaRun.number /\ r.at = at
    BY <1>1, <1>4, <2>1 DEF QaRecord
  <2>3. QaGoes(p, r)
    BY <1>7
  <2> HIDE DEF r
  <2> QED
    BY <1>4, <1>5, <2>2, <2>3
<1> QED
  BY <1>6, <1>7 DEF StartQa

\* A run ends, by its verdict only where it left something or was told its goal.
LEMMA QaRunEnds ==
  ASSUME QaInv, OneQaRun, NEW p \in QaProcesses, NEW exit \in QaExits, NEW left \in QaLeft,
         QaEnds(p, exit, left), UNCHANGED <<manifests, onceListed, qaEdits, qaRuns, blind, filed>>,
         storedBy' \in [GoalIds -> SUBSET Nat], UsedOnce',
         qaRun[p].report.kind # "none" /\ exit = VerdictExit(qaRun[p].report) => left # "nothing" \/ qaRun[p].named # "none"
  PROVE  QaInv'
<1>1. qaRun[p] \in QaRecord /\ RunKnows(qaRun[p]) /\ "idle" \in QaPlaces
  BY QaTypes DEF QaPlaces
<1>2. PICK r \in QaRecord :
        /\ QaGoes(p, r) /\ r.at = "idle" /\ r.exit = exit /\ r.left = left /\ r.named = qaRun[p].named
        /\ r.report = qaRun[p].report /\ r.number = qaRun[p].number
  <2> DEFINE s == [qaRun[p] EXCEPT !.at = "idle", !.exit = exit, !.left = left]
  <2>1. s \in QaRecord
    BY <1>1 DEF QaRecord
  <2>2. QaGoes(p, s)
    BY DEF QaEnds
  <2>3. /\ s.at = "idle" /\ s.exit = exit /\ s.left = left /\ s.named = qaRun[p].named
        /\ s.report = qaRun[p].report /\ s.number = qaRun[p].number
    BY <1>1 DEF QaRecord
  <2> HIDE DEF s
  <2> QED
    BY <2>1, <2>2, <2>3
<1>3. RunKnows(r)'
  <2>1. r.number <= Len(manifests')
    BY <1>1, <1>2 DEF RunKnows
  <2>2. r.report.kind # "none" /\ r.exit = VerdictExit(r.report) => r.left # "nothing" \/ r.named # "none"
    BY <1>2
  <2> QED
    BY <1>2, <2>1, <2>2 DEF RunKnows, VerdictExit
<1>4. /\ qaRuns' \in 0 .. MaxQaRuns /\ qaRuns <= qaRuns' /\ blind' \in BOOLEAN
      /\ filed' \in SUBSET [goal : GoalIds, run : Nat, finding : Nat]
  BY QaAssumption DEF QaInv, QaTyped
<1> QED
  BY <1>1, <1>2, <1>3, <1>4, QaGoesOn

\* What a run that files tickets knows of its goal.
LEMMA QaFilesAt ==
  ASSUME QaInv, NEW p \in QaProcesses, QaAt(p, "tickets")
  PROVE  qaRun[p].id \in GoalIds /\ qaRun[p].n \in Nat /\ qaRun[p].todo \in Nat /\ qaRun[p].left \in QaLeft
<1>1. qaRun[p] \in QaRecord /\ RunKnows(qaRun[p]) /\ QaFocus \X QaNumbers \subseteq GoalIds
  BY QaTypes
<1>2. qaRun[p].n \in Nat /\ qaRun[p].todo \in Nat /\ qaRun[p].left \in QaLeft
  BY <1>1 DEF QaRecord
<1>3. \A name \in NamedGoals : <<name, 1>> \in GoalIds
  BY DEF GoalIds
<1>4. qaRun[p].id \in GoalIds
  BY <1>1, <1>3 DEF RunKnows, QaAt
<1> QED
  BY <1>2, <1>4

LEMMA QaIsDone ==
  ASSUME QaInv, OneQaRun, NEW p \in QaProcesses, PostReport(p) \/ QaKilled(p) \/ StoreQaGoal(p)
  PROVE  QaInv'
<1>1. qaRun[p] \in QaRecord /\ RunKnows(qaRun[p]) /\ VerdictExit(qaRun[p].report) \in {0, 1}
  BY QaTypes DEF VerdictExit
<1>2. CASE PostReport(p) \/ QaKilled(p)
  <2>1. UNCHANGED <<manifests, onceListed, qaEdits, qaRuns, blind, filed, storedBy>>
    BY <1>2 DEF PostReport, QaKilled, Manifested
  <2>2. storedBy' \in [GoalIds -> SUBSET Nat] /\ UsedOnce'
    BY <2>1, UsesStay DEF QaInv, QaTyped
  <2>3. CASE QaEnds(p, VerdictExit(qaRun[p].report), qaRun[p].at) /\ qaRun[p].at \in {"comment", "record"}
    <3>1. VerdictExit(qaRun[p].report) \in QaExits /\ qaRun[p].at \in QaLeft /\ qaRun[p].at # "nothing"
      BY <1>1, <2>3 DEF QaExits, QaLeft
    <3> QED
      BY <2>1, <2>2, <2>3, <3>1, QaRunEnds
  <2>4. CASE \E exit \in {4, 137} : QaEnds(p, exit, "nothing")
    <3>1. PICK exit \in {4, 137} : QaEnds(p, exit, "nothing")
      BY <2>4
    <3>2. exit \in QaExits /\ "nothing" \in QaLeft /\ exit # VerdictExit(qaRun[p].report)
      BY <1>1 DEF QaExits, QaLeft
    <3> QED
      BY <2>1, <2>2, <3>1, <3>2, QaRunEnds
  <2> QED
    BY <1>2, <2>3, <2>4 DEF PostReport, QaKilled, QaAt
<1>3. CASE StoreQaGoal(p)
  <2> DEFINE r == qaRun[p]
  <2>1. /\ QaAt(p, "tickets") /\ QaEnds(p, VerdictExit(r.report), r.left)
        /\ UNCHANGED <<manifests, onceListed, qaEdits, qaRuns, blind, filed>>
    BY <1>3 DEF StoreQaGoal, Manifested
  <2>2. r.id \in GoalIds /\ r.n \in Nat /\ r.left \in QaLeft /\ VerdictExit(r.report) \in QaExits
    BY <2>1, QaFilesAt DEF QaExits, VerdictExit
  <2>3. UNCHANGED storedBy \/ storedBy' = [storedBy EXCEPT ![r.id] = @ \cup {r.n}]
    BY <1>3 DEF StoreQaGoal
  <2>4. storedBy' \in [GoalIds -> SUBSET Nat]
    BY <2>2, <2>3 DEF QaInv, QaTyped
  <2>5. \A g \in GoalIds : storedBy'[g] \subseteq storedBy[g] \cup (IF g = r.id THEN {r.n} ELSE {})
    BY <2>2, <2>3 DEF QaInv, QaTyped
  <2>6. \A g \in GoalIds : UsersOf(storedBy', filed', g) \subseteq UsersOf(storedBy, filed, g) \cup (IF g = r.id THEN {r.n} ELSE {})
    BY <2>1, <2>5 DEF UsersOf
  <2>7. UsedOnce'
    BY <2>1, <2>6, UsesAreAdded
  <2>8. r.left # "nothing" \/ r.named # "none"
    BY <1>1, <2>1 DEF RunKnows, QaAt
  <2> QED
    BY <1>1, <2>1, <2>2, <2>4, <2>7, <2>8, QaRunEnds
<1> QED
  BY <1>2, <1>3

LEMMA TicketIsOpened ==
  ASSUME QaInv, OneQaRun, NEW p \in QaProcesses, OpenTicket(p)
  PROVE  QaInv'
<1> DEFINE r == qaRun[p]
           ticket == [goal |-> r.id, run |-> r.n, finding |-> r.todo]
<1>1. /\ r \in QaRecord /\ RunKnows(r) /\ QaAt(p, "tickets") /\ r.todo > 0 /\ QaGoes(p, [r EXCEPT !.todo = @ - 1])
      /\ UNCHANGED <<manifests, onceListed, qaEdits, qaRuns, blind, storedBy>> /\ (UNCHANGED filed \/ filed' = filed \cup {ticket})
  BY QaTypes DEF OpenTicket, Manifested
<1>2. r.id \in GoalIds /\ r.n \in Nat /\ r.todo \in Nat /\ r.todo - 1 \in Nat
  BY <1>1, QaFilesAt
<1>3. ticket \in [goal : GoalIds, run : Nat, finding : Nat] /\ ticket.goal = r.id /\ ticket.run = r.n
  BY <1>2
<1>4. PICK s \in QaRecord :
        QaGoes(p, s) /\ s.at = "tickets" /\ s.n = r.n /\ s.id = r.id /\ s.named = r.named /\ s.left = r.left /\ s.number = r.number
  <2> DEFINE s == [r EXCEPT !.todo = @ - 1]
  <2>1. s \in QaRecord /\ s.at = "tickets" /\ s.n = r.n /\ s.id = r.id /\ s.named = r.named /\ s.left = r.left /\ s.number = r.number
    BY <1>1, <1>2 DEF QaRecord, QaAt
  <2>2. QaGoes(p, s)
    BY <1>1
  <2> HIDE DEF s
  <2> QED
    BY <2>1, <2>2
<1> HIDE DEF ticket
<1>5. filed' \in SUBSET [goal : GoalIds, run : Nat, finding : Nat]
  BY <1>1, <1>3 DEF QaInv, QaTyped
<1>6. \A g \in GoalIds : UsersOf(storedBy', filed', g) \subseteq UsersOf(storedBy, filed, g) \cup (IF g = r.id THEN {r.n} ELSE {})
  BY <1>1, <1>3 DEF UsersOf
<1>7. UsedOnce' /\ (r.named = "none" /\ ~blind => UsersOf(storedBy', filed', r.id) \subseteq {r.n})
  BY <1>1, <1>6, UsesAreAdded
<1>8. RunKnows(s)'
  <2>1. RunKnows(s)' <=>
          /\ s.number <= Len(manifests')
          /\ s.named # "none" => s.named \in NamedGoals /\ s.id = <<s.named, 1>>
          /\ s.named = "none" => /\ s.left = "list" /\ s.id \in QaFocus \X QaNumbers /\ s.id \in onceListed'
                                 /\ ~blind' => UsersOf(storedBy', filed', s.id) \subseteq {s.n}
    BY <1>4 DEF RunKnows, UsersOf
  <2>2. /\ r.number <= Len(manifests)
        /\ r.named # "none" => r.named \in NamedGoals /\ r.id = <<r.named, 1>>
        /\ r.named = "none" => r.left = "list" /\ r.id \in QaFocus \X QaNumbers /\ r.id \in onceListed
    BY <1>1 DEF RunKnows, QaAt
  <2> HIDE DEF r
  <2> QED
    BY <1>1, <1>4, <1>7, <2>1, <2>2
<1>9. qaRuns' \in 0 .. MaxQaRuns /\ qaRuns <= qaRuns' /\ blind' \in BOOLEAN /\ storedBy' \in [GoalIds -> SUBSET Nat]
  BY <1>1, QaAssumption DEF QaInv, QaTyped
<1> QED
  BY <1>1, <1>4, <1>5, <1>7, <1>8, <1>9, QaGoesOn

\* What a run reads of the manifest names its goal: a new name, unless it could
\* not read what was there.
LEMMA ManifestIsRead ==
  ASSUME QaInv, OneQaRun, NEW p \in QaProcesses, ReadManifest(p)
  PROVE  QaInv'
<1>1. /\ qaRun[p] \in QaRecord /\ QaAt(p, "read") /\ Len(manifests) \in Nat /\ QaFocus \X QaNumbers \subseteq GoalIds
      /\ UNCHANGED <<manifests, filed, storedBy, onceListed, qaRuns, qaEdits>>
  BY QaTypes DEF ReadManifest
<1>2. PICK number \in {Len(manifests), 0} :
        LET readable == number > 0 /\ manifests[number].readable
            seen == IF readable THEN manifests[number].listed ELSE {}
            r == [qaRun[p] EXCEPT !.number = number, !.seen = seen]
        IN IF r.named # "none"
           THEN QaGoes(p, [r EXCEPT !.id = <<r.named, 1>>, !.at = "tickets"]) /\ UNCHANGED blind
           ELSE /\ blind' = (blind \/ (manifests # <<>> /\ ~readable))
                /\ \E focus \in QaFocus : QaGoes(p, [r EXCEPT !.id = NewGoalId(focus, seen), !.at = "list"])
  BY DEF ReadManifest
<1> DEFINE readable == number > 0 /\ manifests[number].readable
           seen == IF readable THEN manifests[number].listed ELSE {}
           r == [qaRun[p] EXCEPT !.number = number, !.seen = seen]
<1>3. /\ r.named # "none" => QaGoes(p, [r EXCEPT !.id = <<r.named, 1>>, !.at = "tickets"]) /\ UNCHANGED blind
      /\ r.named = "none" => /\ blind' = (blind \/ (manifests # <<>> /\ ~readable))
                             /\ \E focus \in QaFocus : QaGoes(p, [r EXCEPT !.id = NewGoalId(focus, seen), !.at = "list"])
  BY <1>2
<1>4. number \in 0 .. Len(manifests) /\ number \in Nat /\ (number > 0 => number \in DOMAIN manifests) /\ manifests \in Seq(Manifest)
  BY <1>1 DEF QaInv, QaTyped
<1>5. seen \subseteq onceListed /\ seen \in SUBSET GoalIds
  <2>1. CASE readable
    BY <1>4, <2>1 DEF QaInv, ListsAreCounted, QaTyped
  <2>2. CASE ~readable
    BY <2>2
  <2> QED
    BY <2>1, <2>2
<1>6. ~(blind \/ (manifests # <<>> /\ ~readable)) => number = Len(manifests) /\ onceListed \subseteq seen
  <2> SUFFICES ASSUME ~blind, manifests = <<>> \/ readable PROVE number = Len(manifests) /\ onceListed \subseteq seen
    OBVIOUS
  <2>1. CASE manifests = <<>>
    BY <1>2, <2>1 DEF QaInv, ListsAreCounted
  <2>2. CASE manifests # <<>> /\ readable
    <3>1. number > 0
      BY <2>2
    <3>2. number = Len(manifests)
      BY <1>4, <3>1
    <3> QED
      BY <2>2, <3>2 DEF QaInv, ListedGoalsStay
  <2> QED
    BY <2>1, <2>2
<1>7. IsFiniteSet(seen) /\ Cardinality(seen) < MaxQaRuns + MaxQaEdits
  <2>1. Naming
    BY <1>1 DEF Naming, QaAt
  <2>2. IsFiniteSet(onceListed) /\ Cardinality(onceListed) \in Nat /\ Cardinality(onceListed) + 1 <= qaRuns + qaEdits
    BY <2>1, FS_CardinalityType DEF QaInv, ListsAreCounted
  <2>3. IsFiniteSet(seen) /\ Cardinality(seen) <= Cardinality(onceListed) /\ Cardinality(seen) \in Nat
    BY <1>5, <2>2, FS_Subset, FS_CardinalityType
  <2> QED
    BY <2>2, <2>3, QaAssumption DEF QaInv, QaTyped
<1>8. r \in QaRecord /\ r.number = number /\ r.seen = seen
  BY <1>1, <1>4, <1>5 DEF QaRecord
<1> DEFINE unread == manifests # <<>> /\ ~readable
<1> HIDE DEF r, seen, readable, unread
<1>9. /\ qaRuns' \in 0 .. MaxQaRuns /\ qaRuns <= qaRuns' /\ storedBy' \in [GoalIds -> SUBSET Nat]
      /\ filed' \in SUBSET [goal : GoalIds, run : Nat, finding : Nat] /\ qaRun[p].at \in {"read", "list"}
  BY <1>1, QaAssumption DEF QaInv, QaTyped, QaAt
<1>10. CASE r.named # "none"
  <2> DEFINE t == [r EXCEPT !.id = <<r.named, 1>>, !.at = "tickets"]
  <2>1. r.named \in NamedGoals /\ <<r.named, 1>> \in GoalIds
    BY <1>8, <1>10 DEF GoalIds, QaRecord, QaNames
  <2>2. PICK s \in QaRecord : QaGoes(p, s) /\ s.id = <<r.named, 1>> /\ s.at = "tickets" /\ s.named = r.named /\ s.number = number
    <3>1. <<r.named, 1>> \in QaIds /\ "tickets" \in QaPlaces
      BY <2>1 DEF QaIds, QaPlaces
    <3> DEFINE id == <<r.named, 1>>
               s == [r EXCEPT !.id = id, !.at = "tickets"]
    <3>2. QaGoes(p, s)
      BY <1>3, <1>10
    <3>3. id \in QaIds
      BY <3>1
    <3> HIDE DEF id
    <3>4. s \in QaRecord /\ s.id = id /\ s.at = "tickets" /\ s.named = r.named /\ s.number = number
      BY <1>8, <3>1, <3>3 DEF QaRecord
    <3> HIDE DEF s
    <3>5. id = <<r.named, 1>>
      BY DEF id
    <3> QED
      BY <3>2, <3>4, <3>5
  <2>3. UNCHANGED blind /\ blind' \in BOOLEAN
    BY <1>3, <1>10 DEF QaInv, QaTyped
  <2>4. RunKnows(s)'
    BY <1>1, <1>4, <1>10, <2>1, <2>2 DEF RunKnows
  <2> QED
    BY <1>1, <1>9, <2>2, <2>3, <2>4, UsesStay, QaGoesOn
<1>11. CASE r.named = "none"
  <2>1. PICK focus \in QaFocus : QaGoes(p, [r EXCEPT !.id = NewGoalId(focus, seen), !.at = "list"])
    BY <1>3, <1>11
  <2>2. PICK id \in QaFocus \X QaNumbers : id = NewGoalId(focus, seen) /\ id \notin seen
    BY <1>5, <1>7, NameIsNew
  <2>3. PICK s \in QaRecord : QaGoes(p, s) /\ s.id = id /\ s.at = "list" /\ s.named = "none" /\ s.number = number /\ s.seen = seen
    <3> DEFINE s == [r EXCEPT !.id = id, !.at = "list"]
    <3>1. QaGoes(p, s)
      BY <2>1, <2>2
    <3>2. id \in QaIds /\ "list" \in QaPlaces
      BY <1>1, <2>2 DEF QaIds, QaPlaces
    <3>3. s \in QaRecord /\ s.id = id /\ s.at = "list" /\ s.named = "none" /\ s.number = number /\ s.seen = seen
      BY <1>8, <1>11, <3>2 DEF QaRecord
    <3> HIDE DEF s
    <3> QED
      BY <3>1, <3>3
  <2>4. blind' \in BOOLEAN /\ (blind => blind')
    BY <1>3, <1>11 DEF QaInv, QaTyped
  <2>5. ~blind' => number = Len(manifests) /\ onceListed \subseteq seen
    BY <1>3, <1>6, <1>11
  <2>6. RunKnows(s)'
    BY <1>1, <1>4, <1>5, <2>2, <2>3, <2>5 DEF RunKnows
  <2> QED
    BY <1>1, <1>9, <2>3, <2>4, <2>6, UsesStay, QaGoesOn
<1> QED
  BY <1>10, <1>11

\* The manifest grows by an entry of a run's or of the dashboard's.
LEMMA ManifestGrows ==
  ASSUME QaInv, onceListed' = onceListed \/ (\E g : onceListed' = onceListed \cup {g}), onceListed' \in SUBSET GoalIds, UNCHANGED <<filed, storedBy, blind, qaRuns>>,
         manifests' \in Seq(Manifest), \A i \in DOMAIN manifests' : manifests'[i].listed \subseteq onceListed', manifests' # <<>>,
         ListedGoalsStay', qaRun' \in [QaProcesses -> QaRecord], qaEdits' \in 0 .. MaxQaEdits,
         qaEdits <= qaEdits', qaEdits < qaEdits' \/ Naming, ~Naming', \A p \in QaProcesses : RunKnows(qaRun[p])'
  PROVE  QaInv'
<1>1. QaTyped'
  BY DEF QaInv, QaTyped
<1>2. UsedOnce'
  BY DEF QaInv, UsedOnce, UsersOf
<1>3. IsFiniteSet(onceListed') /\ Cardinality(onceListed') <= Cardinality(onceListed) + 1 /\ Cardinality(onceListed) \in Nat
  <2>1. IsFiniteSet(onceListed) /\ Cardinality(onceListed) \in Nat
    BY FS_CardinalityType DEF QaInv, ListsAreCounted
  <2>2. CASE onceListed' = onceListed
    BY <2>1, <2>2
  <2>3. CASE \E g : onceListed' = onceListed \cup {g}
    <3> PICK g : onceListed' = onceListed \cup {g}
      BY <2>3
    <3> DEFINE n == Cardinality(onceListed)
    <3>1. IsFiniteSet(onceListed \cup {g}) /\ Cardinality(onceListed \cup {g}) = IF g \in onceListed THEN n ELSE n + 1
      BY <2>1, FS_AddElement
    <3>2. Cardinality(onceListed \cup {g}) \in {n, n + 1} /\ n \in Nat
      BY <2>1, <3>1
    <3> HIDE DEF n
    <3>3. Cardinality(onceListed \cup {g}) <= n + 1
      BY <3>2
    <3> QED
      BY <2>1, <3>1, <3>3 DEF n
  <2> QED
    BY <2>2, <2>3
<1>4. Cardinality(onceListed') <= qaRuns' + qaEdits'
  <2>1. qaRuns \in Nat /\ qaEdits \in Nat /\ qaEdits' \in Nat
    BY QaAssumption DEF QaInv, QaTyped
  <2>2. Cardinality(onceListed') \in Nat
    BY <1>3, FS_CardinalityType
  <2>3. CASE Naming
    BY <1>3, <2>1, <2>2, <2>3 DEF QaInv, ListsAreCounted
  <2>4. CASE ~Naming
    BY <1>3, <2>1, <2>2, <2>4 DEF QaInv, ListsAreCounted
  <2> QED
    BY <2>3, <2>4
<1>5. ListsAreCounted'
  <2>1. qaRuns' + qaEdits' \in Int /\ Cardinality(onceListed') \in Int
    BY <1>1, <1>3, FS_CardinalityType, QaAssumption DEF QaTyped
  <2> QED
    BY <1>3, <1>4, <2>1 DEF ListsAreCounted
<1> QED
  BY <1>1, <1>2, <1>5 DEF QaInv

LEMMA GoalIsListed ==
  ASSUME QaInv, OneQaRun, NEW p \in QaProcesses, ListGoal(p)
  PROVE  QaInv'
<1> DEFINE r == qaRun[p]
           listed == r.seen \cup {r.id}
           entry == [listed |-> listed, readable |-> TRUE]
<1>1. /\ r \in QaRecord /\ RunKnows(r) /\ QaAt(p, "list") /\ Len(manifests) \in Nat /\ QaFocus \X QaNumbers \subseteq GoalIds
      /\ UNCHANGED <<filed, storedBy, blind, qaRuns, qaEdits>> /\ manifests \in Seq(Manifest) /\ onceListed \in SUBSET GoalIds
      /\ \A q \in QaProcesses : q = p
  BY QaTypes DEF ListGoal, QaInv, QaTyped, OneQaRun
<1>2. /\ r.number \in Nat /\ r.number <= Len(manifests) /\ r.n \in Nat /\ r.named = "none" /\ r.id \in QaFocus \X QaNumbers
      /\ r.id \in GoalIds /\ r.seen \subseteq onceListed
      /\ ~blind => r.number = Len(manifests) /\ onceListed \subseteq r.seen /\ r.id \notin onceListed
  BY <1>1 DEF QaRecord, RunKnows, QaAt
<1>3. \/ /\ manifests' = WithManifest(r.number, listed) /\ onceListed' = onceListed \cup {r.id}
         /\ \/ QaGoes(p, [r EXCEPT !.at = "tickets", !.left = "list"])
            \/ QaEnds(p, 4, "list")
      \/ QaEnds(p, 4, "nothing") /\ UNCHANGED <<manifests, onceListed>>
  BY DEF ListGoal
<1>4. CASE QaEnds(p, 4, "nothing") /\ UNCHANGED <<manifests, onceListed>>
  <2>1. 4 \in QaExits /\ "nothing" \in QaLeft /\ 4 # VerdictExit(r.report)
    BY DEF QaExits, QaLeft, VerdictExit
  <2>2. storedBy' \in [GoalIds -> SUBSET Nat] /\ UsedOnce'
    BY <1>1, <1>4, UsesStay DEF QaInv, QaTyped
  <2> QED
    BY <1>1, <1>4, <2>1, <2>2, QaRunEnds
<1>5. CASE /\ manifests' = WithManifest(r.number, listed) /\ onceListed' = onceListed \cup {r.id}
           /\ \/ QaGoes(p, [r EXCEPT !.at = "tickets", !.left = "list"])
              \/ QaEnds(p, 4, "list")
  <2>1. entry \in Manifest /\ entry.listed = listed /\ entry.readable /\ listed \subseteq onceListed'
    BY <1>1, <1>2, <1>5 DEF Manifest
  <2>2. /\ r.number = 0 => manifests' = Append(manifests, entry)
        /\ r.number # 0 => manifests' = [manifests EXCEPT ![r.number] = entry]
    BY <1>5 DEF WithManifest
  <2> DEFINE last == IF r.number = 0 THEN Len(manifests) + 1 ELSE Len(manifests)
  <2>3. /\ manifests' \in Seq(Manifest) /\ Len(manifests') = last /\ last > 0
        /\ \A i \in 1 .. last : manifests'[i] = entry \/ (i \in DOMAIN manifests /\ manifests'[i] = manifests[i])
        /\ ~blind => manifests'[last] = entry
    <3> HIDE DEF r, entry
    <3>1. CASE r.number = 0
      BY <1>1, <1>2, <2>1, <2>2, <3>1
    <3>2. CASE r.number # 0
      BY <1>1, <1>2, <2>1, <2>2, <3>2
    <3> QED
      BY <3>1, <3>2
  <2>4. manifests' # <<>> /\ Len(manifests) <= Len(manifests')
    BY <1>1, <2>3
  <2>5. \A i \in DOMAIN manifests' : manifests'[i].listed \subseteq onceListed'
    <3> SUFFICES ASSUME NEW i \in DOMAIN manifests' PROVE manifests'[i].listed \subseteq onceListed'
      OBVIOUS
    <3>1. i \in 1 .. last
      BY <2>3
    <3>2. CASE manifests'[i] = entry
      BY <2>1, <3>2
    <3>3. CASE i \in DOMAIN manifests /\ manifests'[i] = manifests[i]
      BY <1>5, <3>3 DEF QaInv, ListsAreCounted
    <3> QED
      BY <2>3, <3>1, <3>2, <3>3
  <2>6. ListedGoalsStay'
    <3>1. ~blind => manifests'[Len(manifests')] = entry /\ onceListed' \subseteq entry.listed
      BY <1>2, <1>5, <2>1, <2>3
    <3> QED
      BY <1>1, <3>1 DEF ListedGoalsStay
  <2>7. PICK s \in QaRecord :
          /\ QaGoes(p, s) /\ s.at \in {"tickets", "idle"} /\ s.left = "list" /\ s.n = r.n /\ s.id = r.id /\ s.named = "none"
          /\ s.number = r.number /\ s.report = r.report
    <3>1. "tickets" \in QaPlaces /\ "idle" \in QaPlaces /\ "list" \in QaLeft /\ 4 \in QaExits
      BY DEF QaPlaces, QaLeft, QaExits
    <3>2. CASE QaGoes(p, [r EXCEPT !.at = "tickets", !.left = "list"])
      <4> DEFINE s == [r EXCEPT !.at = "tickets", !.left = "list"]
      <4>1. /\ s \in QaRecord /\ s.at = "tickets" /\ s.left = "list" /\ s.n = r.n /\ s.id = r.id /\ s.named = "none"
            /\ s.number = r.number /\ s.report = r.report
        BY <1>1, <1>2, <3>1 DEF QaRecord
      <4> QED
        BY <3>2, <4>1
    <3>3. CASE QaEnds(p, 4, "list")
      <4> DEFINE s == [r EXCEPT !.at = "idle", !.exit = 4, !.left = "list"]
      <4>1. /\ s \in QaRecord /\ s.at = "idle" /\ s.left = "list" /\ s.n = r.n /\ s.id = r.id /\ s.named = "none"
            /\ s.number = r.number /\ s.report = r.report
        BY <1>1, <1>2, <3>1 DEF QaRecord
      <4> QED
        BY <3>3, <4>1 DEF QaEnds
    <3> QED
      BY <1>5, <3>2, <3>3
  <2>8. qaRun' \in [QaProcesses -> QaRecord] /\ qaRun'[p] = s
    BY <2>7 DEF QaGoes, QaInv, QaTyped
  <2>9. Naming /\ ~Naming'
    BY <1>1, <2>7, <2>8 DEF Naming, QaAt
  <2>10. ~blind => UsersOf(storedBy, filed, r.id) = {}
    BY <1>2 DEF QaInv, UsedOnce
  <2>11. RunKnows(qaRun[p])'
    <3>1. UNCHANGED <<storedBy, filed, blind>> /\ r.id \in onceListed' /\ r.number <= Len(manifests')
      BY <1>1, <1>2, <1>5, <2>4
    <3> HIDE DEF r
    <3> QED
      BY <1>2, <2>7, <2>8, <2>10, <3>1 DEF RunKnows, UsersOf
  <2>12. \A q \in QaProcesses : RunKnows(qaRun[q])'
    BY <1>1, <2>11
  <2>13. qaEdits' \in 0 .. MaxQaEdits /\ qaEdits <= qaEdits'
    BY <1>1, QaAssumption DEF QaInv, QaTyped
  <2>14. onceListed' = onceListed \/ (\E g : onceListed' = onceListed \cup {g})
    BY <1>5
  <2>15. onceListed' \in SUBSET GoalIds /\ UNCHANGED <<filed, storedBy, blind, qaRuns>> /\ manifests' \in Seq(Manifest)
         /\ qaRun' \in [QaProcesses -> QaRecord] /\ (qaEdits < qaEdits' \/ Naming) /\ manifests' # <<>>
    BY <1>1, <1>2, <1>5, <2>3, <2>4, <2>8, <2>9
  <2> HIDE DEF r, listed, entry, last
  <2> QED
    BY <2>5, <2>6, <2>9, <2>12, <2>13, <2>14, <2>15, ManifestGrows
<1> QED
  BY <1>3, <1>4, <1>5

LEMMA ManifestIsEdited ==
  ASSUME QaInv, OneQaRun, DashboardEdits
  PROVE  QaInv'
<1> DEFINE last == Len(manifests)
<1>1. /\ manifests # <<>> /\ qaEdits < MaxQaEdits /\ qaEdits' = qaEdits + 1 /\ \A p \in QaProcesses : qaRun[p].at = "idle"
      /\ UNCHANGED <<filed, storedBy, qaRun, blind, qaRuns>>
  BY DEF DashboardEdits, OneQaRun, QaAt
<1>2. manifests \in Seq(Manifest) /\ last \in Nat /\ last > 0 /\ last \in DOMAIN manifests /\ manifests[last] \in Manifest
  BY <1>1 DEF QaInv, QaTyped
<1>3. qaEdits' \in 0 .. MaxQaEdits /\ qaEdits < qaEdits' /\ qaEdits <= qaEdits'
  BY <1>1, QaAssumption DEF QaInv, QaTyped
<1>4. qaRun' \in [QaProcesses -> QaRecord] /\ ~Naming'
  BY <1>1 DEF QaInv, QaTyped, Naming
<1>5. \A p \in QaProcesses : qaRun'[p] = qaRun[p] /\ RunKnows(qaRun[p])
  BY <1>1 DEF QaInv
<1>6. ASSUME NEW entry \in Manifest, manifests' = [manifests EXCEPT ![last] = entry], onceListed' \in SUBSET GoalIds,
             \/ entry.listed = manifests[last].listed /\ ~entry.readable /\ onceListed' = onceListed
             \/ /\ manifests[last].readable
                /\ \E g : entry.listed = manifests[last].listed \cup {g} /\ onceListed' = onceListed \cup {g}
      PROVE  QaInv'
  <2>1. manifests' \in Seq(Manifest) /\ Len(manifests') = last /\ manifests' # <<>> /\ manifests'[last] = entry
    BY <1>2, <1>6
  <2>2. \A i \in DOMAIN manifests' : i # last => i \in DOMAIN manifests /\ manifests'[i] = manifests[i]
    BY <1>2, <1>6
  <2>3. \A i \in DOMAIN manifests' : manifests'[i].listed \subseteq onceListed'
    <3>1. \A i \in DOMAIN manifests : manifests[i].listed \subseteq onceListed
      BY DEF QaInv, ListsAreCounted
    <3>2. entry.listed \subseteq onceListed'
      BY <1>2, <1>6, <3>1
    <3>3. onceListed \subseteq onceListed'
      BY <1>6
    <3> QED
      BY <2>1, <2>2, <3>1, <3>2, <3>3
  <2>4. ListedGoalsStay'
    BY <1>1, <1>6, <2>1 DEF QaInv, ListedGoalsStay
  <2>5. \A p \in QaProcesses : RunKnows(qaRun[p])'
    BY <1>1, <1>5, <2>1 DEF RunKnows, VerdictExit
  <2>6. onceListed' = onceListed \/ (\E g : onceListed' = onceListed \cup {g})
    BY <1>6
  <2>7. UNCHANGED <<filed, storedBy, blind, qaRuns>> /\ (qaEdits < qaEdits' \/ Naming)
    BY <1>1, <1>3
  <2> HIDE DEF last
  <2> QED
    BY <1>3, <1>4, <1>6, <2>1, <2>3, <2>4, <2>5, <2>6, <2>7, ManifestGrows
<1>7. CASE manifests[last].readable /\ \E g \in GoalIds \ manifests[last].listed :
             manifests' = [manifests EXCEPT ![last].listed = @ \cup {g}] /\ onceListed' = onceListed \cup {g}
  <2>1. PICK g \in GoalIds : manifests' = [manifests EXCEPT ![last].listed = @ \cup {g}] /\ onceListed' = onceListed \cup {g}
    BY <1>7
  <2> DEFINE entry == [manifests[last] EXCEPT !.listed = @ \cup {g}]
  <2>2. entry \in Manifest /\ entry.listed = manifests[last].listed \cup {g}
    BY <1>2 DEF Manifest
  <2>3. manifests' = [manifests EXCEPT ![last] = entry] /\ onceListed' \in SUBSET GoalIds
    BY <2>1 DEF QaInv, QaTyped
  <2> HIDE DEF entry
  <2> QED
    BY <1>6, <1>7, <2>1, <2>2, <2>3
<1>8. CASE manifests' = [manifests EXCEPT ![last].readable = FALSE] /\ UNCHANGED onceListed
  <2> DEFINE entry == [manifests[last] EXCEPT !.readable = FALSE]
  <2>1. entry \in Manifest /\ entry.listed = manifests[last].listed /\ ~entry.readable
    BY <1>2 DEF Manifest
  <2>2. manifests' = [manifests EXCEPT ![last] = entry]
    BY <1>8
  <2> HIDE DEF entry
  <2>3. onceListed' \in SUBSET GoalIds
    BY <1>8 DEF QaInv, QaTyped
  <2>4. onceListed' = onceListed
    BY <1>8
  <2> HIDE DEF last
  <2> QED
    BY <1>6, <2>1, <2>2, <2>3, <2>4
<1> QED
  BY <1>1, <1>7, <1>8 DEF DashboardEdits

\* THEOREM: whatever fails between two steps of a run, what is listed is counted
\* and every run knows what it must of the manifest.
THEOREM QaInvariance ==
  ASSUME OneQaRun
  PROVE  QaGoalsSpec => []QaInv
<1>1. ASSUME QaInv, [QaGoalsNext]_qaVars PROVE QaInv'
  <2>1. CASE UNCHANGED qaVars
    <3>1. UNCHANGED <<manifests, filed, storedBy, qaRun, blind, onceListed, qaRuns, qaEdits>>
      BY <2>1 DEF qaVars
    <3>2. QaTyped'
      BY <1>1, <3>1 DEF QaInv, QaTyped
    <3>3. UsedOnce' /\ (Naming' <=> Naming)
      BY <1>1, <3>1, UsesStay DEF Naming
    <3>4. ListsAreCounted'
      BY <1>1, <3>1, <3>3 DEF QaInv, ListsAreCounted
    <3>5. ListedGoalsStay'
      BY <1>1, <3>1 DEF QaInv, ListedGoalsStay
    <3>6. \A p \in QaProcesses : RunKnows(qaRun[p])'
      BY <1>1, <3>1 DEF QaInv, RunKnows, UsersOf
    <3> QED
      BY <3>2, <3>3, <3>4, <3>5, <3>6 DEF QaInv
  <2>2. ASSUME NEW p \in QaProcesses, NEW entry \in {"tracked", "standalone", "promote"}, NEW named \in NamedGoals \cup {"none"},
               NEW report \in QaReports, StartQa(p, entry, named, report)
        PROVE  QaInv'
    BY <1>1, <2>2, QaIsStarted
  <2>3. ASSUME NEW p \in QaProcesses,
               PostReport(p) \/ ReadManifest(p) \/ ListGoal(p) \/ OpenTicket(p) \/ StoreQaGoal(p) \/ QaKilled(p)
        PROVE  QaInv'
    BY <1>1, <2>3, QaIsDone, ManifestIsRead, GoalIsListed, TicketIsOpened
  <2>4. CASE DashboardEdits
    BY <1>1, <2>4, ManifestIsEdited
  <2> QED
    BY <1>1, <2>1, <2>2, <2>3, <2>4 DEF QaGoalsNext
<1> QED
  BY <1>1, QaStarts, PTL DEF QaGoalsSpec

(* A QA run ends by one of five exits and knows an issue that exists; what *)
(* is listed are names a run can make: createQaGoal's state.               *)
THEOREM QaTypeCorrect ==
  ASSUME OneQaRun
  PROVE  QaGoalsSpec => []QaGoalsTypeOK
<1>1. QaInv => QaGoalsTypeOK
  <2> SUFFICES ASSUME QaInv PROVE QaGoalsTypeOK
    OBVIOUS
  <2>1. onceListed \subseteq GoalIds
    BY DEF QaInv, QaTyped
  <2>2. ASSUME NEW p \in QaProcesses
        PROVE  qaRun[p].exit \in {0, 1, 3, 4, 137} /\ qaRun[p].number \in 0 .. Len(manifests)
    <3>1. qaRun[p] \in QaRecord /\ qaRun[p].number <= Len(manifests) /\ Len(manifests) \in Nat
      BY QaTypes DEF RunKnows
    <3>2. qaRun[p].exit \in QaExits /\ qaRun[p].number \in Nat
      BY <3>1 DEF QaRecord
    <3> QED
      BY <3>1, <3>2 DEF QaExits
  <2> QED
    BY <2>1, <2>2 DEF QaGoalsTypeOK
<1> QED
  BY <1>1, QaInvariance, PTL

(* Where one QA run goes at a time and the dashboard waits for it, a goal  *)
(* that was listed stays listed, no run takes another's goal and every     *)
(* report is left where people look, whatever fails between two steps of   *)
(* postQaReport, unless a run could not read the manifest.                 *)
THEOREM QaGoalsHoldEach ==
  ASSUME OneQaRun
  PROVE  QaGoalsSpec => []QaGoalsHold
<1>1. QaInv => QaGoalsHold
  <2> SUFFICES ASSUME QaInv PROVE QaGoalsHold
    OBVIOUS
  <2>1. ListedGoalsStay
    BY DEF QaInv
  <2>2. NobodysGoalIsTaken
    <3> SUFFICES ASSUME ~blind, NEW g \in QaFocus \X QaNumbers PROVE Cardinality(UsersOf(storedBy, filed, g)) <= 1
      BY DEF NobodysGoalIsTaken, UsersOf, QaNumbers
    <3>1. PICK x : UsersOf(storedBy, filed, g) \subseteq {x}
      BY DEF QaInv, UsedOnce
    <3>2. IsFiniteSet({x}) /\ Cardinality({x}) = 1
      BY FS_Singleton
    <3> QED
      BY <3>1, <3>2, FS_Subset
  <2>3. ReportsAreLeft
    BY DEF QaInv, RunKnows, ReportsAreLeft, QaAt
  <2> QED
    BY <2>1, <2>2, <2>3 DEF QaGoalsHold
<1> QED
  BY <1>1, QaInvariance, PTL
=============================================================================
