------------------------------- MODULE MCAgency -------------------------------
(***************************************************************************)
(* Instances of what stands around the engine's runs: the tools of an      *)
(* agent, the process a CI event starts, and the workflow documents.       *)
(***************************************************************************)
EXTENDS CapabilityTools, CiRun, WorkflowDocs, TLC

(* One capability that asks with and without an intent, one that takes an  *)
(* issue and one that takes nothing.                                       *)
Ask(by, intent, text) == [by |-> by, intent |-> intent, text |-> text]
Asks == {Ask("c1", "fix", "x"), Ask("c1", "none", "x")}
Capabilities == ("run" :> [needs |-> "issue", takes |-> TRUE]) @@ ("scan" :> [needs |-> "none", takes |-> FALSE])

(* Every kind of event, with the comments of every author and word.        *)
Event(kind, by, token, onPr) ==
  [event |-> kind, by |-> by, mention |-> TRUE, token |-> token, onPr |-> onPr, number |-> FALSE, names |-> "none",
   pr |-> "opened", labelled |-> FALSE, release |-> FALSE, request |-> "none", flag |-> FALSE, words |-> << >>]
Comments == {Event("comment", by, token, onPr) : by \in {"person", "outsider", "bot"},
               token \in {"none", "polite", "known", "unknown"}, onPr \in BOOLEAN}
Spoken == {[Event("comment", "person", "known", FALSE) EXCEPT !.words = w] :
             w \in [1 .. 4 -> {"word", "number", "enum", "keyword", "flag", "unflag"}]}
Manual == {[Event("dispatch", "person", "none", FALSE) EXCEPT !.number = n, !.names = c] :
             n \in BOOLEAN, c \in {"none", "capability", "workflow", "watch", "loop", "unknown"}}
PullRequests == {[Event("pull_request", "person", "none", TRUE) EXCEPT !.pr = a, !.labelled = l, !.release = r] :
                   a \in {"opened", "merged", "closed"}, l \in BOOLEAN, r \in BOOLEAN}
RunRequests == {[Event(e, "person", "none", FALSE) EXCEPT !.request = r] : e \in {"none", "dispatch"},
                  r \in {"invalid", "goal", "loop", "workflow", "fanout", "unsupported"}}
OtherStarts == {Event("schedule", "person", "none", FALSE), Event("none", "person", "none", FALSE),
                [Event("none", "person", "none", FALSE) EXCEPT !.flag = TRUE],
                [Event("none", "person", "none", FALSE) EXCEPT !.names = "capability"],
                [Event("comment", "person", "none", FALSE) EXCEPT !.mention = FALSE]}
Starts == Comments \cup Spoken \cup Manual \cup PullRequests \cup RunRequests \cup OtherStarts
Schedules == ("w1" :> {0, 5}) @@ ("w2" :> {3}) @@ ("w3" :> {9})

(* Graphs of two and three steps with connections to every place, bounded  *)
(* and not; documents with one flaw each; lists of three steps.            *)
Document(start, steps) == [startAt |-> start, steps |-> steps]
Nexts(ids) ==
  {<< >>} \cup {<<Connection(to, "none", FALSE, max)>> : to \in ids \cup {"$end", "lost"}, max \in {0, 1}}
  \cup {<<Connection(a, "ok", FALSE, max), Connection(b, "none", TRUE, 0)>> :
          a \in ids \cup {"$end"}, b \in ids \cup {"$end"}, max \in {0, 1, 9}}
GraphSteps(id) == {[DocStep EXCEPT !.id = id, !.next = next] : next \in Nexts({"s1", "s2", "s3"})}
Pairs == {Document("none", <<a, b>>) : a \in GraphSteps("s1"), b \in GraphSteps("s2")}
Trios == {Document(s, <<a, b, c>>) : s \in {"none", "s2"}, a \in {x \in GraphSteps("s1") : Len(x.next) = 1},
            b \in GraphSteps("s2"), 
            c \in {x \in GraphSteps("s3") : Len(x.next) = 0 \/ (Len(x.next) = 1 /\ x.next[1].max = 0)}}
ToEnd(when, default) == Connection("$end", when, default, 0)
FlawedSteps ==
  {[DocStep EXCEPT !.id = "s1", !.next = next] :
     next \in {<<Connection("bad", "bad", TRUE, -1)>>, <<Connection("s2", "none", FALSE, -1)>>,
               <<ToEnd("none", TRUE), ToEnd("none", TRUE), ToEnd("none", FALSE)>>}}
  \cup {[DocStep EXCEPT !.id = "bad"], [DocStep EXCEPT !.id = "s1", !.from = "s9"], [DocStep EXCEPT !.fields = "unsupported"],
        [DocStep EXCEPT !.fields = "bad"], [DocStep EXCEPT !.capability = "bad"], [DocStep EXCEPT !.approval = TRUE]}
Flawed ==
  {Document("none", <<x, [DocStep EXCEPT !.id = y]>>) : x \in FlawedSteps, y \in {"none", "s1", "s2"}}
  \cup {Document("none", << >>), Document("s9", <<DocStep>>), Document("none", [i \in 1 .. 5 |-> DocStep])}
ListSteps == {[DocStep EXCEPT !.evidence = e, !.when = w, !.continues = c, !.onPr = p] :
                e \in {"none", "e1"}, w \in {"always", "afterFailure"}, c \in BOOLEAN, p \in BOOLEAN}
Lists == {Document("none", <<a, b, c>>) :
            a \in {x \in ListSteps : x.when = "always"}, b \in ListSteps, c \in {x \in ListSteps : ~x.continues}}
         \cup {Document("none", <<[DocStep EXCEPT !.capability = "unknown"]>>)}
DocumentSet == Pairs \cup Trios \cup Flawed \cup Lists
=============================================================================
