------------------------------- MODULE MCDefs -------------------------------
(***************************************************************************)
(* Instances of the definitions and of the profiles a process works from.  *)
(***************************************************************************)
EXTENDS Definitions, Profiles

(* Contract words alone, with the word they need, and with a user's        *)
(* browser session whole, extended, or with one word missing.              *)
UserSession == {"browser", "session", "actions", "origins"}
SaidSets == {{}} \cup {{w} : w \in ContractWords} \cup {UserSession \cup {w} : w \in ContractWords}
       \cup {{"paths", "configPaths"}, UserSession \cup {"upload", "fileRoots"}}
       \cup {UserSession \ {w} : w \in UserSession}
Contracts == [execution : {"none", "agent", "script"}, says : SaidSets, files : {{}, {"run.sh", "specialist"}}, action : {"own"}]
NoContract == [execution |-> "none", says |-> {}, files |-> {}, action |-> "own"]
FolderDocs == [s \in {"bad_slug", "fix", "run"} |->
  IF s = "fix" THEN Contracts ELSE {NoContract, [NoContract EXCEPT !.action = "fix"]}]
ListedOrder == <<"bad_slug", "fix", "run">>
KodyConfigs == {[is |-> "json", wrong |-> {}, allows |-> a] : a \in {{"unset"}, {}}}
      \cup {[is |-> "json", wrong |-> {w}, allows |-> {"unset"}] : w \in {"access", "quality"}}
      \cup {[is |-> "absent", wrong |-> {}, allows |-> {"unset"}]}

(* Profiles with every switch of the lifecycle, every role, every pairing  *)
(* of state scripts, one field wrong; overlays; and two roots that both    *)
(* hold the name.                                                          *)
Switches == [context : {"task", "ci-fix", "minimal"}, extras : {<<>>, <<"resolveArtifacts">>}, sync : BOOLEAN, verify : BOOLEAN,
             advance : BOOLEAN, mirrorState : BOOLEAN, finalize : BOOLEAN]
PlainKnobs == [context |-> "task", extras |-> <<>>, sync |-> TRUE, verify |-> TRUE, advance |-> TRUE,
               mirrorState |-> FALSE, finalize |-> FALSE]
Utility == [implements |-> <<>>, adapter |-> "none", wrong |-> {}, scheduled |-> FALSE, schedule |-> FALSE, role |-> "utility",
            children |-> FALSE, lifecycle |-> "none", knobs |-> NoKnobs, tools |-> {}, pre |-> <<>>, post |-> <<>>]
KeepsState == [Utility EXCEPT !.pre = <<"loadCapabilityState">>, !.post = <<"writeJobStateFile">>]
Delivers == [Utility EXCEPT !.lifecycle = "pr-branch", !.knobs = PlainKnobs]
ProfileDocs == {[Delivers EXCEPT !.knobs = k] : k \in Switches}
       \cup {[Utility EXCEPT !.scheduled = s, !.schedule = t, !.role = r, !.children = c] :
               s, t \in BOOLEAN, r \in {"none", "utility", "container"}, c \in BOOLEAN}
       \cup {[KeepsState EXCEPT !.pre = a, !.post = b, !.tools = t] :
               a \in {<<>>, <<"loadCapabilityState">>, <<"no such script">>},
               b \in {<<>>, <<"writeJobStateFile">>, <<"parseJobStateFromAgentResult">>}, t \in {{}, {"known"}, {"misspelt"}}}
       \cup {[Delivers EXCEPT !.lifecycle = l, !.knobs = k] :
               l \in {"none", "other", "pr-branch"}, k \in {PlainKnobs, NoKnobs, [PlainKnobs EXCEPT !.context = "every"]}}
       \cup {[Delivers EXCEPT !.adapter = a, !.wrong = w] :
               a \in {"none", "known", "other"}, w \in {{}, {"auth"}, {"inputs"}, {"inputArtifacts"}, {"children"}, {"both kinds"}}}
Overlays == {[Utility EXCEPT !.implements = <<d>>, !.tools = t] : d \in {KeepsState, Delivers}, t \in {{}, {"misspelt"}}}
SeveralRoots == {<<d, KeepsState>> : d \in {Delivers, [Utility EXCEPT !.pre = <<"no such script">>], [Utility EXCEPT !.role = "none"]}}
Lookups == {<<d>> : d \in ProfileDocs \cup Overlays} \cup SeveralRoots
=============================================================================
