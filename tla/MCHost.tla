------------------------------- MODULE MCHost -------------------------------
(***************************************************************************)
(* Instances of what runs beside the servers of one host: QA runs that     *)
(* become goals, the sessions' model proxies, the chats of a codex         *)
(* app-server, the preview builds of one pull request and the ticks of one *)
(* capability.                                                             *)
(***************************************************************************)
EXTENDS QaGoals, ModelProxy, CodexTurns, PreviewBuild, TickStates, TLC

hostVars == <<qaVars, proxyVars, codexVars, previewVars, tickVars>>

(* Reports of the agent: with two findings, with none, in a fence, broken. *)
QaReport(k, n, v) == [kind |-> k, findings |-> n, verdict |-> v]
WrittenReports ==
  {NoReport, QaReport("block", 2, "FAIL"), QaReport("block", 0, "PASS"), QaReport("fence", 1, "PASS"),
   QaReport("malformed", 2, "PASS")}

(* One session of one model, two of a gateway that begins with it.         *)
AskedModels == ("u1" :> {"a"}) @@ ("u2" :> {"a", "b"}) @@ ("u3" :> {"a", "c"})

HostParts == {"qa", "proxy", "codex", "preview", "ticks"}
HostInit == QaGoalsInit /\ ProxiesInit /\ CodexInit /\ PreviewInit /\ TicksInit
HostNext(part) ==
  \/ part = "qa" /\ QaGoalsNext /\ UNCHANGED <<proxyVars, codexVars, previewVars, tickVars>>
  \/ part = "proxy" /\ ModelProxyNext /\ UNCHANGED <<qaVars, codexVars, previewVars, tickVars>>
  \/ part = "codex" /\ CodexNext /\ UNCHANGED <<qaVars, proxyVars, previewVars, tickVars>>
  \/ part = "preview" /\ PreviewNext /\ UNCHANGED <<qaVars, proxyVars, codexVars, tickVars>>
  \/ part = "ticks" /\ TicksNext /\ UNCHANGED <<qaVars, proxyVars, codexVars, previewVars>>

(* The variables of each part have their types.                            *)
HostTypeOK(part) ==
  /\ part = "qa" => QaGoalsTypeOK
  /\ part = "proxy" => ModelProxyTypeOK
  /\ part = "codex" => CodexTypeOK
  /\ part = "preview" => PreviewTypeOK
  /\ part = "ticks" => TicksTypeOK

(* The processes of one host keep what is theirs: every proxy a session    *)
(* was told of serves it, and every turn ends for the session that asked.  *)
SharedServersHold == ProxiesHold /\ CodexTurnsHold
=============================================================================
