----------------------------- MODULE ModelProxy -----------------------------
(***************************************************************************)
(* The LiteLLM proxies of one host (litellm.ts): a session reuses a proxy  *)
(* that serves its model groups or starts its own, on the port it wants or *)
(* the next free one, starts it again when it stops answering, and kills   *)
(* what it started. A proxy listens on its port only when it has booted.   *)
(***************************************************************************)
EXTENDS Naturals, FiniteSets

CONSTANTS
  ProxyUsers,   \* sessions, of one process or several
  UserModels,   \* session -> its models: several are a gateway
  ProxyPorts,   \* the ports 1 .. ProxyPorts, the first is tried first
  ProxyFaults,  \* what may happen: "install", "crash", "hang", "timeout", "killed"
  MaxProxies, MaxProxyFaults \* bounds

ASSUME ProxyAssumption == ProxyPorts \in Nat \ {0} /\ MaxProxies \in Nat

VARIABLES
  proxies,   \* proxies that run: [id, groups, port, is]
  proxyUser, \* session -> [at, port, child, older, again]; older: the proxies that were up
             \* when it looked; again: it waits for a proxy it starts anew
  proxyCount, proxyFaults

proxyVars == <<proxies, proxyUser, proxyCount, proxyFaults>>

NoProxyUser == [at |-> "idle", port |-> 1, child |-> 0, older |-> {}, again |-> FALSE]
Aliases == {"alias"} \X {"claude-haiku-4-5-20251001", "haiku"}
Gateway(models) == Cardinality(models) > 1

\* litellmModelGroups, and the groups of a gateway, told by their place in it;
\* a session asks for its first.
ServedGroups(models) ==
  Aliases \cup IF Gateway(models) THEN {"kody-automatic"} \X (0 .. Cardinality(models) - 1) ELSE {"model"} \X models
NeededGroups(models) == Aliases \cup IF Gateway(models) THEN {<<"kody-automatic", 0>>} ELSE {"model"} \X models

ProxiesInit ==
  proxies = {} /\ proxyUser = [u \in ProxyUsers |-> NoProxyUser] /\ proxyCount = 0 /\ proxyFaults = 0
---------------------------------------------------------------------------
UserAt(u, at) == proxyUser[u].at = at
UserGoes(u, s) == proxyUser' = [proxyUser EXCEPT ![u] = s]
ProxyFails(what) == what \in ProxyFaults /\ proxyFaults < MaxProxyFaults /\ proxyFaults' = proxyFaults + 1
Up(port) == {x \in proxies : x.port = port /\ x.is = "up"}
Bound(port) == {x \in proxies : x.port = port /\ x.is \in {"up", "hung"}}
Healthy(u) == Up(proxyUser[u].port) # {}
Without(ids) == {x \in proxies : x.id \notin ids}

\* spawnProxy, in the place of what killChild took away.
SpawnOn(u, port, rest, again) ==
  /\ proxyCount < MaxProxies /\ proxyCount' = proxyCount + 1
  /\ proxies' = rest \cup {[id |-> proxyCount', groups |-> ServedGroups(UserModels[u]), port |-> port, is |-> "booting"]}
  /\ UserGoes(u, [proxyUser[u] EXCEPT !.at = "wait", !.port = port, !.child = proxyCount', !.again = again])

\* resolveLitellmCommand: found, or installed, or the start fails.
ResolveLitellm(u) ==
  /\ UserAt(u, "idle")
  /\ \/ UserGoes(u, [NoProxyUser EXCEPT !.at = "look"]) /\ UNCHANGED proxyFaults
     \/ UserGoes(u, [NoProxyUser EXCEPT !.at = "failed"]) /\ ProxyFails("install")
  /\ UNCHANGED <<proxies, proxyCount>>

LookForProxy(u) ==
  /\ UserAt(u, "look") /\ UNCHANGED proxyFaults
  /\ IF Healthy(u)
     THEN /\ UserGoes(u, [proxyUser[u] EXCEPT !.at = "ask", !.older = {x.id : x \in Up(1)}])
          /\ UNCHANGED <<proxies, proxyCount>>
     ELSE SpawnOn(u, 1, proxies, FALSE)

\* litellmServesModels: names are compared, not what is behind them.
\* mutant: a proxy that answers is reused.
Serves_Any(u, port) == Up(port) # {}
Serves(u, port) == \E x \in Up(port) : NeededGroups(UserModels[u]) \subseteq x.groups
FreePorts == {n \in 2 .. ProxyPorts : Bound(n) = {}}
AskProxy(u) ==
  /\ UserAt(u, "ask") /\ UNCHANGED proxyFaults
  /\ IF Serves(u, 1) THEN UserGoes(u, [proxyUser[u] EXCEPT !.at = "use"]) /\ UNCHANGED <<proxies, proxyCount>>
     ELSE IF FreePorts = {} THEN UserGoes(u, [proxyUser[u] EXCEPT !.at = "failed"]) /\ UNCHANGED <<proxies, proxyCount>>
     ELSE SpawnOn(u, CHOOSE n \in FreePorts : \A k \in FreePorts : n <= k, proxies, FALSE)

\* waitForHealth: whoever answers on the port is taken for one's own. A start
\* that waits in vain kills its child and fails, a restart is only not healthy.
WaitForHealth(u) ==
  /\ UserAt(u, "wait") /\ Healthy(u) /\ UserGoes(u, [proxyUser[u] EXCEPT !.at = "use"])
  /\ UNCHANGED <<proxies, proxyCount, proxyFaults>>
WaitedInVain(u) ==
  /\ UserAt(u, "wait") /\ ~proxyUser[u].again /\ ~Healthy(u) /\ ProxyFails("timeout")
  /\ proxies' = Without({proxyUser[u].child})
  /\ UserGoes(u, [proxyUser[u] EXCEPT !.at = "failed", !.child = 0])
  /\ UNCHANGED proxyCount
WaitedAgainInVain(u) ==
  /\ UserAt(u, "wait") /\ proxyUser[u].again /\ ~Healthy(u) /\ ProxyFails("timeout")
  /\ UserGoes(u, [proxyUser[u] EXCEPT !.at = "use"])
  /\ UNCHANGED <<proxies, proxyCount>>

\* ensureHealthy, before a session is tried again.
EnsureHealthy(u) ==
  /\ UserAt(u, "use") /\ ~Healthy(u) /\ UNCHANGED proxyFaults
  /\ SpawnOn(u, proxyUser[u].port, Without({proxyUser[u].child}), TRUE)

\* The session's end kills its child; one that hangs may outlive the process,
\* which does not wait for the second signal.
EndProxyUse(u) ==
  /\ UserAt(u, "use")
  /\ \/ proxies' = Without({proxyUser[u].child}) /\ UserGoes(u, [proxyUser[u] EXCEPT !.at = "ended", !.child = 0])
     \/ /\ \E x \in proxies : x.id = proxyUser[u].child /\ x.is = "hung"
        /\ UserGoes(u, [proxyUser[u] EXCEPT !.at = "ended", !.child = 0]) /\ UNCHANGED proxies
  /\ UNCHANGED <<proxyCount, proxyFaults>>

UserKilled(u) ==
  /\ proxyUser[u].at \in {"wait", "use"} /\ ProxyFails("killed")
  /\ UserGoes(u, [proxyUser[u] EXCEPT !.at = "killed"])
  /\ UNCHANGED <<proxies, proxyCount>>

\* A proxy that has booted finds its port free, or ends.
ProxyBoots(x) ==
  /\ x.is = "booting" /\ proxies' = (proxies \ {x}) \cup IF Bound(x.port) = {} THEN {[x EXCEPT !.is = "up"]} ELSE {}
  /\ UNCHANGED <<proxyUser, proxyCount, proxyFaults>>
ProxyBreaks(x) ==
  /\ \/ ProxyFails("crash") /\ proxies' = proxies \ {x}
     \/ x.is = "up" /\ ProxyFails("hang") /\ proxies' = (proxies \ {x}) \cup {[x EXCEPT !.is = "hung"]}
  /\ UNCHANGED <<proxyUser, proxyCount>>

ModelProxyNext ==
  \/ \E u \in ProxyUsers :
       \/ ResolveLitellm(u) \/ LookForProxy(u) \/ AskProxy(u) \/ WaitForHealth(u) \/ EnsureHealthy(u)
       \/ WaitedInVain(u) \/ WaitedAgainInVain(u) \/ EndProxyUse(u) \/ UserKilled(u)
  \/ \E x \in proxies : ProxyBoots(x) \/ ProxyBreaks(x)
ModelProxySpec == ProxiesInit /\ [][ModelProxyNext]_proxyVars
---------------------------------------------------------------------------
(* Proxies and sessions keep their types; a port has one listener.         *)
ModelProxyTypeOK ==
  /\ \A u \in ProxyUsers : proxyUser[u].port \in 1 .. ProxyPorts /\ proxyUser[u].child \in 0 .. MaxProxies
  /\ \A n \in 1 .. ProxyPorts : Cardinality(Bound(n)) <= 1

(* A proxy that was up before a session looked serves the session's model  *)
(* groups when the session works through it; only one that came up on the  *)
(* port since can serve others (startLitellmProxy).                        *)
ReusedProxyServes ==
  \A u \in ProxyUsers : UserAt(u, "use") =>
    \A x \in Up(proxyUser[u].port) :
      x.id \in proxyUser[u].older => NeededGroups(UserModels[u]) \subseteq x.groups

(* A proxy nobody owns any more is one whose session was killed, or that   *)
(* hung when its session ended (killChild).                                *)
NoProxyIsLeft ==
  LET owned == {proxyUser[u].child : u \in ProxyUsers}
  IN \A x \in proxies : x.is # "hung" => x.id \in owned

(* What sessions that share a host may rely on.                            *)
ProxiesHold == ReusedProxyServes /\ NoProxyIsLeft
=============================================================================
