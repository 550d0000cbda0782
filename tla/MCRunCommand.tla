---------------------------- MODULE MCRunCommand ----------------------------
(***************************************************************************)
(* Instances of RunCommand for TLC.  Three failures are one more than the  *)
(* two attempts at a teardown can absorb.                                  *)
(***************************************************************************)
EXTENDS RunCommand

MCAllFaults == {"signal", "crash", "slow", "sharing"}
MCOnlySignal == {"signal"}

MCHosts ==
  {"a.dev", "b.dev", "::1", "localhost:11434", ".dev", "pypi.org",
   "api.anthropic.com", "models.dev", "opencode.ai", "api.opencode.ai"}
MCColons == {"::1", "localhost:11434"}
MCBadHosts == {".dev"}

MCEntry(host, port) == [host |-> host, bracketed |-> FALSE, port |-> port]

\* Entries whose ports and hosts would mix, a default port, a port out of
\* range, a wildcard, an IPv6 address with and without its brackets.
MCPairs == {MCEntry("a.dev", NoPort), MCEntry("b.dev", 8443)}
MCOnePair == {MCEntry("a.dev", 8443)}
MCAddress == {[host |-> "::1", bracketed |-> TRUE, port |-> 443]}
MCBareAddress == {MCEntry("::1", NoPort)}
MCWildcard == {MCEntry(".dev", 443)}
MCNoSuchPort == {MCEntry("a.dev", 65536)}

MCDefaults ==
  [egress |-> "auto", unsafe |-> FALSE, allow |-> {}, noDefaults |-> FALSE,
   agent |-> "claude-code", model |-> "", userConfig |-> {}, userConfigOK |-> TRUE,
   auth |-> "", config |-> "", mountConfig |-> FALSE, noUpdate |-> TRUE]
MCOpenCode == [MCDefaults EXCEPT !.agent = "opencode"]

MCEgressOptions ==
  \* Every source of an allowlist over the ones below it.
  {MCDefaults} \cup
  {[MCDefaults EXCEPT !.allow = a, !.userConfig = MCOnePair, !.noDefaults = n] :
     a \in {{}, MCPairs}, n \in BOOLEAN} \cup
  \* Every mode, also with entries that do not go with it.
  {[MCDefaults EXCEPT !.egress = m, !.unsafe = s, !.allow = a] :
     m \in {"open", "none"}, s \in BOOLEAN, a \in {{}, MCOnePair}} \cup
  {[MCDefaults EXCEPT !.unsafe = TRUE]} \cup
  \* Entries that do not parse, or only once.
  {[MCDefaults EXCEPT !.allow = a] :
     a \in {MCAddress, MCBareAddress, MCWildcard, MCNoSuchPort}} \cup
  {[MCDefaults EXCEPT !.userConfig = MCWildcard],
   [MCDefaults EXCEPT !.userConfigOK = FALSE]} \cup
  \* What --model and OpenCode's files can say, together or alone.
  {[MCOpenCode EXCEPT !.model = p, !.auth = a] :
     p \in {"", "opencode.ai", "unknown"}, a \in {"", "missing", "malformed"}} \cup
  {[MCOpenCode EXCEPT !.auth = a, !.config = c] :
     a \in {"malformed", "a.dev"}, c \in {"", "malformed", "localhost:11434"}} \cup
  {[MCOpenCode EXCEPT !.config = "api.opencode.ai", !.auth = "a.dev"]}

\* A home directory with all that the agent needs, and nothing else.
MCHome(o) ==
  [files |-> IF o.agent = "claude-code" THEN AuthFiles(o.agent)
             ELSE {f \in {OpenCodeAuth} : o.auth # "missing"},
   configDir |-> IF o.agent = "claude-code" THEN "readable" ELSE "missing"]
MCAtHome(o) == [options |-> o, home |-> MCHome(o)]

\* Without a proxy, whose steps have no part in it: every home directory, and
\* the update of the agent.
MCOffline(a, has) ==
  [MCDefaults EXCEPT !.egress = "none", !.agent = a,
                     !.auth = IF a = "opencode" /\ ~has THEN "missing" ELSE ""]
MCInvocations ==
  {MCAtHome(o) : o \in MCEgressOptions} \cup
  UNION {{[options |-> [MCOffline(a, OpenCodeAuth \in h.files) EXCEPT !.mountConfig = m],
           home |-> h] : m \in BOOLEAN, h \in Homes(a)} : a \in {"claude-code", "opencode"}} \cup
  {MCAtHome([MCOffline(a, TRUE) EXCEPT !.noUpdate = FALSE]) : a \in {"claude-code", "opencode"}}

MCFewInvocations == {MCAtHome(MCDefaults)}

MCConnect(host, port) == [method |-> "CONNECT", host |-> host, port |-> port]
MCRequestPool ==
  {MCConnect("a.dev", 443), MCConnect("a.dev", 8443), MCConnect("b.dev", 443),
   MCConnect("opencode.ai", 443), [MCConnect("a.dev", 443) EXCEPT !.method = "GET"]}
=============================================================================
