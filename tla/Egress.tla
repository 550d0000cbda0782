------------------------------- MODULE Egress -------------------------------
(***************************************************************************)
(* From the options of `tessariq run', the user's configuration file and   *)
(* OpenCode's own files to what the Squid proxy lets through               *)
(* (internal/run/allowlist.go, internal/proxy, resolveAllowlistCore in     *)
(* cmd/tessariq/run.go), and back from Squid's access log to the list of   *)
(* blocked destinations.  Pure definitions, used by RunCommand.            *)
(*                                                                         *)
(* A destination is a record of host and port.  An entry is the text that  *)
(* names one: a host, in brackets or not, with a port or NoPort.  A port   *)
(* that is not a number is refused like one out of range, 0 stands for     *)
(* both.  Of each table of endpoints one host is kept.                     *)
(***************************************************************************)
EXTENDS Integers

CONSTANTS
  Hosts,    \* every host an entry or a request can name
  Colons,   \* those with a colon in them: IPv6 addresses, a host with a port
  BadHosts  \* empty, with a leading dot, a space or a control character

NoPort == -1

BaselineHosts == {"pypi.org"}
ClaudeCodeHosts == {"api.anthropic.com"}
ModelsDev == "models.dev"
OpenCodeAI == "opencode.ai"
OpenCodeHosted == {OpenCodeAI, "api.opencode.ai"}  \* it and its subdomains
\* A prefix of --model that is in the table is written as its host.
KnownProviderHosts == {"api.anthropic.com", OpenCodeAI}

ASSUME HostsAssumption ==
  /\ Colons \cup BadHosts \subseteq Hosts
  /\ BaselineHosts \cup ClaudeCodeHosts \cup OpenCodeHosted \cup {ModelsDev} \subseteq Hosts

\* The hosts of the tables are well-formed.
ASSUME BuiltInsAssumption == (BaselineHosts \cup ClaudeCodeHosts) \cap BadHosts = {}

Entries == [host : Hosts, bracketed : BOOLEAN, port : {NoPort} \cup Nat]
Destinations == [host : Hosts, port : Nat]

Options ==
  [egress : {"auto", "proxy", "open", "none"},
   unsafe : BOOLEAN,            \* --unsafe-egress
   allow : SUBSET Entries,      \* --egress-allow
   noDefaults : BOOLEAN,        \* --egress-no-defaults
   agent : {"claude-code", "opencode"},
   model : KnownProviderHosts \cup {"", "unknown"},  \* the prefix of --model
   userConfig : SUBSET Entries, \* egress_allow, none when there is no file
   userConfigOK : BOOLEAN,      \* the file is absent, or readable and well-formed
   auth : Hosts \cup {"missing", "malformed", ""},   \* OpenCode's auth.json
   config : Hosts \cup {"malformed", ""},            \* and its config.json
   mountConfig : BOOLEAN,       \* --mount-agent-config
   noUpdate : BOOLEAN]          \* --no-update-agent

-----------------------------------------------------------------------------
(* Entries.                                                                *)

Ports == 1..65535

Parses(e) ==
  /\ e.bracketed => e.port # NoPort
  /\ e.host \in Colons => e.bracketed  \* ambiguous otherwise
  /\ e.host \notin BadHosts
  /\ e.port = NoPort \/ e.port \in Ports

ParseDestination(e) ==
  [host |-> e.host, port |-> IF e.port = NoPort THEN 443 ELSE e.port]

\* fmt.Sprintf("%s:%d"): the brackets do not come back.
Canonical(d) == [host |-> d.host, bracketed |-> FALSE, port |-> d.port]

\* parseDestinations.
AcceptsUnparsed(entries) == TRUE
Accepts(entries) == \A e \in entries : Parses(e)
ParseDestinations(entries) == {Canonical(ParseDestination(e)) : e \in entries}

-----------------------------------------------------------------------------
(* The options.                                                            *)

\* Config.ResolveEgress and ResolveEgressMode.
Mode(o) ==
  IF o.unsafe THEN "open" ELSE IF o.egress = "auto" THEN "proxy" ELSE o.egress

\* Config.Validate, as far as it is about egress.
ValidOptions(o) ==
  /\ o.unsafe => o.egress = "auto"
  /\ o.allow # {} => Mode(o) \notin {"open", "none"}

\* The files are read only where they can make a difference.
ReadsUserConfig(o) == Mode(o) = "proxy" /\ o.allow = {} /\ ~o.noDefaults
UserAllow(o) == IF ReadsUserConfig(o) THEN o.userConfig ELSE {}
ResolvesProvider(o) ==
  o.agent = "opencode" /\ ReadsUserConfig(o) /\ UserAllow(o) = {}

\* ResolveProvider: the configuration takes precedence over auth.json, which
\* must be there all the same.  A value is not looked at any further.
ProviderFails(o) ==
  \/ o.auth = "missing"
  \/ o.config = "malformed"
  \/ o.config = "" /\ o.auth = "malformed"
ConfiguredHost(o) == IF o.config # "" THEN o.config ELSE o.auth
\* The provider of the model stands in for one that is not configured.
ProviderHost(o) == IF ConfiguredHost(o) # "" THEN ConfiguredHost(o) ELSE o.model

\* A provider that is unresolvable is no error while the model names one.
ProviderRefused(o) ==
  ResolvesProvider(o) /\ (ProviderFails(o) \/ o.model = "unknown" \/ ProviderHost(o) = "")

OpenCodeHosts(o) ==
  {ModelsDev, ProviderHost(o)} \cup ({o.model} \ {""}) \cup
  {h \in {OpenCodeAI} : {ProviderHost(o), o.model} \cap OpenCodeHosted # {}}
AgentHosts(o) ==
  IF o.agent = "claude-code" THEN ClaudeCodeHosts
  ELSE IF ResolvesProvider(o) THEN OpenCodeHosts(o)
  ELSE {}

FullBuiltInAllowlist(o) ==
  {Canonical([host |-> h, port |-> 443]) : h \in BaselineHosts \cup AgentHosts(o)}

\* What ResolveAllowlist takes the destinations from; "refused" is an error.
AllowlistSource(o) ==
  IF o.allow # {} THEN "cli"
  ELSE IF o.noDefaults THEN IF Mode(o) = "proxy" THEN "refused" ELSE "cli"
  ELSE IF UserAllow(o) # {} THEN "user_config"
  ELSE "built_in"

ResolveAllowlist(o) ==
  CASE AllowlistSource(o) = "user_config" -> ParseDestinations(UserAllow(o))
    [] AllowlistSource(o) = "built_in" -> FullBuiltInAllowlist(o)
    [] OTHER -> ParseDestinations(o.allow)

\* The command returns an error before it has made anything.
Refused(o) ==
  \/ ~ValidOptions(o)
  \/ ReadsUserConfig(o) /\ ~o.userConfigOK
  \/ ProviderRefused(o)
  \/ AllowlistSource(o) = "refused"
  \/ ~Accepts(o.allow)
  \/ ~Accepts(UserAllow(o))

-----------------------------------------------------------------------------
(* The proxy.                                                              *)

\* NewCompiledAllowlist parses the canonical entries once more.
Compiles(entries) == \A e \in entries : Parses(e)
CompiledAllowlist(o) == {ParseDestination(e) : e \in ResolveAllowlist(o)}

\* For each port the hosts it is allowed for: one pair of ACLs and one
\* http_access rule for each, of CONNECT only, in front of "deny all".
GenerateSquidConfUngrouped(dests) ==
  [p \in {d.port : d \in dests} |-> {d.host : d \in dests}]
GenerateSquidConf(dests) ==
  [p \in {d.port : d \in dests} |-> {d.host : d \in {e \in dests : e.port = p}}]

Requests == [method : {"CONNECT", "GET"}, host : Hosts, port : Nat]

\* Squid (external).
SquidAllows(conf, r) ==
  /\ r.method = "CONNECT"
  /\ r.port \in DOMAIN conf
  /\ r.host \in conf[r.port]
ResultCode(conf, r) == IF SquidAllows(conf, r) THEN "TCP_TUNNEL" ELSE "TCP_DENIED"

LogLines == [request : Requests, result : {"TCP_TUNNEL", "TCP_DENIED"}]

DestinationOf(line) == [host |-> line.request.host, port |-> line.request.port]

ParseSquidAccessLog(log) == {DestinationOf(l) : l \in {m \in log : m.result = "TCP_DENIED"}}
=============================================================================
