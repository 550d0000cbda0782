------------------------------- MODULE Mounts -------------------------------
(***************************************************************************)
(* From what is in the user's home directory to what the agent's container *)
(* sees of the host (internal/authmount, internal/adapter/runtime_state.go *)
(* and factory.go, internal/container/mount.go).  Pure definitions, used   *)
(* by RunCommand.                                                          *)
(*                                                                         *)
(* A path is the sequence of its names.  Paths on the host begin with what *)
(* they are in: the home directory, the worktree, the scratch directory.   *)
(***************************************************************************)
EXTENDS Naturals, Sequences

Credentials == <<".claude", ".credentials.json">>
ClaudeJSON == <<".claude.json">>
OpenCodeAuth == <<".local", "share", "opencode", "auth.json">>
ModelJSON == <<".local", "state", "opencode", "model.json">>

AuthFiles(agent) ==
  IF agent = "claude-code" THEN {Credentials, ClaudeJSON} ELSE {OpenCodeAuth}
StateFiles(agent) == IF agent = "claude-code" THEN {} ELSE {ModelJSON}
ConfigDir(agent) ==
  IF agent = "claude-code" THEN <<".claude">> ELSE <<".config", "opencode">>

ConfigDirStates == {"missing", "unreadable", "readable"}

\* What a home directory has: the files, and the agent's configuration.  The
\* credentials of Claude Code are inside its configuration directory.
Homes(agent) ==
  {h \in [files : SUBSET (AuthFiles(agent) \cup StateFiles(agent)),
          configDir : ConfigDirStates] :
     Credentials \in h.files => h.configDir # "missing"}

Host(path) == <<"home">> \o path
ContainerHome == <<"home", "tessariq">>
ScratchRoot == <<"scratch">>
Worktree == <<"worktree">>

-----------------------------------------------------------------------------
(* Discovery.                                                              *)

HostMount(path, seed) ==
  [hostPath |-> Host(path), containerPath |-> ContainerHome \o path,
   readOnly |-> TRUE, seedIntoRuntime |-> seed]

\* Claude Code writes to .claude.json when it starts.
Seeded(path) == path = ClaudeJSON

\* Discover; that the credentials of Claude Code may be in the keychain of
\* macOS makes another error of it, no more.
AuthMissing(agent, home) == ~(AuthFiles(agent) \subseteq home.files)

\* What Discover and DiscoverState return, merged.
AuthMounts(agent, home) ==
  {HostMount(f, Seeded(f)) : f \in AuthFiles(agent) \cup (StateFiles(agent) \cap home.files)}

\* DiscoverConfigDirs, with --mount-agent-config.
ConfigMounts(agent, home, enabled) ==
  {HostMount(ConfigDir(agent), FALSE) : e \in {home.configDir} \cap (IF enabled THEN {"readable"} ELSE {})}

ValidateContract(specs) == \A s \in specs : s.readOnly

-----------------------------------------------------------------------------
(* The container.                                                          *)

NeedsScratch(specs) == \E s \in specs : s.seedIntoRuntime

StagedInPlace(s) ==
  IF s.seedIntoRuntime THEN [s EXCEPT !.readOnly = FALSE, !.seedIntoRuntime = FALSE] ELSE s

\* PrepareRuntimeState: a copy stands in for a file the agent writes to.
Staged(s) ==
  IF s.seedIntoRuntime
  THEN [hostPath |-> Append(ScratchRoot, s.containerPath[Len(s.containerPath)]),
        containerPath |-> s.containerPath, readOnly |-> FALSE, seedIntoRuntime |-> FALSE]
  ELSE s
EffectiveMounts(specs) == {Staged(s) : s \in specs}

Mount(source, target, readOnly) ==
  [source |-> source, target |-> target, readOnly |-> readOnly]
CacheMount == Mount(<<"cache">>, <<"cache">>, TRUE)

AssembleMounts(auth, config) ==
  {Mount(Worktree, <<"work">>, FALSE), Mount(<<"evidence">>, <<"evidence">>, TRUE)} \cup
  {Mount(s.hostPath, s.containerPath, s.readOnly) : s \in auth \cup config}

\* The directories from the one of a file up to, and without, the home
\* directory of the container.
DirsBelowHome(path) ==
  {SubSeq(path, 1, n) : n \in Len(ContainerHome) + 1..Len(path) - 1}

FileDirs(specs) == UNION {DirsBelowHome(s.containerPath) : s \in specs}
WritableDirsEverywhere(auth, config) == FileDirs(auth)

\* Docker makes the directories on the way to a file as root; these become a
\* tmpfs, except where the configuration is mounted.
WritableDirs(auth, config) ==
  FileDirs(auth) \ {s.containerPath : s \in config}

-----------------------------------------------------------------------------
(* Docker (external).                                                      *)

Inside(path, dir) == Len(dir) <= Len(path) /\ SubSeq(path, 1, Len(dir)) = dir

\* It refuses two mounts at one place; and in what is mounted read-only it
\* cannot make the place for another mount, which must be there already.
Mountable(mounts, tmpfs) ==
  /\ \A m, n \in mounts : m.target = n.target => m = n
  /\ \A m \in mounts : m.target \notin tmpfs
  /\ \A m, n \in mounts :
       n.readOnly /\ m # n /\ Inside(m.target, n.target) =>
         m.source = n.source \o SubSeq(m.target, Len(n.target) + 1, Len(m.target))
=============================================================================
