# A formal model of tessariq

tessariq runs a coding agent in a disposable Docker container, in a Git worktree
of its own, records what happened as evidence files, and lets the user turn the
evidence into a branch. No daemon coordinates this. The `run`, `attach` and
`promote` commands are separate processes that meet in files and in Docker, any
of them may be interrupted or killed, and the next one has to make sense of what
was left. The modules in this directory model that coordination, TLC checks
them on small instances, and TLAPS proves their safety properties for every value of
the constants.

Paths below are relative to the repository root; Go paths are under `internal/`
unless they start with `cmd/`.

## Files

| File | Role |
|---|---|
| `RunLifecycle.tla` | one run: supervisor, container, reconcilers, users |
| `RunRecord.tla` | abstract specification: what a run promises to an observer |
| `RunLifecycleProofs.tla` | theorems about `RunLifecycle` and their proofs, whatever overlaps |
| `RunRecordProofs.tla` | theorems about sequential use: the refinement of `RunRecord`, and what agrees with what |
| `RunFiles.tla` | `status.json` and `index.jsonl` at the level of system calls |
| `RunFilesProofs.tla` | theorems about `RunFiles` and their proofs |
| `RunCommand.tla` | what the `run` command acquires and releases; the egress proxy |
| `Egress.tla` | from options and files to what the proxy lets through, and its log (used by `RunCommand`) |
| `Mounts.tla` | from the home directory to what the container sees of the host (used by `RunCommand`) |
| `RunCommandProofs.tla` | theorems about `RunCommand` with `Egress` and `Mounts`, and their proofs |
| `RunStreams.tla` | the goroutines, channels and child processes of one run while its agent works |
| `ActivityTimer.tla` | the timer of an interactive run (used by `RunStreams`) |
| `RunStreamsProofs.tla` | theorems about `RunStreams` and `ActivityTimer` and their proofs |
| `RunLogProofs.tla` | theorems about `run.log` in `RunStreams` |
| `ActivityTimerProofs.tla` | theorems about what the timer counts |
| `Promote.tla` | the end of the supervisor and the `promote` commands, one Git command after the other |
| `Publication.tla` | abstract specification: what becomes of the work of a run, seen from the repository |
| `PromoteProofs.tla` | theorems about `Promote` and their proofs |
| `MC*.tla`, `*.cfg` | the instances TLC checks, one `.cfg` per run |
| `PROJECT.json` | components, runs, source map, findings, hazards, theorems |

To check a run: `tlc -config run_sequential.cfg MCRunLifecycle` (the module of
each run is in `PROJECT.json`). To check the proofs: `tlapm RunLifecycleProofs.tla`,
and so for every module `*Proofs.tla`.

## Inventory of the system

| Component | Code | State it keeps | Operations |
|---|---|---|---|
| Supervisor | `runner/runner.go`, `hooks.go` | phase, deadline, outcome, cleanup cause | bootstrap, session, pre-hooks, agent, verify hooks, diff, cleanup, final status |
| Container process | `container/process.go` | `created`, the container Docker holds under a deterministic name | create, start, wait, signal, remove |
| Reconciler | `lifecycle/reconcile.go` | none of its own: reads status, container, marker, flag | infer an outcome, write it, index it, clean up |
| Status file | `runner/status.go`, `timeout.go` | `status.json`, `timeout.flag` | write via a temporary file, read |
| Run index and references | `run/index.go`, `runref.go` | `index.jsonl` | append under flock, read, resolve id / `last` / `last-N` |
| Run command | `cmd/tessariq/run.go` | deferred cleanups, explicit and deferred teardown | validate, acquire, run, unwind |
| Egress proxy | `proxy/*.go` | network, Squid container, `tornDown`, `evidenceExtracted` | Setup, Teardown, telemetry extraction |
| Worktree | `workspace/*.go`, `git/*.go` | the worktree of a run | provision, repair ownership, remove |
| Promote | `promote/*.go` | branch, temporary worktree | check completeness, apply, commit, branch |
| Attach | `attach/*.go`, `cmd/tessariq/attach.go` | none | resolve a live run, open its session |
| Attach-when-ready | `cmd/tessariq/run.go` | two channels | wait for the session or the end of the run |
| Activity timer | `runner/activity.go` | idle clock, `expired` channel | record, check, stop |
| Log cap | `runner/logcap.go`, `container/process.go` | `run.log`, the `docker logs` child | append, cap, stop the stream |
| Diff artifacts | `runner/diff.go` | `diff.patch`, `diffstat.txt` | write both or neither |
| Egress rules | `run/allowlist.go`, `proxy/compiled.go`, `proxy/squidconf.go`, `adapter/egress.go`, `adapter/opencode/provider.go` | none | parse, resolve and render the allowlist |
| Mounts | `authmount/authmount.go`, `container/mount.go`, `adapter/runtime_state.go`, `adapter/factory.go` | the scratch copies of a run | discover, stage, assemble |
| Agent update | `container/init.go` | the agent's cache on the host, shared by all runs | install, probe versions, repair ownership |
| Adapters | `adapter` | none | assemble arguments and environment |
| CLI surface | `cmd/tessariq/*.go` | none | flags and output |
| Test utilities | `testutil` | none | none |

### How the parts interact

* `cmd/tessariq/run.go` calls everything else in one goroutine. `Runner.Run`
  adds a goroutine for `Process.Wait`, one for the log stream and, with
  `--attach`, one for the session.
* Supervisor and reconcilers share `status.json`, `timeout.flag`, `runner.log`
  (searched for the words `starting process`), `diff.patch`, the index, the
  container and the worktree. There is no lock on a run; only an append to the
  index is guarded, by `flock`.
* The Docker daemon owns the containers. A client command that is killed may or
  may not have had its effect, and anything can be pruned from outside.
* The agent edits the worktree from inside the container while the supervisor
  or a reconciler decides what to do with it.

### What is hard, and the properties that make each part correct

* **Supervisor.** Exit, deadline and signal race in one `select`; three phases
  share one deadline; each later step may fail after the outcome is known, writes
  of evidence included. Its outcome must be earned: a success only for exit 0, a
  timeout with its flag unless that could not be written, a signalled state only
  with a cause. It must end.
* **Reconciler.** It reads four sources one after another while they change, and
  acts on them by name. It must never turn a terminal run back into a running
  one, never invent a success, end orphans, spare working runs, and leave status
  and index in agreement.
* **Status file and index.** Crashes, full disks and concurrent writers.
  Readers must see whole statuses; appends must not lose other entries; every
  reference must resolve to the run's latest state.
* **Run command and proxy.** Half a dozen resources are acquired and each step
  may fail, be interrupted or be killed with its effect done. What was acquired
  must be released, and partial telemetry must not pass for complete.
* **Promote.** Several promotes of one run, the supervisor still writing,
  failures between the Git steps. A branch has what the agent did and comes from
  whole evidence, what the command reports is true, nothing is left behind.
* **Egress rules.** Four sources of destinations with precedence, parsed once for
  the options and once for the proxy. The agent reaches the granted pairs of host
  and port, all of them and no others; bad options are refused before anything is
  made.
* **Activity timer, log cap, attach-when-ready.** Small, genuinely concurrent Go
  code with channels and child processes. The timer counts activity, neither
  idle time nor less, and fires once; `run.log` is whole or cut exactly at its
  cap, although three writers have their own idea of its end; the result of the
  run is never lost and nothing waits for what need not come.
* **Mounts and agent update.** Whatever is in the home directory, Docker must be
  able to mount it, nothing of the user's may be writable from the container, and
  an update that failed must not reach the agent.

`PROJECT.json` lists each hazard at the line where it bites, with the properties
that would show it going wrong or the reason why none does yet.

## How the models correspond to the code

`PROJECT.json` "map" gives the source lines of every definition. A definition
whose name extends that of the one below it (`DowngradeNever`, `Downgrade`) is a
faulty variant for the mutation runs; no specification uses it.

### RunLifecycle

`pc` follows `Runner.Run`: `enroll` is the running index entry written by
`newRunCmd`, `begin` the initial status, `session` the tmux session of a
detached run (`logs`, before it, opens the log files), `pre`/`preRun` the pre-hooks, `create` to `mark` is
`Process.Start` and the start marker, `select`/`term`/`kill` is the wait with
its SIGTERM and SIGKILL grace, `verify`/`verifyRun` the verify hooks, `diff` and
`cleanup` the evidence, `finish` the terminal status, `attached` a user who is
still in the session of `--attach` then, and `index` and `unwind` the tail of the
command.

* *Contexts.* `sig` is the cause of the cancelled CLI context, `expired` the
  shared wall-clock deadline, `ctxErr` the `Err()` of the context that the
  operation now under way runs under: a live context may end at any point of the
  operation, and which of the two errors it carries depends on which came first.
  `FreshCtx` is what a context derived now would say.
* *Docker.* A call that its context kills, or that Docker fails, may have had
  its effect: `CreateContainer` may leave a container that
  `container.Process` does not know it owns (`owned` is `Process.created`).
* *Marker.* `runner.log` is capped, and hook output goes to the same file: a
  hook may fill it, so that the marker is dropped, or print the marker's words.
* *The disk.* With the fault "disk" any write of `status.json`, `timeout.flag` or
  the index may fail. Runner.Run returns the error of a status write; the flag's
  is discarded on every path (`_ = WriteTimeoutFlag`) and the timeout goes on
  without its flag (`flagLost`); the index entries' is a warning.
* *The command's own error.* `cmdErr` is `runErr` apart from the outcome of the
  run: a status or log file that could not be written, or the attach of a run that
  was a success. `newRunCmd` keeps the worktree only when there is no error of
  either kind (`KeepsWorktree`).
* *Clients.* Each `attach` and `promote` goes through `ReconcileRun`: read the
  status, inspect the container, look for the marker, look at the flag, write,
  index, clean up. Every read is a step of its own; `view` and `snap` hold what
  was read. An index append or a status write is one step (see `RunFiles`).
* *Promotion* is one step: the evidence checks and the creation of the branch. A
  run can be promoted again, under another branch name; whether a name is free is
  a choice here.

### RunRecord

The promise to an observer: a run begins once, ends once in one of five states,
loses its worktree only after a bad end or when the command that ran it has failed
(`failed`, which is `cmdErr`), and is promoted only in the state it ended in, never
with a cleanup error; how often, it leaves open. `RunLifecycle!Record` is the
refinement mapping (`state <- status.state`, ...), and `RefinesRunRecord` is
checked under sequential use. Overlapping use does not refine it (see Findings).

### RunFiles

`WriteStatus` is open-and-truncate of `status.json.tmp`, write, rename.
Descriptors follow the file through a rename, as in POSIX, so a late writer can
write into what has become `status.json`. `AppendIndex` is open with `O_CREATE`,
`flock`, seek to the end, write; a short write leaves a line with no newline,
and the next entry is glued to it (`Written`). `ReadIndex`, `uniqueRuns`,
`resolveByID` and `resolveLastN` are operators on the sequence of lines; the id of a
run resolves to the last of its lines that can be read. A
supervisor makes its two rounds (running, terminal); a reconciler makes one call
of `ReconcileRun`.

`RunLifecycle` takes a status write and an index append as one step each. Two
properties say that readers cannot tell the difference: `StatusKeepsRecord` (each
`status.json` implements the state of `RunRecord`, through the mapping
`Record(r)`), and `IndexIsLog` (what `ReadIndex` returns grows by one entry at a
time, at its end). The first holds where one process at a time works on a run. In
`run_overlapping` the single step is an abstraction: what two writers of one
`status.json` make of each other's file is shown by `files_overlapping`, and
`Promote` goes on from there.

### RunCommand

`pc` follows `newRunCmd`: bootstrap, `Topology.Setup` (compiled rules, network,
Squid create / cp / connect / start / readiness, with its cleanup path), the
image probe, the worktree, the runtime state, the remaining files, the runner,
the explicit `Teardown`, then the deferred calls in reverse order. `Results` is
what a call may do: succeed, fail of itself without effect, not be made because
its context is over, or be killed when its context ends, with its effect done.
Setup runs under the command context, also in its cleanup path; `Teardown` under
60 s of its own. `Runner.Run` appears by what it does to the container and the
status; `out` is `runErr`, which may be an error although the status is a success
(`Errors`: the attach failed), or because the status could not be written
(`Outcomes`).

The options are a variable that never changes, chosen in `Init` from
`Invocations`; `ResolveOptions` refuses them or lets the command begin.

Two parts of it stand between the proxy and the runner. `DiscoverMounts` looks
for the agent's files; `home`, chosen in `Init` with the options, says which
there are. `UpdateAgent` is the init container that installs the newest agent in
`~/.tessariq/agent-cache`: it may fail, be interrupted or run out of its two
minutes, and in the latter cases the container outlives its client, so that the
cache may end in any state. `OtherWritesCache` is the init container of another
run, or one left over from an earlier one, in the same directory.

### Mounts

Definitions only: `AuthMounts` and `ConfigMounts` are what discovery returns,
`EffectiveMounts` what `PrepareRuntimeState` makes of it (a scratch copy for each
file the agent writes to), `AssembleMounts` and `WritableDirs` what `NewProcess`
hands to Docker. A path is a sequence of names. `Mountable` is what Docker
(external) makes a condition: one mount at each place, and no new mount point
inside of what is mounted read-only.

### Egress

Definitions only, without state: `Parses` and `ParseDestination` (brackets,
default port, bare addresses, wildcards, port range), `Mode` and `ValidOptions`,
what is read of the user's configuration and of OpenCode's files and when,
`AllowlistSource` and `ResolveAllowlist`, `CompiledAllowlist`,
`GenerateSquidConf` as a function from ports to hosts, and `ParseSquidAccessLog`.
An entry is a record, not a string; that `fmt.Sprintf("%s:%d")` drops the
brackets of an IPv6 address is kept (`Canonical`). Squid itself is external:
it evaluates the `http_access` rules, and logs each request with its result.

### RunStreams and ActivityTimer

`RunStreams` has one variable for each goroutine and process of a run: `main`
(the command with `--attach`), `runner`, `waiter` (`Process.Wait`), `monitor`
(`startDetachedLogCapMonitor`), `stream` (`docker logs --follow` with its
goroutine). Channels are variables too: `ready`, `waitCh`; the end of the runner
is the channel `done`. `log` is `run.log` as a sequence of whole writes and
`offset` the position of the descriptor that runner and `docker logs` share;
`CapLogFile` opens the file anew, truncates, and appends its marker through a
descriptor of its own, so a later write through the shared one may leave holes.
`stream` has a state "unrecorded", in which `os/exec` has started the process but
`Cmd.Process` is not visible to `StopLogStream` yet.

The mode (interactive, attached) is chosen in `Init`. Faults: one signal, and
either one call that fails of itself or a Docker daemon that hangs from some
point on.

`ActivityTimer` splits each use of the timer in the reading of the clock and what
is done under the mutex, as the code does: `LoopReads`/`LoopChecks`,
`RecordReads`/`RecordApplies`, `StopDisarms`/`StopCloses`. `heard` is a history
variable: it counts the active time without the timer's arithmetic, and the
silences by whose number the two may differ (a silence is noticed up to a tick
late at either end). The clock does not run ahead of a goroutine by more than a
tick.

### Promote

`pc` follows the supervisor from the exit of its agent: the two `git diff`
commands, the temporary files and their renames, the undoing of both, the
container, the final status, the telemetry and the worktree. `ppc` follows each
`promote`: completeness and identity of the evidence, `ReconcileRun` in the
few steps it takes for an agent that has exited, the emptiness of the diff, the
branch name, the temporary directory and worktree, apply, stage, commit, branch,
and the two deferred removals. A signal is met at the next call that runs under
the command's context, which is then not made ("cut") or killed with its effect
done ("half"); until then it makes no difference. The removals run on a context of
their own; `git worktree remove` may fail, `os.RemoveAll` of the temporary directory
is taken to work. The removal of the run's worktree takes two steps (`tree` is
"going" in between), because a `git diff` in a half-removed worktree sees deletions.

A write of `status.json` takes two steps as well, the opening of the temporary file
and what follows up to the rename, and may fail. Supervisor and promotes use the
same temporary name; while two of them have it open (`raced`), `status.json` may
become any of the values in hand, stay what it is, or be torn, and either of them
may meet an error. `RunFiles` has the calls one by one. A promote that finds the
file torn refuses.

### Publication

What an observer of the repository is promised: the evidence of a run becomes
complete at one step and does not change from then on, and a branch appears at one
step, out of that evidence, and stays what it is. `Promote!Published` is the refinement mapping; evidence counts as complete
when `diffstat.txt` is there and `CheckEvidenceCompleteness` and
`validateManifestIdentity` are content. Unlike `RunRecord`, it is kept under any
overlap, and for that it says nothing of `status.json`: where a supervisor and a
promote write it at once it may end torn or as either's value (`files_overlapping`
shows it), so that a run ends for good is no part of this promise. `RunRecord` and
`StatusKeepsRecord` have it for commands used one at a time.

## The runs

Fairness is assumed in `run_liveness` and in `streams` only; everything else is
safety. Deadlock is not checked in any run, since a run, a command and a file
writer end: their last states have no successor.

| Run | Instance | States | What it shows |
|---|---|---|---|
| `run_sequential` | one attach, one promote, each repeatable, after the supervisor; up to 1 pre- and 1 verify-hook; 4 exit codes; all faults | 1 420 000 | types, refinement of `RunRecord`, index agreement, flag and timeout together, completeness of a success, no promotion of a working agent |
| `run_overlapping` | one promote at any time, repeatable; up to 1 hook per phase; 3 exit codes; all faults but failures of Git and tmux | 4 600 000 | success is earned, timeout is flagged, signalled states are caused, terminal stays terminal, whatever overlaps |
| `run_liveness` | one attach, up to 2 hooks per phase, 2 exit codes; signals, crashes, a full disk, failures of Docker and Git | 794 000 | detached runs end, exited orphans are resolved, terminal runs give up container and worktree and reach the index |
| `files` | 2 supervisors, 2 reconcilers on different or the same runs, crash and full disk at every step | 612 000 | bounded loss in the index, whole statuses with one beginning and one end, an index that readers see as a log, agreement after reconciliation, consistent references |
| `streams` | detached and interactive, attached and not; up to 3 writes, cap 2; timeout 3 ticks, idle after 2, clock up to 4; a signal, one failing call or a hanging Docker | 421 000 | one expiry, active time counted within a tick per silence, `run.log` whole or capped, no result lost, runs and commands end |
| `command` | 84 invocations (modes, sources, entries that do not parse, OpenCode's files; home directories, configuration mounted or not, update or not), up to 2 logged requests, 3 failing calls, a signal, a late teardown or update, another run's update, a crash | 1 752 000 | the agent reaches what its options grant and no more; bad options are refused early; proxy, worktree and scratch directory are released; telemetry is whole or absent, however often teardown is repeated; any home directory can be mounted, read-only but for copies; a failed update is not used |
| `promote` | 2 promotes, 2 branch names, 1 failing call, signals and crashes of all three processes | 1 703 000 | both diff artifacts or neither, true reports, no directory and no worktree left by a promote that failed or was cancelled after git worktree add, branches from whole evidence only (refinement of `Publication`) |

### Bounds, and why they are enough

* *Hooks.* The first and the last hook of a phase differ from the others; two
  have both and one has a hook that is both. A failed verify hook followed by
  one that succeeds needs two, which `run_liveness` has.
* *Exit codes.* 0, 1, 130 (SIGINT), 143 (SIGTERM); 137 is produced by the SIGKILL
  of the model itself. Every branch of `inferReconciledState` is taken in
  `run_sequential`; 130 and 143 differ only in the state they stand for, and
  `run_overlapping` and `run_liveness` do without the first of them.
* *Faults.* `run_overlapping` leaves out failures of Git and of tmux: the first
  leave a worktree or a diff behind, the second end a run before its agent, and the
  properties of that run look at neither. `run_liveness` leaves out prunes, which
  would release what the run must release, failures of tmux, and clients that give
  up, since it assumes a user whose commands run to their end.
* *Clients.* A client that has returned may start again, so one client of a kind
  already makes any number of calls one after another. Overlap of a client with
  the supervisor is what the code is exposed to in `run_overlapping`; overlap of
  writers of the files themselves is `RunFiles`' subject.
* *Files.* Two runs share an index; two reconcilers of one run, or of two.
  `MCSymmetry` permutes runs and reconcilers separately: no property or action
  tells them apart, and no liveness is checked there (`StatusKeepsRecord` and
  `IndexIsLog` are about single steps).
* *Failures.* Three failing calls in `command` are one more than the two attempts
  at a teardown can absorb. One in `promote` meets each call in turn; signals and
  crashes come on top of it.
* *Streams.* A cap of two writes is exceeded by the runner's lines and one write of
  the agent, and three writes leave room for one before, one between and one after
  a truncation. Detached runs have two or three writes, interactive ones one or
  two. The clock advances in interactive runs that nobody is attached to, while
  the runner waits for the agent, and no call fails in those: the timer meets
  calls only through the exit of the agent. A timeout of three ticks with a
  threshold of two and four ticks of clock has room for a silence that is paused
  for, one that is not, and an expiry after either.
* *Home directories.* Every subset of each agent's files with every state of its
  configuration directory, in runs without a proxy (mounting and proxy share
  nothing but the order); an update likewise.
* *Requests.* Two destinations with different ports, the two other pairs of their
  hosts and ports, and one request that is no CONNECT: a rule that mixes ports
  and hosts shows with these.
* *Promotes.* Two meet in one branch name or in two; a third has nobody new to
  meet, since they share nothing but the run and the branches.

### Fairness, and why the code justifies it

* The supervisor is one goroutine that is always either in a call that returns
  or in a `select` with a timer: weak fairness of `SupervisorStep`, *except*
  where the code has no bound (`MayHang`): a hook whose context has not
  ended, an agent at work whose context has not ended (`docker wait` may fail under
  it, but nothing says that it does; and the context of an interactive agent ends
  only by its active time), and the user of `--attach`, who may stay in the session
  when the run is over. `DetachedRunEnds` and `TerminalRunReleased` name that user.
* `DeadlinePasses` is a clock: weakly fair.
* In `run_liveness` Docker and Git calls are assumed to return. In `streams` they
  are not: weak fairness is assumed of `RunnerStep`, `MonitorStep` and
  `CommandStep`, the goroutines that only take from channels with a timer beside
  them or make calls with a deadline, and of nothing else. `docker wait` need not
  answer, `docker logs` need not end, the agent need not die when killed, the user
  need not detach. `RunEnds` holds all the same, except where a daemon that hangs
  pins the runner in one of the three calls without a deadline: `docker kill`
  (SIGTERM and SIGKILL) and the removal of a container that did not start.
* A user keeps attaching to a run once its supervisor is gone
  (`ExitedOrphanResolved` and `TerminalRunReleased` are about what the next
  command repairs, and nothing repairs without one), and a client command runs
  to its end. No fault is fair, and no signal is either.

## Findings

Five statements of the repository that the code does not keep. Each has a run
that shows the shortest counterexample.

| Run | Statement | What happens |
|---|---|---|
| `run_cancelled_diff` | killed runs still emit diff evidence (`runner/runner.go:71-74`) | the diff runs under the CLI context, which the signal has cancelled |
| `run_working_live` | the marker distinguishes a container about to be created (`runner/runner.go:287-290`) | the container is inspected before the marker is read; started in between, it is taken for pruned, failed and removed |
| `files_overlapping` | `WriteStatus` is atomic (`runner/status.go:87`) | all writers share one temporary name: one renames what another has just truncated |
| `promote_no_change` | a run without changes is never promoted (`specs/tessariq-v0.1.0.md:254`) | a promote that finds the agent exited ends the run and removes its worktree while the supervisor is still to diff it; the deletions become `diff.patch`, and then a branch. The run's state changes after it was final for the same reason (`specs/tessariq-v0.1.0.md:69-70`) |
| `command_setup` | a failed proxy setup removes Squid and network (`planning/tasks/T-067.md:22-23`) | after a signal the cleanup runs under the cancelled context, and nothing else is armed |

Smaller ones that came up in modelling, without a run of their own:

* The worktree of a successful run is retained, say `docs/commands.md:152` and
  `docs/release-verification.md:97-99`. When tmux fails to attach, or a signal
  ends the attach, the command fails although the run is a success, and removes
  its worktree (`cmd/tessariq/run.go:402-406`, 638-639). `SuccessIsComplete` and
  `RunRecord` therefore go by the error of the command.
* An accepted `--egress-allow [::1]:443` always fails later, in the proxy's setup:
  `parseDestinations` makes `::1:443` of it (`run/allowlist.go:92`), which
  `NewCompiledAllowlist` parses again and refuses as ambiguous, although
  `run/allowlist.go:30` says bracketed forms are supported. A host with a port in
  OpenCode's configuration fares the same. `BadOptionsAreRefusedEarly` names
  these two as its exceptions; model-checking shows there is no other.
* Every path that records a timeout discards the error of `WriteTimeoutFlag`
  (`runner/runner.go:157`, 189, 321, 488), and the completeness check does not ask
  for the flag: the timeout is then recorded, and reconciled, without it.
  `TimeoutNeedsFlag` and `FlagMatchesTimeout` name the failed write as their only
  exception.
* A run can be promoted any number of times: `ensureBranchDoesNotExist` looks at
  the requested name only (`promote/promote.go:281-296`). `RunRecord` and
  `Publication` allow it.
* A `git worktree add` of promote that is killed after it has registered the
  worktree leaves that registration: the removal is armed only when it returns
  (`promote/promote.go:134-140`). `NothingLeftBehind` has it as one of two
  exceptions, the other being a removal that fails itself.
* `docker kill` has no deadline (`container/process.go:117`), although the cleanup
  is bounded so that "a hung docker daemon cannot pin the runner in StateRunning
  forever" (`runner/runner.go:231-233`). `RunEnds` names where it can.
* When the runner gives up on an agent that SIGKILL has not ended, or when
  `docker wait` fails, `docker logs` may still be running after `run.log` was
  capped for the last time: `LogIsWhole` is about runs whose exit code was awaited.
* `StopLogStream` reads `Cmd.Process` while `Cmd.Run` may be about to set it, in
  another goroutine without a lock. It then stops nothing, and as the monitor has
  returned, `run.log` grows until the run ends and is cut then.
* `run --attach` of a detached run shows `tail -f`, which does not end with the
  agent: the command returns when the user detaches (`CommandReturns`).
* `attach` may be tried on the session of an interactive run that has ended
  meanwhile; a successful run then reports an attach error (`ReturnIsTrue` has
  the cases).
* A supervisor that dies before its container exists, or before the start marker
  is written, leaves a run that `reconcileRun` takes for live for ever
  (`lifecycle/reconcile.go:31-32` promises otherwise). It cannot be told from a run
  that is about to start; `ExitedOrphanResolved` is about the orphans that can.
* All runs of an agent share one cache directory. The init container of one
  rewrites what the agent of another is running from, and one whose client was
  killed or timed out goes on writing. `FallsBackToBaked` has this as a condition.
* A request that is not a CONNECT is denied also for an allowed destination, and
  its event says `not_in_allowlist`; the advice to allow that destination does
  not help.

## What is proved

Each theorem below holds for every value of the constants that the named
assumptions of its module allow: any number of commands, promotes, hooks, runs
and writers, any cap, timeout and bound, any set of faults. Every invariant,
action property and refinement that the passing runs check is proved; liveness is
not (see *Model-checked only*). None of the invariants about steps is inductive
as it stands; each section says which invariant is, and why it has to say what
it says. The inductive invariants were checked by TLC on the instances of the
runs before they were proved. Three of the theorems are about properties that no
passing run checks by themselves: `StatusIsWhole` and `BranchIsWhole`, which say
what the refinements of `RunRecord` and `Publication` leave no room to break, and
`TelemetryIsKept`. Proofs have one lemma for each group of actions and one case
for each action.

### The run, whatever overlaps: `RunLifecycleProofs`

| Theorem | Statement |
|---|---|
| `TypeCorrect` | `Spec => []TypeOK` |
| `SuccessIsEarned` | `Spec => []SuccessNeedsExitZero` |
| `TimeoutIsFlagged` | `Spec => []TimeoutNeedsFlag` |
| `SignalledIsCaused` | `Spec => []SignalledOutcomeHasCause` |
| `TerminalStaysTerminal` | `Spec => NeverRunsAgain` |

What `status.json` says is what some process believed earlier. The supervisor
carries its belief in `out` and `waitRes`, a client in `view`, from the step that
read the evidence to the step that writes the status. `FoundedInv` says of
*every* carrier that its belief has its foundation, and that the foundation
cannot go away:

* `Founded(s)`: a success has exit code 0, a timeout has the flag or its write has
  failed, a signalled state has a signal or such an exit code;
* `ExitedOnce`: an exit code is set when the container exits and never changes,
  and what `Wait` returned is that code or an error;
* `OutcomeFounded`: in the phases where `out` is final, `Founded(out)`, and where
  it still says success by default, that the agent ended with 0 if it ran;
* `ViewsFounded`: every terminal `view` is founded;
* `FirstStatus`: before the initial status there is no terminal one, and
  clients have seen none; this is what `TerminalStaysTerminal` needs, since the
  supervisor's initial status is the only write of `running`;
* `TypeInv`: types, and three facts about the supervisor's locals (`HooksLeft`,
  `CancelHasSignal`, `ConcludedView`).

`SequentialIsSpec` shows that every sequential step is a step of `Next`, so these
theorems hold of `SequentialSpec` as well.

### The run, one command at a time: `RunRecordProofs`

| Theorem | Statement |
|---|---|
| `RunKeepsRecord` | `SequentialSpec => RefinesRunRecord` |
| `IndexAgrees` | `SequentialSpec => []IndexNeverDisagrees` |
| `FlagTellsTimeout` | `SequentialSpec => []FlagMatchesTimeout` |
| `SuccessKeepsItsWork` | `SequentialSpec => []SuccessIsComplete` |
| `PromotedIsOver` | `SequentialSpec => []PromotedAgentIsGone` |

Overlapping commands do not keep that promise (see Findings), so the invariant has
to say what sequential use gives: `SupervisorAlone` and `OneClient`. With that alone the
process at work can be held to what the files say. `RecordInv` has, for each
phase of the supervisor and of a client, what `status.json` holds meanwhile
(`StatusOfPhase`, `StatusOfClient`); in particular a client that goes on after
its write carries in `view` what the file says. That is enough for the
refinement: `RecordStarts` maps the initial states, and one lemma per side
maps every step to the step of `RunRecord` it stands for, or to a stutter.
`AgreementInv` adds where flag, edits, container and worktree stand in each phase
(`FlagOfPhase`, `EditsKept`, `ContainerOwned`, `TreeKept`); a success has lost
its container because only an owned one is left to remove, and it was owned
from the moment it was made.

### Promotion: `PromoteProofs`

| Theorem | Statement |
|---|---|
| `TypeCorrect` | `Spec => []TypeOK` |
| `ArtifactsComeInPairs` | `Spec => []PairAllOrNothing` |
| `BranchesAreWhole` | `Spec => []BranchIsWhole` |
| `ReportsAreTrue` | `Spec => []ReportIsTrue` |
| `PromoteCleansUp` | `Spec => []NothingLeftBehind` |
| `PromoteImplementsPublication` | `Spec => ImplementsPublication` |

Any number of promotes run beside the supervisor, so what one has checked must
stay true by itself. `ArtifactInv` follows the two files through capture,
temporary files, renames and their undoing; it gives the fact everything else
rests on: `diffstat.txt` comes last, and once it is there nobody touches either
file (`FilesSettle`). Hence evidence that was complete stays complete and a branch
where it is (`EvidenceStays`, `BranchesStay`). `PromoteInv` says for each promote
what it has found out by the step it has reached (`Findings`) and what it holds
there (`Holdings`): a linked worktree belongs to a step that has its removal still
to come, to a killed `git worktree add`, or to a removal that has failed.
`PromotesAssumption` says that the value for "no promote" is no promote.

The refinement needs no more than that. `EvidenceComesOnce` gives the step `Settle`,
and `ContentStep` that the one step which touches a branch finds the name free and
the evidence complete, and puts into the branch what the evidence says; what older
branches hold stays because a promote past its last step never commits again
(`CommitStays`). None of it relies on `status.json`, whose writers may be in each
other's way here: a promote's answer to a torn or overwritten status changes
whether it goes on, not what it makes a branch of.

### The run command: `RunCommandProofs`

| Theorem | Statement |
|---|---|
| `TypeCorrect` | `Spec => []TypeOK` |
| `ProxyIsReleased` | `Spec => []ProxyReleasedAtExit` |
| `FilesAreReleased` | `Spec => []FilesReleasedAtExit` |
| `EgressNeverExceeds` | `Spec => []EgressIsExact` |
| `PromotableTelemetryIsWhole` | `Spec => []TelemetryIsWhole` |
| `ExtractedIsKept` | `Spec => TelemetryIsKept` |
| `BadOptionsRefused` | `Spec => []BadOptionsAreRefusedEarly` |
| `BakedAgentIsFallback` | `Spec => []FallsBackToBaked` |
| `HostStaysReadOnly` | `Spec => []HostIsReadOnly` |
| `MountsAlwaysFit` | `Spec => []ContainerIsMountable` |

`PcInv` says in which phases there is a topology, an agent and a status. On it
rest, each by itself: `ReleaseInv` (who answers for network and Squid between the
first call of `Setup` and the last of the second `Teardown`, and how many misses
the two can absorb), `FilesInv` (what is made is armed until it is removed, and a
command without an error has recorded a success),
`SquidIsUp`, `TelemetryInv` (a log whose container is gone does not grow; what was
copied of it is all of it), `OptionsInv` and `CacheInv`. `BadOptionsRefused` rests
on `ParsedParses`: text that `parseDestinations` writes for an accepted entry
parses again unless the host has a colon; `BuiltInsAssumption` (the built-in
hosts are well-formed) is what the code's tables satisfy.
`EgressNeverExceeds` quantifies over all allowlists; the runs have eighty-four.
`MountsAlwaysFit` is a theorem about paths rather than steps: a target is the
container's home followed by a path of the agent's (`RestOfConcat`, `PathInHome`), so
one target lies in another only when the one path begins with the other
(`InsideBegins`); among the paths of an agent that happens only for the credentials in
Claude Code's configuration directory (`NothingInside`, `OnlyCredentialsInside`), and
they are found at the place where the directory already has them
(`CredentialsAreInPlace`).

### The files: `RunFilesProofs`

| Theorem | Statement |
|---|---|
| `TypeCorrect` | `Spec => []TypeOK` |
| `LossIsBoundedByGarbled` | `Spec => []LossIsBounded` |
| `StatusStaysReadable` | `ASSUME ~Overlapping PROVE Spec => []StatusIsWhole` |
| `ReconcilerAgrees` | `ASSUME ~Overlapping PROVE Spec => []ReconciledAgrees` |
| `StatusImplementsRecord` | `ASSUME ~Overlapping PROVE Spec => StatusKeepsRecord` |
| `RefsFindTheRun` | `Spec => []RefsAgree` |
| `IndexReadsAsLog` | `Spec => IndexIsLog` |

`~Overlapping` is the instance of the `files` run: one process at a time works on
a run, while other runs' writers share the index at will. `StatusStaysReadable` is
false without it (`files_overlapping`), and so are the two that rest on it. `LossIsBounded` is not inductive because a
short write makes a garbled line only when the *next* append is glued to it.
`LossInv` therefore counts on `Steady`, the lines before one that is still cut:
the acknowledged entries that are no steady line are at most as many as the
garbled steady lines. `AloneInv` says that two active writers of a run are one,
`WholeInv` what each step of `WriteStatus` finds in `status.json.tmp` and through
which descriptor, `HandInv` that the outcome in hand is the one in, or about to be
in, `status.json`, and that nobody writes after a reconciler is done. `LatestInv`
ties that to the index without any recursion: the latest line of a run is the
maximum of its lines, which is how `ResolveByID` is defined.

`RecordInv` adds to `HandInv` what a writer finds in the file it is about to replace:
nothing in the first round of a supervisor, "running" in its second round and in a
reconciler's. So a rename is `Begin` or `Finish` of that run's record, and everything
else a stutter.

`RefsAgree` and `IndexIsLog` are about what `ReadIndex` and `uniqueRuns` compute, which
are folds over sequences of any length. The library's induction theorems take an
operator as a parameter, which the installed provers cannot instantiate, so induction
is derived here for sets: `LeastElement` from the well-foundedness of `<`, and from it
`SetInduction`. `FoldExists` shows by induction over the prefixes of a sequence that
the recursion behind `FoldLeft` has a solution, `FoldIsLoop` that the solution goes
through the sequence from left to right. From there on it is program verification:
`ReadIndexIsLoop` and `FirstAppearancesIsLoop` give the two loops, `Follows` (the entries
read so far are the lines that parse, in their order) and `Orders` (the runs seen so
far, each once) are their invariants, and `IndexHasOneRefEach` puts them together.
For `IndexIsLog`, `ReadingsAgree` compares two loops: they agree as long as their lines
do, so an added line is read last (`ReadingOfAdded`) and a spoilt one takes at most
itself away (`ReadingOfSpoilt`).

### Streams and timer: `RunStreamsProofs`, `RunLogProofs`, `ActivityTimerProofs`

| Theorem | Statement |
|---|---|
| `CommandTellsTheTruth` | `Spec => []ReturnIsTrue` |
| `RunExpiryIsFinal` | `Spec => ExpiryIsFinal` |
| `RunImplementsTimer` | `Spec => TimerSpec` |
| `TimerTypeCorrect` | `TimerSpec => []TimerTypeOK` |
| `TypeCorrect` (`RunLogProofs`) | `Spec => []TypeOK` |
| `LogStaysWhole` | `Spec => []LogIsWhole` |
| `TimerCountsActiveTime` | `TimerSpec => []CountsActiveTime` |
| `RunCountsActiveTime` | `Spec => []CountsActiveTime` |

`ReturnInv` says where the command has been: past the select with `--attach` the
terminal has been attached or has failed to, and a command that has returned
compared itself with the outcome of a run that was done.
`RunnerStepsBeforeDone` shows that such a run changes neither its outcome nor
`ready` any more; `OthersKeepReturn`, that no other goroutine does. For the
timer, `TimerInv` is its types and that a closed channel means `fired`:
`AdvanceIsFinal` has the one place where the channel is closed, for any timer
and any reading of the clock, however old. `RunKeepsToTimer` goes through the
steps of the run: each is a step of `TimerNext` or leaves the timer alone, so
what holds of `TimerSpec` holds in the run.

`LogInv` is about `run.log` at every step. `WorkersInv` says which of waiter,
monitor and stream may be at work in which phase of the runner, so that nobody
writes after the last cap when the agent was awaited. `Holding(lines, n)` is what
the file holds after n lines: all of them up to the cap, and beyond it anything,
but then it is too long, or the monitor is between truncation and marker;
`SoFarInv` and `AtEndInv` say it of the lines so far and of all of them. `CutInv` and
`StreamEndInv` are the reason why no line below the cap is lost: monitor and
`StopLogStream` act only when the offset is past it, and an offset never goes back
(`OffsetGrows`).

`CountInv` is an account of the timer while it has not fired. `CountsActiveTime`
compares what is counted with what was heard, but the two are brought up to date
at different moments: a reading may be taken, and not applied yet, by the loop
and by `RecordActivity` at once. `Pace` bounds how old each of them is: no
checkpoint lies more than two ticks back, and two only directly after an output.
`Excess` is the difference that will remain once everything read has been
applied, and `Balance` bounds it by twice the silences that the timer has
noticed, and by one tick more with a threshold of one tick, where a late check
misses one (`Missed`). Reading the clock leaves the excess as it is; of the steps
under the mutex only the one that ends a silence may move it, by two
(`RecordAppliesCounts`). `TimerCountsActiveTime` follows for the timer alone, and
`RunImplementsTimer` carries it over to the run.

### Model-checked only

* Liveness (`RunEnds`, `CommandReturns`, `DetachedRunEnds`, `ExitedOrphanResolved`,
  `TerminalRunReleased`): needs fairness and `ENABLED`, which the prover does not
  have.

## What is not modelled

* Formatting, JSON encoding, log wording and CLI flags: no property depends on them.
* The agents' options and container arguments other than mounts: argument
  assembly with no state.
* `initialize`, `prereq` and `version`: one-shot checks and the creation of a file.
* The contents of evidence files beyond what readers tell apart.
* In `RunStreams` a write of the agent is atomic, and the cap a number of writes:
  the split of a write that crosses the cap shows nothing else.
* Which of the evidence files is missing or altered: promote refuses all alike.
* A hanging Docker daemon outside `RunStreams` (see Fairness), and in
  `workspace.Cleanup`.
* Data races as such: their outcomes are choices where they matter
  (`StopLogStream`).

## Plan

1. *Done*: `RunLifecycle` with `RunRecord`, `RunFiles`, `RunCommand` with `Egress`,
   `Promote`, and the first proofs.
2. *Done*: `RunStreams` with `ActivityTimer`; a Docker that hangs, in the phase
   that has no bound; `Mounts` and the agent's update, in `RunCommand`; the first
   proofs about the streams.
3. *Done*: `Promote` as an implementation of an abstract specification. It is
   `Publication` and not the `Promote` action of `RunRecord`, which overlapping
   promotes do not keep.
4. *Done*: proofs of the safety properties, component by component, and of the
   refinements of `RunRecord` and `Publication`.
5. Left: what of `StatusIsWhole` and `ReconciledAgrees` holds with overlapping use;
   liveness, should the prover come to support it.

New modules share a run with what they extend where the question is the same;
each violation run stays as long as the statement it refutes is in the repository.
