------------------------------- MODULE Promote -------------------------------
(***************************************************************************)
(* How the work of a finished agent becomes a branch: the end of the       *)
(* supervisor, which writes the diff artifacts (internal/runner/diff.go)   *)
(* and the final status, and the `tessariq promote' commands, which check  *)
(* the evidence and build a commit out of it, one Git command after the    *)
(* other (internal/promote, internal/runner/completeness.go).  Any number  *)
(* of them may work on the run at once, the supervisor included.           *)
(*                                                                         *)
(* Module RunLifecycle has the run before this point, and the promotion as *)
(* one step; here a promote's reconciliation (internal/lifecycle) takes a  *)
(* few steps, for an agent that has exited and was not stopped by a        *)
(* timeout.  A definition whose name extends that of the one below it is a *)
(* faulty variant, kept for the mutation runs.                             *)
(***************************************************************************)
EXTENDS Integers

CONSTANTS
  Promotes,     \* the promote commands
  Branches,     \* the branch names they may be given
  MaxFailures,  \* bound on the calls that fail of themselves
  Faults        \* subset of {"signal", "crash"}

\* Whose commit a branch is that does not exist.
NoPromote == "nobody"

ASSUME PromotesAssumption == NoPromote \notin Promotes
ASSUME MaxFailuresAssumption == MaxFailures \in Nat
ASSUME FaultsAssumption == Faults \subseteq {"signal", "crash"}

Artifacts == {"patch", "stat"}

\* What a diff may say: nothing, what the agent has changed, or that files
\* are gone which nobody but a cleanup has deleted.
Diffs == {"none", "edits", "deletions"}

VARIABLES
  \* the run
  edited,     \* the agent has changed the code; never changes
  proxied,    \* the run is in proxy mode; never changes
  exitOk,     \* the agent exited with 0; never changes
  records,    \* its other evidence: "whole", "missing" or "altered"; never changes
  events,     \* egress.events.jsonl exists
  status,     \* status.json; "uncleaned" is failed with a cleanup_error
  raced,      \* status.json.tmp is open, and was to two writers at once
  container,  \* its container: "exited" or "absent"
  tree,       \* its worktree: "whole", "going" or "gone"
  tmp,        \* diff.patch.tmp and diffstat.txt.tmp exist
  file,       \* diff.patch and diffstat.txt, "none" for a missing one
  \* the supervisor
  pc,         \* what it does next
  data,       \* the diffs it has in memory
  out,        \* processState
  cancelled,  \* a signal has cancelled its context
  \* the promote commands
  ppc,        \* what each does next
  wants,      \* the branch each is to make; never changes
  seen,       \* the status each has read or inferred
  stopped,    \* it has met that a signal cancelled its context
  tmpDir,     \* its temporary directory exists
  linked,     \* Git has a worktree registered there; "half" after a killed
              \* git worktree add, "stuck" after a failed removal
  work,       \* what the worktree holds on top of the base commit
  commit,     \* the diff its commit makes, or "none"
  result,     \* "none", "ok" or "error"
  \* the repository
  branch,     \* for each name, the promote whose commit it is, or NoPromote
  failures    \* calls that have failed of themselves

factVars == <<edited, proxied, exitOk, records>>
statusVars == <<status, raced>>
runVars == <<factVars, events, statusVars, container, tree>>
artVars == <<tmp, file>>
supVars == <<pc, data, out, cancelled>>
gitVars == <<tmpDir, linked, work, commit, branch>>
cmdVars == <<ppc, wants, seen, stopped, result>>
vars == <<runVars, artVars, supVars, gitVars, cmdVars, failures>>

Terminal == {"success", "failed", "uncleaned"}

SupervisorPcs ==
  {"diff", "diffStat", "tmpPatch", "tmpStat", "namePatch", "nameStat", "undo",
   "cleanup", "finish", "naming", "extract", "unwind", "done", "crashed"}
PromotePcs ==
  {"evidence", "status", "reconcile", "inspect", "write", "naming", "container", "dropping",
   "patch", "stat", "branch", "tmp", "add", "apply", "stage", "commit", "name",
   "rmTree", "rmTmp", "over", "crashed"}

TypeOK ==
  /\ {edited, proxied, exitOk, events, cancelled} \subseteq BOOLEAN
  /\ records \in {"whole", "missing", "altered"}
  /\ status \in {"running", "torn"} \cup Terminal
  /\ raced \in BOOLEAN
  /\ container \in {"exited", "absent"}
  /\ tree \in {"whole", "going", "gone"}
  /\ tmp \in [Artifacts -> BOOLEAN]
  /\ file \in [Artifacts -> Diffs]
  /\ pc \in SupervisorPcs
  /\ data \in [Artifacts -> Diffs]
  /\ out \in {"success", "failed", "uncleaned"}
  /\ ppc \in [Promotes -> PromotePcs]
  /\ wants \in [Promotes -> Branches]
  /\ seen \in [Promotes -> {"running"} \cup Terminal]
  /\ stopped \in [Promotes -> BOOLEAN]
  /\ tmpDir \in [Promotes -> BOOLEAN]
  /\ linked \in [Promotes -> {"no", "yes", "half", "stuck"}]
  /\ work \in [Promotes -> Diffs]
  /\ commit \in [Promotes -> Diffs]
  /\ result \in [Promotes -> {"none", "ok", "error"}]
  /\ branch \in [Branches -> Promotes \cup {NoPromote}]
  /\ failures \in 0..MaxFailures
  \* what is acted on is a terminal status
  /\ \A p \in Promotes :
       ppc[p] \in {"write", "naming", "container", "dropping", "patch"} => seen[p] \in Terminal

\* The agent has exited and the verify hooks, which may have failed, are
\* over.
Init ==
  /\ edited \in BOOLEAN
  /\ proxied \in BOOLEAN
  /\ exitOk \in BOOLEAN
  /\ records \in {"whole", "missing", "altered"}
  /\ events = FALSE
  /\ status = "running"
  /\ raced = FALSE
  /\ container = "exited"
  /\ tree = "whole"
  /\ tmp = [a \in Artifacts |-> FALSE]
  /\ file = [a \in Artifacts |-> "none"]
  /\ pc = "diff"
  /\ data = [a \in Artifacts |-> "none"]
  /\ out \in IF exitOk THEN {"success", "failed"} ELSE {"failed"}
  /\ cancelled = FALSE
  /\ ppc = [p \in Promotes |-> "evidence"]
  /\ wants \in [Promotes -> Branches]
  /\ seen = [p \in Promotes |-> "running"]
  /\ stopped = [p \in Promotes |-> FALSE]
  /\ tmpDir = [p \in Promotes |-> FALSE]
  /\ linked = [p \in Promotes |-> "no"]
  /\ work = [p \in Promotes |-> "none"]
  /\ commit = [p \in Promotes |-> "none"]
  /\ result = [p \in Promotes |-> "none"]
  /\ branch = [b \in Branches |-> NoPromote]
  /\ failures = 0

-----------------------------------------------------------------------------
(* Calls.                                                                  *)

\* A call succeeds; it fails of itself, without effect; or a signal has come:
\* the call is not made, or is killed with its effect done.
Results ==
  {"ok"} \cup (IF failures < MaxFailures THEN {"undone"} ELSE {}) \cup
  (IF "signal" \in Faults THEN {"cut", "half"} ELSE {})
LocalResults == Results \ {"cut", "half"}

Effective(r) == r \in {"ok", "half"}
Count(r) == failures' = IF r = "undone" THEN failures + 1 ELSE failures

-----------------------------------------------------------------------------
(* WriteStatus: it opens and truncates status.json.tmp, writes to it and    *)
(* renames it to status.json.  Everyone uses the same two names.  Module    *)
(* RunFiles has the calls and the files one by one; here they are two       *)
(* steps.                                                                   *)

\* Who has the file open, and the values they are about to put there.
Naming == {p \in Promotes : ppc[p] = "naming"}
InHand == {out : x \in {pc} \cap {"naming"}} \cup {seen[p] : p \in Naming}

OpenStatusTemp == raced' = (InHand # {}) /\ UNCHANGED status

\* A writer that had the file to itself all the time names its value, or it
\* fails.  Otherwise one may rename what another one has truncated or written
\* to, may write to what is status.json already, and may find nothing left to
\* rename.
NameStatusTemp(value, r, others) ==
  /\ \/ /\ ~raced
        /\ r \in LocalResults
        /\ status' = IF r = "ok" THEN value ELSE status
        /\ Count(r)
     \/ /\ raced
        /\ r \in {"ok", "undone"}
        /\ status' \in {status, "torn"} \cup InHand
        /\ UNCHANGED failures
  /\ raced' = (raced /\ others)

-----------------------------------------------------------------------------
(* The supervisor: WriteDiffArtifacts, cleanup, final status and the rest. *)

Downgrade(o) == IF o = "success" THEN "failed" ELSE o

\* git diff in a worktree that somebody removes: it fails, or files that are
\* gone already count as deleted.
Visible ==
  CASE tree = "whole" -> {IF edited THEN "edits" ELSE "none"}
    [] tree = "going" -> {"deletions"}
    [] tree = "gone" -> {}

\* git.Diff and git.DiffStat, under the CLI context.
CaptureDiff(a) ==
  /\ pc = IF a = "patch" THEN "diff" ELSE "diffStat"
  /\ \/ /\ ~cancelled
        /\ \E d \in Visible : data' = [data EXCEPT ![a] = d]
        /\ pc' = IF a = "stat" THEN "tmpPatch"
                 ELSE IF data'[a] = "none" THEN "cleanup"
                 ELSE "diffStat"
        /\ UNCHANGED <<out, failures>>
     \/ /\ cancelled \/ tree # "whole" \/ failures < MaxFailures
        /\ failures' = IF cancelled \/ tree # "whole" THEN failures ELSE failures + 1
        /\ pc' = "cleanup"
        /\ out' = Downgrade(out)
        /\ UNCHANGED data
  /\ UNCHANGED <<runVars, artVars, cancelled, gitVars, cmdVars>>

\* os.WriteFile may leave a part of the file when it fails.
WriteTemp(a) ==
  /\ pc = IF a = "patch" THEN "tmpPatch" ELSE "tmpStat"
  /\ tmp' = [tmp EXCEPT ![a] = TRUE]
  /\ \E r \in LocalResults :
       /\ pc' = IF r # "ok" THEN "undo" ELSE IF a = "patch" THEN "tmpStat" ELSE "namePatch"
       /\ Count(r)
  /\ UNCHANGED <<runVars, file, data, out, cancelled, gitVars, cmdVars>>

RenameTemp(a) ==
  /\ pc = IF a = "patch" THEN "namePatch" ELSE "nameStat"
  /\ \E r \in LocalResults :
       /\ IF r = "ok"
          THEN /\ file' = [file EXCEPT ![a] = data[a]]
               /\ tmp' = [tmp EXCEPT ![a] = FALSE]
               /\ pc' = IF a = "patch" THEN "nameStat" ELSE "cleanup"
          ELSE pc' = "undo" /\ UNCHANGED artVars
       /\ Count(r)
  /\ UNCHANGED <<runVars, data, out, cancelled, gitVars, cmdVars>>

\* The deferred removal of whatever there is; os.Remove is taken to work.
RolledBackTempsOnly == file
RolledBack == [file EXCEPT !["patch"] = "none"]

UndoArtifacts ==
  /\ pc = "undo"
  /\ tmp' = [a \in Artifacts |-> FALSE]
  /\ file' = RolledBack
  /\ out' = Downgrade(out)
  /\ pc' = "cleanup"
  /\ UNCHANGED <<runVars, data, cancelled, gitVars, cmdVars, failures>>

\* docker rm -f, on a background context.  The diffs in memory and the CLI
\* context are of no use any more.
CleanupContainer ==
  /\ pc = "cleanup"
  /\ \E r \in LocalResults :
       /\ container' \in (IF r = "ok" THEN {"absent"} ELSE {container, "absent"})
       /\ out' = IF r = "ok" THEN out ELSE "uncleaned"
       /\ Count(r)
  /\ pc' = "finish"
  /\ data' = [a \in Artifacts |-> "none"]
  /\ cancelled' = FALSE
  /\ UNCHANGED <<factVars, events, statusVars, tree, artVars, gitVars, cmdVars>>

OpenTerminalStatus ==
  /\ pc = "finish"
  /\ OpenStatusTemp
  /\ pc' = "naming"
  /\ UNCHANGED <<factVars, events, container, tree, artVars, data, out, cancelled,
                 gitVars, cmdVars, failures>>

\* A status that cannot be written is an error of the command like any other.
WriteTerminalStatus ==
  /\ pc = "naming"
  /\ \E r \in {"ok", "undone"} :
       /\ NameStatusTemp(out, r, Naming # {})
       /\ out' = IF r = "ok" THEN out ELSE Downgrade(out)
  /\ pc' = "extract"
  /\ UNCHANGED <<factVars, events, container, tree, artVars, data, cancelled,
                 gitVars, cmdVars>>

\* Topology.Teardown, by its telemetry; module RunCommand has its steps.
ExtractTelemetry ==
  /\ pc = "extract"
  /\ \E r \in LocalResults :
       /\ events' = (proxied /\ r = "ok")
       /\ Count(r)
  /\ pc' = "unwind"
  /\ UNCHANGED <<factVars, statusVars, container, tree, artVars, data, out, cancelled,
                 gitVars, cmdVars>>

\* The deferred removal, skipped when there is no error at all: the attach to
\* a successful run may have failed.
DropWorktree ==
  /\ pc = "unwind"
  /\ \/ out = "success" /\ UNCHANGED <<tree, failures>>
     \/ \E r \in LocalResults :
          /\ tree' = IF r = "ok" THEN "gone" ELSE tree
          /\ Count(r)
  /\ pc' = "done"
  /\ UNCHANGED <<factVars, events, statusVars, container, artVars, data, out, cancelled,
                 gitVars, cmdVars>>

SupervisorIsCancelled ==
  /\ "signal" \in Faults
  /\ pc \in {"diff", "diffStat"}
  /\ ~cancelled
  /\ cancelled' = TRUE
  /\ UNCHANGED <<runVars, artVars, pc, data, out, gitVars, cmdVars, failures>>

\* Its memory goes with it.
SupervisorCrashes ==
  /\ "crash" \in Faults
  /\ pc \notin {"done", "crashed"}
  /\ pc' = "crashed"
  /\ data' = [a \in Artifacts |-> "none"]
  /\ out' = "failed"
  /\ cancelled' = FALSE
  /\ UNCHANGED <<runVars, artVars, gitVars, cmdVars, failures>>

Supervisor ==
  \/ \E a \in Artifacts : CaptureDiff(a) \/ WriteTemp(a) \/ RenameTemp(a)
  \/ UndoArtifacts \/ CleanupContainer \/ OpenTerminalStatus \/ WriteTerminalStatus
  \/ ExtractTelemetry \/ DropWorktree
  \/ SupervisorIsCancelled \/ SupervisorCrashes

-----------------------------------------------------------------------------
(* promote: the evidence and the reconciliation.                           *)

Goto(p, label) == ppc' = [ppc EXCEPT ![p] = label]

\* Where promote.Run returns an error before it has acquired anything.
Refuse(p) == ppc' = [ppc EXCEPT ![p] = "over"] /\ result' = [result EXCEPT ![p] = "error"]

\* What it has read of the status is of no use any more.
Forget(p) == seen' = [seen EXCEPT ![p] = "running"]

Cut(p, r) == stopped' = [stopped EXCEPT ![p] = @ \/ r \in {"cut", "half"}]

\* CheckEvidenceCompleteness: every file is there and parses, those of the
\* proxy too when runtime.json says that there was one.
EvidenceComplete == records # "missing" /\ (proxied => events)

\* validateManifestIdentity: the manifest says what the index, the evidence
\* directory and workspace.json say.
IdentityHolds == records # "altered"

\* status.json can be parsed.
Legible == status # "torn"

CheckEvidence(p) ==
  /\ ppc[p] = "evidence"
  /\ IF EvidenceComplete /\ IdentityHolds /\ Legible
     THEN Goto(p, "status") /\ UNCHANGED result
     ELSE Refuse(p)
  /\ UNCHANGED <<runVars, artVars, supVars, gitVars, wants, seen, stopped, failures>>

UnfinishedNever == FALSE
Unfinished == status \notin Terminal

ReadStatus(p) ==
  /\ ppc[p] = "status"
  /\ \/ ~Legible /\ Refuse(p) /\ UNCHANGED seen
     \/ /\ Legible /\ ~Unfinished
        /\ Goto(p, "patch")
        /\ seen' = [seen EXCEPT ![p] = status]
        /\ UNCHANGED result
     \/ Legible /\ Unfinished /\ Goto(p, "reconcile") /\ UNCHANGED <<seen, result>>
  /\ UNCHANGED <<runVars, artVars, supVars, gitVars, wants, stopped, failures>>

\* ReconcileRun reads status.json again, then inspects the container.
RereadStatus(p) ==
  /\ ppc[p] = "reconcile"
  /\ \/ ~Legible /\ Refuse(p) /\ UNCHANGED seen
     \/ /\ Legible
        /\ seen' = [seen EXCEPT ![p] = status]
        /\ Goto(p, IF status \in Terminal THEN "container" ELSE "inspect")
        /\ UNCHANGED result
  /\ UNCHANGED <<runVars, artVars, supVars, gitVars, wants, stopped, failures>>

\* An exited container has its exit status still.  One that is gone was
\* started once, so the run counts as failed.
InspectContainer(p) ==
  /\ ppc[p] = "inspect"
  /\ \E r \in Results :
       /\ IF r = "ok"
          THEN /\ seen' = [seen EXCEPT ![p] = IF container = "exited" /\ exitOk
                                              THEN "success" ELSE "failed"]
               /\ Goto(p, "write")
               /\ UNCHANGED result
          ELSE Refuse(p) /\ Forget(p)
       /\ Cut(p, r)
       /\ Count(r)
  /\ UNCHANGED <<runVars, artVars, supVars, gitVars, wants>>

OpenReconciledStatus(p) ==
  /\ ppc[p] = "write"
  /\ OpenStatusTemp
  /\ Goto(p, "naming")
  /\ UNCHANGED <<factVars, events, container, tree, artVars, supVars, gitVars,
                 wants, seen, stopped, result, failures>>

WriteReconciledStatus(p) ==
  /\ ppc[p] = "naming"
  /\ \E r \in {"ok", "undone"} :
       /\ NameStatusTemp(seen[p], r, pc = "naming" \/ Naming # {p})
       /\ IF r = "ok"
          THEN Goto(p, "container") /\ UNCHANGED <<seen, result>>
          ELSE Refuse(p) /\ Forget(p)
  /\ UNCHANGED <<factVars, events, container, tree, artVars, supVars, gitVars, wants, stopped>>

\* cleanupTerminalRun: a failing docker rm ends promote.
RemoveContainer(p) ==
  /\ ppc[p] = "container"
  /\ \E r \in Results :
       /\ container' = IF Effective(r) THEN "absent" ELSE container
       /\ IF r # "ok" THEN Refuse(p) /\ Forget(p)
          ELSE /\ Goto(p, IF seen[p] = "success" \/ tree = "gone" THEN "patch" ELSE "dropping")
               /\ UNCHANGED <<seen, result>>
       /\ Cut(p, r)
       /\ Count(r)
  /\ UNCHANGED <<factVars, events, statusVars, tree, artVars, supVars, gitVars, wants>>

\* workspace.Cleanup deletes one file after the other; what git worktree
\* remove leaves, os.RemoveAll takes.  A directory that is there still ends
\* promote.
RemoveWorktree(p) ==
  /\ ppc[p] = "dropping"
  /\ \/ tree = "whole" /\ tree' = "going" /\ UNCHANGED <<ppc, seen, result, failures>>
     \/ /\ tree # "whole"
        /\ tree' = "gone"
        /\ Goto(p, "patch")
        /\ UNCHANGED <<seen, result, failures>>
     \/ /\ "undone" \in LocalResults
        /\ Count("undone")
        /\ Refuse(p) /\ Forget(p)
        /\ UNCHANGED tree
  /\ UNCHANGED <<factVars, events, statusVars, container, artVars, supVars, gitVars,
                 wants, stopped>>

-----------------------------------------------------------------------------
(* promote: the commit and the branch.                                     *)

\* A cleanup_error, no patch, an empty patch or no diffstat: no promotion.
\* The patch is looked at first; the status is not needed again.
CheckPatch(p) ==
  /\ ppc[p] = "patch"
  /\ Forget(p)
  /\ IF seen[p] # "uncleaned" /\ file["patch"] # "none"
     THEN Goto(p, "stat") /\ UNCHANGED result
     ELSE Refuse(p)
  /\ UNCHANGED <<runVars, artVars, supVars, gitVars, wants, stopped, failures>>

HasStatUnchecked == TRUE
HasStat == file["stat"] # "none"

CheckStat(p) ==
  /\ ppc[p] = "stat"
  /\ IF HasStat THEN Goto(p, "branch") /\ UNCHANGED result ELSE Refuse(p)
  /\ UNCHANGED <<runVars, artVars, supVars, gitVars, wants, seen, stopped, failures>>

NameTaken(p) == branch[wants[p]] # NoPromote

\* validateBranchName and ensureBranchDoesNotExist.
CheckBranch(p) ==
  /\ ppc[p] = "branch"
  /\ \E r \in Results :
       /\ IF r = "ok" /\ ~NameTaken(p) THEN Goto(p, "tmp") /\ UNCHANGED result ELSE Refuse(p)
       /\ Cut(p, r)
       /\ Count(r)
  /\ UNCHANGED <<runVars, artVars, supVars, gitVars, wants, seen>>

MakeTempDir(p) ==
  /\ ppc[p] = "tmp"
  /\ \E r \in LocalResults :
       /\ tmpDir' = [tmpDir EXCEPT ![p] = r = "ok"]
       /\ IF r = "ok" THEN Goto(p, "add") /\ UNCHANGED result ELSE Refuse(p)
       /\ Count(r)
  /\ UNCHANGED <<runVars, artVars, supVars, linked, work, commit, branch, wants, seen, stopped>>

\* From here an error runs the deferred removals that have been armed: the
\* directory only, or the worktree before it.
Abort(p, label) == ppc' = [ppc EXCEPT ![p] = label] /\ result' = [result EXCEPT ![p] = "error"]

AddWorktree(p) ==
  /\ ppc[p] = "add"
  /\ \E r \in Results :
       /\ linked' = [linked EXCEPT ![p] = CASE r = "ok" -> "yes" [] r = "half" -> "half"
                                             [] OTHER -> "no"]
       /\ IF r = "ok" THEN Goto(p, "apply") /\ UNCHANGED result ELSE Abort(p, "rmTmp")
       /\ Cut(p, r)
       /\ Count(r)
  /\ UNCHANGED <<runVars, artVars, supVars, tmpDir, work, commit, branch, wants, seen>>

\* git apply reads diff.patch now.
ApplyPatch(p) ==
  /\ ppc[p] = "apply"
  /\ \E r \in Results :
       /\ work' = [work EXCEPT ![p] = IF Effective(r) THEN file["patch"] ELSE "none"]
       /\ IF r = "ok" /\ file["patch"] # "none"
          THEN Goto(p, "stage") /\ UNCHANGED result
          ELSE Abort(p, "rmTree")
       /\ Cut(p, r)
       /\ Count(r)
  /\ UNCHANGED <<runVars, artVars, supVars, tmpDir, linked, commit, branch, wants, seen>>

\* git add -A, the check for staged changes, the message file.
StageChanges(p) ==
  /\ ppc[p] = "stage"
  /\ \E r \in Results :
       /\ IF r = "ok" /\ work[p] # "none"
          THEN Goto(p, "commit") /\ UNCHANGED result
          ELSE Abort(p, "rmTree")
       /\ Cut(p, r)
       /\ Count(r)
  /\ UNCHANGED <<runVars, artVars, supVars, gitVars, wants, seen>>

MakeCommit(p) ==
  /\ ppc[p] = "commit"
  /\ \E r \in Results :
       /\ commit' = [commit EXCEPT ![p] = IF Effective(r) THEN work[p] ELSE "none"]
       /\ IF r = "ok" THEN Goto(p, "name") /\ UNCHANGED result ELSE Abort(p, "rmTree")
       /\ Cut(p, r)
       /\ Count(r)
  /\ UNCHANGED <<runVars, artVars, supVars, tmpDir, linked, work, branch, wants, seen>>

\* git branch refuses a name that is taken by now.
NameRefusedNever(p) == FALSE
NameRefused(p) == NameTaken(p)

\* What is armed when the last step fails.
AfterNameFailedEarly == "rmTmp"
AfterNameFailed == "rmTree"

\* git rev-parse and git branch.
MakeBranch(p) ==
  /\ ppc[p] = "name"
  /\ \E r \in Results :
       /\ branch' = IF Effective(r) /\ ~NameRefused(p)
                    THEN [branch EXCEPT ![wants[p]] = p] ELSE branch
       /\ IF r = "ok" /\ ~NameRefused(p)
          THEN Goto(p, "rmTree") /\ result' = [result EXCEPT ![p] = "ok"]
          ELSE Abort(p, AfterNameFailed)
       /\ Cut(p, r)
       /\ Count(r)
  /\ UNCHANGED <<runVars, artVars, supVars, tmpDir, linked, work, commit, wants, seen>>

\* The deferred git worktree remove, on a background context, and then
\* os.RemoveAll.
UnlinkWorktree(p) ==
  /\ ppc[p] = "rmTree"
  /\ \E r \in LocalResults :
       /\ linked' = [linked EXCEPT ![p] = IF r = "ok" THEN "no" ELSE "stuck"]
       /\ Count(r)
  /\ work' = [work EXCEPT ![p] = "none"]
  /\ Goto(p, "rmTmp")
  /\ UNCHANGED <<runVars, artVars, supVars, tmpDir, commit, branch, wants, seen, stopped,
                 result>>

RemoveTempDir(p) ==
  /\ ppc[p] = "rmTmp"
  /\ tmpDir' = [tmpDir EXCEPT ![p] = FALSE]
  /\ Goto(p, "over")
  /\ UNCHANGED <<runVars, artVars, supVars, linked, work, commit, branch, wants, seen, stopped,
                 result, failures>>

\* It reports nothing, and what it knew goes with it.
PromoteCrashes(p) ==
  /\ "crash" \in Faults
  /\ ppc[p] \notin {"over", "crashed"}
  /\ Goto(p, "crashed")
  /\ Forget(p)
  /\ stopped' = [stopped EXCEPT ![p] = FALSE]
  /\ result' = [result EXCEPT ![p] = "none"]
  /\ work' = [work EXCEPT ![p] = "none"]
  /\ UNCHANGED <<runVars, artVars, supVars, tmpDir, linked, commit, branch, wants, failures>>

PromoteStep(p) ==
  \/ CheckEvidence(p) \/ ReadStatus(p)
  \/ RereadStatus(p) \/ InspectContainer(p)
  \/ OpenReconciledStatus(p) \/ WriteReconciledStatus(p)
  \/ RemoveContainer(p) \/ RemoveWorktree(p)
  \/ CheckPatch(p) \/ CheckStat(p) \/ CheckBranch(p) \/ MakeTempDir(p)
  \/ AddWorktree(p) \/ ApplyPatch(p) \/ StageChanges(p) \/ MakeCommit(p) \/ MakeBranch(p)
  \/ UnlinkWorktree(p) \/ RemoveTempDir(p)
  \/ PromoteCrashes(p)

Next == Supervisor \/ \E p \in Promotes : PromoteStep(p)

Spec == Init /\ [][Next]_vars

-----------------------------------------------------------------------------
(* Properties.                                                             *)

\* Once the supervisor is past the diff there are both artifacts or neither
\* and no temporary file, whichever step failed; a success on an untouched
\* worktree with changes has them (diff.go:13-16).
PairAllOrNothing ==
  pc \in {"cleanup", "finish", "naming", "extract", "unwind", "done"} =>
    /\ file["patch"] = "none" <=> file["stat"] = "none"
    /\ \A a \in Artifacts : ~tmp[a]
    /\ out = "success" /\ edited => file["patch"] # "none"

\* A branch is made of whole evidence only: the patch it holds is in
\* diff.patch still, beside its diffstat, also when the supervisor died
\* between the two or is at work yet (promote.go:87-109).
BranchIsWhole ==
  \A b \in Branches :
    branch[b] # NoPromote =>
      /\ commit[branch[b]] = file["patch"]
      /\ file["patch"] # "none" /\ file["stat"] # "none"
      /\ EvidenceComplete /\ IdentityHolds

\* A promote that reports success has its branch, two of them have two; one
\* that reports an error has none unless a signal stopped it (promote.go:166).
ReportIsTrue ==
  \A p \in Promotes :
    /\ result[p] = "ok" => branch[wants[p]] = p
    /\ (result[p] = "error" /\ branch[wants[p]] = p) => stopped[p]

\* A promote that comes to its end, whichever step failed or was cancelled,
\* leaves no directory and no worktree but one that git was killed on while
\* adding it, or has failed to remove (promote.go:122-163).
NothingLeftBehind ==
  \A p \in Promotes :
    ppc[p] = "over" =>
      /\ ~tmpDir[p]
      /\ linked[p] # "yes"
      /\ linked[p] = "half" => stopped[p] /\ commit[p] = "none"
      /\ linked[p] = "stuck" => failures > 0

\* Supervisor and promotes together keep the promise of module Publication:
\* whatever interleaves, and whatever that makes of status.json, the evidence
\* is complete at one step and the same from then on, and each branch appears
\* at one step, out of it, and stays (diff.go:13-16, promote.go:87-171).
Published == INSTANCE Publication WITH
  Diffs <- Diffs \ {"none"},
  evidence <- IF file["stat"] # "none" /\ EvidenceComplete /\ IdentityHolds
              THEN file["patch"] ELSE "none",
  content <- [b \in Branches |->
                IF branch[b] = NoPromote THEN "none" ELSE commit[branch[b]]]

ImplementsPublication == Published!Spec

-----------------------------------------------------------------------------
(* What the documentation says and the code does not do.                   *)

\* specs/tessariq-v0.1.0.md:254: a run that has no code changes is not
\* promoted.
NoChangeNoBranch == ~edited => \A b \in Branches : branch[b] = NoPromote

=============================================================================
