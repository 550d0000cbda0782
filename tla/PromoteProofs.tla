---------------------------- MODULE PromoteProofs ----------------------------
(***************************************************************************)
(* What TLAPS proves of Promote, for any number of promote commands and    *)
(* branch names, any bound on the failures and any faults: type            *)
(* correctness, the four invariants module Promote states, and the         *)
(* refinement of module Publication.                                       *)
(***************************************************************************)
EXTENDS Promote, TLAPS

-----------------------------------------------------------------------------
(* The inductive invariant.                                                *)

\* The artifacts appear one after the other, and what a phase of the
\* supervisor has in memory is worth writing.
ArtifactsOfPhase ==
  /\ pc \in {"diff", "diffStat", "tmpPatch"} => \A a \in Artifacts : ~tmp[a]
  /\ pc \in {"diff", "diffStat", "tmpPatch", "tmpStat", "namePatch"} =>
       \A a \in Artifacts : file[a] = "none"
  /\ pc = "nameStat" => ~tmp["patch"] /\ file["patch"] # "none"
  /\ pc \in {"nameStat", "undo"} => file["stat"] = "none"
  /\ pc = "diffStat" => data["patch"] # "none" /\ (edited \/ tree # "whole")
  /\ pc \in {"tmpPatch", "tmpStat", "namePatch", "nameStat"} =>
       \A a \in Artifacts : data[a] # "none"
StatImpliesPatch == file["stat"] # "none" => file["patch"] # "none"

\* The telemetry is extracted once, so that it never goes away again.
EventsOnce == events => pc \in {"unwind", "done", "crashed"}

\* What a command has found out by the time it gets somewhere still holds.
Ending == {"rmTree", "rmTmp", "over", "crashed"}
Building == {"branch", "tmp", "add", "apply", "stage", "commit", "name"}
Settled == {"container", "dropping", "patch", "stat"} \cup Building
Vetted == {"status", "reconcile", "inspect", "write", "naming"} \cup Settled
Findings(p) ==
  /\ ppc[p] \in Vetted => EvidenceComplete /\ IdentityHolds
  /\ ppc[p] \in Building => file["stat"] # "none"
  /\ ppc[p] \in {"stage", "commit"} => work[p] = file["patch"]
  /\ ppc[p] = "name" => commit[p] = file["patch"]

\* What it has made by then.
Holdings(p) ==
  /\ commit[p] # "none" => ppc[p] \in {"name"} \cup Ending
  /\ result[p] # "none" => ppc[p] \in Ending
  /\ branch[wants[p]] = p => ppc[p] \in Ending
  /\ tmpDir[p] => ppc[p] \in {"add", "apply", "stage", "commit", "name", "rmTree", "rmTmp", "crashed"}
  /\ linked[p] = "yes" => ppc[p] \in {"apply", "stage", "commit", "name", "rmTree", "crashed"}
  /\ linked[p] = "half" => /\ ppc[p] \in {"rmTmp", "over", "crashed"}
                           /\ ppc[p] # "crashed" => stopped[p] /\ commit[p] = "none"
  /\ linked[p] = "stuck" => failures > 0

BranchesWanted == \A b \in Branches : branch[b] # NoPromote => wants[branch[b]] = b

ArtifactInv == TypeOK /\ ArtifactsOfPhase /\ StatImpliesPatch /\ EventsOnce /\ PairAllOrNothing

PromoteInv ==
  /\ ArtifactInv
  /\ \A p \in Promotes : Findings(p) /\ Holdings(p)
  /\ BranchesWanted /\ BranchIsWhole /\ ReportIsTrue

-----------------------------------------------------------------------------
(* Calls, and who leaves what alone.                                       *)

\* How a call may end: one that fails of itself is within the bound.
LEMMA CallResults ==
  ASSUME NEW r \in Results
  PROVE  r \in {"ok", "undone", "cut", "half"} /\ (r = "undone" => failures < MaxFailures)
  BY DEF Results

\* A call on a background context is done or it fails.
LEMMA LocalCallResults ==
  ASSUME NEW r \in LocalResults
  PROVE  r = "ok" \/ (r = "undone" /\ failures < MaxFailures)
  BY DEF LocalResults, Results

\* The count of failures stays within its bound and tells of each of them.
LEMMA CountTyped ==
  ASSUME failures \in 0..MaxFailures, NEW r, Count(r), r = "undone" => failures < MaxFailures
  PROVE  failures' \in 0..MaxFailures /\ (r = "undone" => failures' > 0)
  BY MaxFailuresAssumption DEF Count

\* The supervisor does nothing to the commands, the branches or the
\* evidence other than its own.
LEMMA SupervisorFrame ==
  ASSUME Supervisor
  PROVE  UNCHANGED <<edited, proxied, exitOk, records, gitVars, cmdVars>>
  BY DEF Supervisor, CaptureDiff, WriteTemp, RenameTemp, UndoArtifacts, CleanupContainer,
       OpenTerminalStatus, WriteTerminalStatus, ExtractTelemetry, DropWorktree,
       SupervisorIsCancelled, SupervisorCrashes, runVars, factVars, statusVars

\* A command does nothing to the supervisor, its artifacts or its telemetry.
LEMMA PromoteFrame ==
  ASSUME NEW p \in Promotes, PromoteStep(p)
  PROVE  UNCHANGED <<edited, proxied, exitOk, records, events, artVars, supVars, wants>>
  BY DEF PromoteStep, CheckEvidence, ReadStatus, RereadStatus, InspectContainer,
       OpenReconciledStatus, WriteReconciledStatus, RemoveContainer, RemoveWorktree,
       CheckPatch, CheckStat, CheckBranch, MakeTempDir, AddWorktree, ApplyPatch, StageChanges,
       MakeCommit, MakeBranch, UnlinkWorktree, RemoveTempDir, PromoteCrashes, runVars,
       factVars, statusVars, gitVars, cmdVars

\* A command does nothing to another one.
LEMMA OthersAlone ==
  ASSUME TypeOK, NEW p \in Promotes, PromoteStep(p), NEW q \in Promotes \ {p}
  PROVE  /\ ppc'[q] = ppc[q] /\ seen'[q] = seen[q] /\ stopped'[q] = stopped[q]
         /\ tmpDir'[q] = tmpDir[q] /\ linked'[q] = linked[q] /\ work'[q] = work[q]
         /\ commit'[q] = commit[q] /\ result'[q] = result[q]
  <1> USE DEF TypeOK, Goto, Refuse, Abort, Forget, Cut, runVars, factVars, statusVars, gitVars,
              cmdVars
  <1>1. CASE \/ CheckEvidence(p) \/ ReadStatus(p) \/ RereadStatus(p) \/ InspectContainer(p)
             \/ OpenReconciledStatus(p) \/ WriteReconciledStatus(p)
    BY <1>1 DEF CheckEvidence, ReadStatus, RereadStatus, InspectContainer, OpenReconciledStatus,
         WriteReconciledStatus
  <1>2. CASE \/ RemoveContainer(p) \/ RemoveWorktree(p) \/ CheckPatch(p) \/ CheckStat(p)
             \/ CheckBranch(p)
    BY <1>2 DEF RemoveContainer, RemoveWorktree, CheckPatch, CheckStat, CheckBranch
  <1>3. CASE MakeTempDir(p) \/ AddWorktree(p) \/ ApplyPatch(p) \/ StageChanges(p)
    <2>1. CASE MakeTempDir(p)
      BY <2>1 DEF MakeTempDir
    <2>2. CASE AddWorktree(p)
      BY <2>2 DEF AddWorktree
    <2>3. CASE ApplyPatch(p) \/ StageChanges(p)
      BY <2>3 DEF ApplyPatch, StageChanges
    <2> QED
      BY <1>3, <2>1, <2>2, <2>3
  <1>4. CASE MakeCommit(p) \/ MakeBranch(p) \/ UnlinkWorktree(p) \/ RemoveTempDir(p)
    <2>1. CASE MakeCommit(p)
      BY <2>1 DEF MakeCommit
    <2>2. CASE MakeBranch(p)
      BY <2>2 DEF MakeBranch
    <2>3. CASE UnlinkWorktree(p) \/ RemoveTempDir(p)
      BY <2>3 DEF UnlinkWorktree, RemoveTempDir
    <2> QED
      BY <1>4, <2>1, <2>2, <2>3
  <1>5. CASE PromoteCrashes(p)
    BY <1>5 DEF PromoteCrashes
  <1> QED
    BY <1>1, <1>2, <1>3, <1>4, <1>5 DEF PromoteStep

-----------------------------------------------------------------------------
(* Type correctness.                                                       *)

\* The initial states are typed.
LEMMA TypeInit == Init => TypeOK
  <1> SUFFICES ASSUME Init PROVE TypeOK
    OBVIOUS
  <1>1. out \in {"success", "failed", "uncleaned"}
    BY DEF Init
  <1>2. failures \in 0..MaxFailures
    BY MaxFailuresAssumption DEF Init
  <1> QED
    BY <1>1, <1>2 DEF Init, TypeOK, Terminal, SupervisorPcs, PromotePcs, Diffs, Artifacts

\* The diff of a worktree is one of the three there are.
LEMMA VisibleDiffs ==
  ASSUME tree \in {"whole", "going", "gone"}
  PROVE  /\ Visible \subseteq Diffs
         /\ \A d \in Visible : tree # "gone" /\ (d # "none" <=> edited \/ tree # "whole")
  BY DEF Visible, Diffs

\* Those who are about to name a status have one that a status may be.
LEMMA InHandTyped ==
  ASSUME TypeOK
  PROVE  InHand \subseteq {"running"} \cup Terminal
  BY DEF TypeOK, InHand, Naming, Terminal

\* Every step of the supervisor keeps the types (diff.go:12-72,
\* runner.go:202-252).
LEMMA SupervisorTypes ==
  ASSUME TypeOK, Supervisor
  PROVE  TypeOK'
  <1> USE DEF TypeOK, runVars, factVars, statusVars, artVars, supVars, gitVars, cmdVars,
              SupervisorPcs, Terminal
  <1>0. FALSE \in BOOLEAN
    OBVIOUS
  <1>1. ASSUME NEW a \in Artifacts, CaptureDiff(a) PROVE TypeOK'
    BY <1>1, VisibleDiffs, MaxFailuresAssumption DEF CaptureDiff, Downgrade
  <1>2. ASSUME NEW a \in Artifacts, WriteTemp(a) PROVE TypeOK'
    <2>1. failures' \in 0..MaxFailures
      BY <1>0, <1>2, LocalCallResults, CountTyped DEF WriteTemp
    <2> QED
      BY <1>2, <2>1 DEF WriteTemp
  <1>3. ASSUME NEW a \in Artifacts, RenameTemp(a) PROVE TypeOK'
    <2>1. failures' \in 0..MaxFailures
      BY <1>0, <1>3, LocalCallResults, CountTyped DEF RenameTemp
    <2>2. /\ pc' \in SupervisorPcs
          /\ UNCHANGED <<runVars, data, out, cancelled, gitVars, cmdVars>>
          /\ \/ UNCHANGED artVars
             \/ /\ file' = [file EXCEPT ![a] = data[a]]
                /\ tmp' = [tmp EXCEPT ![a] = FALSE]
      BY <1>3 DEF RenameTemp
    <2>3. file' \in [Artifacts -> Diffs] /\ tmp' \in [Artifacts -> BOOLEAN]
      BY <1>0, <1>3, <2>2
    <2> QED
      BY <2>1, <2>2, <2>3
  <1>4. CASE UndoArtifacts
    BY <1>4, ZenonT(40) DEF UndoArtifacts, RolledBack, Downgrade, Diffs
  <1>5. CASE CleanupContainer
    <2>1. failures' \in 0..MaxFailures
      BY <1>0, <1>5, LocalCallResults, CountTyped DEF CleanupContainer
    <2> QED
      BY <1>5, <2>1, ZenonT(40) DEF CleanupContainer, Diffs
  <1>6. CASE OpenTerminalStatus
    BY <1>6 DEF OpenTerminalStatus, OpenStatusTemp
  <1>10. CASE WriteTerminalStatus
    <2>1. failures' \in 0..MaxFailures
      BY <1>10, LocalCallResults, CountTyped DEF WriteTerminalStatus, NameStatusTemp
    <2>2. status' \in {"running", "torn"} \cup Terminal /\ raced' \in BOOLEAN
      BY <1>10, InHandTyped DEF WriteTerminalStatus, NameStatusTemp
    <2>3. out' \in {"success", "failed", "uncleaned"}
      BY <1>10 DEF WriteTerminalStatus, Downgrade
    <2> QED
      BY <1>10, <2>1, <2>2, <2>3 DEF WriteTerminalStatus
  <1>11. CASE DropWorktree
    BY <1>11, LocalCallResults, CountTyped DEF DropWorktree
  <1>7. CASE ExtractTelemetry
    BY <1>0, <1>7, LocalCallResults, CountTyped DEF ExtractTelemetry
  <1>8. CASE SupervisorIsCancelled
    BY <1>8 DEF SupervisorIsCancelled
  <1>9. CASE SupervisorCrashes
    BY <1>0, <1>9 DEF SupervisorCrashes, Diffs
  <1> QED
    BY <1>1, <1>2, <1>3, <1>4, <1>5, <1>6, <1>7, <1>8, <1>9, <1>10, <1>11 DEF Supervisor

\* Every step of a command keeps the types (promote.go:38-171).
LEMMA PromoteTypes ==
  ASSUME TypeOK, NEW p \in Promotes, PromoteStep(p)
  PROVE  TypeOK'
  <1> USE DEF TypeOK, runVars, factVars, statusVars, artVars, supVars, gitVars, cmdVars,
              PromotePcs, Terminal, Goto, Refuse, Abort, Forget, Cut
  <1>0. FALSE \in BOOLEAN /\ stopped[p] \in BOOLEAN
    OBVIOUS
  <1>1. CASE CheckEvidence(p) \/ ReadStatus(p) \/ RereadStatus(p)
    BY <1>1 DEF CheckEvidence, ReadStatus, Unfinished, RereadStatus, Legible
  <1>2. CASE InspectContainer(p)
    BY <1>0, <1>2, CallResults, CountTyped DEF InspectContainer
  <1>3. CASE OpenReconciledStatus(p)
    BY <1>3 DEF OpenReconciledStatus, OpenStatusTemp
  <1>15. CASE WriteReconciledStatus(p)
    <2>1. failures' \in 0..MaxFailures
      BY <1>15, LocalCallResults, CountTyped DEF WriteReconciledStatus, NameStatusTemp
    <2>2. status' \in {"running", "torn"} \cup Terminal /\ raced' \in BOOLEAN
      BY <1>15, InHandTyped DEF WriteReconciledStatus, NameStatusTemp
    <2> QED
      BY <1>15, <2>1, <2>2 DEF WriteReconciledStatus
  <1>4. CASE RemoveContainer(p)
    BY <1>0, <1>4, CallResults, CountTyped DEF RemoveContainer
  <1>5. CASE RemoveWorktree(p)
    BY <1>5, LocalCallResults, CountTyped DEF RemoveWorktree
  <1>17. CASE CheckPatch(p) \/ CheckStat(p)
    BY <1>17 DEF CheckPatch, CheckStat
  <1>6. CASE CheckBranch(p)
    BY <1>0, <1>6, CallResults, CountTyped DEF CheckBranch
  <1>14. CASE StageChanges(p)
    BY <1>0, <1>14, CallResults, CountTyped DEF StageChanges
  <1>7. CASE MakeTempDir(p)
    <2>1. PICK r \in LocalResults : /\ tmpDir' = [tmpDir EXCEPT ![p] = r = "ok"]
                                   /\ Count(r)
      BY <1>7 DEF MakeTempDir
    <2>2. tmpDir' \in [Promotes -> BOOLEAN]
      BY <2>1
    <2>3. failures' \in 0..MaxFailures
      BY <1>0, <2>1, LocalCallResults, CountTyped
    <2> QED
      BY <1>7, <2>2, <2>3 DEF MakeTempDir
  <1>8. CASE AddWorktree(p)
    BY <1>0, <1>8, CallResults, CountTyped DEF AddWorktree
  <1>9. CASE ApplyPatch(p)
    BY <1>0, <1>9, CallResults, CountTyped DEF ApplyPatch, Artifacts, Diffs
  <1>10. CASE MakeCommit(p)
    BY <1>0, <1>10, CallResults, CountTyped DEF MakeCommit, Diffs
  <1>11. CASE MakeBranch(p)
    BY <1>0, <1>11, CallResults, CountTyped DEF MakeBranch, AfterNameFailed
  <1>12. CASE UnlinkWorktree(p)
    <2>1. PICK r \in LocalResults :
                 /\ linked' = [linked EXCEPT ![p] = IF r = "ok" THEN "no" ELSE "stuck"]
                 /\ Count(r)
      BY <1>12 DEF UnlinkWorktree
    <2>2. linked' \in [Promotes -> {"no", "yes", "half", "stuck"}]
      BY <2>1
    <2>3. failures' \in 0..MaxFailures
      BY <1>0, <2>1, LocalCallResults, CountTyped
    <2> QED
      BY <1>12, <2>2, <2>3 DEF UnlinkWorktree, Diffs
  <1>13. CASE RemoveTempDir(p)
    BY <1>0, <1>13 DEF RemoveTempDir
  <1>16. CASE PromoteCrashes(p)
    BY <1>16 DEF PromoteCrashes, Diffs
  <1> QED
    BY <1>1, <1>2, <1>3, <1>4, <1>5, <1>6, <1>7, <1>8, <1>9, <1>10, <1>11, <1>12, <1>13,
       <1>14, <1>15, <1>16, <1>17 DEF PromoteStep

\* Every step keeps the types.
LEMMA TypeStep == TypeOK /\ [Next]_vars => TypeOK'
  <1>1. TypeOK /\ UNCHANGED vars => TypeOK'
    BY DEF vars, runVars, factVars, statusVars, artVars, supVars, gitVars, cmdVars, TypeOK
  <1> QED
    BY <1>1, SupervisorTypes, PromoteTypes DEF Next

\* The state of the promotion is always one the code knows.
THEOREM TypeCorrect == Spec => []TypeOK
  BY TypeInit, TypeStep, PTL DEF Spec

-----------------------------------------------------------------------------
(* The artifacts.                                                          *)

\* At first there are none.
LEMMA ArtifactInit == Init => ArtifactInv
  <1> SUFFICES ASSUME Init PROVE ArtifactInv
    OBVIOUS
  <1>1. ArtifactsOfPhase /\ StatImpliesPatch /\ EventsOnce /\ PairAllOrNothing
    BY DEF Init, ArtifactsOfPhase, StatImpliesPatch, EventsOnce, PairAllOrNothing, Artifacts
  <1> QED
    BY <1>1, TypeInit DEF ArtifactInv

\* The supervisor captures both diffs, writes both files aside and names
\* them, and takes back what it has named when a step fails (diff.go:12-72).
LEMMA SupervisorArtifacts ==
  ASSUME ArtifactInv, Supervisor
  PROVE  ArtifactsOfPhase' /\ StatImpliesPatch' /\ EventsOnce' /\ PairAllOrNothing'
  <1> USE DEF ArtifactsOfPhase, StatImpliesPatch, EventsOnce, PairAllOrNothing,
              Artifacts, runVars, factVars, statusVars, artVars
  <1>0. /\ TypeOK /\ ArtifactsOfPhase /\ StatImpliesPatch /\ EventsOnce /\ PairAllOrNothing
        /\ out \in {"success", "failed", "uncleaned"} /\ events \in BOOLEAN
        /\ edited \in BOOLEAN /\ tree \in {"whole", "going", "gone"}
        /\ data \in [{"patch", "stat"} -> Diffs] /\ file \in [{"patch", "stat"} -> Diffs]
        /\ tmp \in [{"patch", "stat"} -> BOOLEAN]
    BY DEF ArtifactInv, TypeOK
  <1>1. ASSUME NEW a \in Artifacts, CaptureDiff(a)
        PROVE  ArtifactsOfPhase' /\ StatImpliesPatch' /\ EventsOnce' /\ PairAllOrNothing'
    <2>1. UNCHANGED <<edited, events, tree, file, tmp>>
      BY <1>1 DEF CaptureDiff
    <2>2. CASE pc' = "cleanup" /\ out' = Downgrade(out)
      BY <1>0, <1>1, <2>1, <2>2 DEF CaptureDiff, Downgrade
    <2>3. CASE \E d \in Visible : data' = [data EXCEPT ![a] = d] /\ UNCHANGED out
      <3>1. PICK d \in Visible : data' = [data EXCEPT ![a] = d] /\ UNCHANGED out
        BY <2>3
      <3>2. /\ data'[a] = d /\ (a = "stat" => data'["patch"] = data["patch"])
            /\ d # "none" <=> edited \/ tree # "whole"
        BY <1>0, <3>1, VisibleDiffs
      <3>3. CASE a = "patch" /\ pc' = "diffStat" /\ d # "none"
        BY <1>0, <1>1, <2>1, <3>2, <3>3 DEF CaptureDiff
      <3>4. CASE a = "patch" /\ pc' = "cleanup" /\ d = "none"
        BY <1>0, <1>1, <2>1, <3>1, <3>2, <3>4 DEF CaptureDiff
      <3>5. CASE a = "stat" /\ pc' = "tmpPatch"
        BY <1>0, <1>1, <2>1, <3>2, <3>5 DEF CaptureDiff
      <3>6. CASE pc' = "cleanup" /\ out' = Downgrade(out)
        BY <2>2, <3>6
      <3> QED
        BY <1>1, <3>2, <3>3, <3>4, <3>5, <3>6 DEF CaptureDiff
    <2> QED
      BY <1>1, <2>2, <2>3 DEF CaptureDiff
  <1>2. ASSUME NEW a \in Artifacts, WriteTemp(a)
        PROVE  ArtifactsOfPhase' /\ StatImpliesPatch' /\ EventsOnce' /\ PairAllOrNothing'
    BY <1>0, <1>2 DEF WriteTemp
  <1>3. ASSUME NEW a \in Artifacts, RenameTemp(a)
        PROVE  ArtifactsOfPhase' /\ StatImpliesPatch' /\ EventsOnce' /\ PairAllOrNothing'
    BY <1>0, <1>3 DEF RenameTemp
  <1>4. CASE UndoArtifacts
    BY <1>0, <1>4 DEF UndoArtifacts, RolledBack, Downgrade
  <1>5. CASE CleanupContainer
    <2>1. /\ UNCHANGED <<edited, events, tree, file, tmp>> /\ out' \in {out, "uncleaned"}
          /\ pc = "cleanup" /\ pc' = "finish"
      BY <1>5 DEF CleanupContainer
    <2> QED
      BY <1>0, <2>1
  <1>6. CASE OpenTerminalStatus \/ WriteTerminalStatus \/ ExtractTelemetry \/ DropWorktree
    <2>1. /\ UNCHANGED <<edited, file, tmp>> /\ (out' = "success" => out = "success")
          /\ pc \in {"finish", "naming", "extract", "unwind"}
          /\ pc' \in {"naming", "extract", "unwind", "done"}
      BY <1>6 DEF OpenTerminalStatus, WriteTerminalStatus, ExtractTelemetry, DropWorktree,
         Downgrade
    <2>2. EventsOnce'
      BY <1>0, <1>6 DEF OpenTerminalStatus, WriteTerminalStatus, ExtractTelemetry, DropWorktree
    <2> QED
      BY <1>0, <2>1, <2>2
  <1>7. CASE SupervisorIsCancelled \/ SupervisorCrashes
    BY <1>0, <1>7 DEF SupervisorIsCancelled, SupervisorCrashes
  <1> QED
    BY <1>1, <1>2, <1>3, <1>4, <1>5, <1>6, <1>7 DEF Supervisor

\* A worktree that is no longer whole does not become whole.
LEMMA TreeStaysBroken ==
  ASSUME NEW p \in Promotes, PromoteStep(p), tree # "whole"
  PROVE  tree' # "whole"
  BY DEF PromoteStep, CheckEvidence, ReadStatus, RereadStatus, InspectContainer,
       OpenReconciledStatus, WriteReconciledStatus, RemoveContainer, RemoveWorktree,
       CheckPatch, CheckStat, CheckBranch, MakeTempDir, AddWorktree, ApplyPatch, StageChanges,
       MakeCommit, MakeBranch, UnlinkWorktree, RemoveTempDir, PromoteCrashes, runVars,
       factVars, statusVars

\* Every step keeps the invariant of the artifacts; a command takes away at
\* most the worktree they are made of.
LEMMA ArtifactStep == ArtifactInv /\ [Next]_vars => ArtifactInv'
  <1> SUFFICES ASSUME ArtifactInv, [Next]_vars PROVE ArtifactInv'
    OBVIOUS
  <1>1. TypeOK'
    BY TypeStep DEF ArtifactInv
  <1>2. ASSUME NEW p \in Promotes, PromoteStep(p)
        PROVE  ArtifactsOfPhase' /\ StatImpliesPatch' /\ EventsOnce' /\ PairAllOrNothing'
    BY <1>2, PromoteFrame, TreeStaysBroken
    DEF ArtifactInv, ArtifactsOfPhase, StatImpliesPatch, EventsOnce, PairAllOrNothing, artVars,
        supVars
  <1>3. CASE UNCHANGED vars
    <2>1. UNCHANGED <<edited, events, tree, tmp, file, pc, data, out>>
      BY <1>3 DEF vars, runVars, factVars, statusVars, artVars, supVars
    <2> QED
      BY <1>1, <2>1 DEF ArtifactInv, ArtifactsOfPhase, StatImpliesPatch, EventsOnce,
           PairAllOrNothing
  <1> QED
    BY <1>1, <1>2, <1>3, SupervisorArtifacts DEF Next, ArtifactInv

LEMMA ArtifactAlways == Spec => []ArtifactInv
  BY ArtifactInit, ArtifactStep, PTL DEF Spec

\* diff.patch and diffstat.txt are there together or not at all once the
\* supervisor is past them, and a success on a worktree with changes has
\* them (diff.go:13-16), whichever of its steps failed and whoever took the
\* worktree away meanwhile.
THEOREM ArtifactsComeInPairs == Spec => []PairAllOrNothing
  <1>1. ArtifactInv => PairAllOrNothing
    BY DEF ArtifactInv
  <1> QED
    BY <1>1, ArtifactAlways, PTL

-----------------------------------------------------------------------------
(* What a command has found out stays true.                                *)

\* Nobody touches the artifacts any more once both are there.
LEMMA FilesSettle ==
  ASSUME ArtifactInv, [Next]_vars, file["stat"] # "none"
  PROVE  UNCHANGED file
  <1>1. Supervisor => UNCHANGED file
    BY DEF ArtifactInv, ArtifactsOfPhase, Artifacts, Supervisor, CaptureDiff, WriteTemp,
         RenameTemp, UndoArtifacts, CleanupContainer, OpenTerminalStatus, WriteTerminalStatus,
         ExtractTelemetry, DropWorktree, SupervisorIsCancelled, SupervisorCrashes, artVars
  <1>2. (\E p \in Promotes : PromoteStep(p)) \/ UNCHANGED vars => UNCHANGED file
    BY PromoteFrame DEF vars, artVars
  <1> QED
    BY <1>1, <1>2 DEF Next

\* Evidence that is complete and agrees with itself stays so.
LEMMA EvidenceStays ==
  ASSUME ArtifactInv, [Next]_vars
  PROVE  /\ EvidenceComplete => EvidenceComplete'
         /\ IdentityHolds => IdentityHolds'
  <1>1. CASE Supervisor
    <2>1. events => events'
      BY <1>1 DEF ArtifactInv, EventsOnce, Supervisor, CaptureDiff, WriteTemp, RenameTemp,
           UndoArtifacts, CleanupContainer, OpenTerminalStatus, WriteTerminalStatus,
           ExtractTelemetry, DropWorktree, SupervisorIsCancelled, SupervisorCrashes, runVars,
           factVars, statusVars
    <2> QED
      BY <1>1, <2>1, SupervisorFrame DEF EvidenceComplete, IdentityHolds
  <1>2. CASE (\E p \in Promotes : PromoteStep(p)) \/ UNCHANGED vars
    BY <1>2, PromoteFrame DEF EvidenceComplete, IdentityHolds, vars, runVars, factVars,
       statusVars
  <1> QED
    BY <1>1, <1>2 DEF Next

\* Calls that have failed are not forgotten.
LEMMA FailuresStay ==
  ASSUME TypeOK, [Next]_vars, failures > 0
  PROVE  failures' > 0
  <1> USE MaxFailuresAssumption
      DEF TypeOK, Count, NameStatusTemp, runVars, factVars, statusVars
  <1>1. CASE Supervisor
    BY <1>1 DEF Supervisor, CaptureDiff, WriteTemp, RenameTemp, UndoArtifacts,
         CleanupContainer, OpenTerminalStatus, WriteTerminalStatus, ExtractTelemetry,
         DropWorktree, SupervisorIsCancelled, SupervisorCrashes
  <1>2. ASSUME NEW p \in Promotes, PromoteStep(p) PROVE failures' > 0
    BY <1>2 DEF PromoteStep, CheckEvidence, ReadStatus, RereadStatus, InspectContainer,
         OpenReconciledStatus, WriteReconciledStatus, RemoveContainer, RemoveWorktree,
         CheckPatch, CheckStat, CheckBranch, MakeTempDir, AddWorktree, ApplyPatch,
         StageChanges, MakeCommit, MakeBranch, UnlinkWorktree, RemoveTempDir, PromoteCrashes
  <1> QED
    BY <1>1, <1>2 DEF Next, vars

\* A branch is made under a free name by a command that wants it, and never
\* moved or deleted (promote.go:164-166).
LEMMA BranchesStay ==
  ASSUME TypeOK, [Next]_vars
  PROVE  \/ UNCHANGED branch
         \/ \E p \in Promotes :
              /\ MakeBranch(p)
              /\ branch[wants[p]] = NoPromote
              /\ branch' = [branch EXCEPT ![wants[p]] = p]
  <1>1. ASSUME NEW p \in Promotes, PromoteStep(p)
        PROVE  UNCHANGED branch \/ MakeBranch(p)
    BY <1>1 DEF PromoteStep, CheckEvidence, ReadStatus, RereadStatus, InspectContainer,
         OpenReconciledStatus, WriteReconciledStatus, RemoveContainer, RemoveWorktree,
         CheckPatch, CheckStat, CheckBranch, MakeTempDir, AddWorktree, ApplyPatch,
         StageChanges, MakeCommit, UnlinkWorktree, RemoveTempDir, PromoteCrashes, gitVars
  <1>2. ASSUME NEW p \in Promotes, MakeBranch(p)
        PROVE  \/ UNCHANGED branch
               \/ /\ branch[wants[p]] = NoPromote
                  /\ branch' = [branch EXCEPT ![wants[p]] = p]
    BY <1>2 DEF MakeBranch, NameRefused, NameTaken
  <1> QED
    BY <1>1, <1>2, SupervisorFrame DEF Next, vars, gitVars

-----------------------------------------------------------------------------
(* The commands.                                                           *)

\* A command starts with nothing found out and nothing made.
LEMMA PromoteInit == Init => PromoteInv
  <1> SUFFICES ASSUME Init PROVE PromoteInv
    OBVIOUS
  <1>1. \A p \in Promotes : Findings(p) /\ Holdings(p)
    BY PromotesAssumption DEF Init, Findings, Holdings, Vetted, Settled, Building, Ending
  <1>2. BranchesWanted /\ BranchIsWhole /\ ReportIsTrue
    BY PromotesAssumption DEF Init, BranchesWanted, BranchIsWhole, ReportIsTrue
  <1> QED
    BY <1>1, <1>2, ArtifactInit DEF PromoteInv

\* What a command that does not move has found out holds after a step of
\* anybody else.
LEMMA FindingsStay ==
  ASSUME PromoteInv, [Next]_vars, NEW q \in Promotes,
         ppc'[q] = ppc[q], work'[q] = work[q], commit'[q] = commit[q]
  PROVE  Findings(q)'
  <1>1. ArtifactInv /\ TypeOK /\ Findings(q)
    BY DEF PromoteInv, ArtifactInv
  <1>2. EvidenceComplete /\ IdentityHolds => EvidenceComplete' /\ IdentityHolds'
    BY <1>1, EvidenceStays
  <1>4. file["stat"] # "none" => file' = file
    BY <1>1, FilesSettle
  <1>5. ppc[q] \in {"stage", "commit", "name"} => file["stat"] # "none"
    BY <1>1 DEF Findings, Building
  <1> QED
    BY <1>1, <1>2, <1>4, <1>5 DEF Findings

\* A command finds out what it goes on with (promote.go:38-166,
\* completeness.go:28-75).
LEMMA FindingsStep ==
  ASSUME PromoteInv, NEW p \in Promotes, PromoteStep(p)
  PROVE  Findings(p)'
  <1>0. /\ ArtifactInv /\ TypeOK /\ Findings(p) /\ [Next]_vars
        /\ ppc \in [Promotes -> PromotePcs] /\ commit \in [Promotes -> Diffs]
        /\ work \in [Promotes -> Diffs]
    BY DEF PromoteInv, ArtifactInv, Next, TypeOK
  <1>1. UNCHANGED file
    BY PromoteFrame DEF artVars
  <1>2. EvidenceComplete /\ IdentityHolds => EvidenceComplete' /\ IdentityHolds'
    BY <1>0, EvidenceStays
  <1> USE DEF Goto, Refuse, Abort, Findings, Vetted, Settled, Building, gitVars
  <1>4. CASE CheckEvidence(p)
    BY <1>0, <1>1, <1>2, <1>4 DEF CheckEvidence
  <1>5. CASE ReadStatus(p) \/ RereadStatus(p) \/ InspectContainer(p)
    BY <1>0, <1>1, <1>2, <1>5 DEF ReadStatus, Unfinished, RereadStatus, InspectContainer
  <1>6. CASE OpenReconciledStatus(p) \/ WriteReconciledStatus(p)
    BY <1>0, <1>1, <1>2, <1>6 DEF OpenReconciledStatus, WriteReconciledStatus
  <1>7. CASE RemoveContainer(p) \/ RemoveWorktree(p)
    BY <1>0, <1>1, <1>2, <1>7 DEF RemoveContainer, RemoveWorktree
  <1>8. CASE CheckPatch(p) \/ CheckStat(p) \/ CheckBranch(p)
    BY <1>0, <1>1, <1>2, <1>8 DEF CheckPatch, CheckStat, HasStat, CheckBranch
  <1>9. CASE MakeTempDir(p) \/ AddWorktree(p)
    BY <1>0, <1>1, <1>2, <1>9 DEF MakeTempDir, AddWorktree
  <1>10. CASE ApplyPatch(p)
    BY <1>0, <1>1, <1>2, <1>10 DEF ApplyPatch, Effective
  <1>11. CASE StageChanges(p)
    BY <1>0, <1>1, <1>2, <1>11 DEF StageChanges
  <1>12. CASE MakeCommit(p)
    BY <1>0, <1>1, <1>2, <1>12 DEF MakeCommit, Effective
  <1>13. CASE MakeBranch(p)
    BY <1>0, <1>13 DEF MakeBranch, AfterNameFailed
  <1>14. CASE UnlinkWorktree(p) \/ RemoveTempDir(p) \/ PromoteCrashes(p)
    BY <1>0, <1>14 DEF UnlinkWorktree, RemoveTempDir, PromoteCrashes
  <1> QED
    BY <1>4, <1>5, <1>6, <1>7, <1>8, <1>9, <1>10, <1>11, <1>12, <1>13, <1>14
    DEF PromoteStep

\* What a command that does not move has made stays as it is.
LEMMA HoldingsStay ==
  ASSUME PromoteInv, [Next]_vars, NEW q \in Promotes,
         ppc'[q] = ppc[q], commit'[q] = commit[q], result'[q] = result[q],
         tmpDir'[q] = tmpDir[q], linked'[q] = linked[q], stopped[q] => stopped'[q]
  PROVE  Holdings(q)'
  <1>1. TypeOK /\ Holdings(q)
    BY DEF PromoteInv, ArtifactInv
  <1>2. failures > 0 => failures' > 0
    BY <1>1, FailuresStay
  <1>3. UNCHANGED wants
    BY SupervisorFrame, PromoteFrame DEF Next, vars, cmdVars
  <1>4. branch'[wants'[q]] = q => branch[wants[q]] = q
    <2>1. CASE UNCHANGED branch
      BY <1>3, <2>1
    <2>2. ASSUME NEW p \in Promotes, MakeBranch(p), branch' = [branch EXCEPT ![wants[p]] = p]
          PROVE  branch'[wants'[q]] = q => branch[wants[q]] = q
      <3>1. CASE p = q
        BY <1>1, <2>2, <3>1 DEF MakeBranch, Goto, Abort, AfterNameFailed, TypeOK
      <3>2. CASE p # q
        BY <1>1, <1>3, <2>2, <3>2 DEF TypeOK
      <3> QED
        BY <3>1, <3>2
    <2> QED
      BY <1>1, <2>1, <2>2, BranchesStay
  <1> QED
    BY <1>1, <1>2, <1>3, <1>4 DEF Holdings

\* A command makes its directory, its worktree, its commit and its branch in
\* this order, and gives the first two up when it ends (promote.go:105-171,
\* 183-210).
LEMMA HoldingsStep ==
  ASSUME PromoteInv, NEW p \in Promotes, PromoteStep(p)
  PROVE  Holdings(p)'
  <1>0. /\ TypeOK /\ Holdings(p) /\ [Next]_vars
        /\ ppc \in [Promotes -> PromotePcs] /\ commit \in [Promotes -> Diffs]
        /\ tmpDir \in [Promotes -> BOOLEAN] /\ linked \in [Promotes -> {"no", "yes", "half", "stuck"}]
        /\ stopped \in [Promotes -> BOOLEAN] /\ stopped[p] \in BOOLEAN
        /\ result \in [Promotes -> {"none", "ok", "error"}]
        /\ wants' = wants /\ failures \in 0..MaxFailures
    BY PromoteFrame DEF PromoteInv, ArtifactInv, Next, TypeOK
  <1>1. failures > 0 => failures' > 0
    BY <1>0, FailuresStay
  <1>2. CASE UNCHANGED branch /\ ~MakeBranch(p)
    <2> USE <1>0, <1>1, <1>2
        DEF Goto, Refuse, Abort, Holdings, Ending, Cut, gitVars, cmdVars
    <2>1. CASE CheckEvidence(p) \/ ReadStatus(p) \/ RereadStatus(p)
      BY <2>1 DEF CheckEvidence, ReadStatus, RereadStatus
    <2>2. CASE InspectContainer(p) \/ OpenReconciledStatus(p) \/ WriteReconciledStatus(p)
      BY <2>2 DEF InspectContainer, OpenReconciledStatus, WriteReconciledStatus
    <2>3. CASE RemoveContainer(p) \/ RemoveWorktree(p)
      BY <2>3 DEF RemoveContainer, RemoveWorktree
    <2>4. CASE CheckPatch(p) \/ CheckStat(p) \/ CheckBranch(p)
      BY <2>4 DEF CheckPatch, CheckStat, CheckBranch
    <2>5. CASE MakeTempDir(p)
      BY <2>5 DEF MakeTempDir
    <2>6. CASE AddWorktree(p)
      <3>1. PICK r \in Results :
                   /\ linked' = [linked EXCEPT ![p] = CASE r = "ok" -> "yes" [] r = "half" -> "half"
                                                         [] OTHER -> "no"]
                   /\ r = "ok" => ppc' = [ppc EXCEPT ![p] = "apply"] /\ UNCHANGED result
                   /\ r # "ok" => Abort(p, "rmTmp")
                   /\ Cut(p, r)
        BY <2>6 DEF AddWorktree
      <3>2. /\ linked'[p] \in {"no", "yes", "half"}
            /\ linked'[p] = "yes" => r = "ok"
            /\ linked'[p] = "half" => r = "half"
        BY <3>1
      <3>3. ppc[p] = "add" /\ UNCHANGED <<tmpDir, commit>>
        BY <2>6 DEF AddWorktree
      <3> QED
        BY <3>1, <3>2, <3>3
    <2>7. CASE ApplyPatch(p) \/ StageChanges(p)
      BY <2>7 DEF ApplyPatch, StageChanges
    <2>8. CASE MakeCommit(p)
      BY <2>8 DEF MakeCommit
    <2>9. CASE UnlinkWorktree(p)
      <3>1. PICK r \in LocalResults :
                   /\ linked' = [linked EXCEPT ![p] = IF r = "ok" THEN "no" ELSE "stuck"]
                   /\ Count(r)
        BY <2>9 DEF UnlinkWorktree
      <3>2. linked'[p] \in {"no", "stuck"} /\ (linked'[p] = "stuck" => failures' > 0)
        BY <3>1, LocalCallResults, CountTyped
      <3> QED
        BY <2>9, <3>1, <3>2 DEF UnlinkWorktree
    <2>10. CASE RemoveTempDir(p)
      BY <2>10 DEF RemoveTempDir
    <2>12. CASE PromoteCrashes(p)
      BY <2>12 DEF PromoteCrashes
    <2> QED
      BY <2>1, <2>2, <2>3, <2>4, <2>5, <2>6, <2>7, <2>8, <2>9, <2>10, <2>12
      DEF PromoteStep
  <1>3. CASE MakeBranch(p)
    <2>1. ppc[p] = "name" /\ ppc'[p] = "rmTree" /\ UNCHANGED <<commit, tmpDir, linked>>
      BY <1>0, <1>3 DEF MakeBranch, Goto, Abort, AfterNameFailed
    <2> QED
      BY <1>0, <1>1, <2>1 DEF Holdings, Ending
  <1>4. UNCHANGED branch \/ MakeBranch(p)
    BY <1>0 DEF PromoteStep, CheckEvidence, ReadStatus, RereadStatus, InspectContainer,
         OpenReconciledStatus, WriteReconciledStatus, RemoveContainer, RemoveWorktree,
         CheckPatch, CheckStat, CheckBranch, MakeTempDir, AddWorktree, ApplyPatch,
         StageChanges, MakeCommit, UnlinkWorktree, RemoveTempDir, PromoteCrashes, gitVars
  <1> QED
    BY <1>2, <1>3, <1>4

\* What a command has made a branch of does not change any more.
LEMMA CommitStays ==
  ASSUME PromoteInv, [Next]_vars, NEW q \in Promotes, ppc[q] \in Ending
  PROVE  commit'[q] = commit[q]
  <1>1. TypeOK
    BY DEF PromoteInv, ArtifactInv
  <1>2. CASE PromoteStep(q)
    BY <1>1, <1>2 DEF PromoteStep, CheckEvidence, ReadStatus, RereadStatus, InspectContainer,
         OpenReconciledStatus, WriteReconciledStatus, RemoveContainer, RemoveWorktree,
         CheckPatch, CheckStat, CheckBranch, MakeTempDir, AddWorktree, ApplyPatch,
         StageChanges, MakeCommit, MakeBranch, UnlinkWorktree, RemoveTempDir, PromoteCrashes,
         Ending, gitVars
  <1>3. CASE Supervisor \/ UNCHANGED vars
    BY <1>3, SupervisorFrame DEF vars, gitVars
  <1> QED
    BY <1>1, <1>2, <1>3, OthersAlone DEF Next

\* A branch is as whole when it is made as the artifacts are, and stays so.
LEMMA BranchesStep ==
  ASSUME PromoteInv, [Next]_vars
  PROVE  BranchesWanted' /\ BranchIsWhole'
  <1>0. /\ TypeOK /\ ArtifactInv /\ BranchesWanted /\ BranchIsWhole
        /\ wants' = wants /\ branch \in [Branches -> Promotes \cup {NoPromote}]
        /\ wants \in [Promotes -> Branches]
        /\ \A p \in Promotes : Findings(p) /\ Holdings(p)
    BY SupervisorFrame, PromoteFrame
    DEF PromoteInv, ArtifactInv, TypeOK, Next, vars, cmdVars
  <1> DEFINE Whole(p) == /\ commit[p] = file["patch"]
                         /\ file["patch"] # "none" /\ file["stat"] # "none"
                         /\ EvidenceComplete /\ IdentityHolds
  <1>1. ASSUME NEW b \in Branches, NEW q \in Promotes, branch[b] = q
        PROVE  wants'[q] = b /\ Whole(q)'
    <2>1. wants[q] = b /\ Whole(q)
      BY <1>0, <1>1, PromotesAssumption DEF BranchesWanted, BranchIsWhole
    <2>2. ppc[q] \in Ending
      BY <1>0, <1>1, <2>1 DEF Holdings
    <2>3. commit'[q] = commit[q]
      BY <2>2, CommitStays
    <2>4. UNCHANGED file /\ EvidenceComplete' /\ IdentityHolds'
      BY <1>0, <2>1, FilesSettle, EvidenceStays
    <2> QED
      BY <1>0, <2>1, <2>3, <2>4
  <1>2. CASE UNCHANGED branch
    BY <1>0, <1>1, <1>2 DEF BranchesWanted, BranchIsWhole
  <1>3. ASSUME NEW p \in Promotes, MakeBranch(p), branch' = [branch EXCEPT ![wants[p]] = p]
        PROVE  BranchesWanted' /\ BranchIsWhole'
    <2>1. Whole(p)
      BY <1>0, <1>3 DEF MakeBranch, Findings, Vetted, Settled, Building, ArtifactInv,
           StatImpliesPatch
    <2>2. Whole(p)'
      <3>1. UNCHANGED <<commit, file>>
        BY <1>3 DEF MakeBranch, runVars, factVars, statusVars, artVars
      <3>2. EvidenceComplete' /\ IdentityHolds'
        BY <1>0, <2>1, EvidenceStays
      <3> QED
        BY <2>1, <3>1, <3>2
    <2> QED
      BY <1>0, <1>1, <1>3, <2>2 DEF BranchesWanted, BranchIsWhole
  <1> QED
    BY <1>0, <1>2, <1>3, BranchesStay

\* A command reports success where it has made its branch, and an error
\* where it has not, unless a signal has stopped git branch after its work
\* was done (promote.go:164-171).
LEMMA ReportStep ==
  ASSUME PromoteInv, [Next]_vars
  PROVE  ReportIsTrue'
  <1>0. /\ TypeOK /\ ReportIsTrue /\ wants' = wants
        /\ branch \in [Branches -> Promotes \cup {NoPromote}]
        /\ wants \in [Promotes -> Branches] /\ stopped \in [Promotes -> BOOLEAN]
        /\ result \in [Promotes -> {"none", "ok", "error"}]
        /\ \A p \in Promotes : Holdings(p)
    BY SupervisorFrame, PromoteFrame
    DEF PromoteInv, ArtifactInv, TypeOK, Next, vars, cmdVars
  <1> DEFINE True(q) == /\ result[q] = "ok" => branch[wants[q]] = q
                        /\ (result[q] = "error" /\ branch[wants[q]] = q) => stopped[q]
  <1>1. ASSUME NEW q \in Promotes, ~PromoteStep(q) PROVE True(q)'
    <2>1. result'[q] = result[q] /\ stopped'[q] = stopped[q]
      BY <1>0, <1>1, SupervisorFrame, OthersAlone DEF Next, vars, cmdVars
    <2>2. branch'[wants[q]] = q <=> branch[wants[q]] = q
      <3>1. ASSUME NEW p \in Promotes, MakeBranch(p), branch[wants[p]] = NoPromote,
                   branch' = [branch EXCEPT ![wants[p]] = p]
            PROVE  branch'[wants[q]] = q <=> branch[wants[q]] = q
        BY <1>0, <1>1, <3>1, PromotesAssumption DEF PromoteStep
      <3> QED
        BY <1>0, <3>1, BranchesStay
    <2> QED
      BY <1>0, <2>1, <2>2 DEF ReportIsTrue
  <1>2. ASSUME NEW q \in Promotes, PromoteStep(q) PROVE True(q)'
    <2>1. CASE MakeBranch(q)
      <3>1. PICK r \in Results :
                   /\ branch' = IF Effective(r) /\ ~NameTaken(q)
                                THEN [branch EXCEPT ![wants[q]] = q] ELSE branch
                   /\ IF r = "ok" /\ ~NameTaken(q)
                      THEN result' = [result EXCEPT ![q] = "ok"]
                      ELSE result' = [result EXCEPT ![q] = "error"]
                   /\ stopped' = [stopped EXCEPT ![q] = @ \/ r \in {"cut", "half"}]
        BY <2>1 DEF MakeBranch, NameRefused, Abort, Cut
      <3>2. r \in {"ok", "undone", "cut", "half"} /\ (Effective(r) => r \in {"ok", "half"})
        BY <3>1, CallResults DEF Effective
      <3>3. branch[wants[q]] # q
        BY <1>0, <2>1 DEF Holdings, Ending, MakeBranch
      <3>4. result'[q] = "ok" => branch'[wants[q]] = q
        BY <1>0, <3>1 DEF Effective
      <3>5. result'[q] = "error" /\ branch'[wants[q]] = q => r = "half"
        BY <1>0, <3>1, <3>2, <3>3
      <3>6. r = "half" => stopped'[q]
        BY <1>0, <3>1
      <3> QED
        BY <1>0, <3>4, <3>5, <3>6
    <2>2. CASE ~MakeBranch(q)
      <3>1. UNCHANGED branch
        BY <1>2, <2>2 DEF PromoteStep, CheckEvidence, ReadStatus, RereadStatus,
             InspectContainer, OpenReconciledStatus, WriteReconciledStatus, RemoveContainer,
             RemoveWorktree, CheckPatch, CheckStat, CheckBranch, MakeTempDir, AddWorktree,
             ApplyPatch, StageChanges, MakeCommit, UnlinkWorktree, RemoveTempDir,
             PromoteCrashes, gitVars
      <3>2. \/ result'[q] = result[q]
            \/ result'[q] = "error" /\ ppc[q] \notin Ending
            \/ result'[q] = "none"
        <4> USE DEF Refuse, Abort, Ending, cmdVars
        <4>1. CASE \/ CheckEvidence(q) \/ ReadStatus(q) \/ RereadStatus(q) \/ InspectContainer(q)
                   \/ OpenReconciledStatus(q) \/ WriteReconciledStatus(q)
                   \/ RemoveContainer(q) \/ RemoveWorktree(q)
          BY <1>0, <4>1 DEF CheckEvidence, ReadStatus, RereadStatus, InspectContainer,
               OpenReconciledStatus, WriteReconciledStatus, RemoveContainer, RemoveWorktree
        <4>2. CASE \/ CheckPatch(q) \/ CheckStat(q) \/ CheckBranch(q) \/ MakeTempDir(q)
                   \/ AddWorktree(q) \/ ApplyPatch(q) \/ StageChanges(q) \/ MakeCommit(q)
          BY <1>0, <4>2 DEF CheckPatch, CheckStat, CheckBranch, MakeTempDir, AddWorktree,
               ApplyPatch, StageChanges, MakeCommit
        <4>3. CASE UnlinkWorktree(q) \/ RemoveTempDir(q) \/ PromoteCrashes(q)
          BY <1>0, <4>3 DEF UnlinkWorktree, RemoveTempDir, PromoteCrashes
        <4> QED
          BY <1>2, <2>2, <4>1, <4>2, <4>3 DEF PromoteStep
      <3>3. stopped[q] => stopped'[q] \/ result'[q] = "none"
        <4> USE DEF Cut, cmdVars
        <4>1. CASE \/ CheckEvidence(q) \/ ReadStatus(q) \/ RereadStatus(q) \/ InspectContainer(q)
                   \/ OpenReconciledStatus(q) \/ WriteReconciledStatus(q)
                   \/ RemoveContainer(q) \/ RemoveWorktree(q)
          BY <1>0, <4>1 DEF CheckEvidence, ReadStatus, RereadStatus, InspectContainer,
               OpenReconciledStatus, WriteReconciledStatus, RemoveContainer, RemoveWorktree
        <4>2. CASE \/ CheckPatch(q) \/ CheckStat(q) \/ CheckBranch(q) \/ MakeTempDir(q)
                   \/ AddWorktree(q) \/ ApplyPatch(q) \/ StageChanges(q) \/ MakeCommit(q)
          BY <1>0, <4>2 DEF CheckPatch, CheckStat, CheckBranch, MakeTempDir, AddWorktree,
               ApplyPatch, StageChanges, MakeCommit
        <4>3. CASE UnlinkWorktree(q) \/ RemoveTempDir(q) \/ PromoteCrashes(q)
          BY <1>0, <4>3 DEF UnlinkWorktree, RemoveTempDir, PromoteCrashes
        <4> QED
          BY <1>2, <2>2, <4>1, <4>2, <4>3 DEF PromoteStep
      <3>4. ppc[q] \notin Ending => branch[wants[q]] # q
        BY <1>0 DEF Holdings
      <3> QED
        BY <1>0, <3>1, <3>2, <3>3, <3>4 DEF ReportIsTrue
    <2> QED
      BY <2>1, <2>2
  <1> QED
    BY <1>1, <1>2 DEF ReportIsTrue

\* Every step keeps the invariant of the commands.
LEMMA PromoteAlways == Spec => []PromoteInv
  <1>1. PromoteInv /\ [Next]_vars => PromoteInv'
    <2> SUFFICES ASSUME PromoteInv, [Next]_vars PROVE PromoteInv'
      OBVIOUS
    <2>1. ArtifactInv' /\ TypeOK
      BY ArtifactStep DEF PromoteInv, ArtifactInv
    <2>2. ASSUME NEW q \in Promotes PROVE Findings(q)' /\ Holdings(q)'
      <3>1. CASE PromoteStep(q)
        BY <3>1, FindingsStep, HoldingsStep
      <3>2. CASE ~PromoteStep(q)
        <4>1. /\ ppc'[q] = ppc[q] /\ work'[q] = work[q] /\ commit'[q] = commit[q]
              /\ result'[q] = result[q] /\ tmpDir'[q] = tmpDir[q] /\ linked'[q] = linked[q]
              /\ stopped'[q] = stopped[q]
          BY <2>1, <3>2, SupervisorFrame, OthersAlone DEF Next, vars, gitVars, cmdVars
        <4> QED
          BY <4>1, FindingsStay, HoldingsStay
      <3> QED
        BY <3>1, <3>2
    <2> QED
      BY <2>1, <2>2, BranchesStep, ReportStep DEF PromoteInv
  <1> QED
    BY <1>1, PromoteInit, PTL DEF Spec

-----------------------------------------------------------------------------
(* The properties.                                                         *)

\* A branch holds the patch that diff.patch holds still, out of complete
\* evidence, also while the supervisor or another command
\* is at work, and when any of them dies (promote.go:87-109).
THEOREM BranchesAreWhole == Spec => []BranchIsWhole
  <1>1. PromoteInv => BranchIsWhole
    BY DEF PromoteInv
  <1> QED
    BY <1>1, PromoteAlways, PTL

\* What promote reports is true: two commands that report success have two
\* branches (promote.go:164-171).
THEOREM ReportsAreTrue == Spec => []ReportIsTrue
  <1>1. PromoteInv => ReportIsTrue
    BY DEF PromoteInv
  <1> QED
    BY <1>1, PromoteAlways, PTL

\* A promote that comes to its end leaves no directory behind, and no
\* worktree but one that git was killed on while adding it or has failed to
\* remove: not after a failed or cancelled apply, add or commit
\* (promote.go:111-163, 183-210).
THEOREM PromoteCleansUp == Spec => []NothingLeftBehind
  <1>1. PromoteInv => NothingLeftBehind
    BY DEF PromoteInv, ArtifactInv, TypeOK, Holdings, NothingLeftBehind
  <1> QED
    BY <1>1, PromoteAlways, PTL

-----------------------------------------------------------------------------
(* The refinement of Publication.                                          *)

\* What Publication sees of the evidence and of the branches.
Evidence ==
  IF file["stat"] # "none" /\ EvidenceComplete /\ IdentityHolds THEN file["patch"] ELSE "none"
Content == [b \in Branches |-> IF branch[b] = NoPromote THEN "none" ELSE commit[branch[b]]]

\* Evidence comes to be once.
LEMMA EvidenceComesOnce ==
  ASSUME ArtifactInv, [Next]_vars
  PROVE  UNCHANGED Evidence \/ (Evidence = "none" /\ Evidence' \in Diffs \ {"none"})
  <1>1. CASE file["stat"] # "none" /\ EvidenceComplete /\ IdentityHolds
    BY <1>1, FilesSettle, EvidenceStays DEF Evidence
  <1>2. CASE ~(file["stat"] # "none" /\ EvidenceComplete /\ IdentityHolds)
    <2>1. ArtifactInv'
      BY ArtifactStep
    <2>2. Evidence' \in Diffs
      BY <2>1 DEF ArtifactInv, TypeOK, Evidence, Diffs, Artifacts
    <2> QED
      BY <1>2, <2>2 DEF Evidence
  <1> QED
    BY <1>1, <1>2

\* A branch keeps what it holds; the one that is made holds the evidence.
LEMMA ContentStep ==
  ASSUME PromoteInv, [Next]_vars
  PROVE  \/ UNCHANGED Content
         \/ /\ UNCHANGED Evidence /\ Evidence # "none"
            /\ \E b \in Branches :
                 Content[b] = "none" /\ Content' = [Content EXCEPT ![b] = Evidence]
  <1>0. /\ TypeOK /\ ArtifactInv /\ BranchesWanted
        /\ branch \in [Branches -> Promotes \cup {NoPromote}] /\ wants \in [Promotes -> Branches]
        /\ \A p \in Promotes : Findings(p) /\ Holdings(p)
    BY DEF PromoteInv, ArtifactInv, TypeOK
  <1>1. ASSUME NEW b \in Branches, branch[b] # NoPromote
        PROVE  commit'[branch[b]] = commit[branch[b]]
    <2>1. branch[b] \in Promotes /\ wants[branch[b]] = b
      BY <1>0, <1>1 DEF BranchesWanted
    <2>2. ppc[branch[b]] \in Ending
      BY <1>0, <2>1 DEF Holdings
    <2> QED
      BY <2>1, <2>2, CommitStays
  <1>2. CASE UNCHANGED branch
    BY <1>1, <1>2 DEF Content
  <1>3. ASSUME NEW p \in Promotes, MakeBranch(p), branch[wants[p]] = NoPromote,
               branch' = [branch EXCEPT ![wants[p]] = p]
        PROVE  /\ UNCHANGED Evidence /\ Evidence # "none"
               /\ Content[wants[p]] = "none"
               /\ Content' = [Content EXCEPT ![wants[p]] = Evidence]
    <2>1. /\ commit[p] = file["patch"] /\ file["stat"] # "none" /\ file["patch"] # "none"
          /\ EvidenceComplete /\ IdentityHolds
      BY <1>0, <1>3 DEF MakeBranch, Findings, Vetted, Settled, Building, ArtifactInv,
           StatImpliesPatch
    <2>2. UNCHANGED <<commit, file, events, proxied, records>>
      BY <1>3 DEF MakeBranch, runVars, factVars, statusVars, artVars
    <2>3. UNCHANGED Evidence
      BY <2>2 DEF Evidence, EvidenceComplete, IdentityHolds
    <2>4. Evidence = commit[p] /\ Evidence # "none"
      BY <2>1 DEF Evidence
    <2>5. wants[p] \in Branches /\ p # NoPromote
      BY <1>0, PromotesAssumption
    <2>6. Content[wants[p]] = "none"
      BY <1>3, <2>5 DEF Content
    <2>7. ASSUME NEW b \in Branches
          PROVE  Content'[b] = IF b = wants[p] THEN Evidence ELSE Content[b]
      BY <1>0, <1>3, <2>2, <2>4, <2>5 DEF Content
    <2>8. Content' = [Content EXCEPT ![wants[p]] = Evidence]
      BY <2>5, <2>7 DEF Content
    <2> QED
      BY <2>1, <2>2, <2>3, <2>4, <2>6, <2>8
  <1> QED
    BY <1>0, <1>2, <1>3, BranchesStay

\* Each step is one of Publication's, or none.
LEMMA PublicationStep ==
  ASSUME PromoteInv, [Next]_vars
  PROVE  [Published!Next]_(Published!vars)
  <1>0. ArtifactInv /\ TypeOK
    BY DEF PromoteInv, ArtifactInv
  <1>1. CASE ~UNCHANGED Content
    <2>1. PICK b \in Branches :
            /\ UNCHANGED Evidence /\ Evidence # "none"
            /\ Content[b] = "none" /\ Content' = [Content EXCEPT ![b] = Evidence]
      BY <1>1, ContentStep
    <2>2. Published!Publish(b)
      BY <2>1 DEF Published!Publish, Evidence, Content
    <2> QED
      BY <2>2 DEF Published!Next
  <1>2. CASE UNCHANGED Content /\ ~UNCHANGED Evidence
    <2>1. Evidence = "none" /\ Evidence' \in Diffs \ {"none"}
      BY <1>0, <1>2, EvidenceComesOnce
    <2>2. Published!Settle
      BY <1>2, <2>1 DEF Published!Settle, Evidence, Content
    <2> QED
      BY <2>2 DEF Published!Next
  <1>3. CASE UNCHANGED <<Content, Evidence>>
    BY <1>3 DEF Published!vars, Evidence, Content
  <1> QED
    BY <1>1, <1>2, <1>3

\* The supervisor and any number of promotes implement Publication: evidence
\* is completed at one step and then final, and each branch is made at one
\* step, of it, and stays, whatever interleaves, fails or dies, and whatever
\* the writers of status.json make of each other's work (diff.go:13-16,
\* promote.go:87-171).  It says nothing of that file.
THEOREM PromoteImplementsPublication == Spec => ImplementsPublication
  <1>1. Init => Published!Init
    BY DEF Init, Published!Init, Artifacts
  <1>2. PromoteInv /\ [Next]_vars => [Published!Next]_(Published!vars)
    BY PublicationStep
  <1> QED
    BY <1>1, <1>2, PromoteAlways, PTL DEF Spec, ImplementsPublication, Published!Spec
=============================================================================
