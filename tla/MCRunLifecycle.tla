--------------------------- MODULE MCRunLifecycle ---------------------------
(***************************************************************************)
(* Instances of RunLifecycle for TLC.  The agent ends well, badly, or with *)
(* a status that stands for a signal; each branch of InferredState is one  *)
(* of MCExitCodes, which the liveness runs narrow further.                 *)
(***************************************************************************)
EXTENDS RunLifecycle

MCExitCodes == {0, 1, 130, 143}
MCSomeExitCodes == {0, 1, 143}
MCFewExitCodes == {0, 143}

MCAllHookOutput == {"plain", "fills", "mentions"}
MCPlainOutput == {"plain"}

MCAllFaults == {"signal", "crash", "disk", "docker", "prune", "git", "tmux", "client"}
MCNoGitFaults == {"signal", "crash", "disk", "docker", "prune", "client"}
MCLiveFaults == {"signal", "crash", "disk", "docker", "git"}
MCNoFaults == {}
MCOnlySignal == {"signal"}
=============================================================================
