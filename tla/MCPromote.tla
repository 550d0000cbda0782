----------------------------- MODULE MCPromote -----------------------------
(***************************************************************************)
(* Instances of Promote for TLC.  Two commands and two names: the commands *)
(* may want the same branch or different ones.                             *)
(***************************************************************************)
EXTENDS Promote, TLC

MCAllFaults == {"signal", "crash"}
MCNoFaults == {}

\* Commands are treated alike, and so are names.
MCSymmetry == Permutations(Promotes) \cup Permutations(Branches)
=============================================================================
