----------------------------- MODULE MCRunFiles -----------------------------
(***************************************************************************)
(* Instances of RunFiles for TLC.  Two runs make the index shared; two     *)
(* reconcilers make a run's second reconciliation, or two of different     *)
(* runs, interleave with a supervisor.                                     *)
(***************************************************************************)
EXTENDS RunFiles

MCAllFaults == {"crash", "full"}
MCNoFaults == {}

\* Runs and reconcilers are treated alike, each among themselves.
MCSymmetry == Permutations(Runs) \cup Permutations(Reconcilers)
=============================================================================
