---------------------------- MODULE MCRunStreams ----------------------------
(***************************************************************************)
(* Instances of RunStreams for TLC.  The clock advances in interactive     *)
(* runs that are not attached to; there no call fails of itself.           *)
(***************************************************************************)
EXTENDS RunStreams

MCModes == [interactive : BOOLEAN, attach : BOOLEAN]
MCWrites ==
  [m \in MCModes |-> CASE ~m.attach /\ ~m.interactive -> 3 [] m.attach /\ m.interactive -> 1
                      [] OTHER -> 2]
MCTimed == {[interactive |-> TRUE, attach |-> FALSE]}
MCFaults == {"signal", "failure", "hang"}
=============================================================================
