----------------------------- MODULE Publication -----------------------------
(***************************************************************************)
(* What becomes of the work of one run, to whoever looks at the repository *)
(* from outside: the complete evidence of what the agent did is there or   *)
(* not, and once it is there it does not change; a branch is made of it,   *)
(* under a name that is free, and stays what it is.  Of the state that the *)
(* run is recorded in there is no promise here: those who record it may be *)
(* in each other's way.                                                    *)
(***************************************************************************)
CONSTANTS
  Branches,  \* the names of branches
  Diffs      \* what evidence and branches may say, besides "none"

VARIABLES
  evidence,  \* the complete evidence, or "none"
  content    \* what each branch holds, "none" for one that is not there

vars == <<evidence, content>>

Init ==
  /\ evidence = "none"
  /\ content = [b \in Branches |-> "none"]

Settle ==
  /\ evidence = "none"
  /\ evidence' \in Diffs
  /\ UNCHANGED content

Publish(b) ==
  /\ evidence # "none"
  /\ content[b] = "none"
  /\ content' = [content EXCEPT ![b] = evidence]
  /\ UNCHANGED evidence

Next == Settle \/ \E b \in Branches : Publish(b)

Spec == Init /\ [][Next]_vars

=============================================================================
