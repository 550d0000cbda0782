------------------------------ MODULE RunRecord ------------------------------
(***************************************************************************)
(* What one run promises to whoever looks at it from outside: it starts    *)
(* once, ends once, in one of five states; its worktree is given up only   *)
(* after it ended badly, or when the command that ran it has failed; it is *)
(* promoted only after its end, in the state it ended in, and never when   *)
(* its container could not be removed.                                     *)
(***************************************************************************)
VARIABLES
  state,    \* the recorded state of the run
  blocked,  \* a cleanup error is recorded beside it
  tree,     \* the worktree is "kept" or "removed"
  failed,   \* the command that ran it failed, apart from how the run ended
  promoted  \* the state the run was promoted in, or "none"

vars == <<state, blocked, tree, failed, promoted>>

Final == {"success", "failed", "timeout", "killed", "interrupted"}

Init ==
  /\ state = "none"
  /\ blocked = FALSE
  /\ tree = "kept"
  /\ failed = FALSE
  /\ promoted = "none"

Begin ==
  /\ state = "none"
  /\ state' = "running"
  /\ UNCHANGED <<blocked, tree, failed, promoted>>

Finish ==
  /\ state = "running"
  /\ state' \in Final
  /\ blocked' \in {FALSE, state' # "success"}
  /\ UNCHANGED <<tree, failed, promoted>>

\* Its files could not be written, or its user could not be attached to it.
Fail ==
  /\ failed' = TRUE
  /\ UNCHANGED <<state, blocked, tree, promoted>>

Discard ==
  /\ state \in Final \ {"success"} \/ failed
  /\ tree' = "removed"
  /\ UNCHANGED <<state, blocked, failed, promoted>>

Promote ==
  /\ state \in Final
  /\ ~blocked
  /\ promoted' = state
  /\ UNCHANGED <<state, blocked, tree, failed>>

Next == Begin \/ Finish \/ Fail \/ Discard \/ Promote

Spec == Init /\ [][Next]_vars

=============================================================================
