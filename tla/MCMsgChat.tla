----------------------------- MODULE MCMsgChat -----------------------------
(* Instances of MsgChat for TLC. *)
EXTENDS MsgChat, TLC

\* Runs of the client and keys are interchangeable.
Symmetry == Permutations(Procs) \cup Permutations(Keys)
=============================================================================
