----------------------------- MODULE MCApproval -----------------------------
(* Approval, with the sets its configurations choose among.                *)
EXTENDS Approval, TLC

CONSTANTS q1, q2

Symmetric == Permutations(Requests)

\* Besides, no step comes or goes but by a submission or a revision.
Unhurried == Undisturbed /\ \A t \in Requests : req[t].pc \notin {"withdraw", "add"}
=============================================================================
