---------------------------- MODULE MCPublishing ----------------------------
(* Publishing, with the sets its configurations choose among.              *)
EXTENDS Publishing, TLC

CONSTANTS q1, q2, u1, u2, a1

Symmetric == Permutations(Requests) \cup Permutations(Users)

\* A Field's Machine names what the Application's own file does not declare.
Mismatched == {<<1, 0>>}
=============================================================================
