---------------------------- MODULE MCNumbering ----------------------------
(* Numbering under the assumption its theorems are proved from.            *)
EXTENDS NumberingProofs, TLC

CONSTANTS q1, q2, r1, r2, r3, r4, pp, po

Symmetric == Permutations(Requests) \cup Permutations(Records) \cup Permutations(Prefixes)
=============================================================================
