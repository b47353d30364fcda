----------------------------- MODULE MCPosting -----------------------------
(* Posting, with the sets its configurations choose among.                 *)
EXTENDS Posting, TLC

CONSTANTS q1, q2, l1, l2, l3

Symmetric == Permutations(Requests) \cup Permutations(Lines)

\* A debit of one and a credit of one.
DebitAndCredit == {-1, 1}
PostAndMoves == {"post", "create", "move"}
Everything == {"post", "create", "update", "move", "delete"}
=============================================================================
