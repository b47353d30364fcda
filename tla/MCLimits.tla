------------------------------ MODULE MCLimits ------------------------------
(* Limits under the assumption its theorems are proved from: TLC evaluates *)
(* ShrinkAssumption on the amounts and the bound of the run.               *)
EXTENDS LimitsProofs, TLC

CONSTANTS q1, q2, r1, r2

\* A fund: the amount is positive, the bound a ceiling that two records break.
FundAmounts == {2}
AllOperations == {"create", "update", "delete"}
=============================================================================
