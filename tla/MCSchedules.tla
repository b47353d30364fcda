----------------------------- MODULE MCSchedules -----------------------------
(* Schedules under the assumption its theorems are proved from.            *)
EXTENDS Schedules

ASSUME RulesAssumption == Orderly

\* metadata/contract_term.yaml declares the three services in this order.
InOrder == <<"log", "set", "tell">>
==============================================================================
