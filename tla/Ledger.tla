------------------------------- MODULE Ledger -------------------------------
(***************************************************************************)
(* What a guarded Machine promises of its records, with no transactions,   *)
(* locks or failures: records change one at a time, and a record is        *)
(* created or changed only when that is allowed of the records as they are *)
(* at that moment.  A delete is not judged.                                *)
(***************************************************************************)
CONSTANTS
    Records,          \* record ids
    NoRecord,         \* a record that does not exist
    Line,             \* what a record may hold
    Operations,       \* the writes the Machine accepts
    Allowed(_, _, _)  \* Allowed(records, r, next): r may become next

VARIABLES
    records,
    gone        \* records that were deleted

Init ==
    /\ records = [r \in Records |-> NoRecord]
    /\ gone = {}

Put(r, next) ==
    /\ r \notin gone
    /\ (IF records[r] = NoRecord THEN "create" ELSE "update") \in Operations
    /\ Allowed(records, r, next)
    /\ records' = [records EXCEPT ![r] = next]
    /\ UNCHANGED gone

Remove(r) ==
    /\ "delete" \in Operations
    /\ records' = [records EXCEPT ![r] = NoRecord]
    /\ gone' = gone \cup {r}

Next == \E r \in Records : Remove(r) \/ \E next \in Line : Put(r, next)

Spec == Init /\ [][Next]_<<records, gone>>
=============================================================================
