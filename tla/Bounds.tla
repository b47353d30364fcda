------------------------------- MODULE Bounds -------------------------------
(***************************************************************************)
(* An aggregate bound (`ensure:`, domain.AggregateBound) over the records  *)
(* of one Machine: the total of a number Field, per group, stays at or     *)
(* above AtLeast and at or below AtMost.                                   *)
(***************************************************************************)
EXTENDS Integers, Functions

CONSTANTS
    Records,     \* record ids
    NoRecord,    \* a record that does not exist
    Groups,      \* the values of the bound's `per` Field
    NoGroup,     \* a record that names no group
    Amounts,     \* the values of the bound's `sum_of` Field
    AtLeast,     \* the bound's two ends
    AtMost,
    Operations   \* the writes the Machine accepts: an append-only one only creates

ASSUME BoundsAssumption ==
    /\ NoRecord \notin [group : Groups \cup {NoGroup}, amount : Amounts]
    /\ NoGroup \notin Groups
    /\ AtLeast \in Int /\ AtMost \in Int
    /\ Operations \subseteq {"create", "update", "delete"}

Line == [group : Groups \cup {NoGroup}, amount : Amounts]

\* The group a record names: none for a record that is not there.
GroupOf(v) == IF v = NoRecord THEN {} ELSE {v.group} \ {NoGroup}

\* The records that name group g, and their amounts.
Members(db, g) == {r \in Records : GroupOf(db[r]) = {g}}
Entries(db, g) == [r \in Members(db, g) |-> db[r].amount]

InBounds(f) == AtLeast <= SumFunction(f) /\ SumFunction(f) <= AtMost

\* The record being written stands in for its stored self, and only the group
\* it would belong to is totalled.
CheckBounds(db, r, next) ==
    \A g \in GroupOf(next) : InBounds(Entries([db EXCEPT ![r] = next], g))
=============================================================================
