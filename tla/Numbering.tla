----------------------------- MODULE Numbering -----------------------------
(***************************************************************************)
(* A Field the runtime numbers (`numbering:`): internal/execution/         *)
(* numbering.go, the counter of internal/data/store.go, and the create,    *)
(* edit and delete of such a record in internal/web/record.go.             *)
(*                                                                         *)
(* A create takes the Field's lock, reads the highest number on a record   *)
(* under its prefix, moves the prefix's counter past both that and its     *)
(* own last value, inserts the record and commits, all in one transaction. *)
(* A delete frees no number.  An edit is supposed to leave a number alone; *)
(* whether the single-field route does depends on the Machine.             *)
(***************************************************************************)
EXTENDS Integers

CONSTANTS
    Requests,     \* concurrent requests
    Records,      \* record ids
    Prefixes,     \* the texts before the counter: one counter each
    MaxNumber,    \* bound: the largest number handed out
    LocksAField,  \* the Machine also has a set_once, locked_when or editable_by Field
    NoRow, Unwritten, Nobody

VARIABLES
    stored, own, rowLocks, advisory,  \* the database
    req,      \* each request: where it is, and what it writes
    born,     \* records that have been committed
    issued    \* every number a committed create was given, with its record

\* number_counters is a table beside the records: a row per prefix, holding the last
\* number handed out under it.
Rows == Records \cup Prefixes

INSTANCE Database WITH Txns <- Requests, Locks <- {"numbering"}, Absent <- NoRow

dbState == <<stored, own, rowLocks, advisory>>
vars == <<dbState, req, born, issued>>

Numbers == [prefix : Prefixes, n : 1 .. MaxNumber]
Cells == Numbers \cup {NoRow}

ASSUME NumberingAssumption ==
    /\ MaxNumber \in Nat
    /\ Records \cap Prefixes = {}
    /\ NoRow \notin Numbers
    /\ Unwritten \notin Cells
    /\ Nobody \notin Requests
    /\ LocksAField \in BOOLEAN

-----------------------------------------------------------------------------
Idle == [pc |-> "idle"]

Creating == [pc : {"begun", "locked"}, row : Records, prefix : Prefixes]
Counting == [pc : {"counted"}, row : Records, prefix : Prefixes, n : 0 .. MaxNumber]
Inserting == [pc : {"numbered", "inserted"}, row : Records, prefix : Prefixes, n : 1 .. MaxNumber]
Editing == [pc : {"editing"}, row : Records, prefix : Prefixes, n : 1 .. MaxNumber]

TypeOK ==
    /\ stored \in [Rows -> Cells]
    /\ \A p \in Prefixes : stored[p] # NoRow => stored[p].prefix = p
    /\ own \in [Requests -> [Rows -> Cells \cup {Unwritten}]]
    /\ rowLocks \in [Requests -> SUBSET Rows]
    /\ advisory \in [{"numbering"} -> Requests \cup {Nobody}]
    /\ req \in [Requests -> Creating \cup Counting \cup Inserting \cup Editing \cup {Idle}]
    /\ born \in SUBSET Records
    /\ issued \in SUBSET [row : Records, prefix : Prefixes, n : 1 .. MaxNumber]

Active(t, pc) == req[t].pc = pc
NumberOf(x) == [prefix |-> x.prefix, n |-> x.n]
Exists(r) == stored[r] # NoRow

\* Records that were there before their Field was numbered bring numbers typed by hand,
\* none twice, and no counter knows of them.
Imports ==
    {f \in [Records -> Numbers \cup {NoRow}] :
        \A r, s \in Records : r # s /\ f[r] # NoRow => f[r] # f[s]}

Init ==
    \E f \in Imports :
        /\ OpenDatabase([r \in Rows |-> IF r \in Records THEN f[r] ELSE NoRow])
        /\ req = [t \in Requests |-> Idle]
        /\ born = {r \in Records : f[r] # NoRow}
        /\ issued = {}

-----------------------------------------------------------------------------
(* Creating.                                                               *)

\* Every record id is new.
FreshIds == Records \ (born \cup {req[t].row : t \in {u \in Requests : ~Active(u, "idle")}})

BeginCreate(t) ==
    /\ Active(t, "idle")
    /\ \E r \in FreshIds, p \in Prefixes :
          req' = [req EXCEPT ![t] = [pc |-> "begun", row |-> r, prefix |-> p]]
    /\ UNCHANGED <<dbState, born, issued>>

TakeLock(t) ==
    /\ Active(t, "begun")
    /\ AdvisoryLock(t, "numbering")
    /\ req' = [req EXCEPT ![t].pc = "locked"]
    /\ UNCHANGED <<born, issued>>

\* The largest number a record has under the prefix, as t reads them, and 0 when none has.
IsHighest(t, p, h) ==
    LET under == {r \in Records : Read(t, r) # NoRow /\ Read(t, r).prefix = p}
    IN  /\ \A r \in under : Read(t, r).n <= h
        /\ h # 0 => \E r \in under : Read(t, r).n = h

HighestNumber(t) ==
    /\ Active(t, "locked")
    /\ \E h \in 0 .. MaxNumber :
          /\ IsHighest(t, req[t].prefix, h)
          /\ req' = [req EXCEPT ![t] = [pc |-> "counted", row |-> req[t].row,
                                        prefix |-> req[t].prefix, n |-> h]]
    /\ UNCHANGED <<dbState, born, issued>>

FollowingHighest(last, highest) == highest + 1  \* mutant: the counter's own last is ignored

\* GREATEST(last + 1, highest + 1); a prefix with no counter yet starts one.
Following(last, highest) ==
    IF last # NoRow /\ last.n > highest THEN last.n + 1 ELSE highest + 1

\* NextNumber's upsert of the counter.
NextNumber(t) ==
    LET next == Following(Read(t, req[t].prefix), req[t].n)
    IN  /\ Active(t, "counted")
        /\ next <= MaxNumber
        /\ WriteRow(t, req[t].prefix, [prefix |-> req[t].prefix, n |-> next])
        /\ req' = [req EXCEPT ![t].pc = "numbered", ![t].n = next]
        /\ UNCHANGED <<born, issued>>

Insert(t) ==
    /\ Active(t, "numbered")
    /\ WriteRow(t, req[t].row, NumberOf(req[t]))
    /\ req' = [req EXCEPT ![t].pc = "inserted"]
    /\ UNCHANGED <<born, issued>>

Finish(t) ==
    /\ Active(t, "inserted")
    /\ Commit(t)
    /\ req' = [req EXCEPT ![t] = Idle]
    /\ born' = born \cup {req[t].row}
    /\ issued' = issued \cup {[row |-> req[t].row, prefix |-> req[t].prefix, n |-> req[t].n]}

FailKeepingCounter(t) ==  \* mutant: the counter moves on though the create is rolled back
    /\ ~Active(t, "idle")
    /\ stored' = [r \in Rows |-> IF r \in Prefixes THEN Read(t, r) ELSE stored[r]]
    /\ EndTx(t)
    /\ req' = [req EXCEPT ![t] = Idle]
    /\ UNCHANGED <<born, issued>>

\* A refusal (the record is not valid) or a failed statement rolls the number back too.
Fail(t) ==
    /\ ~Active(t, "idle")
    /\ Rollback(t)
    /\ req' = [req EXCEPT ![t] = Idle]
    /\ UNCHANGED <<born, issued>>

-----------------------------------------------------------------------------
(* Editing and deleting, neither of which takes the lock.                  *)

KeepsNothing(r, x) == TRUE  \* mutant: no Field is ever judged locked

\* keepsLockedFields looks at a record's numbered Field only when another Field of the
\* Machine can be locked; otherwise what the request sends for it is what is written.
KeepsNumber(r, x) == LocksAField => x = stored[r]

\* The edit form carries the stored number forward; a single-field edit may send one.
BeginEdit(t) ==
    /\ Active(t, "idle")
    /\ \E r \in Records, x \in Numbers :
          /\ Exists(r)
          /\ KeepsNumber(r, x)
          /\ req' = [req EXCEPT ![t] = [pc |-> "editing", row |-> r, prefix |-> x.prefix, n |-> x.n]]
    /\ UNCHANGED <<dbState, born, issued>>

\* UpdateRecord: no row is no update, and the request is refused.
WriteEdit(t) ==
    /\ Active(t, "editing")
    /\ req' = [req EXCEPT ![t] = Idle]
    /\ IF Exists(req[t].row) THEN AutoCommit(req[t].row, NumberOf(req[t])) ELSE UNCHANGED dbState
    /\ UNCHANGED <<born, issued>>

\* Whoever is creating, a record can go; its number is not given to another.
Delete(r) ==
    /\ Exists(r)
    /\ AutoCommit(r, NoRow)
    /\ UNCHANGED <<req, born, issued>>

-----------------------------------------------------------------------------
Step(t) == TakeLock(t) \/ HighestNumber(t) \/ NextNumber(t) \/ Insert(t) \/ Finish(t) \/ WriteEdit(t)

Next ==
    \/ \E t \in Requests : BeginCreate(t) \/ BeginEdit(t) \/ Step(t) \/ Fail(t)
    \/ \E r \in Records : Delete(r)

Spec == Init /\ [][Next]_vars

-----------------------------------------------------------------------------
\* Two records never claim one number (internal/domain/numbering.go:10-14).
NumbersUnique ==
    \A r, s \in Records : r # s /\ Exists(r) => stored[r] # stored[s]

\* A number is handed out once, whatever becomes of its record: deleting the newest record
\* does not make the next create take its number (data.Store.NextNumber).
IssuedOnce ==
    \A x, y \in issued : NumberOf(x) = NumberOf(y) => x = y

\* The numbers handed out under a prefix have no hole among them: a create that is rolled
\* back gives its number back (data.Store.NextNumber, "rolled back with a create that fails").
NoHoles ==
    \A x, y \in issued : x.prefix = y.prefix =>
        \A k \in x.n .. y.n : \E z \in issued : z.prefix = x.prefix /\ z.n = k
=============================================================================
