------------------------------ MODULE Database ------------------------------
(***************************************************************************)
(* The data layer every record write goes through (internal/data/tx.go and *)
(* the record statements of internal/data/store.go) over PostgreSQL at     *)
(* READ COMMITTED, the isolation level the pool is opened with.            *)
(*                                                                         *)
(* A statement outside a transaction reads and writes what is committed.   *)
(* Inside one it also sees the transaction's own writes.  A row written or *)
(* read FOR UPDATE stays locked until the transaction ends, and an         *)
(* advisory lock (Store.Lock) is held as long.  A plain SELECT locks       *)
(* nothing and waits for nothing.                                          *)
(***************************************************************************)
CONSTANTS
    Txns,       \* the requests that may hold a transaction
    Rows,       \* the rows of the tables a component writes
    Locks,      \* the names of advisory locks (keys of Store.Lock)
    Absent,     \* what a row that does not exist holds
    Unwritten,  \* a transaction has not written the row
    Nobody      \* no transaction holds the lock

VARIABLES
    stored,     \* what is committed, row by row
    own,        \* each transaction's uncommitted writes
    rowLocks,   \* the rows each transaction has locked
    advisory    \* the transaction holding each advisory lock

NoWrites == [r \in Rows |-> Unwritten]

OpenDatabase(contents) ==
    /\ stored = contents
    /\ own = [t \in Txns |-> NoWrites]
    /\ rowLocks = [t \in Txns |-> {}]
    /\ advisory = [l \in Locks |-> Nobody]

-----------------------------------------------------------------------------
(* Reads.                                                                  *)

\* One row as transaction t reads it: its own write, else what is committed.
Read(t, r) == IF own[t][r] = Unwritten THEN stored[r] ELSE own[t][r]

\* Every row as one statement of t reads them.
Snapshot(t) == [r \in Rows |-> Read(t, r)]

\* No other transaction holds the row, so a write or a FOR UPDATE need not wait.
RowFree(t, r) == \A u \in Txns \ {t} : r \notin rowLocks[u]

-----------------------------------------------------------------------------
(* Statements of a transaction.                                            *)

AdvisoryLock(t, l) ==
    /\ advisory[l] = Nobody
    /\ advisory' = [advisory EXCEPT ![l] = t]
    /\ UNCHANGED <<stored, own, rowLocks>>

\* A row that is gone by the time it could be locked locks nothing.
SelectForUpdate(t, r) ==
    /\ RowFree(t, r)
    /\ rowLocks' = [rowLocks EXCEPT ![t] = IF Read(t, r) = Absent THEN @ ELSE @ \cup {r}]
    /\ UNCHANGED <<stored, own, advisory>>

\* INSERT, UPDATE and DELETE of one row: deleting writes Absent.
WriteRow(t, r, v) ==
    /\ RowFree(t, r)
    /\ own' = [own EXCEPT ![t][r] = v]
    /\ rowLocks' = [rowLocks EXCEPT ![t] = @ \cup {r}]
    /\ UNCHANGED <<stored, advisory>>

\* Ending a transaction drops its writes from view and frees what it locked.
EndTx(t) ==
    /\ own' = [own EXCEPT ![t] = NoWrites]
    /\ rowLocks' = [rowLocks EXCEPT ![t] = {}]
    /\ advisory' = [l \in Locks |-> IF advisory[l] = t THEN Nobody ELSE advisory[l]]

Commit(t)   == stored' = Snapshot(t) /\ EndTx(t)
Rollback(t) == stored' = stored /\ EndTx(t)

\* A write outside any transaction commits by itself, but still waits for the row.
AutoCommit(r, v) ==
    /\ \A u \in Txns : r \notin rowLocks[u]
    /\ stored' = [stored EXCEPT ![r] = v]
    /\ UNCHANGED <<own, rowLocks, advisory>>

-----------------------------------------------------------------------------
(* What holds of the data layer whatever its callers do.                   *)

\* An uncommitted write is always to a row its transaction has locked, so no
\* two transactions hold uncommitted writes of one row (internal/data/tx.go InTx).
RowsExclusive ==
    /\ \A t \in Txns, r \in Rows : own[t][r] # Unwritten => r \in rowLocks[t]
    /\ \A t, u \in Txns : t # u => rowLocks[t] \cap rowLocks[u] = {}

\* t waits for u: the advisory lock or the row t needs next is held by u.
WaitsForLock(t, u, l) == t # u /\ advisory[l] = u
WaitsForRow(t, u, r)  == t # u /\ r \in rowLocks[u]
=============================================================================
