------------------------------ MODULE Posting ------------------------------
(***************************************************************************)
(* An edge that must balance (`balanced:`) and lines frozen under their    *)
(* posted entry (`frozen_when:`): internal/web/writelock.go, isBalanced    *)
(* and frozenReason of internal/web/record.go, CheckBalance of             *)
(* internal/behavior/transition.go.                                        *)
(*                                                                         *)
(* Posting an entry and changing a line under it take the entry's lock.    *)
(* Which entry a line is under is read before the transaction begins.      *)
(***************************************************************************)
EXTENDS Integers, Functions, FiniteSetsExt

CONSTANTS
    Requests,    \* concurrent requests
    Entries,     \* entry ids, in the order their locks sort: numbers
    Lines,       \* line ids
    Amounts,     \* what a line adds to its entry: its debit less its credit
    Operations,  \* of "post", "create", "update", "move", "delete"
    NoRow, Unwritten, Nobody

VARIABLES
    stored, own, rowLocks, advisory,  \* the database
    req,     \* each request: where it is, and what it writes
    born     \* lines that have been committed

Rows == Entries \cup Lines

INSTANCE Database WITH Txns <- Requests, Locks <- Entries, Absent <- NoRow

dbState == <<stored, own, rowLocks, advisory>>
vars == <<dbState, req, born>>

EntryRows == [status : {"draft", "posted"}]
LineRows == [entry : Entries, amount : Amounts]
Cells == EntryRows \cup LineRows \cup {NoRow}

ASSUME PostingAssumption ==
    /\ Entries \subseteq Nat /\ Entries \cap Lines = {}
    /\ Amounts \subseteq Int
    /\ NoRow \notin EntryRows \cup LineRows
    /\ Unwritten \notin Cells
    /\ Nobody \notin Requests

-----------------------------------------------------------------------------
Idle == [pc |-> "idle"]
Jobs == [pc : {"locking", "judged", "written"}, op : Operations, row : Rows, next : Cells,
         keys : SUBSET Entries]

Active(t, pc) == req[t].pc = pc
Held(t) == {e \in Entries : advisory[e] = t}
Posted(db, e) == db[e].status = "posted"

TypeOK ==
    /\ stored \in [Rows -> Cells]
    /\ \A e \in Entries : stored[e] \in EntryRows
    /\ \A l \in Lines : stored[l] \in LineRows \cup {NoRow}
    /\ own \in [Requests -> [Rows -> Cells \cup {Unwritten}]]
    /\ rowLocks \in [Requests -> SUBSET Rows]
    /\ advisory \in [Entries -> Requests \cup {Nobody}]
    /\ req \in [Requests -> Jobs \cup {Idle}]
    /\ born \in SUBSET Lines

Init ==
    /\ OpenDatabase([r \in Rows |-> IF r \in Entries THEN [status |-> "draft"] ELSE NoRow])
    /\ req = [t \in Requests |-> Idle]
    /\ born = {}

-----------------------------------------------------------------------------
\* The entries a line's values name: none for a line that is not there.
EntryOf(v) == IF v = NoRow THEN {} ELSE {v.entry}

LinesOf(db, e) == {l \in Lines : EntryOf(db[l]) = {e}}
Balance(db, e) == SumFunction([l \in LinesOf(db, e) |-> db[l].amount])

\* CheckBalance: debit and credit are equal, and there is something to post.
Balanced(db, e) == LinesOf(db, e) # {} /\ Balance(db, e) = 0

NewEntryKeys(existing, next) == EntryOf(next)  \* mutant: the entry a line leaves is not locked

\* writeLockKeys, from the line's side.
LineKeys(existing, next) == EntryOf(existing) \cup EntryOf(next)

Begin(t, op, r, next, keys) ==
    /\ Active(t, "idle")
    /\ op \in Operations
    /\ req' = [req EXCEPT ![t] = [pc |-> "locking", op |-> op, row |-> r, next |-> next, keys |-> keys]]
    /\ UNCHANGED <<dbState, born>>

BeginPost(t) == \E e \in Entries : Begin(t, "post", e, [status |-> "posted"], {e})

BeginLine(t, op, l, next) == Begin(t, op, l, next, LineKeys(stored[l], next))

FreshIds == Lines \ (born \cup {req[t].row : t \in {u \in Requests : ~Active(u, "idle")}})

BeginCreate(t) == \E l \in FreshIds, next \in LineRows : BeginLine(t, "create", l, next)

BeginUpdate(t) ==
    \E l \in Lines, a \in Amounts :
        stored[l] # NoRow /\ BeginLine(t, "update", l, [stored[l] EXCEPT !.amount = a])

BeginMove(t) ==
    \E l \in Lines, e \in Entries :
        stored[l] # NoRow /\ BeginLine(t, "move", l, [stored[l] EXCEPT !.entry = e])

BeginDelete(t) == \E l \in Lines : stored[l] # NoRow /\ BeginLine(t, "delete", l, NoRow)

-----------------------------------------------------------------------------
NextKey(t) == Min(req[t].keys \ Held(t))

TakeLock(t) ==
    /\ Active(t, "locking")
    /\ req[t].keys \ Held(t) # {}
    /\ AdvisoryLock(t, NextKey(t))
    /\ UNCHANGED <<req, born>>

Refuse(t) ==
    /\ Rollback(t)
    /\ req' = [req EXCEPT ![t] = Idle]
    /\ UNCHANGED born

\* Once it holds its locks a request judges its write, and goes on or is refused.
JudgeBy(t, ok) ==
    /\ Active(t, "locking")
    /\ req[t].keys \subseteq Held(t)
    /\ IF ok THEN req' = [req EXCEPT ![t].pc = "judged"] /\ UNCHANGED <<dbState, born>>
             ELSE Refuse(t)

\* CheckTransitions lets a draft be posted, and isBalanced only when it balances.
JudgePost(t) ==
    /\ req[t].pc # "idle" /\ req[t].op = "post"
    /\ JudgeBy(t, ~Posted(Snapshot(t), req[t].row) /\ Balanced(Snapshot(t), req[t].row))

FrozenBefore(db, existing, next) ==  \* mutant: a line may come under a posted entry
    \E e \in EntryOf(existing) : Posted(db, e)

\* frozenReason: neither the entry the line is under now nor the one it goes to is posted.
Frozen(db, existing, next) == \E e \in EntryOf(existing) \cup EntryOf(next) : Posted(db, e)

\* The line is read again, inside the transaction; one that is gone is refused.
JudgeLine(t) ==
    /\ req[t].pc # "idle" /\ req[t].op # "post"
    /\ JudgeBy(t, /\ req[t].op = "create" \/ Read(t, req[t].row) # NoRow
                  /\ ~Frozen(Snapshot(t), Read(t, req[t].row), req[t].next))

\* An UPDATE of a line that is gone finds none and is refused; a DELETE of one is no error.
Write(t) ==
    /\ Active(t, "judged")
    /\ IF req[t].op \in {"update", "move"} /\ stored[req[t].row] = NoRow
       THEN RowFree(t, req[t].row) /\ Refuse(t)
       ELSE /\ WriteRow(t, req[t].row, req[t].next)
            /\ req' = [req EXCEPT ![t].pc = "written"]
            /\ UNCHANGED born

Finish(t) ==
    /\ Active(t, "written")
    /\ Commit(t)
    /\ req' = [req EXCEPT ![t] = Idle]
    /\ born' = born \cup ({req[t].row} \cap Lines)

Fail(t) == ~Active(t, "idle") /\ Refuse(t)

Step(t) == TakeLock(t) \/ JudgePost(t) \/ JudgeLine(t) \/ Write(t) \/ Finish(t)

Next ==
    \E t \in Requests :
        \/ BeginPost(t) \/ BeginCreate(t) \/ BeginUpdate(t) \/ BeginMove(t) \/ BeginDelete(t)
        \/ Step(t) \/ Fail(t)

Spec == Init /\ [][Next]_vars

-----------------------------------------------------------------------------
\* What is posted balances, whatever becomes of its lines (BalanceRule; isBalanced).
PostedBalanced == \A e \in Entries : Posted(stored, e) => Balanced(stored, e)

\* A line of a posted entry stays as it is and no line joins it (ac_line.yaml, "A posted
\* entry's lines are frozen"; frozenReason).
FrozenLinesStand ==
    [][\A l \in Lines, e \in Entries :
          Posted(stored, e) /\ e \in EntryOf(stored[l]) \cup EntryOf(stored'[l]) => stored'[l] = stored[l]]_stored

\* What the code does not keep, and both properties need: no line is moved while the same line
\* is written, when the locks taken are those of an entry it has left.
Collide(t, u) == req[t].op = "move" /\ req[u].row = req[t].row
Apart ==
    \A t, u \in Requests : t # u /\ ~Active(t, "idle") /\ ~Active(u, "idle") => ~Collide(t, u)
=============================================================================
