------------------------------- MODULE Limits -------------------------------
(***************************************************************************)
(* The guarded write of a record whose Machine bounds a total (`ensure:`): *)
(* internal/web/writelock.go and the create, update and delete pipelines   *)
(* of internal/web/record.go.                                              *)
(*                                                                         *)
(* A request names a record and the values it writes.  The groups it will  *)
(* lock are worked out from the record as it is read BEFORE the            *)
(* transaction begins; inside it the request takes the group locks in      *)
(* order, is judged against the group's total, writes its row and commits. *)
(***************************************************************************)
EXTENDS Bounds, FiniteSetsExt

CONSTANTS
    Requests,   \* concurrent requests
    Unwritten, Nobody

VARIABLES
    stored, own, rowLocks, advisory,  \* the database
    req,        \* each request: where it is, and what it writes
    known       \* records that have been committed, so a client can name them

INSTANCE Database WITH Txns <- Requests, Rows <- Records, Locks <- Groups, Absent <- NoRecord

dbState == <<stored, own, rowLocks, advisory>>
vars == <<dbState, req, known>>

\* Advisory keys are strings taken in sorted order; groups are numbers here.
ASSUME GroupsAssumption == Groups \subseteq Nat

ASSUME SentinelAssumption ==
    Unwritten \notin Line \cup {NoRecord} /\ Nobody \notin Requests

-----------------------------------------------------------------------------
Idle == [pc |-> "idle"]

Pending == [pc : {"locking", "judged", "written"}, op : Operations, row : Records,
            next : Line \cup {NoRecord}, keys : SUBSET Groups]

Held(t) == {g \in Groups : advisory[g] = t}

Active(t, pc) == req[t].pc = pc

TypeOK ==
    /\ stored \in [Records -> Line \cup {NoRecord}]
    /\ own \in [Requests -> [Records -> Line \cup {NoRecord, Unwritten}]]
    /\ rowLocks \in [Requests -> SUBSET Records]
    /\ advisory \in [Groups -> Requests \cup {Nobody}]
    /\ req \in [Requests -> Pending \cup {Idle}]
    /\ known \in SUBSET Records

Init ==
    /\ OpenDatabase([r \in Records |-> NoRecord])
    /\ req = [t \in Requests |-> Idle]
    /\ known = {}

-----------------------------------------------------------------------------
WriteLockKeysOldOnly(existing, next) == GroupOf(existing)  \* mutant: not the new group

\* writeLockKeys: the group the record is in, as last read, and the one it moves to.
WriteLockKeys(existing, next) == GroupOf(existing) \cup GroupOf(next)

\* withWriteLock reads the record outside any transaction and begins one.
Begin(t, op, r, next) ==
    /\ Active(t, "idle")
    /\ op \in Operations
    /\ req' = [req EXCEPT ![t] = [pc |-> "locking", op |-> op, row |-> r, next |-> next,
                                  keys |-> WriteLockKeys(stored[r], next)]]
    /\ UNCHANGED <<dbState, known>>

\* A create takes an id of its own, which nobody knows until it has committed.
FreshIds == Records \ (known \cup {req[t].row : t \in {u \in Requests : ~Active(u, "idle")}})

BeginCreate(t) == \E r \in FreshIds, next \in Line : Begin(t, "create", r, next)

BeginUpdate(t) == \E r \in known, next \in Line : Begin(t, "update", r, next)

BeginDelete(t) == \E r \in known : Begin(t, "delete", r, NoRecord)

TakeLockUnsorted(t) ==  \* mutant: in whatever order the keys were worked out
    /\ Active(t, "locking")
    /\ \E g \in req[t].keys \ Held(t) : AdvisoryLock(t, g)
    /\ UNCHANGED <<req, known>>

\* The keys are taken one at a time, the smallest first.
TakeLock(t) ==
    /\ Active(t, "locking")
    /\ req[t].keys \ Held(t) # {}
    /\ AdvisoryLock(t, Min(req[t].keys \ Held(t)))
    /\ UNCHANGED <<req, known>>

Refuse(t) ==
    /\ Rollback(t)
    /\ req' = [req EXCEPT ![t] = Idle]
    /\ UNCHANGED known

\* withinBounds: the group's records are read and the write is judged.
Judge(t) ==
    /\ Active(t, "locking")
    /\ req[t].keys \subseteq Held(t)
    /\ req[t].op # "delete"
    /\ IF CheckBounds(Snapshot(t), req[t].row, req[t].next)
       THEN req' = [req EXCEPT ![t].pc = "judged"] /\ UNCHANGED <<dbState, known>>
       ELSE Refuse(t)

\* deleteLocked: nothing is totalled, but the record must still be there.
JudgeDelete(t) ==
    /\ Active(t, "locking")
    /\ req[t].keys \subseteq Held(t)
    /\ req[t].op = "delete"
    /\ IF Read(t, req[t].row) # NoRecord
       THEN req' = [req EXCEPT ![t].pc = "judged"] /\ UNCHANGED <<dbState, known>>
       ELSE Refuse(t)

WriteUnchecked(t) ==  \* mutant: an UPDATE that matched no row is taken for done
    /\ Active(t, "judged")
    /\ WriteRow(t, req[t].row, req[t].next)
    /\ req' = [req EXCEPT ![t].pc = "written"]
    /\ UNCHANGED known

\* The statement waits for the row.  An UPDATE of a row that is gone finds none,
\* and the request is refused; a DELETE of one is no error.
Write(t) ==
    /\ Active(t, "judged")
    /\ IF req[t].op = "update" /\ stored[req[t].row] = NoRecord
       THEN RowFree(t, req[t].row) /\ Refuse(t)
       ELSE /\ WriteRow(t, req[t].row, req[t].next)
            /\ req' = [req EXCEPT ![t].pc = "written"]
            /\ UNCHANGED known

Finish(t) ==
    /\ Active(t, "written")
    /\ Commit(t)
    /\ req' = [req EXCEPT ![t] = Idle]
    /\ known' = known \cup {req[t].row}

\* Any statement can fail (a lost connection, a cancelled request): all is rolled back.
Fail(t) == ~Active(t, "idle") /\ Refuse(t)

Step(t) == TakeLock(t) \/ Judge(t) \/ JudgeDelete(t) \/ Write(t) \/ Finish(t)

Next ==
    \E t \in Requests :
        BeginCreate(t) \/ BeginUpdate(t) \/ BeginDelete(t) \/ Step(t) \/ Fail(t)

Spec == Init /\ [][Next]_vars

\* PostgreSQL queues those waiting for a lock, so a lock that keeps coming free is
\* got in the end: strong fairness of the two steps that wait.
FairSpec ==
    /\ Spec
    /\ \A t \in Requests : /\ SF_vars(TakeLock(t)) /\ SF_vars(Write(t))
                           /\ WF_vars(Judge(t) \/ JudgeDelete(t) \/ Finish(t))

-----------------------------------------------------------------------------
\* Every group that has records keeps its total within the bound, in what is
\* committed, whatever requests are under way (domain.AggregateBound).
TotalsWithinBounds ==
    \A g \in Groups : Members(stored, g) # {} => InBounds(Entries(stored, g))

\* A request that has been judged is still within the bound if its write is
\* committed now: nobody committed to the group it read (withWriteLock).
JudgementStands ==
    \A t \in Requests :
        (Active(t, "judged") \/ Active(t, "written")) /\ req[t].op # "delete"
            => CheckBounds(stored, req[t].row, req[t].next)

\* Every request is answered.
EveryRequestEnds == \A t \in Requests : ~Active(t, "idle") ~> Active(t, "idle")

\* The committed records change as the ledger's do, one judged write at a time, and a
\* deleted record never comes back.
Gone == {r \in known : stored[r] = NoRecord}
Promised == INSTANCE Ledger WITH records <- stored, gone <- Gone, Allowed <- CheckBounds
ImplementsLedger == Promised!Spec
=============================================================================
