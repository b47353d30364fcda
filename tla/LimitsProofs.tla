---------------------------- MODULE LimitsProofs ----------------------------
(***************************************************************************)
(* The guarded write keeps an aggregate bound, for every number of         *)
(* requests, records and groups.                                           *)
(*                                                                         *)
(* The argument: a request holds the lock of the group it writes to from   *)
(* before it is judged until it commits, so nobody else can commit a       *)
(* record INTO that group meanwhile.  A record can leave the group without *)
(* the lock (the groups to lock are worked out from a read made before     *)
(* the transaction), so the bound must survive records leaving.            *)
(***************************************************************************)
EXTENDS Limits, TLAPS

\* Taking records out of a group keeps it within the bound: so it is with a ceiling over
\* amounts that are not negative.  A Machine that only creates never takes one out.
ASSUME ShrinkAssumption ==
    \/ Operations = {"create"}
    \/ \A S \in SUBSET Records : \A f \in [S -> Amounts] : \A T \in (SUBSET S) \ {{}} :
          InBounds(f) => InBounds([r \in T |-> f[r]])

-----------------------------------------------------------------------------
(* The inductive invariant.                                                *)

Flying(t) == ~Active(t, "idle")
Past(t) == Active(t, "judged") \/ Active(t, "written")

\* What a request writes matches what it is, and the group it writes to is among its keys.
Keyed ==
    \A t \in Requests : Flying(t) =>
        /\ req[t].op = "delete" => req[t].next = NoRecord
        /\ req[t].op # "delete" => req[t].next \in Line
        /\ GroupOf(req[t].next) \subseteq req[t].keys

\* A judged request holds every lock it asked for.
Locked == \A t \in Requests : Past(t) => req[t].keys \subseteq Held(t)

\* A transaction has written its one row once it is "written", and nothing before.
Owning ==
    \A t \in Requests :
        /\ Active(t, "written") => /\ own[t] = [NoWrites EXCEPT ![req[t].row] = req[t].next]
                                   /\ rowLocks[t] = {req[t].row}
        /\ ~Active(t, "written") => own[t] = NoWrites /\ rowLocks[t] = {}

\* No two transactions have written one row.
Apart ==
    \A t, u \in Requests :
        t # u /\ Active(t, "written") /\ Active(u, "written") => req[t].row # req[u].row

\* Nobody but its creator knows an id before it commits; an update has found its row.
Fresh ==
    /\ \A r \in Records : stored[r] # NoRecord => r \in known
    /\ \A t \in Requests : Flying(t) /\ req[t].op # "create" => req[t].row \in known
    /\ \A t \in Requests : Flying(t) /\ req[t].op = "create" =>
          /\ req[t].row \notin known
          /\ \A u \in Requests \ {t} : Flying(u) => req[u].row # req[t].row
    /\ \A t \in Requests :
          Active(t, "written") /\ req[t].op = "update" => stored[req[t].row] # NoRecord

IInv == TypeOK /\ Keyed /\ Locked /\ Owning /\ Apart /\ Fresh
            /\ JudgementStands /\ TotalsWithinBounds

-----------------------------------------------------------------------------
(* Lemmas about totals.                                                    *)

\* If every record naming g after a change named it before with the same amount, and a
\* Machine that only creates lost none, the group is still within the bound.
LEMMA Shrinking ==
    ASSUME NEW before \in [Records -> Line \cup {NoRecord}],
           NEW after \in [Records -> Line \cup {NoRecord}],
           NEW g \in Groups,
           \A r \in Members(after, g) : r \in Members(before, g) /\ after[r] = before[r],
           Operations = {"create"} => Members(before, g) \subseteq Members(after, g),
           Members(after, g) # {},
           InBounds(Entries(before, g))
    PROVE  InBounds(Entries(after, g))
<1>1. CASE Operations = {"create"}
  <2>1. Members(before, g) = Members(after, g)
    BY <1>1
  <2>2. Entries(before, g) = Entries(after, g)
    BY <2>1 DEF Entries
  <2>. QED BY <2>2
<1>2. CASE Operations # {"create"}
  <2>1. Entries(before, g) \in [Members(before, g) -> Amounts]
    BY DEF Entries, Members, GroupOf, Line
  <2>2. Members(before, g) \in SUBSET Records /\ Members(after, g) \in (SUBSET Members(before, g)) \ {{}}
    BY DEF Members
  <2>3. InBounds([r \in Members(after, g) |-> Entries(before, g)[r]])
    BY <1>2, <2>1, <2>2, ShrinkAssumption
  <2>4. [r \in Members(after, g) |-> Entries(before, g)[r]] = Entries(after, g)
    BY <2>2 DEF Entries
  <2>. QED BY <2>3, <2>4
<1>. QED BY <1>1, <1>2

\* What a commit does to the committed records: the one row, and nothing else.
LEMMA CommitEffect ==
    ASSUME TypeOK, Owning, NEW t \in Requests, Active(t, "written"), Commit(t)
    PROVE  stored' = [stored EXCEPT ![req[t].row] = req[t].next]
<1>1. req[t] \in Pending
  BY DEF TypeOK, Active, Idle
<1>2. own[t] = [NoWrites EXCEPT ![req[t].row] = req[t].next]
  BY DEF Owning
<1>3. req[t].next # Unwritten /\ req[t].row \in Records
  BY <1>1, SentinelAssumption DEF Pending
<1>4. \A r \in Records : Read(t, r) = IF r = req[t].row THEN req[t].next ELSE stored[r]
  BY <1>2, <1>3 DEF Read, NoWrites
<1>5. stored' = [r \in Records |-> Read(t, r)]
  BY DEF Commit, Snapshot
<1>. QED BY <1>4, <1>5 DEF TypeOK

\* A transaction that has written nothing reads what is committed.
LEMMA CleanRead ==
    ASSUME TypeOK, Owning, NEW t \in Requests, ~Active(t, "written")
    PROVE  Snapshot(t) = stored /\ \A r \in Records : Read(t, r) = stored[r]
<1>1. own[t] = [r \in Records |-> Unwritten]
  BY DEF Owning, NoWrites
<1>2. \A r \in Records : Read(t, r) = stored[r]
  BY <1>1 DEF Read
<1>. QED BY <1>2 DEF Snapshot, TypeOK
-----------------------------------------------------------------------------
(* The actions, one invariant at a time.                                   *)

LEMMA InitInv == Init => IInv
<1>. SUFFICES ASSUME Init PROVE IInv
  OBVIOUS
<1>1. \A t \in Requests : req[t] = Idle /\ own[t] = NoWrites /\ rowLocks[t] = {}
  BY DEF Init, OpenDatabase
<1>2. stored = [r \in Records |-> NoRecord] /\ known = {}
  BY DEF Init, OpenDatabase
<1>3. TypeOK
  BY DEF TypeOK, Init, OpenDatabase, NoWrites
<1>4. \A t \in Requests : Active(t, "idle") /\ ~Active(t, "judged") /\ ~Active(t, "written")
  BY <1>1 DEF Active, Idle
<1>5. Keyed /\ Locked /\ Owning /\ Apart /\ Fresh /\ JudgementStands
  BY <1>1, <1>2, <1>4 DEF Keyed, Locked, Owning, Apart, Fresh, JudgementStands, Flying, Past
<1>6. \A g \in Groups : Members(stored, g) = {}
  BY <1>2 DEF Members, GroupOf
<1>. QED BY <1>3, <1>5, <1>6 DEF IInv, TotalsWithinBounds

LEMMA TypeStep == TypeOK /\ [Next]_vars => TypeOK'
<1>. SUFFICES ASSUME TypeOK, [Next]_vars PROVE TypeOK'
  OBVIOUS
<1>. USE DEF TypeOK
<1>1. ASSUME NEW t \in Requests, NEW op \in Operations, NEW r \in Records,
             NEW next \in Line \cup {NoRecord}, Begin(t, op, r, next)
      PROVE  TypeOK'
  <2>1. WriteLockKeys(stored[r], next) \in SUBSET Groups
    BY DEF WriteLockKeys, GroupOf, Line
  <2>2. [pc |-> "locking", op |-> op, row |-> r, next |-> next,
         keys |-> WriteLockKeys(stored[r], next)] \in Pending
    BY <2>1 DEF Pending
  <2>. QED BY <1>1, <2>2 DEF Begin, dbState
<1>2. ASSUME NEW t \in Requests, BeginCreate(t) PROVE TypeOK'
  BY <1>1, <1>2 DEF BeginCreate, FreshIds, Begin
<1>3. ASSUME NEW t \in Requests, BeginUpdate(t) PROVE TypeOK'
  BY <1>1, <1>3 DEF BeginUpdate, Begin
<1>4. ASSUME NEW t \in Requests, BeginDelete(t) PROVE TypeOK'
  BY <1>1, <1>4 DEF BeginDelete, Begin
<1>5. ASSUME NEW t \in Requests, Refuse(t) PROVE TypeOK'
  BY <1>5 DEF Refuse, Rollback, EndTx, NoWrites
<1>6. ASSUME NEW t \in Requests, TakeLock(t) PROVE TypeOK'
  <2>1. advisory' \in [Groups -> Requests \cup {Nobody}]
    BY <1>6 DEF TakeLock, AdvisoryLock
  <2>. QED BY <1>6, <2>1 DEF TakeLock, AdvisoryLock
<1>7. ASSUME NEW t \in Requests, Judge(t) \/ JudgeDelete(t) PROVE TypeOK'
  <2>1. CASE Refuse(t)
    BY <2>1, <1>5
  <2>2. CASE req' = [req EXCEPT ![t].pc = "judged"] /\ UNCHANGED <<dbState, known>>
    <3>1. req[t] \in Pending
      BY <1>7 DEF Judge, JudgeDelete, Active, Idle
    <3>2. [req[t] EXCEPT !.pc = "judged"] \in Pending
      BY <3>1 DEF Pending
    <3>. QED BY <2>2, <3>2 DEF dbState
  <2>. QED BY <1>7, <2>1, <2>2 DEF Judge, JudgeDelete
<1>8. ASSUME NEW t \in Requests, Write(t) PROVE TypeOK'
  <2>1. CASE Refuse(t)
    BY <2>1, <1>5
  <2>2. CASE /\ WriteRow(t, req[t].row, req[t].next)
             /\ req' = [req EXCEPT ![t].pc = "written"]
             /\ UNCHANGED known
    <3>1. req[t] \in Pending
      BY <1>8 DEF Write, Active, Idle
    <3>2. [req[t] EXCEPT !.pc = "written"] \in Pending
      BY <3>1 DEF Pending
    <3>3. req[t].row \in Records /\ req[t].next \in Line \cup {NoRecord}
      BY <3>1 DEF Pending
    <3>. QED BY <2>2, <3>2, <3>3 DEF WriteRow
  <2>. QED BY <1>8, <2>1, <2>2 DEF Write
<1>9. ASSUME NEW t \in Requests, Finish(t) PROVE TypeOK'
  <2>1. req[t] \in Pending
    BY <1>9 DEF Finish, Active, Idle
  <2>2. req[t].row \in Records
    BY <2>1 DEF Pending
  <2>3. \A r \in Records : Read(t, r) \in Line \cup {NoRecord}
    BY DEF Read
  <2>4. stored' \in [Records -> Line \cup {NoRecord}]
    BY <1>9, <2>3 DEF Finish, Commit, Snapshot
  <2>. QED BY <1>9, <2>2, <2>4 DEF Finish, Commit, EndTx, NoWrites
<1>10. CASE UNCHANGED vars
  BY <1>10 DEF vars, dbState
<1>. QED
  BY <1>2, <1>3, <1>4, <1>5, <1>6, <1>7, <1>8, <1>9, <1>10 DEF Next, Step, Fail
\* A request that is under way, and what its fields are.
LEMMA FlyingType ==
    ASSUME TypeOK, NEW t \in Requests, Flying(t)
    PROVE  req[t] \in Pending
BY DEF TypeOK, Flying, Active, Idle

LEMMA BeginStep ==
    ASSUME IInv, NEW t \in Requests, BeginCreate(t) \/ BeginUpdate(t) \/ BeginDelete(t)
    PROVE  Keyed' /\ Locked' /\ Owning' /\ Apart' /\ Fresh' /\ JudgementStands' /\ TotalsWithinBounds'
<1>. USE DEF IInv
<1>1. PICK op \in Operations, r \in Records, next \in Line \cup {NoRecord} :
         /\ Begin(t, op, r, next)
         /\ op = "delete" => next = NoRecord
         /\ op # "delete" => next \in Line
         /\ op # "create" => r \in known
         /\ op = "create" => r \in FreshIds
  BY DEF BeginCreate, BeginUpdate, BeginDelete, Begin, FreshIds, TypeOK
<1>2. req' = [req EXCEPT ![t] = [pc |-> "locking", op |-> op, row |-> r, next |-> next,
                                keys |-> WriteLockKeys(stored[r], next)]]
  BY <1>1 DEF Begin
<1>3. UNCHANGED <<stored, own, rowLocks, advisory, known>> /\ Active(t, "idle")
  BY <1>1 DEF Begin, dbState
<1>4. /\ \A u \in Requests \ {t} : req'[u] = req[u]
      /\ req'[t].pc = "locking" /\ req'[t].op = op /\ req'[t].row = r /\ req'[t].next = next
      /\ req'[t].keys = WriteLockKeys(stored[r], next)
  BY <1>2 DEF TypeOK
<1>5. Keyed'
  BY <1>1, <1>4 DEF Keyed, Flying, Active, WriteLockKeys
<1>6. Locked' /\ Owning' /\ Apart'
  <2>1. ~Past(t)' /\ ~Active(t, "written")' /\ ~Active(t, "written")
    BY <1>3, <1>4 DEF Past, Active
  <2>2. \A u \in Requests \ {t} : Past(u)' = Past(u) /\ Active(u, "written")' = Active(u, "written")
    BY <1>4 DEF Past, Active
  <2>3. Locked'
    BY <1>3, <1>4, <2>1, <2>2 DEF Locked, Held
  <2>4. Owning'
    BY <1>3, <1>4, <2>1, <2>2 DEF Owning
  <2>5. Apart'
    BY <1>3, <1>4, <2>1, <2>2 DEF Apart
  <2>. QED BY <2>3, <2>4, <2>5
<1>7. Fresh'
  <2>1. op = "create" => r \notin known /\ \A u \in Requests \ {t} : Flying(u) => req[u].row # r
    BY <1>1 DEF FreshIds, Flying
  <2>2. ASSUME NEW u \in Requests \ {t}, Flying(u), req[u].op = "create"
        PROVE  req[u].row # r
    <3>1. CASE op = "create"
      BY <2>1, <2>2, <3>1
    <3>2. CASE op # "create"
      BY <1>1, <2>2, <3>2 DEF Fresh
    <3>. QED BY <3>1, <3>2
  <2>. QED BY <1>1, <1>3, <1>4, <2>1, <2>2 DEF Fresh, Flying, Active
<1>8. JudgementStands' /\ TotalsWithinBounds'
  BY <1>3, <1>4 DEF JudgementStands, TotalsWithinBounds, Active
<1>. QED BY <1>5, <1>6, <1>7, <1>8

\* A step that leaves what is committed alone and gives up a request keeps everything.
LEMMA RefuseStep ==
    ASSUME IInv, NEW t \in Requests, Refuse(t)
    PROVE  Keyed' /\ Locked' /\ Owning' /\ Apart' /\ Fresh' /\ JudgementStands' /\ TotalsWithinBounds'
<1>. USE DEF IInv
<1>1. /\ \A u \in Requests \ {t} : req'[u] = req[u] /\ own'[u] = own[u] /\ rowLocks'[u] = rowLocks[u]
      /\ req'[t] = Idle /\ own'[t] = NoWrites /\ rowLocks'[t] = {}
      /\ stored' = stored /\ known' = known
  BY DEF Refuse, Rollback, EndTx, TypeOK
<1>5. \A u \in Requests \ {t} : Held(u)' = Held(u)
  BY SentinelAssumption DEF Refuse, Rollback, EndTx, Held
<1>2. /\ ~Active(t, "judged")' /\ ~Active(t, "written")' /\ Active(t, "idle")'
      /\ \A u \in Requests \ {t}, pc \in {"idle", "judged", "written"} : Active(u, pc)' = Active(u, pc)
  BY <1>1 DEF Active, Idle
<1>3. Keyed' /\ Locked' /\ Owning' /\ Apart'
  BY <1>1, <1>5, <1>2 DEF Keyed, Locked, Owning, Apart, Flying, Past
<1>4. Fresh' /\ JudgementStands' /\ TotalsWithinBounds'
  BY <1>1, <1>2 DEF Fresh, JudgementStands, TotalsWithinBounds, Flying
<1>. QED BY <1>3, <1>4

LEMMA TakeLockStep ==
    ASSUME IInv, NEW t \in Requests, TakeLock(t)
    PROVE  Keyed' /\ Locked' /\ Owning' /\ Apart' /\ Fresh' /\ JudgementStands' /\ TotalsWithinBounds'
<1>. USE DEF IInv
<1>1. UNCHANGED <<stored, own, rowLocks, req, known>>
  BY DEF TakeLock, AdvisoryLock
<1>2. \A u \in Requests : Held(u) \subseteq Held(u)'
  BY SentinelAssumption DEF TakeLock, AdvisoryLock, Held, TypeOK
<1>3. Locked'
  BY <1>1, <1>2 DEF Locked, Past, Active
<1>. QED
  BY <1>1, <1>3 DEF Keyed, Owning, Apart, Fresh, JudgementStands, TotalsWithinBounds, Flying, Active
\* Being judged: the request holds its keys, and what it read is what is committed.
LEMMA JudgeStep ==
    ASSUME IInv, NEW t \in Requests, Judge(t) \/ JudgeDelete(t)
    PROVE  Keyed' /\ Locked' /\ Owning' /\ Apart' /\ Fresh' /\ JudgementStands' /\ TotalsWithinBounds'
<1>. USE DEF IInv
<1>1. CASE Refuse(t)
  BY <1>1, RefuseStep
<1>2. CASE /\ req' = [req EXCEPT ![t].pc = "judged"] /\ UNCHANGED <<dbState, known>>
           /\ req[t].op # "delete" => CheckBounds(Snapshot(t), req[t].row, req[t].next)
  <2>1. Active(t, "locking") /\ req[t].keys \subseteq Held(t) /\ req[t] \in Pending
    BY FlyingType DEF Judge, JudgeDelete, Flying, Active
  <2>2. /\ \A u \in Requests \ {t} : req'[u] = req[u]
        /\ req'[t] = [req[t] EXCEPT !.pc = "judged"]
        /\ UNCHANGED <<stored, own, rowLocks, advisory, known>>
    BY <1>2 DEF TypeOK, dbState
  <2>3. /\ req'[t].pc = "judged" /\ req'[t].op = req[t].op /\ req'[t].row = req[t].row
        /\ req'[t].next = req[t].next /\ req'[t].keys = req[t].keys
    BY <2>1, <2>2 DEF Pending
  <2>4. /\ \A u \in Requests : (Flying(u)' <=> Flying(u)) /\ (Active(u, "written")' <=> Active(u, "written"))
        /\ \A u \in Requests : /\ req'[u].op = req[u].op /\ req'[u].row = req[u].row
                              /\ req'[u].next = req[u].next /\ req'[u].keys = req[u].keys
    BY <2>1, <2>2, <2>3 DEF Flying, Active
  <2>5. Keyed'
    <3>1. ASSUME NEW u \in Requests, Flying(u)'
          PROVE  /\ req'[u].op = "delete" => req'[u].next = NoRecord
                 /\ req'[u].op # "delete" => req'[u].next \in Line
                 /\ GroupOf(req'[u].next) \subseteq req'[u].keys
      BY <2>4, <3>1 DEF Keyed
    <3>. QED BY <3>1 DEF Keyed
  <2>6. Locked'
    <3>1. \A u \in Requests : Held(u)' = Held(u)
      BY <2>2 DEF Held
    <3>2. \A u \in Requests \ {t} : Past(u)' => Past(u)
      BY <2>2 DEF Past, Active
    <3>3. \A u \in Requests \ {t} : Past(u)' => req'[u].keys \subseteq Held(u)'
      BY <2>2, <3>1, <3>2 DEF Locked
    <3>4. req'[t].keys \subseteq Held(t)'
      BY <2>1, <2>3, <3>1
    <3>. QED BY <3>3, <3>4 DEF Locked
  <2>7. Owning'
    BY <2>2, <2>4 DEF Owning
  <2>8. Apart'
    BY <2>4 DEF Apart
  <2>9. Fresh'
    BY <2>2, <2>4 DEF Fresh
  <2>10. req[t].op # "delete" => CheckBounds(stored, req[t].row, req[t].next)
    BY <1>2, <2>1, CleanRead DEF Active
  <2>11. JudgementStands'
    BY <2>2, <2>3, <2>10 DEF JudgementStands, Active
  <2>12. TotalsWithinBounds'
    BY <2>2 DEF TotalsWithinBounds
  <2>. QED BY <2>5, <2>6, <2>7, <2>8, <2>9, <2>11, <2>12
<1>. QED BY <1>1, <1>2 DEF Judge, JudgeDelete

LEMMA WriteStep ==
    ASSUME IInv, NEW t \in Requests, Write(t)
    PROVE  Keyed' /\ Locked' /\ Owning' /\ Apart' /\ Fresh' /\ JudgementStands' /\ TotalsWithinBounds'
<1>. USE DEF IInv
<1>1. CASE Refuse(t)
  BY <1>1, RefuseStep
<1>2. CASE /\ WriteRow(t, req[t].row, req[t].next)
           /\ req' = [req EXCEPT ![t].pc = "written"]
           /\ UNCHANGED known
           /\ ~(req[t].op = "update" /\ stored[req[t].row] = NoRecord)
  <2>1. Active(t, "judged") /\ ~Active(t, "written") /\ req[t] \in Pending
    BY FlyingType DEF Write, Flying, Active
  <2>2. /\ \A u \in Requests \ {t} : req'[u] = req[u]
        /\ req'[t].pc = "written" /\ req'[t].op = req[t].op /\ req'[t].row = req[t].row
        /\ req'[t].next = req[t].next /\ req'[t].keys = req[t].keys
    BY <1>2, <2>1 DEF TypeOK, Pending
  <2>3. UNCHANGED <<stored, advisory, known>>
    BY <1>2 DEF WriteRow
  <2>4. /\ \A u \in Requests \ {t} : own'[u] = own[u] /\ rowLocks'[u] = rowLocks[u]
        /\ own'[t] = [own[t] EXCEPT ![req[t].row] = req[t].next]
        /\ rowLocks'[t] = rowLocks[t] \cup {req[t].row}
    BY <1>2 DEF WriteRow, TypeOK
  <2>5. own[t] = NoWrites /\ rowLocks[t] = {}
    BY <2>1 DEF Owning
  <2>6. /\ \A u \in Requests \ {t} : Active(u, "written")' <=> Active(u, "written")
        /\ Active(t, "written")'
    BY <2>2 DEF Active
  <2>7. Keyed' /\ Locked'
    BY <2>1, <2>2, <2>3 DEF Keyed, Locked, Flying, Past, Active, Held
  <2>8. Owning'
    <3>1. own'[t] = [NoWrites EXCEPT ![req'[t].row] = req'[t].next] /\ rowLocks'[t] = {req'[t].row}
      BY <2>2, <2>4, <2>5
    <3>. QED BY <2>2, <2>4, <2>6, <3>1 DEF Owning
  <2>9. Apart'
    <3>1. \A u \in Requests \ {t} : Active(u, "written") => req[u].row # req[t].row
      BY <1>2 DEF WriteRow, RowFree, Owning
    <3>. QED BY <3>1, <2>2, <2>6 DEF Apart
  <2>10. Fresh'
    BY <1>2, <2>1, <2>2, <2>3, <2>6 DEF Fresh, Flying, Active
  <2>11. JudgementStands' /\ TotalsWithinBounds'
    BY <2>1, <2>2, <2>3 DEF JudgementStands, TotalsWithinBounds, Active
  <2>. QED BY <2>7, <2>8, <2>9, <2>10, <2>11
<1>. QED BY <1>1, <1>2 DEF Write

\* The commit: what the request was judged on still stands, and nobody else's judgement
\* or any other group is worse off.
LEMMA FinishStep ==
    ASSUME IInv, NEW t \in Requests, Finish(t)
    PROVE  Keyed' /\ Locked' /\ Owning' /\ Apart' /\ Fresh' /\ JudgementStands' /\ TotalsWithinBounds'
<1>. USE DEF IInv
<1>. DEFINE row == req[t].row  next == req[t].next
<1>1. Active(t, "written") /\ Commit(t) /\ req[t] \in Pending
  BY FlyingType DEF Finish, Flying, Active
<1>2. row \in Records /\ next \in Line \cup {NoRecord} /\ req[t].op \in Operations
  BY <1>1 DEF Pending
<1>3. stored' = [stored EXCEPT ![row] = next]
  BY <1>1, CommitEffect
<1>4. /\ \A u \in Requests \ {t} : req'[u] = req[u] /\ own'[u] = own[u] /\ rowLocks'[u] = rowLocks[u]
      /\ req'[t] = Idle /\ own'[t] = NoWrites /\ rowLocks'[t] = {}
      /\ known' = known \cup {row}
  BY DEF Finish, Commit, EndTx, TypeOK
<1>5. \A u \in Requests \ {t} : Held(u)' = Held(u)
  BY SentinelAssumption DEF Finish, Commit, EndTx, Held
<1>6. /\ ~Active(t, "judged")' /\ ~Active(t, "written")' /\ Active(t, "idle")'
      /\ \A u \in Requests \ {t}, pc \in {"idle", "judged", "written"} : Active(u, pc)' = Active(u, pc)
  BY <1>4 DEF Active, Idle
<1>7. Keyed' /\ Locked' /\ Owning' /\ Apart'
  BY <1>4, <1>5, <1>6 DEF Keyed, Locked, Owning, Apart, Flying, Past
<1>8. Fresh'
  <2>1. \A r \in Records : stored'[r] # NoRecord => r \in known'
    BY <1>2, <1>3, <1>4 DEF Fresh, TypeOK
  <2>2. \A u \in Requests \ {t} : Flying(u) /\ req[u].op = "create" => req[u].row # row
    BY <1>1 DEF Fresh, Flying, Active
  <2>3. \A u \in Requests \ {t} : Active(u, "written") => req[u].row # row
    BY <1>1 DEF Apart
  <2>4. \A u \in Requests \ {t} : Active(u, "written") /\ req[u].op = "update" =>
           stored'[req[u].row] # NoRecord
    <3>1. \A u \in Requests \ {t} : Active(u, "written") => req[u].row \in Records
      BY FlyingType DEF Flying, Active, Pending
    <3>. QED BY <3>1, <2>3, <1>3 DEF Fresh, TypeOK
  <2>. QED BY <1>4, <1>6, <2>1, <2>2, <2>4 DEF Fresh, Flying
<1>9. stored' \in [Records -> Line \cup {NoRecord}]
  BY <1>2, <1>3 DEF TypeOK
<1>10. Operations = {"create"} => stored[row] = NoRecord
  BY <1>1, <1>2 DEF Fresh, Flying, Active
<1>11. req[t].op # "delete" => CheckBounds(stored, row, next)
  BY <1>1 DEF JudgementStands
<1>12. GroupOf(next) \subseteq Held(t)
  BY <1>1 DEF Keyed, Locked, Flying, Past, Active
<1>13. JudgementStands'
  <2>. SUFFICES ASSUME NEW u \in Requests \ {t}, Past(u), req[u].op # "delete",
                       NEW g \in GroupOf(req[u].next)
                PROVE  InBounds(Entries([stored' EXCEPT ![req[u].row] = req[u].next], g))
    BY <1>4, <1>6 DEF JudgementStands, CheckBounds, Past
  <2>1. req[u].next \in Line /\ GroupOf(req[u].next) \subseteq Held(u) /\ req[u].row \in Records
    BY FlyingType DEF Keyed, Locked, Past, Flying, Active, Pending
  <2>2. g \in Groups /\ g \notin GroupOf(next)
    BY <2>1, <1>12 DEF Held
  <2>. DEFINE before == [stored EXCEPT ![req[u].row] = req[u].next]
              after == [stored' EXCEPT ![req[u].row] = req[u].next]
  <2>3. before \in [Records -> Line \cup {NoRecord}] /\ after \in [Records -> Line \cup {NoRecord}]
    BY <1>9, <2>1 DEF TypeOK
  <2>4. InBounds(Entries(before, g))
    BY DEF JudgementStands, Past, CheckBounds
  <2>5. \A r \in Records : after[r] = IF r = req[u].row THEN req[u].next
                                      ELSE IF r = row THEN next ELSE stored[r]
    BY <1>3, <1>2, <2>1 DEF TypeOK
  <2>6. \A r \in Records : before[r] = IF r = req[u].row THEN req[u].next ELSE stored[r]
    BY <2>1 DEF TypeOK
  <2>7. GroupOf(next) # {g} /\ GroupOf(req[u].next) = {g}
    BY <2>2, <2>1 DEF GroupOf
  <2>8. \A r \in Members(after, g) : r \in Members(before, g) /\ after[r] = before[r]
    BY <2>5, <2>6, <2>7 DEF Members
  <2>9. Operations = {"create"} => Members(before, g) \subseteq Members(after, g)
    BY <1>10, <2>5, <2>6 DEF Members, GroupOf
  <2>10. req[u].row \in Members(after, g)
    BY <2>1, <2>5, <2>7 DEF Members
  <2>. HIDE DEF before, after
  <2>11. InBounds(Entries(after, g))
    BY <2>2, <2>3, <2>4, <2>8, <2>9, <2>10, Shrinking
  <2>. QED BY <2>11 DEF after
<1>14. TotalsWithinBounds'
  <2>. SUFFICES ASSUME NEW g \in Groups, Members(stored', g) # {}
                PROVE  InBounds(Entries(stored', g))
    BY DEF TotalsWithinBounds
  <2>1. CASE g \in GroupOf(next)
    <3>1. req[t].op # "delete"
      BY <1>1, <2>1 DEF Keyed, Flying, Active, GroupOf
    <3>. QED BY <1>3, <1>11, <2>1, <3>1 DEF CheckBounds
  <2>2. CASE g \notin GroupOf(next)
    <3>1. GroupOf(next) # {g}
      BY <2>2
    <3>2. \A r \in Members(stored', g) : r \in Members(stored, g) /\ stored'[r] = stored[r]
      BY <1>2, <1>3, <3>1 DEF Members, TypeOK
    <3>3. Operations = {"create"} => Members(stored, g) \subseteq Members(stored', g)
      BY <1>2, <1>3, <1>10 DEF Members, GroupOf, TypeOK
    <3>4. InBounds(Entries(stored, g))
      BY <3>2 DEF TotalsWithinBounds
    <3>. QED BY <1>9, <3>2, <3>3, <3>4, Shrinking DEF TypeOK
  <2>. QED BY <2>1, <2>2
<1>. QED BY <1>7, <1>8, <1>13, <1>14
LEMMA InvStep == IInv /\ [Next]_vars => IInv'
<1>. SUFFICES ASSUME IInv, [Next]_vars PROVE IInv'
  OBVIOUS
<1>1. TypeOK'
  BY TypeStep DEF IInv
<1>2. CASE Next
  <2>1. PICK t \in Requests : BeginCreate(t) \/ BeginUpdate(t) \/ BeginDelete(t) \/ Step(t) \/ Fail(t)
    BY <1>2 DEF Next
  <2>2. Keyed' /\ Locked' /\ Owning' /\ Apart' /\ Fresh' /\ JudgementStands' /\ TotalsWithinBounds'
    BY <2>1, BeginStep, TakeLockStep, JudgeStep, WriteStep, FinishStep, RefuseStep DEF Step, Fail
  <2>. QED BY <1>1, <2>2 DEF IInv
<1>3. CASE UNCHANGED vars
  <2>1. UNCHANGED <<stored, own, rowLocks, advisory, req, known>>
    BY <1>3 DEF vars, dbState
  <2>. QED
    BY <1>1, <2>1 DEF IInv, Keyed, Locked, Owning, Apart, Fresh, JudgementStands, TotalsWithinBounds,
                      Flying, Past, Active, Held
<1>. QED BY <1>2, <1>3

-----------------------------------------------------------------------------
(* The theorems.                                                           *)

THEOREM Invariance == Spec => []IInv
BY InitInv, InvStep, PTL DEF Spec

\* Every variable keeps its type.
THEOREM Typed == Spec => []TypeOK
<1>1. IInv => TypeOK BY DEF IInv
<1>. QED BY <1>1, Invariance, PTL

\* Whatever requests are under way, the records of a group add up within the bound
\* (internal/web/record.go withinBounds under withWriteLock).
THEOREM BoundKept == Spec => []TotalsWithinBounds
<1>1. IInv => TotalsWithinBounds BY DEF IInv
<1>. QED BY <1>1, Invariance, PTL

\* A request that passed its guard may still commit: the lock keeps its judgement true.
THEOREM JudgementKept == Spec => []JudgementStands
<1>1. IInv => JudgementStands BY DEF IInv
<1>. QED BY <1>1, Invariance, PTL

\* The committed records change as the ledger promises: every commit is one judged write,
\* and every other step is invisible to it.
THEOREM Refinement == Spec => ImplementsLedger
<1>1. Init => Promised!Init
  BY DEF Init, OpenDatabase, Promised!Init, Gone
<1>2. IInv /\ [Next]_vars => [Promised!Next]_<<stored, Gone>>
  <2>. SUFFICES ASSUME IInv, [Next]_vars, ~UNCHANGED <<stored, known>> PROVE Promised!Next
    BY DEF Gone
  <2>1. PICK t \in Requests : Finish(t)
    BY DEF Next, vars, dbState, BeginCreate, BeginUpdate, BeginDelete, Begin, Step, Fail, Refuse,
           Rollback, TakeLock, AdvisoryLock, Judge, JudgeDelete, Write, WriteRow
  <2>2. Active(t, "written") /\ Commit(t) /\ req[t] \in Pending
    BY <2>1, FlyingType DEF IInv, Finish, Flying, Active
  <2>3. stored' = [stored EXCEPT ![req[t].row] = req[t].next]
    BY <2>2, CommitEffect DEF IInv
  <2>4. req[t].row \in Records /\ req[t].op \in Operations
    BY <2>2 DEF Pending
  <2>5. known' = known \cup {req[t].row} /\ stored \in [Records -> Line \cup {NoRecord}]
    BY <2>1 DEF Finish, IInv, TypeOK
  <2>6. CASE req[t].op = "delete"
    <3>1. req[t].next = NoRecord /\ req[t].row \in known
      BY <2>2, <2>6 DEF IInv, Keyed, Fresh, Flying, Active
    <3>2. Gone' = Gone \cup {req[t].row}
      BY <2>3, <2>4, <2>5, <3>1 DEF Gone
    <3>3. Promised!Remove(req[t].row)
      BY <2>3, <2>4, <2>6, <3>1, <3>2 DEF Promised!Remove
    <3>. QED BY <2>4, <3>3 DEF Promised!Next
  <2>7. CASE req[t].op # "delete"
    <3>1. req[t].next \in Line /\ CheckBounds(stored, req[t].row, req[t].next)
      BY <2>2, <2>7 DEF IInv, Keyed, JudgementStands, Flying, Active
    <3>2. req[t].op = "create" => stored[req[t].row] = NoRecord /\ req[t].row \notin known
      BY <2>2, <2>4 DEF IInv, Fresh, Flying, Active
    <3>3. req[t].op = "update" => stored[req[t].row] # NoRecord
      BY <2>2 DEF IInv, Fresh
    <3>4. (IF stored[req[t].row] = NoRecord THEN "create" ELSE "update") \in Operations
      BY <2>4, <2>7, <3>2, <3>3, BoundsAssumption
    <3>5. req[t].next # NoRecord
      BY <3>1, BoundsAssumption DEF Line
    <3>6. req[t].row \notin Gone
      BY <2>4, <2>7, <3>2, <3>3, BoundsAssumption DEF Gone
    <3>7. Gone' = Gone
      BY <2>3, <2>4, <2>5, <3>5, <3>6 DEF Gone
    <3>8. Promised!Put(req[t].row, req[t].next)
      BY <2>3, <3>1, <3>4, <3>6, <3>7 DEF Promised!Put
    <3>. QED BY <2>4, <3>1, <3>8 DEF Promised!Next
  <2>. QED BY <2>6, <2>7
<1>. QED BY <1>1, <1>2, Invariance, PTL DEF Spec, ImplementsLedger, Promised!Spec
=============================================================================
