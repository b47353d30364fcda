-------------------------- MODULE NumberingProofs --------------------------
(***************************************************************************)
(* Numbers are unique, handed out once and without holes, for every number *)
(* of requests, records and prefixes.                                      *)
(*                                                                         *)
(* The argument: whoever holds the Field's lock works with a counter and a *)
(* set of committed numbers that only a delete can change, and a delete    *)
(* only lowers the highest.  So the number taken is above every number on  *)
(* a record and, once the counter exists, exactly one above it.            *)
(***************************************************************************)
EXTENDS Numbering, TLAPS

\* The Machine has a Field that can be locked, so keepsLockedFields reads the record.
ASSUME KeepsAssumption == LocksAField

-----------------------------------------------------------------------------
(* The inductive invariant.                                                *)

Counted(t) == Active(t, "counted")
Taken(t) == Active(t, "numbered") \/ Active(t, "inserted")
Queued(t) == Active(t, "begun") \/ Active(t, "locked") \/ Counted(t) \/ Taken(t)

\* Past its first wait, a create holds the Field's lock until it ends.
Locked ==
    \A t \in Requests :
        Active(t, "locked") \/ Counted(t) \/ Taken(t) => advisory["numbering"] = t

\* What a transaction has written at each of its steps.
WritesOf(x) ==
    IF x.pc = "numbered" THEN [NoWrites EXCEPT ![x.prefix] = NumberOf(x)]
    ELSE IF x.pc = "inserted" THEN [NoWrites EXCEPT ![x.prefix] = NumberOf(x), ![x.row] = NumberOf(x)]
    ELSE NoWrites

Owning == \A t \in Requests : own[t] = WritesOf(req[t])

\* A record being created is nobody else's and has never been committed; one being edited has.
Fresh ==
    /\ \A r \in Records : Exists(r) => r \in born
    /\ \A x \in issued : x.row \in born
    /\ \A t \in Requests : Queued(t) => req[t].row \notin born
    /\ \A t, u \in Requests : t # u /\ Queued(t) /\ Queued(u) => req[t].row # req[u].row

\* An edit writes back the number the record has.
Keeping ==
    \A t \in Requests : Active(t, "editing") =>
        /\ req[t].row \in born
        /\ Exists(req[t].row) => stored[req[t].row] = NumberOf(req[t])

\* Once a prefix has a counter, no record is above it and it was handed out last.
Counter ==
    \A p \in Prefixes :
        /\ stored[p] # NoRow =>
              /\ \A r \in Records : Exists(r) /\ stored[r].prefix = p => stored[r].n <= stored[p].n
              /\ \E x \in issued : NumberOf(x) = stored[p]
        /\ \A x \in issued : x.prefix = p => stored[p] # NoRow /\ x.n <= stored[p].n

\* The highest number was read under the lock: nothing has risen above it since.
Reading ==
    \A t \in Requests : Counted(t) =>
        /\ \A r \in Records : Exists(r) /\ stored[r].prefix = req[t].prefix => stored[r].n <= req[t].n
        /\ stored[req[t].prefix] # NoRow => req[t].n <= stored[req[t].prefix].n

\* The number taken is above every record's, and next to the counter.
Taking ==
    \A t \in Requests : Taken(t) =>
        /\ \A r \in Records : Exists(r) /\ stored[r].prefix = req[t].prefix => stored[r].n < req[t].n
        /\ stored[req[t].prefix] # NoRow => req[t].n = stored[req[t].prefix].n + 1

IInv == TypeOK /\ Locked /\ Owning /\ Fresh /\ Keeping /\ Counter /\ Reading /\ Taking
            /\ NumbersUnique /\ IssuedOnce /\ NoHoles

-----------------------------------------------------------------------------
(* Lemmas.                                                                 *)

\* Where a request is says what it carries.
LEMMA Shapes ==
    ASSUME TypeOK, NEW t \in Requests
    PROVE  /\ Active(t, "begun") \/ Active(t, "locked") => req[t] \in Creating
           /\ Counted(t) => req[t] \in Counting
           /\ Taken(t) => req[t] \in Inserting
           /\ Active(t, "editing") => req[t] \in Editing
BY DEF TypeOK, Active, Counted, Taken, Idle, Creating, Counting, Inserting, Editing

\* A transaction that has written nothing reads what is committed.
LEMMA CleanRead ==
    ASSUME Owning, NEW t \in Requests, ~Taken(t), NEW r \in Rows
    PROVE  Read(t, r) = stored[r]
<1>1. own[t] = NoWrites
  BY DEF Owning, WritesOf, Taken, Active
<1>. QED BY <1>1 DEF Read, NoWrites

\* A step of a request that has written nothing, and writes nothing, leaves Owning be.
LEMMA StillClean ==
    ASSUME Owning, NEW t \in Requests, own' = own,
           req[t].pc \notin {"numbered", "inserted"}, req'[t].pc \notin {"numbered", "inserted"},
           \A u \in Requests \ {t} : req'[u] = req[u]
    PROVE  Owning'
<1>1. WritesOf(req[t]) = NoWrites /\ WritesOf(req'[t]) = NoWrites
  BY DEF WritesOf
<1>. QED BY <1>1 DEF Owning

\* What a create commits: its counter, its record and nothing else.
LEMMA CommitEffect ==
    ASSUME TypeOK, Owning, NEW t \in Requests, Active(t, "inserted"), Commit(t)
    PROVE  stored' = [stored EXCEPT ![req[t].prefix] = NumberOf(req[t]),
                                    ![req[t].row] = NumberOf(req[t])]
<1>1. req[t] \in Inserting
  BY Shapes DEF Taken
<1>2. req[t].row \in Records /\ req[t].prefix \in Prefixes /\ NumberOf(req[t]) \in Numbers
  BY <1>1 DEF Inserting, NumberOf, Numbers
<1>3. NumberOf(req[t]) # Unwritten
  BY <1>2, NumberingAssumption DEF Cells
<1>4. own[t] = [NoWrites EXCEPT ![req[t].prefix] = NumberOf(req[t]), ![req[t].row] = NumberOf(req[t])]
  BY DEF Owning, WritesOf, Active
<1>5. \A r \in Rows : Read(t, r) = IF r = req[t].row \/ r = req[t].prefix THEN NumberOf(req[t])
                                   ELSE stored[r]
  BY <1>2, <1>3, <1>4 DEF Read, NoWrites, Rows
<1>6. stored' = [r \in Rows |-> Read(t, r)]
  BY DEF Commit, Snapshot
<1>. QED BY <1>2, <1>5, <1>6 DEF TypeOK, Rows

\* Only the holder of the lock is past its wait.
LEMMA OneTaker ==
    ASSUME Locked, NEW t \in Requests, NEW u \in Requests,
           Active(t, "locked") \/ Counted(t) \/ Taken(t),
           Active(u, "locked") \/ Counted(u) \/ Taken(u)
    PROVE  t = u
BY DEF Locked

-----------------------------------------------------------------------------
(* The steps.                                                              *)

LEMMA InitInv == Init => IInv
<1>. SUFFICES ASSUME Init PROVE IInv
  OBVIOUS
<1>1. PICK f \in Imports :
        /\ OpenDatabase([r \in Rows |-> IF r \in Records THEN f[r] ELSE NoRow])
        /\ req = [t \in Requests |-> Idle]
        /\ born = {r \in Records : f[r] # NoRow}
        /\ issued = {}
  BY DEF Init
<1>2. /\ f \in [Records -> Numbers \cup {NoRow}]
      /\ \A r, s \in Records : r # s /\ f[r] # NoRow => f[r] # f[s]
  BY DEF Imports
<1>3. /\ stored = [r \in Rows |-> IF r \in Records THEN f[r] ELSE NoRow]
      /\ own = [t \in Requests |-> NoWrites]
      /\ rowLocks = [t \in Requests |-> {}]
      /\ advisory = [l \in {"numbering"} |-> Nobody]
  BY <1>1 DEF OpenDatabase
<1>4. (\A r \in Records : stored[r] = f[r]) /\ \A p \in Prefixes : stored[p] = NoRow
  BY <1>3, NumberingAssumption DEF Rows
<1>5. TypeOK
  BY <1>1, <1>2, <1>3, <1>4 DEF TypeOK, Cells, NoWrites, Rows
<1>6. \A t \in Requests : Active(t, "idle") /\ ~Queued(t) /\ ~Taken(t) /\ ~Counted(t)
                            /\ ~Active(t, "editing") /\ ~Active(t, "locked")
  BY <1>1 DEF Active, Idle, Queued, Taken, Counted
<1>7. Locked /\ Keeping /\ Reading /\ Taking
  BY <1>6 DEF Locked, Keeping, Reading, Taking
<1>8. Owning
  BY <1>1, <1>3 DEF Owning, WritesOf, Idle
<1>9. Fresh /\ Counter
  BY <1>1, <1>4, <1>6 DEF Fresh, Counter, Exists
<1>10. NumbersUnique /\ IssuedOnce /\ NoHoles
  BY <1>1, <1>2, <1>4 DEF NumbersUnique, IssuedOnce, NoHoles, Exists
<1>. QED BY <1>5, <1>7, <1>8, <1>9, <1>10 DEF IInv

\* A step of one request that leaves what is committed alone, with what is left to show of
\* the request itself, keeps the invariant.
LEMMA QuietStep ==
    ASSUME IInv, TypeOK', Locked', Owning', Fresh', NEW t \in Requests,
           UNCHANGED <<stored, born, issued>>,
           \A u \in Requests \ {t} : req'[u] = req[u],
           Active(t, "editing")' => /\ req'[t].row \in born
                                    /\ Exists(req'[t].row) => stored[req'[t].row] = NumberOf(req'[t]),
           Counted(t)' => /\ \A r \in Records : Exists(r) /\ stored[r].prefix = req'[t].prefix
                                                   => stored[r].n <= req'[t].n
                          /\ stored[req'[t].prefix] # NoRow => req'[t].n <= stored[req'[t].prefix].n,
           Taken(t)' => /\ \A r \in Records : Exists(r) /\ stored[r].prefix = req'[t].prefix
                                                   => stored[r].n < req'[t].n
                        /\ stored[req'[t].prefix] # NoRow => req'[t].n = stored[req'[t].prefix].n + 1
    PROVE  IInv'
<1>1. Keeping'
  BY DEF IInv, Keeping, Exists, Active, NumberOf
<1>2. Reading'
  BY DEF IInv, Reading, Exists, Counted, Active
<1>3. Taking'
  BY DEF IInv, Taking, Exists, Taken, Active
<1>4. Counter' /\ NumbersUnique' /\ IssuedOnce' /\ NoHoles'
  BY DEF IInv, Counter, NumbersUnique, IssuedOnce, NoHoles, Exists, NumberOf
<1>. QED BY <1>1, <1>2, <1>3, <1>4 DEF IInv

LEMMA BeginCreateStep == ASSUME IInv, NEW t \in Requests, BeginCreate(t) PROVE IInv'
<1>1. PICK r \in FreshIds, p \in Prefixes :
        req' = [req EXCEPT ![t] = [pc |-> "begun", row |-> r, prefix |-> p]]
  BY DEF BeginCreate
<1>2. r \in Records /\ r \notin born /\ \A u \in Requests : ~Active(u, "idle") => req[u].row # r
  BY DEF FreshIds
<1>3. UNCHANGED <<stored, own, rowLocks, advisory, born, issued>> /\ Active(t, "idle")
  BY DEF BeginCreate, dbState
<1>4. TypeOK'
  BY <1>1, <1>2, <1>3 DEF IInv, TypeOK, Creating
<1>5. req'[t] = [pc |-> "begun", row |-> r, prefix |-> p] /\ \A u \in Requests \ {t} : req'[u] = req[u]
  BY <1>1 DEF IInv, TypeOK
<1>6. Locked'
  BY <1>3, <1>5 DEF IInv, Locked, Active, Counted, Taken
<1>8. Owning'
  BY <1>3, <1>5, StillClean DEF IInv, Active
<1>7. Fresh'
  BY <1>2, <1>3, <1>5 DEF IInv, Fresh, Active, Queued, Counted, Taken, Exists
<1>. QED BY <1>3, <1>4, <1>5, <1>6, <1>7, <1>8, QuietStep DEF Active, Counted, Taken

LEMMA BeginEditStep == ASSUME IInv, NEW t \in Requests, BeginEdit(t) PROVE IInv'
<1>1. PICK r \in Records, x \in Numbers :
        /\ Exists(r) /\ KeepsNumber(r, x)
        /\ req' = [req EXCEPT ![t] = [pc |-> "editing", row |-> r, prefix |-> x.prefix, n |-> x.n]]
  BY DEF BeginEdit
<1>2. UNCHANGED <<stored, own, rowLocks, advisory, born, issued>> /\ Active(t, "idle")
  BY DEF BeginEdit, dbState
<1>3. TypeOK'
  BY <1>1, <1>2 DEF IInv, TypeOK, Editing, Numbers
<1>4. /\ req'[t] = [pc |-> "editing", row |-> r, prefix |-> x.prefix, n |-> x.n]
      /\ \A u \in Requests \ {t} : req'[u] = req[u]
  BY <1>1 DEF IInv, TypeOK
<1>5. Locked' /\ Fresh'
  BY <1>2, <1>4 DEF IInv, Locked, Fresh, Active, Queued, Counted, Taken, Exists
<1>8. Owning'
  BY <1>2, <1>4, StillClean DEF IInv, Active
<1>6. r \in born
  BY <1>1 DEF IInv, Fresh
<1>7. stored[r] = NumberOf(req'[t])
  BY <1>1, <1>4, KeepsAssumption DEF KeepsNumber, NumberOf, Numbers
<1>. QED BY <1>2, <1>3, <1>4, <1>5, <1>6, <1>7, <1>8, QuietStep DEF Active, Counted, Taken

LEMMA TakeLockStep == ASSUME IInv, NEW t \in Requests, TakeLock(t) PROVE IInv'
<1>1. /\ Active(t, "begun") /\ advisory["numbering"] = Nobody
      /\ advisory' = [advisory EXCEPT !["numbering"] = t]
      /\ req' = [req EXCEPT ![t].pc = "locked"]
      /\ UNCHANGED <<stored, own, rowLocks, born, issued>>
  BY DEF TakeLock, AdvisoryLock
<1>2. req[t] \in Creating
  BY <1>1, Shapes DEF IInv
<1>3. /\ req'[t] = [pc |-> "locked", row |-> req[t].row, prefix |-> req[t].prefix]
      /\ \A u \in Requests \ {t} : req'[u] = req[u]
  BY <1>1, <1>2 DEF IInv, TypeOK, Creating
<1>4. TypeOK'
  BY <1>1, <1>2, <1>3 DEF IInv, TypeOK, Creating
<1>5. Locked'
  BY <1>1, <1>3, NumberingAssumption DEF IInv, TypeOK, Locked, Active, Counted, Taken
<1>6. Fresh'
  BY <1>1, <1>3 DEF IInv, Fresh, Active, Queued, Counted, Taken, Exists
<1>7. Owning'
  BY <1>1, <1>3, StillClean DEF IInv, Active
<1>. QED BY <1>1, <1>3, <1>4, <1>5, <1>6, <1>7, QuietStep DEF Active, Counted, Taken

LEMMA HighestNumberStep == ASSUME IInv, NEW t \in Requests, HighestNumber(t) PROVE IInv'
<1>1. PICK h \in 0 .. MaxNumber :
        /\ IsHighest(t, req[t].prefix, h)
        /\ req' = [req EXCEPT ![t] = [pc |-> "counted", row |-> req[t].row,
                                      prefix |-> req[t].prefix, n |-> h]]
  BY DEF HighestNumber
<1>2. Active(t, "locked") /\ UNCHANGED <<stored, own, rowLocks, advisory, born, issued>>
  BY DEF HighestNumber, dbState
<1>3. req[t] \in Creating
  BY <1>2, Shapes DEF IInv
<1>4. /\ req'[t] = [pc |-> "counted", row |-> req[t].row, prefix |-> req[t].prefix, n |-> h]
      /\ \A u \in Requests \ {t} : req'[u] = req[u]
  BY <1>1 DEF IInv, TypeOK
<1>5. TypeOK'
  BY <1>1, <1>2, <1>3, <1>4 DEF IInv, TypeOK, Creating, Counting
<1>6. Locked' /\ Fresh'
  BY <1>2, <1>4 DEF IInv, Locked, Fresh, Active, Queued, Counted, Taken, Exists
<1>10. Owning'
  BY <1>2, <1>4, StillClean DEF IInv, Active
<1>7. \A r \in Records : Read(t, r) = stored[r]
  BY <1>2, CleanRead DEF IInv, Active, Taken, Rows
<1>8. \A r \in Records : Exists(r) /\ stored[r].prefix = req[t].prefix => stored[r].n <= h
  BY <1>1, <1>7 DEF IsHighest, Exists
<1>9. ASSUME stored[req[t].prefix] # NoRow PROVE h <= stored[req[t].prefix].n
  <2>1. stored[req[t].prefix] \in Numbers /\ req[t].prefix \in Prefixes
    BY <1>3, <1>9 DEF IInv, TypeOK, Cells, Creating, Rows
  <2>2. CASE h = 0
    BY <2>1, <2>2 DEF Numbers
  <2>3. CASE h # 0
    <3>1. PICK r \in Records : Exists(r) /\ stored[r].prefix = req[t].prefix /\ stored[r].n = h
      BY <1>1, <1>7, <2>3 DEF IsHighest, Exists
    <3>. QED BY <1>9, <2>1, <3>1 DEF IInv, Counter
  <2>. QED BY <2>2, <2>3
<1>. QED BY <1>2, <1>4, <1>5, <1>6, <1>8, <1>9, <1>10, QuietStep DEF Active, Counted, Taken

LEMMA NextNumberStep == ASSUME IInv, NEW t \in Requests, NextNumber(t) PROVE IInv'
<1>. DEFINE p == req[t].prefix
            next == Following(stored[p], req[t].n)
            number == [prefix |-> p, n |-> next]
<1>1. req[t] \in Counting /\ Active(t, "counted") /\ p \in Prefixes
  BY Shapes DEF IInv, NextNumber, Counted, Counting
<1>2. Read(t, p) = stored[p]
  BY <1>1, CleanRead DEF IInv, Active, Taken, Rows
<1>3. /\ next <= MaxNumber
      /\ own' = [own EXCEPT ![t][p] = number]
      /\ rowLocks' = [rowLocks EXCEPT ![t] = @ \cup {p}]
      /\ req' = [req EXCEPT ![t].pc = "numbered", ![t].n = next]
      /\ UNCHANGED <<stored, advisory, born, issued>>
  BY <1>2 DEF NextNumber, WriteRow
<1>4. stored[p] # NoRow => stored[p] \in Numbers
  BY <1>1 DEF IInv, TypeOK, Cells, Rows
<1>5. /\ stored[p] # NoRow => next = stored[p].n + 1
      /\ next > req[t].n /\ next \in 1 .. MaxNumber
  <2>1. req[t].n \in 0 .. MaxNumber /\ MaxNumber \in Nat
    BY <1>1, NumberingAssumption DEF Counting
  <2>2. CASE stored[p] = NoRow
    BY <1>3, <2>1, <2>2 DEF Following
  <2>3. CASE stored[p] # NoRow
    <3>1. req[t].n <= stored[p].n /\ stored[p].n \in 1 .. MaxNumber
      BY <1>1, <1>4, <2>3 DEF IInv, Reading, Counted, Numbers
    <3>2. stored[p].n = req[t].n => next = stored[p].n + 1
      BY <2>3, <3>1, <2>1 DEF Following
    <3>3. stored[p].n > req[t].n => next = stored[p].n + 1
      BY <2>3, <3>1, <2>1 DEF Following
    <3>. QED BY <1>3, <2>1, <3>1, <3>2, <3>3
  <2>. QED BY <2>2, <2>3
<1>. HIDE DEF next
<1>6. /\ req'[t] = [pc |-> "numbered", row |-> req[t].row, prefix |-> p, n |-> next]
      /\ \A u \in Requests \ {t} : req'[u] = req[u]
  BY <1>1, <1>3 DEF IInv, TypeOK, Counting
<1>7. TypeOK'
  <2>1. number \in Cells
    BY <1>1, <1>5 DEF Cells, Numbers
  <2>2. req'[t] \in Inserting
    BY <1>1, <1>5, <1>6 DEF Counting, Inserting
  <2>3. own' \in [Requests -> [Rows -> Cells \cup {Unwritten}]]
    BY <1>1, <1>3, <2>1 DEF IInv, TypeOK, Rows
  <2>4. rowLocks' \in [Requests -> SUBSET Rows]
    BY <1>1, <1>3 DEF IInv, TypeOK, Rows
  <2>5. req' \in [Requests -> Creating \cup Counting \cup Inserting \cup Editing \cup {Idle}]
    BY <1>3, <2>2, <1>6 DEF IInv, TypeOK
  <2>. QED BY <1>3, <2>3, <2>4, <2>5 DEF IInv, TypeOK
<1>8. Locked' /\ Fresh'
  <2>1. Locked'
    BY <1>1, <1>3, <1>6 DEF IInv, Locked, Active, Counted, Taken
  <2>2. Queued(t) /\ req'[t].row = req[t].row
    BY <1>1, <1>6 DEF Queued, Counted
  <2>3. \A u \in Requests : Queued(u)' => Queued(u) /\ req'[u].row = req[u].row
    BY <1>6, <2>2 DEF Queued, Active, Counted, Taken
  <2>4. UNCHANGED <<stored, born, issued>>
    BY <1>3
  <2>5. /\ (\A r \in Records : Exists(r) => r \in born)' /\ (\A x \in issued : x.row \in born)'
        /\ \A u \in Requests : Queued(u)' => req'[u].row \notin born'
    BY <2>3, <2>4 DEF IInv, Fresh, Exists
  <2>6. \A u, v \in Requests : u # v /\ Queued(u)' /\ Queued(v)' => req'[u].row # req'[v].row
    BY <2>3 DEF IInv, Fresh
  <2>7. Fresh'
    BY <2>4, <2>5, <2>6 DEF Fresh
  <2>. QED BY <2>1, <2>7
<1>9. Owning'
  <2>1. own[t] = NoWrites
    BY <1>1 DEF IInv, Owning, WritesOf, Active
  <2>2. own'[t] = [NoWrites EXCEPT ![p] = number] /\ \A u \in Requests \ {t} : own'[u] = own[u]
    BY <1>3, <2>1 DEF IInv, TypeOK
  <2>3. own'[t] = WritesOf(req'[t])
    BY <1>6, <2>2 DEF NumberOf, WritesOf
  <2>. QED BY <1>6, <2>2, <2>3 DEF IInv, Owning
<1>10. \A r \in Records : Exists(r) /\ stored[r].prefix = p => stored[r].n < next
  <2>. SUFFICES ASSUME NEW r \in Records, Exists(r), stored[r].prefix = p PROVE stored[r].n < next
    OBVIOUS
  <2>1. stored[r].n <= req[t].n /\ stored[r] \in Numbers
    BY <1>1 DEF IInv, Reading, Counted, TypeOK, Cells, Rows, Exists
  <2>. QED BY <1>1, <1>5, <2>1, NumberingAssumption DEF Numbers, Counting
<1>11. ~Active(t, "editing")' /\ ~Counted(t)'
  BY <1>6 DEF Active, Counted
<1>12. req'[t].prefix = p /\ req'[t].n = next
  BY <1>6
<1>. QED BY <1>3, <1>5, <1>6, <1>7, <1>8, <1>9, <1>10, <1>11, <1>12, QuietStep

LEMMA InsertStep == ASSUME IInv, NEW t \in Requests, Insert(t) PROVE IInv'
<1>1. req[t] \in Inserting /\ Active(t, "numbered") /\ NumberOf(req[t]) \in Numbers
  BY Shapes DEF IInv, Insert, Taken, Inserting, NumberOf, Numbers
<1>2. /\ own' = [own EXCEPT ![t][req[t].row] = NumberOf(req[t])]
      /\ rowLocks' = [rowLocks EXCEPT ![t] = @ \cup {req[t].row}]
      /\ req' = [req EXCEPT ![t].pc = "inserted"]
      /\ UNCHANGED <<stored, advisory, born, issued>>
  BY DEF Insert, WriteRow
<1>3. /\ req'[t] = [pc |-> "inserted", row |-> req[t].row, prefix |-> req[t].prefix, n |-> req[t].n]
      /\ \A u \in Requests \ {t} : req'[u] = req[u]
  BY <1>1, <1>2 DEF IInv, TypeOK, Inserting
<1>4. TypeOK'
  <2>1. req'[t] \in Inserting /\ req[t].row \in Rows
    BY <1>1, <1>3 DEF Inserting, Rows
  <2>2. own' \in [Requests -> [Rows -> Cells \cup {Unwritten}]] /\ rowLocks' \in [Requests -> SUBSET Rows]
    BY <1>1, <1>2, <2>1 DEF IInv, TypeOK, Cells
  <2>3. req' \in [Requests -> Creating \cup Counting \cup Inserting \cup Editing \cup {Idle}]
    BY <1>2, <1>3, <2>1 DEF IInv, TypeOK
  <2>. QED BY <1>2, <2>2, <2>3 DEF IInv, TypeOK
<1>5. Locked' /\ Fresh'
  BY <1>1, <1>2, <1>3 DEF IInv, Locked, Fresh, Active, Queued, Counted, Taken, Exists
<1>6. Owning'
  <2>1. own[t] = [NoWrites EXCEPT ![req[t].prefix] = NumberOf(req[t])]
    BY <1>1 DEF IInv, Owning, WritesOf, Active
  <2>2. /\ own'[t] = [NoWrites EXCEPT ![req[t].prefix] = NumberOf(req[t]), ![req[t].row] = NumberOf(req[t])]
        /\ \A u \in Requests \ {t} : own'[u] = own[u]
    BY <1>2, <2>1 DEF IInv, TypeOK
  <2>3. own'[t] = WritesOf(req'[t])
    BY <1>3, <2>2 DEF NumberOf, WritesOf
  <2>. QED BY <1>3, <2>2, <2>3 DEF IInv, Owning
<1>7. /\ \A r \in Records : Exists(r) /\ stored[r].prefix = req[t].prefix => stored[r].n < req[t].n
      /\ stored[req[t].prefix] # NoRow => req[t].n = stored[req[t].prefix].n + 1
  BY <1>1 DEF IInv, Taking, Taken
<1>. QED BY <1>2, <1>3, <1>4, <1>5, <1>6, <1>7, QuietStep DEF Active, Counted, Taken

LEMMA FinishStep == ASSUME IInv, NEW t \in Requests, Finish(t) PROVE IInv'
<1>. DEFINE p == req[t].prefix
            row == req[t].row
            number == NumberOf(req[t])
            entry == [row |-> row, prefix |-> p, n |-> req[t].n]
<1>1. Active(t, "inserted") /\ Taken(t) /\ req[t] \in Inserting
  BY Shapes DEF IInv, Finish, Taken
<1>2. /\ p \in Prefixes /\ row \in Records /\ p \in Rows /\ row \in Rows /\ p # row
      /\ number \in Numbers /\ number.prefix = p /\ number.n = req[t].n /\ number # NoRow
  BY <1>1, NumberingAssumption DEF Inserting, NumberOf, Numbers, Rows
<1>3. stored' = [stored EXCEPT ![p] = number, ![row] = number]
  BY <1>1, CommitEffect DEF IInv, Finish
<1>4. /\ req' = [req EXCEPT ![t] = Idle]
      /\ born' = born \cup {row} /\ issued' = issued \cup {entry}
      /\ own' = [own EXCEPT ![t] = NoWrites]
      /\ rowLocks' = [rowLocks EXCEPT ![t] = {}]
      /\ advisory' = [l \in {"numbering"} |-> IF advisory[l] = t THEN Nobody ELSE advisory[l]]
  BY DEF Finish, Commit, EndTx
<1>5. TypeOK'
  <2>1. stored' \in [Rows -> Cells] /\ \A q \in Prefixes : stored'[q] # NoRow => stored'[q].prefix = q
    BY <1>2, <1>3, NumberingAssumption DEF IInv, TypeOK, Cells, Rows
  <2>2. issued' \in SUBSET [row : Records, prefix : Prefixes, n : 1 .. MaxNumber]
    BY <1>1, <1>2, <1>4 DEF IInv, TypeOK, Inserting
  <2>3. own' \in [Requests -> [Rows -> Cells \cup {Unwritten}]]
    BY <1>4 DEF IInv, TypeOK, NoWrites
  <2>. QED BY <1>2, <1>4, <2>1, <2>2, <2>3 DEF IInv, TypeOK
<1>6. req'[t] = Idle /\ \A u \in Requests \ {t} : req'[u] = req[u]
  BY <1>4 DEF IInv, TypeOK
<1>7. \A u \in Requests : Taken(u) \/ Counted(u) \/ Active(u, "locked") => u = t
  BY <1>1, OneTaker DEF IInv
<1>8. \A u \in Requests : ~Taken(u)' /\ ~Counted(u)' /\ ~Active(u, "locked")'
  BY <1>6, <1>7 DEF Taken, Counted, Active, Idle
<1>9. Locked' /\ Reading' /\ Taking'
  BY <1>8 DEF Locked, Reading, Taking
<1>10. Owning'
  <2>1. own'[t] = NoWrites /\ \A u \in Requests \ {t} : own'[u] = own[u]
    BY <1>4 DEF IInv, TypeOK
  <2>2. WritesOf(Idle) = NoWrites
    BY DEF WritesOf, Idle
  <2>. QED BY <1>6, <2>1, <2>2 DEF IInv, Owning
<1>11. /\ stored'[row] = number /\ stored'[p] = number
       /\ \A r \in Records \ {row} : stored'[r] = stored[r]
       /\ \A q \in Prefixes \ {p} : stored'[q] = stored[q]
  BY <1>2, <1>3, NumberingAssumption DEF IInv, TypeOK, Rows
<1>12. Fresh'
  <2>1. \A u \in Requests : Queued(u)' => u # t /\ Queued(u)
    BY <1>6 DEF Queued, Counted, Taken, Active, Idle
  <2>2. \A u \in Requests : Queued(u) /\ u # t => req[u].row # row
    BY <1>1 DEF IInv, Fresh, Queued
  <2>. QED BY <1>4, <1>6, <1>11, <2>1, <2>2 DEF IInv, Fresh, Exists
<1>13. Keeping'
  <2>. SUFFICES ASSUME NEW u \in Requests, Active(u, "editing")'
                PROVE  /\ (req[u].row \in born)'
                       /\ (Exists(req[u].row) => stored[req[u].row] = NumberOf(req[u]))'
    BY DEF Keeping
  <2>1. u # t /\ req'[u] = req[u] /\ Active(u, "editing")
    BY <1>6 DEF Active, Idle
  <2>2. req[u].row \in born /\ req[u] \in Editing
    BY <2>1, Shapes DEF IInv, Keeping
  <2>3. req[u].row # row /\ req[u].row \in Records
    BY <1>1, <2>2 DEF IInv, Fresh, Queued, Editing
  <2>. QED BY <1>4, <1>11, <2>1, <2>2, <2>3 DEF IInv, Keeping, Exists
<1>14. /\ \A r \in Records : Exists(r) /\ stored[r].prefix = p => stored[r].n < req[t].n
       /\ stored[p] # NoRow => req[t].n = stored[p].n + 1 /\ stored[p].n \in 1 .. MaxNumber
       /\ req[t].n \in 1 .. MaxNumber
  BY <1>1, <1>2 DEF IInv, Taking, Inserting, TypeOK, Cells, Numbers
<1>15. \A x \in issued : x.prefix = p => /\ stored[p] # NoRow /\ x.n <= stored[p].n /\ x.n < req[t].n
                                         /\ x.n \in 1 .. MaxNumber
  <2>. SUFFICES ASSUME NEW x \in issued, x.prefix = p
                PROVE  /\ stored[p] # NoRow /\ x.n <= stored[p].n /\ x.n < req[t].n
                       /\ x.n \in 1 .. MaxNumber
    OBVIOUS
  <2>1. x.n \in 1 .. MaxNumber
    BY DEF IInv, TypeOK
  <2>2. stored[p] # NoRow /\ x.n <= stored[p].n
    BY <1>2 DEF IInv, Counter
  <2>. QED BY <1>14, <2>1, <2>2, NumberingAssumption
<1>16. Counter'
  <2>. SUFFICES ASSUME NEW q \in Prefixes
                PROVE  /\ stored'[q] # NoRow =>
                            /\ \A r \in Records : stored'[r] # NoRow /\ stored'[r].prefix = q
                                                    => stored'[r].n <= stored'[q].n
                            /\ \E x \in issued' : NumberOf(x) = stored'[q]
                       /\ \A x \in issued' : x.prefix = q => stored'[q] # NoRow /\ x.n <= stored'[q].n
    BY DEF Counter, Exists, NumberOf
  <2>1. CASE q = p
    <3>1. \A r \in Records : stored'[r] # NoRow /\ stored'[r].prefix = p => stored'[r].n <= req[t].n
      <4>. SUFFICES ASSUME NEW r \in Records, stored'[r] # NoRow, stored'[r].prefix = p
                    PROVE  stored'[r].n <= req[t].n
        OBVIOUS
      <4>1. CASE r = row
        BY <1>2, <1>11, <1>14, <4>1
      <4>2. CASE r # row
        <5>1. stored[r] = stored'[r] /\ stored[r] \in Numbers
          BY <1>11, <4>2 DEF IInv, TypeOK, Cells, Rows
        <5>. QED BY <1>14, <5>1, NumberingAssumption DEF Exists, Numbers
      <4>. QED BY <4>1, <4>2
    <3>2. entry \in issued' /\ NumberOf(entry) = number
      BY <1>4 DEF NumberOf
    <3>3. \A x \in issued' : x.prefix = p => x.n <= req[t].n
      <4>. SUFFICES ASSUME NEW x \in issued', x.prefix = p PROVE x.n <= req[t].n
        OBVIOUS
      <4>1. CASE x \in issued
        BY <1>14, <1>15, <4>1, NumberingAssumption
      <4>2. CASE x = entry
        BY <1>14, <4>2, NumberingAssumption
      <4>. QED BY <1>4, <4>1, <4>2
    <3>. QED BY <1>2, <1>11, <2>1, <3>1, <3>2, <3>3
  <2>2. CASE q # p
    <3>1. stored'[q] = stored[q]
      BY <1>11, <2>2
    <3>2. \A r \in Records : stored'[r].prefix = q => stored'[r] = stored[r]
      BY <1>2, <1>11, <2>2
    <3>3. \A x \in issued' : x.prefix = q => x \in issued
      BY <1>4, <2>2
    <3>. QED BY <1>4, <3>1, <3>2, <3>3 DEF IInv, Counter, Exists
  <2>. QED BY <2>1, <2>2
<1>17. NumbersUnique'
  <2>1. \A r \in Records : Exists(r) => stored[r] # number
    BY <1>2, <1>14, NumberingAssumption
  <2>. QED BY <1>2, <1>11, <2>1 DEF IInv, NumbersUnique, Exists
<1>18. IssuedOnce'
  <2>1. \A x \in issued : NumberOf(x) # NumberOf(entry)
    BY <1>14, <1>15, NumberingAssumption DEF NumberOf
  <2>. QED BY <1>4, <2>1 DEF IInv, IssuedOnce, NumberOf
<1>19. NoHoles'
  <2>. SUFFICES ASSUME NEW x \in issued', NEW y \in issued', x.prefix = y.prefix, NEW k \in x.n .. y.n
                PROVE  \E z \in issued' : z.prefix = x.prefix /\ z.n = k
    BY DEF NoHoles
  <2>1. CASE x \in issued /\ y \in issued
    BY <1>4, <2>1 DEF IInv, NoHoles
  <2>2. CASE x = entry
    <3>1. y.n <= req[t].n /\ y.n \in Int
      BY <1>4, <1>14, <1>15, <2>2, NumberingAssumption
    <3>2. k = req[t].n
      BY <1>14, <2>2, <3>1
    <3>. QED BY <1>4, <2>2, <3>2
  <2>3. CASE x \in issued /\ y = entry
    <3>1. x.prefix = p /\ stored[p] # NoRow /\ stored[p].n \in Int /\ req[t].n = stored[p].n + 1 /\ x.n \in Int
      BY <1>14, <1>15, <2>3
    <3>2. CASE k = req[t].n
      BY <1>4, <2>3, <3>2
    <3>3. CASE k # req[t].n
      <4>1. k \in x.n .. stored[p].n
        BY <2>3, <3>1, <3>3
      <4>2. PICK last \in issued : NumberOf(last) = stored[p]
        BY <1>2, <3>1 DEF IInv, Counter
      <4>3. last.n = stored[p].n /\ last.prefix = p
        BY <1>2, <3>1, <4>2 DEF IInv, TypeOK, NumberOf
      <4>4. \E z \in issued : z.prefix = x.prefix /\ z.n = k
        BY <2>3, <3>1, <4>1, <4>3 DEF IInv, NoHoles
      <4>. QED BY <1>4, <4>4
    <3>. QED BY <3>2, <3>3
  <2>. QED BY <1>4, <2>1, <2>2, <2>3
<1>. QED BY <1>5, <1>9, <1>10, <1>12, <1>13, <1>16, <1>17, <1>18, <1>19 DEF IInv

LEMMA FailStep == ASSUME IInv, NEW t \in Requests, Fail(t) PROVE IInv'
<1>1. /\ req' = [req EXCEPT ![t] = Idle]
      /\ own' = [own EXCEPT ![t] = NoWrites]
      /\ rowLocks' = [rowLocks EXCEPT ![t] = {}]
      /\ advisory' = [l \in {"numbering"} |-> IF advisory[l] = t THEN Nobody ELSE advisory[l]]
      /\ UNCHANGED <<stored, born, issued>>
  BY DEF Fail, Rollback, EndTx
<1>2. TypeOK'
  BY <1>1 DEF IInv, TypeOK, NoWrites
<1>3. req'[t] = Idle /\ \A u \in Requests \ {t} : req'[u] = req[u]
  BY <1>1 DEF IInv, TypeOK
<1>4. Locked'
  BY <1>1, <1>3 DEF IInv, Locked, Active, Counted, Taken, Idle
<1>5. Owning'
  <2>1. own'[t] = NoWrites /\ \A u \in Requests \ {t} : own'[u] = own[u]
    BY <1>1 DEF IInv, TypeOK
  <2>2. WritesOf(Idle) = NoWrites
    BY DEF WritesOf, Idle
  <2>. QED BY <1>3, <2>1, <2>2 DEF IInv, Owning
<1>6. Fresh'
  BY <1>1, <1>3 DEF IInv, Fresh, Active, Queued, Counted, Taken, Exists, Idle
<1>. QED BY <1>1, <1>2, <1>3, <1>4, <1>5, <1>6, QuietStep DEF Active, Counted, Taken, Idle

\* An edit that finds its record writes what the record already has.
LEMMA WriteEditStep == ASSUME IInv, NEW t \in Requests, WriteEdit(t) PROVE IInv'
<1>1. req[t] \in Editing /\ Active(t, "editing")
  BY Shapes DEF IInv, WriteEdit
<1>2. req' = [req EXCEPT ![t] = Idle] /\ UNCHANGED <<own, rowLocks, advisory, born, issued>>
  BY DEF WriteEdit, AutoCommit, dbState
<1>3. stored' = stored
  <2>1. CASE Exists(req[t].row)
    BY <1>1, <2>1 DEF WriteEdit, AutoCommit, IInv, Keeping, TypeOK
  <2>2. CASE ~Exists(req[t].row)
    BY <2>2 DEF WriteEdit, dbState
  <2>. QED BY <2>1, <2>2
<1>4. TypeOK'
  BY <1>2, <1>3 DEF IInv, TypeOK
<1>5. req'[t] = Idle /\ \A u \in Requests \ {t} : req'[u] = req[u]
  BY <1>2 DEF IInv, TypeOK
<1>6. Locked'
  BY <1>2, <1>5 DEF IInv, Locked, Active, Counted, Taken, Idle
<1>7. Owning'
  BY <1>1, <1>2, <1>5, StillClean DEF IInv, Active, Idle
<1>8. Fresh'
  BY <1>2, <1>3, <1>5 DEF IInv, Fresh, Active, Queued, Counted, Taken, Exists, Idle
<1>. QED BY <1>2, <1>3, <1>4, <1>5, <1>6, <1>7, <1>8, QuietStep DEF Active, Counted, Taken, Idle

\* A delete takes a record away; every number that is left is as it was.
LEMMA DeleteStep == ASSUME IInv, NEW r \in Records, Delete(r) PROVE IInv'
<1>1. /\ stored' = [stored EXCEPT ![r] = NoRow]
      /\ UNCHANGED <<own, rowLocks, advisory, req, born, issued>>
  BY DEF Delete, AutoCommit
<1>2. TypeOK'
  BY <1>1, NumberingAssumption DEF IInv, TypeOK, Cells, Rows
<1>3. /\ \A s \in Records : Exists(s)' => Exists(s) /\ stored'[s] = stored[s]
      /\ \A q \in Prefixes : stored'[q] = stored[q]
  BY <1>1, NumberingAssumption DEF IInv, TypeOK, Rows, Exists
<1>4. Locked' /\ Owning'
  BY <1>1 DEF IInv, Locked, Owning, Active, Counted, Taken
<1>5. Fresh'
  BY <1>1, <1>3 DEF IInv, Fresh, Queued, Active, Counted, Taken
<1>6. Keeping'
  <2>. SUFFICES ASSUME NEW u \in Requests, Active(u, "editing")'
                PROVE  /\ (req[u].row \in born)'
                       /\ (Exists(req[u].row) => stored[req[u].row] = NumberOf(req[u]))'
    BY DEF Keeping
  <2>1. Active(u, "editing") /\ req[u] \in Editing /\ req'[u] = req[u]
    BY <1>1, Shapes DEF IInv, Active
  <2>2. req[u].row \in Records
    BY <2>1 DEF Editing
  <2>. QED BY <1>1, <1>3, <2>1, <2>2 DEF IInv, Keeping
<1>7. Counter'
  BY <1>1, <1>3 DEF IInv, Counter
<1>8. Reading'
  <2>1. \A u \in Requests : Counted(u) => req[u].prefix \in Prefixes
    BY Shapes DEF IInv, Counting
  <2>. QED BY <1>1, <1>3, <2>1 DEF IInv, Reading, Counted, Active
<1>9. Taking'
  <2>1. \A u \in Requests : Taken(u) => req[u].prefix \in Prefixes
    BY Shapes DEF IInv, Inserting
  <2>. QED BY <1>1, <1>3, <2>1 DEF IInv, Taking, Taken, Active
<1>10. NumbersUnique'
  BY <1>1, <1>3 DEF IInv, NumbersUnique, Exists
<1>11. IssuedOnce' /\ NoHoles'
  BY <1>1 DEF IInv, IssuedOnce, NoHoles, NumberOf
<1>. QED BY <1>2, <1>4, <1>5, <1>6, <1>7, <1>8, <1>9, <1>10, <1>11 DEF IInv

LEMMA InvStep == IInv /\ [Next]_vars => IInv'
<1>. SUFFICES ASSUME IInv, [Next]_vars PROVE IInv'
  OBVIOUS
<1>1. CASE UNCHANGED vars
  <2>1. UNCHANGED <<stored, own, rowLocks, advisory, req, born, issued>>
    BY <1>1 DEF vars, dbState
  <2>2. TypeOK' /\ Locked' /\ Owning' /\ Fresh'
    BY <2>1 DEF IInv, TypeOK, Locked, Owning, Fresh, Exists, Active, Counted, Taken, Queued
  <2>3. Keeping' /\ Counter' /\ Reading' /\ Taking'
    BY <2>1 DEF IInv, Keeping, Counter, Reading, Taking, Exists, Active, Counted, Taken
  <2>4. NumbersUnique' /\ IssuedOnce' /\ NoHoles'
    BY <2>1 DEF IInv, NumbersUnique, IssuedOnce, NoHoles, Exists
  <2>. QED BY <2>2, <2>3, <2>4 DEF IInv
<1>2. CASE \E r \in Records : Delete(r)
  BY <1>2, DeleteStep
<1>3. ASSUME NEW t \in Requests, BeginCreate(t) \/ BeginEdit(t) \/ Step(t) \/ Fail(t) PROVE IInv'
  BY <1>3, BeginCreateStep, BeginEditStep, TakeLockStep, HighestNumberStep, NextNumberStep, InsertStep,
     FinishStep, WriteEditStep, FailStep DEF Step
<1>. QED BY <1>1, <1>2, <1>3 DEF Next

-----------------------------------------------------------------------------
(* The theorems.                                                           *)

THEOREM Invariance == Spec => []IInv
BY InitInv, InvStep, PTL DEF Spec

\* Every variable keeps its type.
THEOREM Typed == Spec => []TypeOK
<1>1. IInv => TypeOK BY DEF IInv
<1>. QED BY <1>1, Invariance, PTL

\* Two records never claim one number (internal/domain/numbering.go), on a Machine whose
\* edits are judged by keepsLockedFields.
THEOREM Unique == Spec => []NumbersUnique
<1>1. IInv => NumbersUnique BY DEF IInv
<1>. QED BY <1>1, Invariance, PTL

\* A number is never handed out again, even once its record is deleted (data.Store.NextNumber).
THEOREM NeverReissued == Spec => []IssuedOnce
<1>1. IInv => IssuedOnce BY DEF IInv
<1>. QED BY <1>1, Invariance, PTL

\* A create that fails gives its number back, so the numbers handed out have no hole.
THEOREM Unbroken == Spec => []NoHoles
<1>1. IInv => NoHoles BY DEF IInv
<1>. QED BY <1>1, Invariance, PTL
=============================================================================
