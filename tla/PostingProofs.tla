---------------------------- MODULE PostingProofs ----------------------------
(***************************************************************************)
(* What was posted balances and stays as it was, for every number of       *)
(* requests, entries and lines, while no line is moved as it is written.   *)
(*                                                                         *)
(* The argument: a write of a line holds the locks of the entry the line   *)
(* is under and of the one it goes to (Covered), and a post the lock of    *)
(* its entry, from before they are judged until they commit.  So what was  *)
(* judged stands: neither the line nor the entry, nor the other lines of   *)
(* an entry being posted, are written by anybody else (Judged).            *)
(***************************************************************************)
EXTENDS Posting, TLAPS

-----------------------------------------------------------------------------
(* The inductive invariant.                                                *)

Flying(t) == ~Active(t, "idle")
Past(t) == Active(t, "judged") \/ Active(t, "written")
OnLine(t) == Flying(t) /\ req[t].op # "post"

\* What a request writes matches what it is, and the entry it writes to is among its keys.
Shaped ==
    \A t \in Requests : Flying(t) =>
        /\ req[t].op = "post" => /\ req[t].row \in Entries
                                 /\ req[t].next = [status |-> "posted"]
                                 /\ req[t].keys = {req[t].row}
        /\ req[t].op # "post" => /\ req[t].row \in Lines
                                 /\ req[t].next \in LineRows \cup {NoRow}
                                 /\ EntryOf(req[t].next) \subseteq req[t].keys
        /\ req[t].op \in {"post", "create", "update", "move", "delete"}
        /\ req[t].op = "delete" => req[t].next = NoRow

\* The entry a line is under is among the keys of whoever writes it, as it was when they were
\* worked out, and an update leaves the line there.
Covered ==
    \A t \in Requests : OnLine(t) =>
        /\ EntryOf(stored[req[t].row]) \subseteq req[t].keys
        /\ req[t].op = "update" /\ stored[req[t].row] # NoRow =>
              EntryOf(req[t].next) = EntryOf(stored[req[t].row])

\* A judged request holds every lock it asked for.
Locked == \A t \in Requests : Past(t) => req[t].keys \subseteq Held(t)

\* A transaction has written its one row once it is "written", and nothing before.
Owning ==
    \A t \in Requests :
        own[t] = IF Active(t, "written") THEN [NoWrites EXCEPT ![req[t].row] = req[t].next] ELSE NoWrites

\* Nobody but its creator knows a line before it commits.
Fresh ==
    /\ \A l \in Lines : stored[l] # NoRow => l \in born
    /\ \A t \in Requests : OnLine(t) /\ req[t].op # "create" => req[t].row \in born
    /\ \A t \in Requests : Flying(t) /\ req[t].op = "create" =>
          /\ req[t].row \notin born
          /\ \A u \in Requests \ {t} : Flying(u) => req[u].row # req[t].row

\* What a request was judged on is so until it commits.
Judged ==
    \A t \in Requests : Past(t) =>
        /\ req[t].op = "post" => ~Posted(stored, req[t].row) /\ Balanced(stored, req[t].row)
        /\ req[t].op # "post" => ~Frozen(stored, stored[req[t].row], req[t].next)
        /\ req[t].op \notin {"post", "create"} => stored[req[t].row] # NoRow

Standing == Shaped /\ Covered /\ Locked /\ Owning /\ Fresh /\ Judged /\ PostedBalanced

IInv == TypeOK /\ Standing

-----------------------------------------------------------------------------
(* Lemmas.                                                                 *)

LEMMA FlyingType ==
    ASSUME TypeOK, NEW t \in Requests, Flying(t)
    PROVE  req[t] \in Jobs
BY DEF TypeOK, Flying, Active, Idle

\* An entry whose lines are the same balances as it did.
LEMMA BalanceSame ==
    ASSUME NEW before, NEW after, NEW e,
           \A l \in Lines : EntryOf(before[l]) = {e} \/ EntryOf(after[l]) = {e} => before[l] = after[l]
    PROVE  Balanced(before, e) = Balanced(after, e)
<1>1. LinesOf(before, e) = LinesOf(after, e)
  BY DEF LinesOf
<1>2. [l \in LinesOf(before, e) |-> before[l].amount] = [l \in LinesOf(after, e) |-> after[l].amount]
  BY <1>1 DEF LinesOf
<1>. QED BY <1>1, <1>2 DEF Balanced, Balance

\* A transaction that has written nothing reads what is committed.
LEMMA CleanRead ==
    ASSUME TypeOK, Owning, NEW t \in Requests, ~Active(t, "written")
    PROVE  Snapshot(t) = stored /\ \A r \in Rows : Read(t, r) = stored[r]
<1>1. \A r \in Rows : Read(t, r) = stored[r]
  BY DEF Owning, Read, NoWrites
<1>. QED BY <1>1 DEF Snapshot, TypeOK

\* What a commit does to the committed rows: the one row, and nothing else.
LEMMA CommitEffect ==
    ASSUME TypeOK, Owning, NEW t \in Requests, Active(t, "written"), Commit(t)
    PROVE  stored' = [stored EXCEPT ![req[t].row] = req[t].next]
<1>1. req[t] \in Jobs
  BY DEF TypeOK, Active, Idle
<1>2. own[t] = [NoWrites EXCEPT ![req[t].row] = req[t].next]
  BY DEF Owning
<1>3. req[t].next # Unwritten /\ req[t].row \in Rows
  BY <1>1, PostingAssumption DEF Jobs
<1>4. \A r \in Rows : Read(t, r) = IF r = req[t].row THEN req[t].next ELSE stored[r]
  BY <1>2, <1>3 DEF Read, NoWrites
<1>5. stored' = [r \in Rows |-> Read(t, r)]
  BY DEF Commit, Snapshot
<1>. QED BY <1>4, <1>5 DEF TypeOK

\* Two judged requests hold different locks, and so write different rows.
LEMMA KeysApart ==
    ASSUME TypeOK, Locked, NEW t \in Requests, NEW u \in Requests \ {t}, Past(t), Past(u)
    PROVE  req[t].keys \cap req[u].keys = {}
BY DEF Locked, Held

LEMMA RowsApart ==
    ASSUME IInv, NEW t \in Requests, NEW u \in Requests \ {t}, Past(t), Past(u)
    PROVE  req[t].row # req[u].row
<1>. USE DEF IInv, Standing
<1>1. Flying(t) /\ Flying(u) /\ req[t].keys \cap req[u].keys = {}
  BY KeysApart DEF Past, Flying, Active
<1>2. CASE req[t].op = "post"
  BY <1>1, <1>2, PostingAssumption DEF Shaped
<1>3. CASE req[u].op = "post"
  BY <1>1, <1>3, PostingAssumption DEF Shaped
<1>4. CASE req[t].op = "create" \/ req[u].op = "create"
  BY <1>1, <1>4 DEF Fresh
<1>5. CASE req[t].op \notin {"post", "create"} /\ req[u].op \notin {"post", "create"}
  <2>1. stored[req[t].row] # NoRow /\ EntryOf(stored[req[t].row]) \subseteq req[t].keys
    BY <1>1, <1>5 DEF Judged, Covered, OnLine
  <2>2. EntryOf(stored[req[u].row]) \subseteq req[u].keys
    BY <1>1, <1>5 DEF Covered, OnLine
  <2>3. EntryOf(stored[req[t].row]) # {}
    BY <2>1 DEF EntryOf
  <2>. QED BY <1>1, <2>1, <2>2, <2>3
<1>. QED BY <1>2, <1>3, <1>4, <1>5

-----------------------------------------------------------------------------
(* The initial state, and types.                                           *)

LEMMA InitInv == Init => IInv
<1>. SUFFICES ASSUME Init PROVE IInv
  OBVIOUS
<1>1. \A t \in Requests : req[t] = Idle /\ own[t] = NoWrites
  BY DEF Init, OpenDatabase
<1>2. /\ \A e \in Entries : stored[e] = [status |-> "draft"]
      /\ \A l \in Lines : stored[l] = NoRow
      /\ born = {}
  BY PostingAssumption DEF Init, OpenDatabase, Rows
<1>3. TypeOK
  <2>1. stored \in [Rows -> Cells] /\ \A e \in Entries : stored[e] \in EntryRows
    BY <1>2 DEF Init, OpenDatabase, Rows, Cells, EntryRows
  <2>2. own \in [Requests -> [Rows -> Cells \cup {Unwritten}]]
    BY DEF Init, OpenDatabase, NoWrites
  <2>. QED BY <1>2, <2>1, <2>2 DEF TypeOK, Init, OpenDatabase
<1>4. \A t \in Requests : Active(t, "idle") /\ ~Active(t, "judged") /\ ~Active(t, "written")
  BY <1>1 DEF Active, Idle
<1>5. Shaped /\ Covered /\ Locked /\ Owning /\ Fresh /\ Judged
  BY <1>1, <1>2, <1>4 DEF Shaped, Covered, Locked, Owning, Fresh, Judged, Flying, Past, OnLine
<1>6. PostedBalanced
  BY <1>2 DEF PostedBalanced, Posted
<1>. QED BY <1>3, <1>5, <1>6 DEF IInv, Standing

\* What the request of a line begins with.
LEMMA LinesBegin ==
    ASSUME TypeOK, NEW t \in Requests, BeginCreate(t) \/ BeginUpdate(t) \/ BeginMove(t) \/ BeginDelete(t)
    PROVE  \E op \in {"create", "update", "move", "delete"}, l \in Lines, next \in LineRows \cup {NoRow} :
              /\ BeginLine(t, op, l, next)
              /\ op = "create" => l \in FreshIds
              /\ op # "create" => stored[l] # NoRow
              /\ op = "update" => next # NoRow /\ next.entry = stored[l].entry
              /\ op = "delete" => next = NoRow
<1>1. CASE BeginCreate(t)
  BY <1>1, PostingAssumption DEF BeginCreate, FreshIds
<1>2. CASE BeginUpdate(t)
  <2>1. PICK l \in Lines, a \in Amounts : stored[l] # NoRow /\ BeginLine(t, "update", l, [stored[l] EXCEPT !.amount = a])
    BY <1>2 DEF BeginUpdate
  <2>2. stored[l] \in LineRows
    BY <2>1 DEF TypeOK
  <2>3. [stored[l] EXCEPT !.amount = a] \in LineRows /\ [stored[l] EXCEPT !.amount = a].entry = stored[l].entry
    BY <2>2 DEF LineRows
  <2>. QED BY <2>1, <2>3, PostingAssumption
<1>3. CASE BeginMove(t)
  <2>1. PICK l \in Lines, e \in Entries : stored[l] # NoRow /\ BeginLine(t, "move", l, [stored[l] EXCEPT !.entry = e])
    BY <1>3 DEF BeginMove
  <2>2. stored[l] \in LineRows
    BY <2>1 DEF TypeOK
  <2>3. [stored[l] EXCEPT !.entry = e] \in LineRows
    BY <2>2 DEF LineRows
  <2>. QED BY <2>1, <2>3
<1>4. CASE BeginDelete(t)
  BY <1>4 DEF BeginDelete
<1>. QED BY <1>1, <1>2, <1>3, <1>4

LEMMA TypeStep == TypeOK /\ Shaped /\ Owning /\ [Next]_vars => TypeOK'
<1>. SUFFICES ASSUME TypeOK, Shaped, Owning, [Next]_vars PROVE TypeOK'
  OBVIOUS
<1>. USE DEF TypeOK
<1>1. ASSUME NEW t \in Requests, NEW op, NEW r \in Rows, NEW next \in Cells, NEW keys \in SUBSET Entries,
             Begin(t, op, r, next, keys)
      PROVE  TypeOK'
  <2>1. [pc |-> "locking", op |-> op, row |-> r, next |-> next, keys |-> keys] \in Jobs
    BY <1>1 DEF Jobs, Begin
  <2>. QED BY <1>1, <2>1 DEF Begin, dbState
<1>2. ASSUME NEW t \in Requests, BeginPost(t) PROVE TypeOK'
  <2>1. PICK e \in Entries : Begin(t, "post", e, [status |-> "posted"], {e})
    BY <1>2 DEF BeginPost
  <2>2. e \in Rows /\ [status |-> "posted"] \in Cells /\ {e} \in SUBSET Entries
    BY DEF Rows, Cells, EntryRows
  <2>. QED BY <1>1, <2>1, <2>2
<1>3. ASSUME NEW t \in Requests, BeginCreate(t) \/ BeginUpdate(t) \/ BeginMove(t) \/ BeginDelete(t) PROVE TypeOK'
  <2>1. \E op \in {"create", "update", "move", "delete"}, l \in Lines, next \in LineRows \cup {NoRow} :
           BeginLine(t, op, l, next)
    BY <1>3, LinesBegin
  <2>2. PICK op \in {"create", "update", "move", "delete"}, l \in Lines, next \in LineRows \cup {NoRow} :
           BeginLine(t, op, l, next)
    BY <2>1
  <2>3. LineKeys(stored[l], next) \in SUBSET Entries
    BY DEF LineKeys, EntryOf, LineRows
  <2>. QED BY <1>1, <2>2, <2>3 DEF BeginLine, Rows, Cells
<1>4. ASSUME NEW t \in Requests, Refuse(t) PROVE TypeOK'
  BY <1>4 DEF Refuse, Rollback, EndTx, NoWrites
<1>5. ASSUME NEW t \in Requests, TakeLock(t) PROVE TypeOK'
  <2>1. advisory' \in [Entries -> Requests \cup {Nobody}]
    BY <1>5 DEF TakeLock, AdvisoryLock
  <2>. QED BY <1>5, <2>1 DEF TakeLock, AdvisoryLock
<1>6. ASSUME NEW t \in Requests, JudgePost(t) \/ JudgeLine(t) PROVE TypeOK'
  <2>1. CASE Refuse(t)
    BY <2>1, <1>4
  <2>2. CASE req' = [req EXCEPT ![t].pc = "judged"] /\ UNCHANGED <<dbState, born>>
    <3>1. req[t] \in Jobs
      BY <1>6 DEF JudgePost, JudgeLine, JudgeBy, Active, Idle
    <3>2. [req[t] EXCEPT !.pc = "judged"] \in Jobs
      BY <3>1 DEF Jobs
    <3>. QED BY <2>2, <3>2 DEF dbState
  <2>. QED BY <1>6, <2>1, <2>2 DEF JudgePost, JudgeLine, JudgeBy
<1>7. ASSUME NEW t \in Requests, Write(t) PROVE TypeOK'
  <2>1. CASE Refuse(t)
    BY <2>1, <1>4
  <2>2. CASE /\ WriteRow(t, req[t].row, req[t].next)
             /\ req' = [req EXCEPT ![t].pc = "written"]
             /\ UNCHANGED born
    <3>1. req[t] \in Jobs
      BY <1>7 DEF Write, Active, Idle
    <3>2. [req[t] EXCEPT !.pc = "written"] \in Jobs
      BY <3>1 DEF Jobs
    <3>3. req[t].row \in Rows /\ req[t].next \in Cells
      BY <3>1 DEF Jobs
    <3>. QED BY <2>2, <3>2, <3>3 DEF WriteRow
  <2>. QED BY <1>7, <2>1, <2>2 DEF Write
<1>8. ASSUME NEW t \in Requests, Finish(t) PROVE TypeOK'
  <2>1. stored' = [stored EXCEPT ![req[t].row] = req[t].next] /\ Flying(t) /\ req[t] \in Jobs
    BY <1>8, CommitEffect, FlyingType DEF Finish, Flying, Active
  <2>2. stored' \in [Rows -> Cells]
    BY <2>1 DEF Jobs
  <2>3. /\ \A e \in Entries : stored'[e] \in EntryRows
        /\ \A l \in Lines : stored'[l] \in LineRows \cup {NoRow}
    <3>1. req[t].op = "post" => req[t].row \in Entries /\ req[t].next \in EntryRows
      BY <1>8, <2>1 DEF Shaped, EntryRows
    <3>2. req[t].op # "post" => req[t].row \in Lines /\ req[t].next \in LineRows \cup {NoRow}
      BY <1>8, <2>1 DEF Shaped
    <3>. QED BY <2>1, <3>1, <3>2, PostingAssumption DEF Rows
  <2>. QED BY <1>8, <2>2, <2>3 DEF Finish, Commit, EndTx, NoWrites
<1>9. CASE UNCHANGED vars
  BY <1>9 DEF vars, dbState
<1>. QED
  BY <1>2, <1>3, <1>4, <1>5, <1>6, <1>7, <1>8, <1>9 DEF Next, Step, Fail

-----------------------------------------------------------------------------
(* The actions.                                                            *)

\* A request begins: its keys are those of the line as it is stored.
LEMMA BeginStep ==
    ASSUME IInv, NEW t \in Requests, NEW op, NEW r, NEW next, NEW keys, Begin(t, op, r, next, keys),
           /\ op = "post" /\ r \in Entries /\ next = [status |-> "posted"] /\ keys = {r}
           \/ /\ op \in {"create", "update", "move", "delete"} /\ r \in Lines
              /\ next \in LineRows \cup {NoRow} /\ keys = LineKeys(stored[r], next)
              /\ op = "create" => r \in FreshIds
              /\ op # "create" => stored[r] # NoRow
              /\ op = "update" => next # NoRow /\ next.entry = stored[r].entry
              /\ op = "delete" => next = NoRow
    PROVE  Standing'
<1>. USE DEF IInv, Standing
<1>1. /\ \A u \in Requests \ {t} : req'[u] = req[u]
      /\ req'[t].pc = "locking" /\ req'[t].op = op /\ req'[t].row = r
      /\ req'[t].next = next /\ req'[t].keys = keys
      /\ Active(t, "idle") /\ UNCHANGED <<stored, own, rowLocks, advisory, born>>
  BY DEF Begin, dbState, TypeOK
<1>2. /\ ~Past(t)' /\ Flying(t)' /\ ~Active(t, "written") /\ ~Active(t, "written")' /\ ~Flying(t)
      /\ \A u \in Requests \ {t} : /\ Flying(u)' = Flying(u) /\ Past(u)' = Past(u)
                                   /\ Active(u, "written")' = Active(u, "written")
  BY <1>1 DEF Past, Flying, Active
<1>3. Shaped'
  BY <1>1, <1>2 DEF Shaped, LineKeys
<1>4. Covered'
  <2>1. op # "post" => /\ EntryOf(stored[r]) \subseteq keys
                       /\ op = "update" /\ stored[r] # NoRow => EntryOf(next) = EntryOf(stored[r])
    BY DEF LineKeys, EntryOf
  <2>2. OnLine(t)' => /\ EntryOf(stored'[req'[t].row]) \subseteq req'[t].keys
                      /\ req'[t].op = "update" /\ stored'[req'[t].row] # NoRow =>
                            EntryOf(req'[t].next) = EntryOf(stored'[req'[t].row])
    BY <1>1, <2>1 DEF OnLine
  <2>3. \A u \in Requests \ {t} : OnLine(u)' = OnLine(u)
    BY <1>1, <1>2 DEF OnLine
  <2>. QED BY <1>1, <2>2, <2>3 DEF Covered
<1>5. Locked'
  BY <1>1, <1>2 DEF Locked, Held
<1>6. Owning'
  BY <1>1, <1>2 DEF Owning
<1>7. Fresh'
  <2>1. op = "create" => r \notin born /\ \A u \in Requests : Flying(u) => req[u].row # r
    BY DEF FreshIds, Flying
  <2>2. ASSUME NEW u \in Requests \ {t}, Flying(u), req[u].op = "create" PROVE req[u].row \notin born /\ req[u].row # r
    <3>1. req[u].row \in Lines /\ req[u].row \notin born
      BY <2>2 DEF Fresh, Shaped
    <3>2. op \in {"update", "move", "delete"} => r \in born
      BY DEF Fresh
    <3>. QED BY <2>1, <2>2, <3>1, <3>2, PostingAssumption
  <2>3. op \notin {"post", "create"} => r \in born
    BY DEF Fresh
  <2>. QED BY <1>1, <1>2, <2>1, <2>2, <2>3 DEF Fresh, OnLine
<1>8. Judged' /\ PostedBalanced'
  BY <1>1, <1>2 DEF Judged, PostedBalanced
<1>. QED BY <1>3, <1>4, <1>5, <1>6, <1>7, <1>8

\* A request is given up: what is committed stays, and its locks are freed.
LEMMA RefuseStep ==
    ASSUME IInv, NEW t \in Requests, Refuse(t)
    PROVE  Standing'
<1>. USE DEF IInv, Standing
<1>1. /\ \A u \in Requests \ {t} : req'[u] = req[u] /\ own'[u] = own[u]
      /\ req'[t] = Idle /\ own'[t] = NoWrites /\ UNCHANGED <<stored, born>>
  BY DEF Refuse, Rollback, EndTx, TypeOK
<1>2. \A u \in Requests \ {t} : Held(u)' = Held(u)
  BY PostingAssumption DEF Refuse, Rollback, EndTx, Held
<1>3. /\ ~Past(t)' /\ ~Flying(t)' /\ ~Active(t, "written")'
      /\ \A u \in Requests \ {t} : /\ Flying(u)' = Flying(u) /\ Past(u)' = Past(u)
                                   /\ Active(u, "written")' = Active(u, "written")
  BY <1>1 DEF Past, Flying, Active, Idle
<1>4. Shaped' /\ Covered'
  BY <1>1, <1>3 DEF Shaped, Covered, OnLine
<1>5. Locked' /\ Owning'
  BY <1>1, <1>2, <1>3 DEF Locked, Owning
<1>6. Fresh'
  BY <1>1, <1>3 DEF Fresh, OnLine
<1>7. Judged' /\ PostedBalanced'
  BY <1>1, <1>3 DEF Judged, PostedBalanced
<1>. QED BY <1>4, <1>5, <1>6, <1>7

LEMMA TakeLockStep ==
    ASSUME IInv, NEW t \in Requests, TakeLock(t)
    PROVE  Standing'
<1>. USE DEF IInv, Standing
<1>1. UNCHANGED <<stored, own, rowLocks, req, born>>
  BY DEF TakeLock, AdvisoryLock
<1>2. \A u \in Requests : Held(u) \subseteq Held(u)'
  BY PostingAssumption DEF TakeLock, AdvisoryLock, Held, TypeOK
<1>3. Locked'
  BY <1>1, <1>2 DEF Locked, Past, Active
<1>. QED
  BY <1>1, <1>3 DEF Shaped, Covered, Owning, Fresh, Judged, PostedBalanced, OnLine, Flying, Past, Active

\* What a step leaves of the invariant when it changes nothing that is committed, but the
\* point one request has reached.
LEMMA AdvanceEffect ==
    ASSUME TypeOK, NEW t \in Requests, Flying(t), NEW pc \in {"judged", "written"},
           req' = [req EXCEPT ![t].pc = pc]
    PROVE  /\ \A u \in Requests \ {t} : req'[u] = req[u]
           /\ req'[t].pc = pc
           /\ \A u \in Requests : /\ req'[u].op = req[u].op /\ req'[u].row = req[u].row
                                  /\ req'[u].next = req[u].next /\ req'[u].keys = req[u].keys
           /\ \A u \in Requests : Flying(u)' = Flying(u) /\ OnLine(u)' = OnLine(u)
           /\ \A u \in Requests \ {t} : Past(u)' = Past(u) /\ Active(u, "written")' = Active(u, "written")
<1>1. req[t] \in Jobs
  BY FlyingType
<1>2. /\ \A u \in Requests \ {t} : req'[u] = req[u]
      /\ req'[t].pc = pc /\ req'[t].op = req[t].op /\ req'[t].row = req[t].row
      /\ req'[t].next = req[t].next /\ req'[t].keys = req[t].keys
  BY <1>1 DEF TypeOK, Jobs
<1>. QED BY <1>2 DEF Flying, OnLine, Past, Active

\* Being judged: the request holds its keys, and what it read is what is committed.
LEMMA JudgeStep ==
    ASSUME IInv, NEW t \in Requests, JudgePost(t) \/ JudgeLine(t)
    PROVE  Standing'
<1>. USE DEF IInv, Standing
<1>1. CASE Refuse(t)
  BY <1>1, RefuseStep
<1>2. CASE req' = [req EXCEPT ![t].pc = "judged"] /\ UNCHANGED <<dbState, born>> /\ ~Refuse(t)
  <2>1. /\ Active(t, "locking") /\ Flying(t) /\ ~Past(t) /\ ~Active(t, "written")
        /\ req[t].keys \subseteq Held(t) /\ UNCHANGED <<stored, own, rowLocks, advisory, born>>
    BY <1>2 DEF JudgePost, JudgeLine, JudgeBy, Flying, Past, Active, dbState
  <2>2. /\ \A u \in Requests \ {t} : req'[u] = req[u]
        /\ req'[t].pc = "judged"
        /\ \A u \in Requests : /\ req'[u].op = req[u].op /\ req'[u].row = req[u].row
                               /\ req'[u].next = req[u].next /\ req'[u].keys = req[u].keys
        /\ \A u \in Requests : Flying(u)' = Flying(u) /\ OnLine(u)' = OnLine(u)
        /\ \A u \in Requests \ {t} : Past(u)' = Past(u) /\ Active(u, "written")' = Active(u, "written")
    BY <1>2, <2>1, AdvanceEffect
  <2>3. /\ Snapshot(t) = stored
        /\ req[t].row \in Rows /\ Read(t, req[t].row) = stored[req[t].row]
    BY <2>1, CleanRead, FlyingType DEF Jobs
  <2>4. /\ req[t].op = "post" => ~Posted(stored, req[t].row) /\ Balanced(stored, req[t].row)
        /\ req[t].op # "post" => ~Frozen(stored, stored[req[t].row], req[t].next)
        /\ req[t].op \notin {"post", "create"} => stored[req[t].row] # NoRow
    BY <1>2, <2>3 DEF JudgePost, JudgeLine, JudgeBy
  <2>5. ~Active(t, "written")'
    BY <2>2 DEF Active
  <2>6. Shaped'
    BY <2>2 DEF Shaped
  <2>7. Covered'
    BY <2>1, <2>2 DEF Covered
  <2>8. Locked'
    <3>1. \A u \in Requests : Held(u)' = Held(u)
      BY <2>1 DEF Held
    <3>. QED BY <2>1, <2>2, <3>1 DEF Locked
  <2>9. Owning'
    BY <2>1, <2>2, <2>5 DEF Owning
  <2>10. Fresh'
    BY <2>1, <2>2 DEF Fresh
  <2>11. Judged'
    BY <2>1, <2>2, <2>4 DEF Judged
  <2>12. PostedBalanced'
    BY <2>1 DEF PostedBalanced
  <2>. QED BY <2>6, <2>7, <2>8, <2>9, <2>10, <2>11, <2>12
<1>. QED BY <1>1, <1>2 DEF JudgePost, JudgeLine, JudgeBy

LEMMA WriteStep ==
    ASSUME IInv, NEW t \in Requests, Write(t)
    PROVE  Standing'
<1>. USE DEF IInv, Standing
<1>1. CASE Refuse(t)
  BY <1>1, RefuseStep
<1>2. CASE /\ WriteRow(t, req[t].row, req[t].next)
           /\ req' = [req EXCEPT ![t].pc = "written"]
           /\ UNCHANGED born
  <2>1. Active(t, "judged") /\ Flying(t) /\ Past(t) /\ ~Active(t, "written") /\ UNCHANGED <<stored, advisory, born>>
    BY <1>2 DEF Write, WriteRow, Flying, Past, Active
  <2>2. /\ \A u \in Requests \ {t} : req'[u] = req[u]
        /\ req'[t].pc = "written"
        /\ \A u \in Requests : /\ req'[u].op = req[u].op /\ req'[u].row = req[u].row
                               /\ req'[u].next = req[u].next /\ req'[u].keys = req[u].keys
        /\ \A u \in Requests : Flying(u)' = Flying(u) /\ OnLine(u)' = OnLine(u)
        /\ \A u \in Requests \ {t} : Past(u)' = Past(u) /\ Active(u, "written")' = Active(u, "written")
    BY <1>2, <2>1, AdvanceEffect
  <2>3. Active(t, "written")' /\ \A u \in Requests : Past(u)' = Past(u) /\ Held(u)' = Held(u)
    BY <2>1, <2>2 DEF Past, Active, Held
  <2>4. /\ \A u \in Requests \ {t} : own'[u] = own[u]
        /\ own'[t] = [NoWrites EXCEPT ![req[t].row] = req[t].next]
    BY <1>2, <2>1 DEF WriteRow, Owning, TypeOK
  <2>5. Shaped' /\ Locked'
    BY <2>2, <2>3 DEF Shaped, Locked
  <2>6. Covered'
    BY <2>1, <2>2 DEF Covered
  <2>7. Owning'
    <3>1. \A u \in Requests \ {t} : [NoWrites EXCEPT ![req'[u].row] = req'[u].next] = [NoWrites EXCEPT ![req[u].row] = req[u].next]
      BY <2>2
    <3>2. \A u \in Requests \ {t} :
             own'[u] = IF Active(u, "written")' THEN [NoWrites EXCEPT ![req'[u].row] = req'[u].next] ELSE NoWrites
      BY <2>2, <2>4, <3>1 DEF Owning
    <3>3. own'[t] = [NoWrites EXCEPT ![req'[t].row] = req'[t].next]
      BY <2>2, <2>4
    <3>. QED BY <2>3, <3>2, <3>3 DEF Owning
  <2>8. Fresh'
    BY <2>1, <2>2 DEF Fresh
  <2>9. Judged' /\ PostedBalanced'
    BY <2>1, <2>2, <2>3 DEF Judged, PostedBalanced
  <2>. QED BY <2>5, <2>6, <2>7, <2>8, <2>9
<1>. QED BY <1>1, <1>2 DEF Write

\* The commit: what the request was judged on still stands, and nobody else's judgement is
\* worse off, since the entries it touches are locked by it alone.
LEMMA FinishStep ==
    ASSUME IInv, Apart, NEW t \in Requests, Finish(t)
    PROVE  /\ Standing'
           /\ \A l \in Lines, e \in Entries :
                 Posted(stored, e) /\ e \in EntryOf(stored[l]) \cup EntryOf(stored'[l]) => stored'[l] = stored[l]
<1>. USE DEF IInv, Standing
<1>. DEFINE row == req[t].row  next == req[t].next
<1>1. Active(t, "written") /\ Flying(t) /\ Past(t) /\ Commit(t) /\ req[t] \in Jobs
  BY FlyingType DEF Finish, Flying, Past, Active
<1>2. stored' = [stored EXCEPT ![row] = next] /\ row \in Rows
  BY <1>1, CommitEffect DEF Jobs
<1>3. /\ \A u \in Requests \ {t} : req'[u] = req[u] /\ own'[u] = own[u]
      /\ req'[t] = Idle /\ own'[t] = NoWrites /\ born' = born \cup ({row} \cap Lines)
  BY DEF Finish, Commit, EndTx, TypeOK
<1>4. \A u \in Requests \ {t} : Held(u)' = Held(u)
  BY PostingAssumption DEF Finish, Commit, EndTx, Held
<1>5. /\ ~Past(t)' /\ ~Flying(t)' /\ ~Active(t, "written")'
      /\ \A u \in Requests \ {t} : /\ Flying(u)' = Flying(u) /\ Past(u)' = Past(u) /\ OnLine(u)' = OnLine(u)
                                   /\ Active(u, "written")' = Active(u, "written")
  BY <1>3 DEF Past, Flying, OnLine, Active, Idle
<1>6. Shaped' /\ Locked' /\ Owning'
  BY <1>3, <1>4, <1>5 DEF Shaped, Locked, Owning
<1>7. \A r \in Rows \ {row} : stored'[r] = stored[r]
  BY <1>2 DEF TypeOK
<1>8. stored'[row] = next
  BY <1>2 DEF TypeOK
<1>9. \A u \in Requests \ {t} : Flying(u) => req[u].row \in Rows
  BY FlyingType DEF Jobs
<1>10. Fresh'
  <2>1. \A l \in Lines : stored'[l] # NoRow => l \in born'
    BY <1>3, <1>7 DEF Fresh, Rows
  <2>2. ASSUME NEW u \in Requests \ {t}, Flying(u), req[u].op = "create" PROVE req[u].row \notin born'
    <3>1. req[u].row # row
      BY <1>1, <2>2 DEF Fresh
    <3>. QED BY <1>3, <2>2, <3>1 DEF Fresh
  <2>3. \A u \in Requests \ {t} : OnLine(u) /\ req[u].op # "create" => req[u].row \in born'
    BY <1>3 DEF Fresh
  <2>4. \A u \in Requests \ {t}, v \in Requests \ {t} :
           u # v /\ Flying(u) /\ Flying(v) /\ req[u].op = "create" => req[v].row # req[u].row
    BY DEF Fresh
  <2>5. ~OnLine(t)'
    BY <1>5 DEF OnLine
  <2>. QED BY <1>3, <1>5, <2>1, <2>2, <2>3, <2>4, <2>5 DEF Fresh
<1>11. Covered'
  <2>. SUFFICES ASSUME NEW u \in Requests \ {t}, OnLine(u)
                PROVE  /\ EntryOf(stored'[req[u].row]) \subseteq req[u].keys
                       /\ req[u].op = "update" /\ stored'[req[u].row] # NoRow =>
                             EntryOf(req[u].next) = EntryOf(stored'[req[u].row])
    BY <1>3, <1>5 DEF Covered, OnLine
  <2>1. Flying(u) /\ req[u].op # "post" /\ req[u].row \in Lines
    BY DEF OnLine, Shaped
  <2>2. CASE req[u].row # row
    BY <1>7, <1>9, <2>1, <2>2 DEF Covered
  <2>3. CASE req[u].row = row
    <3>1. req[t].op \in {"update", "delete"}
      <4>1. req[t].op # "post"
        BY <1>1, <2>1, <2>3, PostingAssumption DEF Shaped
      <4>2. req[t].op # "create"
        BY <1>1, <2>1, <2>3 DEF Fresh
      <4>3. req[t].op # "move"
        BY <1>1, <2>1, <2>3 DEF Apart, Collide, Flying
      <4>. QED BY <1>1, <4>1, <4>2, <4>3 DEF Shaped
    <3>2. CASE req[t].op = "delete"
      BY <1>1, <1>8, <2>3, <3>2 DEF Shaped, EntryOf
    <3>3. CASE req[t].op = "update"
      <4>1. EntryOf(next) = EntryOf(stored[row]) /\ stored[row] # NoRow
        BY <1>1, <3>3 DEF Covered, OnLine, Judged
      <4>. QED BY <1>8, <2>3, <4>1 DEF Covered
    <3>. QED BY <3>1, <3>2, <3>3
  <2>. QED BY <2>2, <2>3
<1>12. \A e \in Entries : (\A l \in Lines : stored'[l] = stored[l]) => Balanced(stored', e) = Balanced(stored, e)
  BY BalanceSame
<1>13. CASE req[t].op = "post"
  <2>1. row \in Entries /\ next = [status |-> "posted"] /\ req[t].keys = {row} /\ Balanced(stored, row)
    BY <1>1, <1>13 DEF Shaped, Judged
  <2>2. /\ \A l \in Lines : stored'[l] = stored[l]
        /\ \A e \in Entries \ {row} : stored'[e] = stored[e]
        /\ \A e \in Entries : Balanced(stored', e) = Balanced(stored, e)
    BY <1>7, <1>12, <2>1, PostingAssumption DEF Rows
  <2>3. PostedBalanced'
    BY <2>1, <2>2 DEF PostedBalanced, Posted
  <2>4. Judged'
    <3>. SUFFICES ASSUME NEW u \in Requests \ {t}, Past(u)
                  PROVE  /\ req[u].op = "post" => ~Posted(stored', req[u].row) /\ Balanced(stored', req[u].row)
                         /\ req[u].op # "post" => ~Frozen(stored', stored'[req[u].row], req[u].next)
                         /\ req[u].op \notin {"post", "create"} => stored'[req[u].row] # NoRow
      BY <1>3, <1>5 DEF Judged
    <3>1. Flying(u) /\ row \notin req[u].keys
      BY <1>1, <2>1, KeysApart DEF Past, Flying, Active
    <3>2. CASE req[u].op = "post"
      BY <2>2, <3>1, <3>2 DEF Judged, Shaped, Posted
    <3>3. CASE req[u].op # "post"
      <4>1. req[u].row \in Lines /\ EntryOf(stored[req[u].row]) \cup EntryOf(req[u].next) \subseteq req[u].keys
        BY <3>1, <3>3 DEF Shaped, Covered, OnLine
      <4>2. stored'[req[u].row] = stored[req[u].row]
        BY <2>2, <4>1
      <4>3. \A e \in req[u].keys : Posted(stored', e) = Posted(stored, e)
        BY <2>2, <3>1, FlyingType DEF Posted, Jobs
      <4>. QED BY <3>3, <4>1, <4>2, <4>3 DEF Judged, Frozen
    <3>. QED BY <3>2, <3>3
  <2>. QED BY <1>6, <1>10, <1>11, <2>2, <2>3, <2>4
<1>14. CASE req[t].op # "post"
  <2>. DEFINE touched == EntryOf(stored[row]) \cup EntryOf(next)
  <2>1. row \in Lines /\ touched \subseteq req[t].keys /\ \A e \in touched : ~Posted(stored, e)
    BY <1>1, <1>14 DEF Shaped, Covered, OnLine, Judged, Frozen
  <2>2. /\ \A l \in Lines \ {row} : stored'[l] = stored[l]
        /\ \A e \in Entries : stored'[e] = stored[e]
    BY <1>7, <2>1, PostingAssumption DEF Rows
  <2>3. \A e \in Entries \ touched : Balanced(stored', e) = Balanced(stored, e)
    <3>1. ASSUME NEW e \in Entries \ touched PROVE Balanced(stored', e) = Balanced(stored, e)
      <4>1. EntryOf(stored[row]) # {e} /\ EntryOf(stored'[row]) # {e}
        BY <1>8, <3>1
      <4>2. \A l \in Lines : EntryOf(stored'[l]) = {e} \/ EntryOf(stored[l]) = {e} => stored'[l] = stored[l]
        BY <2>2, <4>1
      <4>. QED BY <4>2, BalanceSame
    <3>. QED BY <3>1
  <2>4. PostedBalanced'
    BY <2>1, <2>2, <2>3 DEF PostedBalanced, Posted
  <2>5. Judged'
    <3>. SUFFICES ASSUME NEW u \in Requests \ {t}, Past(u)
                  PROVE  /\ req[u].op = "post" => ~Posted(stored', req[u].row) /\ Balanced(stored', req[u].row)
                         /\ req[u].op # "post" => ~Frozen(stored', stored'[req[u].row], req[u].next)
                         /\ req[u].op \notin {"post", "create"} => stored'[req[u].row] # NoRow
      BY <1>3, <1>5 DEF Judged
    <3>1. Flying(u) /\ req[t].keys \cap req[u].keys = {} /\ req[u].row # row
      BY <1>1, KeysApart, RowsApart DEF Past, Flying, Active
    <3>2. CASE req[u].op = "post"
      <4>1. req[u].row \in Entries \ touched
        BY <2>1, <3>1, <3>2 DEF Shaped
      <4>. QED BY <2>2, <2>3, <3>2, <4>1 DEF Judged, Posted
    <3>3. CASE req[u].op # "post"
      <4>1. req[u].row \in Lines /\ EntryOf(stored[req[u].row]) \cup EntryOf(req[u].next) \subseteq req[u].keys
        BY <3>1, <3>3 DEF Shaped, Covered, OnLine
      <4>2. stored'[req[u].row] = stored[req[u].row]
        BY <2>2, <3>1, <4>1
      <4>3. \A e \in req[u].keys : Posted(stored', e) = Posted(stored, e)
        BY <2>2, <3>1, FlyingType DEF Posted, Jobs
      <4>. QED BY <3>3, <4>1, <4>2, <4>3 DEF Judged, Frozen
    <3>. QED BY <3>2, <3>3
  <2>6. \A l \in Lines, e \in Entries :
           Posted(stored, e) /\ e \in EntryOf(stored[l]) \cup EntryOf(stored'[l]) => stored'[l] = stored[l]
    BY <1>8, <2>1, <2>2
  <2>. QED BY <1>6, <1>10, <1>11, <2>4, <2>5, <2>6
<1>. QED BY <1>13, <1>14

LEMMA InvStep == IInv /\ Apart /\ [Next]_vars => IInv'
<1>. SUFFICES ASSUME IInv, Apart, [Next]_vars PROVE IInv'
  OBVIOUS
<1>1. TypeOK'
  BY TypeStep DEF IInv, Standing
<1>2. CASE Next
  <2>1. ASSUME NEW t \in Requests, BeginPost(t) PROVE Standing'
    BY <2>1, BeginStep DEF BeginPost
  <2>2. ASSUME NEW t \in Requests, BeginCreate(t) \/ BeginUpdate(t) \/ BeginMove(t) \/ BeginDelete(t) PROVE Standing'
    BY <2>2, LinesBegin, BeginStep DEF BeginLine, IInv
  <2>3. ASSUME NEW t \in Requests, Step(t) \/ Fail(t) PROVE Standing'
    BY <2>3, TakeLockStep, JudgeStep, WriteStep, FinishStep, RefuseStep DEF Step, Fail
  <2>. QED BY <1>1, <1>2, <2>1, <2>2, <2>3 DEF IInv, Next
<1>3. CASE UNCHANGED vars
  <2>1. UNCHANGED <<stored, own, rowLocks, advisory, req, born>>
    BY <1>3 DEF vars, dbState
  <2>. QED
    BY <1>1, <2>1 DEF IInv, Standing, Shaped, Covered, Locked, Owning, Fresh, Judged, PostedBalanced,
                      Flying, OnLine, Past, Active, Held
<1>. QED BY <1>2, <1>3

-----------------------------------------------------------------------------
(* The theorems.                                                           *)

THEOREM Invariance == Spec /\ []Apart => []IInv
BY InitInv, InvStep, PTL DEF Spec

\* Whatever becomes of its lines, an entry that is posted balances, while no line is moved as
\* it is written (internal/web/record.go isBalanced under withWriteLock).
THEOREM BalanceKept == Spec /\ []Apart => []PostedBalanced
<1>1. IInv => PostedBalanced BY DEF IInv, Standing
<1>. QED BY <1>1, Invariance, PTL

\* A line of a posted entry stays as it is, and no line joins it (frozenReason).
THEOREM LinesFrozen == Spec /\ []Apart => FrozenLinesStand
<1>. DEFINE Kept == \A l \in Lines, e \in Entries :
               Posted(stored, e) /\ e \in EntryOf(stored[l]) \cup EntryOf(stored'[l]) => stored'[l] = stored[l]
<1>1. IInv /\ Apart /\ [Next]_vars => [Kept]_stored
  <2>. SUFFICES ASSUME IInv, Apart, [Next]_vars, ~UNCHANGED stored PROVE Kept
    OBVIOUS
  <2>1. PICK t \in Requests : Finish(t)
    BY DEF Next, vars, dbState, BeginPost, BeginCreate, BeginUpdate, BeginMove, BeginDelete, BeginLine, Begin,
           Step, Fail, Refuse, Rollback, TakeLock, AdvisoryLock, JudgePost, JudgeLine, JudgeBy, Write, WriteRow
  <2>. QED BY <2>1, FinishStep
<1>. QED BY <1>1, Invariance, PTL DEF Spec, FrozenLinesStand
==============================================================================
