------------------------------ MODULE Figures ------------------------------
(***************************************************************************)
(* Computed Fields that read other records (internal/execution/compute.go) *)
(* and the record writes that keep them: a parent's figure adds up an      *)
(* amount of its children (`sum_children`), and each child keeps a copy of *)
(* a Field of its parent (`parent:`).                                      *)
(*                                                                         *)
(* A child's write and the recomputing of its parents are one transaction, *)
(* the parent read FOR UPDATE; a parent's edit derives its own figure from *)
(* an unlocked read, writes its whole row, and then recomputes the         *)
(* children that read what it changed.  Both Machines are added up by      *)
(* another (terms by a contract, contracts by a category), so every write  *)
(* of either is in a transaction.                                          *)
(*                                                                         *)
(* One edge of a parent generates its children (`generates:`), and a       *)
(* parent is not deleted while a child points at it (`on_parent_delete`).  *)
(***************************************************************************)
EXTENDS Integers, Sequences, Functions, FiniteSetsExt

CONSTANTS
    Requests,    \* concurrent requests, the reload of the metadata among them
    Parents,     \* parent ids, in the order they sort: numbers
    Children,    \* child ids
    Notes,       \* the values of the parent's Field the children read
    FirstNote,   \* what it holds at first
    Amounts,     \* the values of the Field that is added up
    Schedule,    \* the amounts of the children a parent's edge generates
    Operations,  \* of "create", "update", "move", "delete", "edit", "generate", "remove", "reload"
    HasEvents,   \* the Machines declare Events, so a write reads the old values
    NoNote,      \* what a child would copy of a parent that is gone
    ByHand, Unborn,
    NumberLock,  \* the lock of the children's numbered Field
    NoRow, Unwritten, Nobody

VARIABLES
    stored, own, rowLocks, advisory,  \* the database
    req,      \* each request: where it is, what it writes, what it has yet to recompute
    numbered, \* the children's Machine has a numbered Field
    origin    \* of each child ever committed: whose edge generated it, or ByHand

Rows == Parents \cup Children

INSTANCE Database WITH Txns <- Requests, Locks <- Parents \cup {NumberLock}, Absent <- NoRow

dbState == <<stored, own, rowLocks, advisory>>
vars == <<dbState, req, numbered, origin>>

\* taken: the status has moved along the edge that generates.
ParentRows == [figure : Int, note : Notes, taken : BOOLEAN]
ChildRows == [parent : Parents, amount : Amounts, seen : Notes \cup {NoNote}]
Cells == ParentRows \cup ChildRows \cup {NoRow}

ASSUME FiguresAssumption ==
    /\ Parents \subseteq Nat /\ Parents \cap Children = {}
    /\ FirstNote \in Notes /\ NoNote \notin Notes /\ Amounts \subseteq Int
    /\ Schedule \in Seq(Amounts) \ {<<>>}
    /\ NumberLock \notin Parents
    /\ ByHand \notin Parents /\ Unborn \notin Parents /\ ByHand # Unborn
    /\ NoRow \notin ParentRows \cup ChildRows
    /\ Unwritten \notin Cells
    /\ Nobody \notin Requests
    /\ HasEvents \in BOOLEAN

-----------------------------------------------------------------------------
Idle == [pc |-> "idle"]

\* parents and children are the rows still to recompute, and follow says the children will be;
\* at and value are the row being recomputed and what it should hold; due counts the children
\* still to generate.
Jobs == [pc : {"locking", "begun", "ready", "listing", "written", "summing", "refreshing",
               "writing", "paged"},
         op : Operations, row : Rows, next : Cells, at : Rows, value : Cells,
         parents : SUBSET Parents, children : SUBSET Children, follow : BOOLEAN,
         due : 0..Len(Schedule)]

Active(t, pc) == req[t].pc = pc
Step(t, to) == req' = [req EXCEPT ![t] = to]
Exists(r) == stored[r] # NoRow
IsChildWrite(t) == req[t].op \in {"create", "update", "move"}

\* The parents' Machine declares an edge that generates.
Generates == "generate" \in Operations

TypeOK ==
    /\ stored \in [Rows -> Cells]
    /\ \A p \in Parents : stored[p] \in ParentRows \cup {NoRow}
    /\ \A c \in Children : stored[c] \in ChildRows \cup {NoRow}
    /\ own \in [Requests -> [Rows -> Cells \cup {Unwritten}]]
    /\ rowLocks \in [Requests -> SUBSET Rows]
    /\ advisory \in [Parents \cup {NumberLock} -> Requests \cup {Nobody}]
    /\ req \in [Requests -> Jobs \cup {Idle}]
    /\ numbered \in BOOLEAN
    /\ origin \in [Children -> Parents \cup {ByHand, Unborn}]

Init ==
    /\ OpenDatabase([r \in Rows |->
            IF r \in Parents THEN [figure |-> 0, note |-> FirstNote, taken |-> FALSE] ELSE NoRow])
    /\ req = [t \in Requests |-> Idle]
    /\ numbered \in BOOLEAN
    /\ origin = [c \in Children |-> Unborn]

-----------------------------------------------------------------------------
(* What computed Fields hold, from the rows as one statement reads them.   *)

ChildrenOf(db, p) == {c \in Children : db[c] # NoRow /\ db[c].parent = p}
Figure(db, p) == SumFunction([c \in ChildrenOf(db, p) |-> db[c].amount])
NoteOf(row) == IF row = NoRow THEN NoNote ELSE row.note

-----------------------------------------------------------------------------
(* A request begins.                                                       *)

BeginUnlocked(t, op, r, next) ==  \* mutant: the record that generates is not locked
    /\ Active(t, "idle")
    /\ op \in Operations
    /\ Step(t, [pc |-> "begun", op |-> op, row |-> r, next |-> next, at |-> r, value |-> NoRow,
                parents |-> {}, children |-> {}, follow |-> FALSE, due |-> 0])
    /\ UNCHANGED <<dbState, numbered, origin>>

\* writeLockKeys: every edit and delete of a record that may generate locks it, and a create
\* locks the numbered Field.
Begin(t, op, r, next) ==
    /\ Active(t, "idle")
    /\ op \in Operations
    /\ Step(t, [pc |-> IF (r \in Parents /\ Generates) \/ (op = "create" /\ numbered)
                       THEN "locking" ELSE "begun",
                op |-> op, row |-> r, next |-> next, at |-> r, value |-> NoRow,
                parents |-> {}, children |-> {}, follow |-> FALSE, due |-> 0])
    /\ UNCHANGED <<dbState, numbered, origin>>

FreshIds == {c \in Children :
    /\ origin[c] = Unborn
    /\ \A u \in Requests : ~Active(u, "idle") => req[u].row # c /\ own[u][c] = Unwritten}

BeginCreate(t) ==
    \E c \in FreshIds, p \in Parents, a \in Amounts :
        /\ Exists(p)
        /\ Begin(t, "create", c, [parent |-> p, amount |-> a, seen |-> FirstNote])

\* An edit of a child keeps its parent as the request read it; a move names another.
BeginUpdate(t) ==
    \E c \in Children, a \in Amounts :
        /\ Exists(c)
        /\ Begin(t, "update", c, [stored[c] EXCEPT !.amount = a])

BeginMove(t) ==
    \E c \in Children, p \in Parents :
        /\ Exists(c) /\ Exists(p)
        /\ stored[c].parent # p
        /\ Begin(t, "move", c, [stored[c] EXCEPT !.parent = p])

BeginDelete(t) == \E c \in Children : Exists(c) /\ Begin(t, "delete", c, NoRow)

BeginEdit(t) ==
    \E p \in Parents, note \in Notes :
        /\ Exists(p)
        /\ Begin(t, "edit", p, [stored[p] EXCEPT !.note = note])

\* The status is moved along the edge that generates.
BeginGenerate(t) ==
    \E p \in Parents :
        /\ Exists(p)
        /\ ~stored[p].taken
        /\ Begin(t, "generate", p, [stored[p] EXCEPT !.taken = TRUE])

BeginRemove(t) == \E p \in Parents : Exists(p) /\ Begin(t, "remove", p, NoRow)

LockOf(t) == IF req[t].op = "create" THEN NumberLock ELSE req[t].row

TakeLock(t) ==
    /\ Active(t, "locking")
    /\ AdvisoryLock(t, LockOf(t))
    /\ Step(t, [req[t] EXCEPT !.pc = "begun"])
    /\ UNCHANGED <<numbered, origin>>

-----------------------------------------------------------------------------
(* The write itself, inside the transaction.                               *)

\* eventOldValues: no old values are read for a Machine with no Events, nor of a row that is gone.
Old(t) == IF HasEvents /\ Read(t, req[t].row) # NoRow THEN {Read(t, req[t].row)} ELSE {}

Refuse(t) ==
    /\ Rollback(t)
    /\ Step(t, Idle)
    /\ UNCHANGED <<numbered, origin>>

\* writeFromValues, commitRecordUpdate: the child's copy is derived from its parent as read
\* now, and its parents before and after are the ones to recompute.  A parent that is not
\* there refuses the write.
ComputeChild(t) ==
    LET parent == Read(t, req[t].next.parent)
    IN  /\ Active(t, "begun")
        /\ IsChildWrite(t)
        /\ IF parent = NoRow THEN Refuse(t)
           ELSE /\ Step(t, [req[t] EXCEPT
                        !.pc = "ready",
                        !.next.seen = parent.note,
                        !.parents = {req[t].next.parent} \cup {old.parent : old \in Old(t)}])
                /\ UNCHANGED <<dbState, numbered, origin>>

\* deleteLocked reads the record whether or not its Machine has Events.
ComputeDelete(t) ==
    /\ Active(t, "begun")
    /\ req[t].op = "delete"
    /\ IF Read(t, req[t].row) = NoRow THEN Refuse(t)
       ELSE /\ Step(t, [req[t] EXCEPT !.pc = "ready", !.parents = {Read(t, req[t].row).parent}])
            /\ UNCHANGED <<dbState, numbered, origin>>

\* deleteAllowed: a parent some child points at stays, as this statement sees the children.
CheckRemove(t) ==
    LET p == req[t].row
    IN  /\ Active(t, "begun")
        /\ req[t].op = "remove"
        /\ IF Read(t, p) = NoRow \/ ChildrenOf(Snapshot(t), p) # {} THEN Refuse(t)
           ELSE /\ Step(t, [req[t] EXCEPT !.pc = "ready"])
                /\ UNCHANGED <<dbState, numbered, origin>>

\* A status that has moved is not taken back, and a record that has children generates none.
\* The parent's own figure is added up before its row is locked.  Its children are followed
\* unless what they read is, by the old values, the same.
ComputeParent(t) ==
    LET p == req[t].row
        row == Read(t, p)
        next == req[t].next
        takesEdge == ~row.taken /\ next.taken
    IN  /\ Active(t, "begun")
        /\ req[t].op \in {"edit", "generate"}
        /\ IF \/ row = NoRow
              \/ row.taken /\ ~next.taken
              \/ takesEdge /\ ChildrenOf(Snapshot(t), p) # {}
           THEN Refuse(t)
           ELSE /\ Step(t, [req[t] EXCEPT
                        !.pc = "ready",
                        !.next.figure = Figure(Snapshot(t), p),
                        !.follow = \A old \in Old(t) : old.note # next.note,
                        !.due = IF takesEdge THEN Len(Schedule) ELSE 0])
                /\ UNCHANGED <<dbState, numbered, origin>>

\* The whole row is written; an UPDATE that finds no row is refused.
Write(t) ==
    /\ Active(t, "ready")
    /\ IF req[t].op \notin {"create", "delete", "remove"} /\ stored[req[t].row] = NoRow
       THEN RowFree(t, req[t].row) /\ Refuse(t)
       ELSE /\ WriteRow(t, req[t].row, req[t].next)
            /\ Step(t, [req[t] EXCEPT !.pc = IF req[t].follow THEN "listing" ELSE "written"])
            /\ UNCHANGED <<numbered, origin>>

ListNone(t) ==  \* mutant: an edit does not follow its value down
    /\ Active(t, "listing")
    /\ Step(t, [req[t] EXCEPT !.pc = "written"])
    /\ UNCHANGED <<dbState, numbered, origin>>

\* RecomputeChildren lists the parent's children as this statement sees them.
ListChildren(t) ==
    /\ Active(t, "listing")
    /\ Step(t, [req[t] EXCEPT !.pc = "written", !.children = ChildrenOf(Snapshot(t), req[t].row)])
    /\ UNCHANGED <<dbState, numbered, origin>>

-----------------------------------------------------------------------------
(* Recomputing, row by row: lock, read again, write if it changed.         *)

NewParentFirst(t) ==  \* mutant: the parents are taken as written, the new one first
    IF IsChildWrite(t) /\ req[t].next.parent \in req[t].parents THEN req[t].next.parent
    ELSE Min(req[t].parents)

NextParent(t) == Min(req[t].parents)

ReadParentUnlocked(t) ==  \* mutant: a parent is read without its row lock
    /\ Active(t, "written")
    /\ req[t].parents # {}
    /\ Step(t, [req[t] EXCEPT !.pc = "summing", !.at = NextParent(t), !.parents = @ \ {NextParent(t)}])
    /\ UNCHANGED <<dbState, numbered, origin>>

LockParent(t) ==
    /\ Active(t, "written")
    /\ req[t].parents # {}
    /\ SelectForUpdate(t, NextParent(t))
    /\ Step(t, [req[t] EXCEPT !.pc = "summing", !.at = NextParent(t), !.parents = @ \ {NextParent(t)}])
    /\ UNCHANGED <<numbered, origin>>

\* A parent's children come in their own order, whatever their ids.
LockChild(t) ==
    /\ Active(t, "written")
    /\ req[t].parents = {}
    /\ \E c \in req[t].children :
          /\ SelectForUpdate(t, c)
          /\ Step(t, [req[t] EXCEPT !.pc = "refreshing", !.at = c, !.children = @ \ {c}])
    /\ UNCHANGED <<numbered, origin>>

\* The job, done with the row it was recomputing.
Recomputed(t) == [req[t] EXCEPT !.pc = "written", !.at = req[t].row, !.value = NoRow]

\* What the row should hold; one that holds it is not written.
Recompute(t, value) ==
    /\ Step(t, IF value = Read(t, req[t].at) THEN Recomputed(t)
               ELSE [req[t] EXCEPT !.pc = "writing", !.value = value])
    /\ UNCHANGED <<dbState, numbered, origin>>

\* A record that is gone has nothing to recompute.
SumParent(t) ==
    /\ Active(t, "summing")
    /\ Recompute(t, IF Read(t, req[t].at) = NoRow THEN NoRow
                    ELSE [Read(t, req[t].at) EXCEPT !.figure = Figure(Snapshot(t), req[t].at)])

RefreshChild(t) ==
    LET row == Read(t, req[t].at)
    IN  /\ Active(t, "refreshing")
        /\ Recompute(t, IF row = NoRow THEN NoRow ELSE [row EXCEPT !.seen = NoteOf(Read(t, row.parent))])

\* A child that was rewritten has its own parent recomputed, but for a reload.
WriteBack(t) ==
    /\ Active(t, "writing")
    /\ WriteRow(t, req[t].at, req[t].value)
    /\ Step(t, [Recomputed(t) EXCEPT
                    !.parents = IF req[t].at \in Children /\ req[t].op # "reload"
                                THEN {req[t].value.parent} ELSE @])
    /\ UNCHANGED <<numbered, origin>>

Generating(t) ==
    Active(t, "written") /\ req[t].parents = {} /\ req[t].children = {} /\ req[t].due > 0

\* AssignNumbers, of the first row: a lock the transaction holds is not taken again.
LockNumbers(t) ==
    /\ Generating(t)
    /\ numbered
    /\ AdvisoryLock(t, NumberLock)
    /\ UNCHANGED <<req, numbered, origin>>

\* insertGenerated: one row after another, each with what it adds up to on its parent.
InsertGenerated(t) ==
    /\ Generating(t)
    /\ numbered => advisory[NumberLock] = t
    /\ \E c \in FreshIds :
          WriteRow(t, c, [parent |-> req[t].row, amount |-> Schedule[Len(Schedule) + 1 - req[t].due],
                          seen |-> NoteOf(Read(t, req[t].row))])
    /\ Step(t, [req[t] EXCEPT !.parents = {req[t].row}, !.due = @ - 1])
    /\ UNCHANGED <<numbered, origin>>

Finish(t) ==
    /\ Active(t, "written")
    /\ req[t].parents = {} /\ req[t].children = {} /\ req[t].due = 0
    /\ Commit(t)
    /\ Step(t, Idle)
    /\ origin' = [c \in Children |->
            IF origin[c] # Unborn \/ own[t][c] = Unwritten THEN origin[c]
            ELSE IF c = req[t].row THEN ByHand ELSE req[t].row]
    /\ UNCHANGED numbered

Fail(t) == ~Active(t, "idle") /\ Refuse(t)

-----------------------------------------------------------------------------
(* RecomputeAll: a page of records is read, and the ones whose computed    *)
(* Fields differ are recomputed one by one, each in its own transaction.   *)

ReadPage(t) ==
    \E r \in Rows :
        /\ Active(t, "idle")
        /\ "reload" \in Operations
        /\ Exists(r)
        /\ Step(t, [pc |-> "paged", op |-> "reload", row |-> r, next |-> stored[r],
                    at |-> r, value |-> NoRow, parents |-> {}, children |-> {},
                    follow |-> FALSE, due |-> 0])
        /\ UNCHANGED <<dbState, numbered, origin>>

CompareEither(t) ==  \* mutant: the record is recomputed as a parent, whatever its Machine
    /\ Active(t, "paged")
    /\ Step(t, [req[t] EXCEPT !.pc = "written", !.parents = {req[t].row}])
    /\ UNCHANGED <<dbState, numbered, origin>>

Compare(t) ==
    LET r == req[t].row
        stale == IF r \in Parents THEN req[t].next.figure # Figure(Snapshot(t), r)
                                  ELSE req[t].next.seen # NoteOf(Read(t, req[t].next.parent))
    IN  /\ Active(t, "paged")
        /\ Step(t, IF ~stale THEN Idle
                   ELSE [req[t] EXCEPT !.pc = "written", !.parents = {r} \cap Parents,
                                       !.children = {r} \cap Children])
        /\ UNCHANGED <<dbState, numbered, origin>>

-----------------------------------------------------------------------------
Advance(t) ==
    \/ ComputeChild(t) \/ ComputeDelete(t) \/ ComputeParent(t) \/ ListChildren(t)
    \/ SumParent(t) \/ RefreshChild(t) \/ WriteBack(t) \/ Finish(t) \/ Compare(t)
    \/ CheckRemove(t) \/ InsertGenerated(t)

Wait(t) == TakeLock(t) \/ LockNumbers(t) \/ Write(t) \/ LockParent(t) \/ LockChild(t)

Next ==
    \E t \in Requests :
        \/ BeginCreate(t) \/ BeginUpdate(t) \/ BeginMove(t) \/ BeginDelete(t) \/ BeginEdit(t)
        \/ BeginGenerate(t) \/ BeginRemove(t) \/ ReadPage(t) \/ Advance(t) \/ Wait(t) \/ Fail(t)

Spec == Init /\ [][Next]_vars

-----------------------------------------------------------------------------
\* A parent's figure is the sum of its children, in what is committed, at every moment:
\* "a contract's paid figure never disagrees with its instalments" (RecomputeParents).
FigureAgrees == \A p \in Parents : Exists(p) => stored[p].figure = Figure(stored, p)

\* What a child keeps of its parent is what the parent holds: "a value taken from a contract
\* follows the contract" (RecomputeChildren).
SeenAgrees == \A c \in Children : Exists(c) => stored[c].seen = NoteOf(stored[stored[c].parent])

\* A parent whose status has moved along the edge has had its whole schedule, once, and no
\* other has any: "two writers cannot each find no schedule and both write one" (writeLockKeys).
ScheduledOnce ==
    \A p \in Parents : Exists(p) =>
        Cardinality({c \in Children : origin[c] = p}) = IF stored[p].taken THEN Len(Schedule) ELSE 0

\* No child points at a record that is gone: a parent is kept "so none of them is left
\* pointing at nothing" (deleteAllowed).
NoOrphans == \A c \in Children : Exists(c) => Exists(stored[c].parent)

\* t waits for a lock or a row u holds.
WaitsFor(t, u) ==
    \/ Active(t, "locking") /\ WaitsForLock(t, u, LockOf(t))
    \/ Generating(t) /\ numbered /\ WaitsForLock(t, u, NumberLock)
    \/ Active(t, "ready") /\ WaitsForRow(t, u, req[t].row)
    \/ Active(t, "written") /\ req[t].parents # {} /\ WaitsForRow(t, u, NextParent(t))
    \/ Active(t, "written") /\ req[t].parents = {} /\ \E c \in req[t].children : WaitsForRow(t, u, c)

\* No set of requests all wait on one another: they queue (recomputeRecord).
NoWaitCycle ==
    \A S \in (SUBSET Requests) \ {{}} : \E t \in S : \A u \in S : ~WaitsFor(t, u)

-----------------------------------------------------------------------------
(* What the code does not keep apart.                                      *)

\* The request writes a parent's Fields, if only by carrying what it read of them: a move
\* along an edge another request took meanwhile generates nothing, and is an edit.
EditsParent(t) ==
    \/ req[t].op = "edit"
    \/ /\ req[t].op = "generate"
       /\ Exists(req[t].row)
       /\ stored[req[t].row].taken \/ stored[req[t].row].note # req[t].next.note

\* A parent is edited while a child is written, a parent nothing locks while it is edited, a
\* child moved while the same child is written, a parent deleted while a child is brought under
\* it, or a schedule of numbered records generated while one is created under the same parent.
Collide(t, u) ==
    \/ EditsParent(t) /\ req[u].op \in {"create", "update", "move", "delete"}
    \/ ~Generates /\ req[t].op = "edit" /\ req[u].op = "edit" /\ req[u].row = req[t].row
    \/ req[t].op = "move" /\ req[u].row = req[t].row
    \/ /\ req[t].op = "remove" /\ req[u].op \in {"create", "move"}
       /\ req[u].next.parent = req[t].row
    \/ /\ numbered
       /\ req[t].op = "generate" /\ req[u].op = "create"
       /\ req[u].next.parent = req[t].row
Apart ==
    \A t, u \in Requests : t # u /\ ~Active(t, "idle") /\ ~Active(u, "idle") => ~Collide(t, u)

\* Nor, with more than two requests, is a schedule of numbered records generated while one is
\* created under any parent: a move between the two parents closes the circle.
NumbersApart ==
    \A t, u \in Requests :
        ~Active(t, "idle") /\ ~Active(u, "idle") /\ numbered =>
            ~(req[t].op = "generate" /\ req[u].op = "create")
=============================================================================
