---------------------------- MODULE FiguresProofs ----------------------------
(***************************************************************************)
(* A parent's figure is the sum of its children, each child's copy is what *)
(* its parent holds, no child points at nothing, a schedule is generated   *)
(* once and no requests wait in a circle, for every number of requests and *)
(* records, while those that the code does not keep apart stay apart       *)
(* (Apart, and for the circle NumbersApart).                               *)
(*                                                                         *)
(* The argument has three parts.  IInv says how far each request is and     *)
(* what it has written by then: an edit of a parent has, of each child it  *)
(* reads, a copy that follows or the child still on its list (Follows),    *)
(* and of its schedule as many rows as it no longer owes (Generated).  Its *)
(* lock, where the parent may generate, keeps a second edit out (Holds).   *)
(*                                                                         *)
(* FInv says what a transaction owes the figures: a parent it wrote, or    *)
(* whose children it changed, is on its list, or at hand, or has rows yet  *)
(* to come, or is settled: its row is locked and holds the sum that the    *)
(* transaction reads (Owes).  So a commit leaves every figure right.  It   *)
(* takes nothing from another: who changes what a parent adds up commits   *)
(* with the parent's row locked, so nobody else has settled it (HeldFigure). *)
(*                                                                         *)
(* HInv, over what is held by whom, is stated where it is used (Waiting).  *)
(***************************************************************************)
EXTENDS Figures, FiniteSetTheorems, TLAPS

-----------------------------------------------------------------------------
(* The inductive invariant.                                                *)

Flying(t) == ~Active(t, "idle")

\* What kind of write a request is.
OnChild(t) == Flying(t) /\ req[t].op \in {"create", "update", "move", "delete"}
OnParent(t) == Flying(t) /\ req[t].op \in {"edit", "generate"}
OnRemove(t) == Flying(t) /\ req[t].op = "remove"
OnReload(t) == Flying(t) /\ req[t].op = "reload"

\* It has worked out what it writes; it has written it.
Computed(t) == Flying(t) /\ req[t].pc \notin {"locking", "begun", "paged"}
Wrote(t) == Computed(t) /\ ~Active(t, "ready")

\* What a request holds matches what it is.
Shape(t) ==
    /\ OnChild(t) \/ OnParent(t) \/ OnRemove(t) \/ OnReload(t) \/ Active(t, "idle")
    /\ OnChild(t) =>
          /\ req[t].row \in Children /\ req[t].next \in ChildRows \cup {NoRow}
          /\ req[t].next = NoRow <=> req[t].op = "delete"
          /\ \E p, q \in Parents : req[t].parents \subseteq {p, q}
    /\ OnParent(t) =>
          /\ req[t].row \in Parents /\ req[t].next \in ParentRows
          /\ req[t].op = "generate" => req[t].next.taken
          /\ req[t].parents \subseteq {req[t].row}
          /\ req[t].pc \in {"summing", "writing"} => req[t].at \in {req[t].row} \cup Children
    /\ OnRemove(t) =>
          /\ req[t].row \in Parents /\ req[t].next = NoRow
          /\ req[t].parents = {}
          /\ req[t].pc \notin {"summing", "writing"}
    /\ OnReload(t) =>
          /\ req[t].next \in IF req[t].row \in Parents THEN ParentRows ELSE ChildRows
          /\ req[t].parents \subseteq {req[t].row} /\ req[t].children \subseteq {req[t].row}
          /\ req[t].pc \in {"paged", "written", "summing", "refreshing", "writing"}
          /\ req[t].pc \in {"summing", "writing"} => req[t].at = req[t].row
    /\ Flying(t) /\ ~OnParent(t) =>
          /\ ~req[t].follow /\ req[t].due = 0
          /\ ~OnReload(t) => req[t].children = {}
          /\ req[t].pc # "listing"
          /\ req[t].pc = "refreshing" => OnReload(t)
          /\ req[t].pc = "writing" => req[t].at \in Parents
    /\ Active(t, "locking") => OnParent(t) \/ OnRemove(t) \/ req[t].op = "create"
    /\ Active(t, "paged") => OnReload(t)
    /\ Active(t, "summing") => req[t].at \in Parents
    /\ Active(t, "refreshing") => req[t].at \in Children /\ req[t].parents = {}
    /\ Active(t, "writing") =>
          IF req[t].at \in Parents THEN req[t].value \in ParentRows
                                   ELSE req[t].value \in ChildRows /\ req[t].parents = {}
    /\ ~Computed(t) /\ Flying(t) => req[t].parents = {} /\ req[t].children = {} /\ req[t].due = 0

\* Whoever writes a parent that may generate holds its lock.
Holds(t) == Generates /\ (OnParent(t) \/ OnRemove(t)) /\ ~Active(t, "locking") => advisory[req[t].row] = t

\* A child that was never committed.
NewChild(c) == stored[c] = NoRow /\ origin[c] = Unborn

\* What a transaction has written: a child's write its row and the figures of parents, a
\* parent's write its row, the copies its children keep of it and the children it generates.
Owns(t) ==
    /\ ~Wrote(t) => own[t] = NoWrites
    /\ OnReload(t) => \A r \in Rows \ ({req[t].row} \cap Parents) : own[t][r] = Unwritten
    /\ OnRemove(t) => \A r \in Rows \ {req[t].row} : own[t][r] = Unwritten
    /\ OnChild(t) => \A c \in Children \ {req[t].row} : own[t][c] = Unwritten
    /\ OnParent(t) =>
          /\ \A p \in Parents \ {req[t].row} : own[t][p] = Unwritten
          /\ \A c \in Children : own[t][c] # Unwritten =>
                /\ own[t][c] \in ChildRows
                /\ own[t][c].parent = req[t].row /\ own[t][c].seen = req[t].next.note
                /\ \/ NewChild(c) /\ Generates
                   \/ /\ stored[c] # NoRow
                      /\ stored[c].parent = req[t].row /\ stored[c].amount = own[t][c].amount
          /\ Active(t, "listing") => \A c \in Children : own[t][c] = Unwritten
    /\ (OnChild(t) \/ OnRemove(t)) /\ Wrote(t) => own[t][req[t].row] = req[t].next
    /\ OnParent(t) /\ Wrote(t) =>
          /\ stored[req[t].row] # NoRow /\ own[t][req[t].row] \in ParentRows
          /\ own[t][req[t].row].note = req[t].next.note /\ own[t][req[t].row].taken = req[t].next.taken
    /\ OnChild(t) \/ OnReload(t) => \A p \in Parents : own[t][p] # Unwritten =>
          /\ stored[p] # NoRow /\ own[t][p] \in ParentRows
          /\ own[t][p].note = stored[p].note /\ own[t][p].taken = stored[p].taken
    /\ OnChild(t) /\ req[t].op \in {"update", "move"} /\ Wrote(t) => stored[req[t].row] # NoRow

\* A row being recomputed is locked, or is gone for good.
Recomputes(t) ==
    /\ Active(t, "summing") => req[t].at \in rowLocks[t] \/ stored[req[t].at] = NoRow
    /\ Active(t, "refreshing") =>
          \/ req[t].at \in rowLocks[t]
          \/ stored[req[t].at] = NoRow /\ origin[req[t].at] # Unborn /\ own[t][req[t].at] = Unwritten
    /\ Active(t, "writing") =>
          /\ req[t].at \in rowLocks[t] /\ Read(t, req[t].at) # NoRow
          /\ IF req[t].at \in Parents
             THEN req[t].value.note = Read(t, req[t].at).note /\ req[t].value.taken = Read(t, req[t].at).taken
             ELSE /\ req[t].value.parent = Read(t, req[t].at).parent
                  /\ req[t].value.amount = Read(t, req[t].at).amount
                  /\ req[t].value.parent = req[t].row /\ req[t].value.seen = req[t].next.note

\* Whether the rows a request knows were ever committed.
Known(t) ==
    /\ Flying(t) /\ req[t].row \in Children => (origin[req[t].row] = Unborn <=> req[t].op = "create")
    /\ Flying(t) => \A c \in req[t].children : origin[c] # Unborn

\* Where a child goes there is a parent, and a parent to be deleted has no children.
Places(t) ==
    /\ OnChild(t) /\ req[t].op \in {"create", "move"} => stored[req[t].next.parent] # NoRow
    /\ OnChild(t) /\ req[t].op = "update" /\ stored[req[t].row] # NoRow =>
          stored[req[t].row].parent = req[t].next.parent
    /\ OnRemove(t) /\ Computed(t) => ChildrenOf(stored, req[t].row) = {}

\* The copies follow.
Follows(t) ==
    /\ OnChild(t) /\ req[t].op # "delete" /\ Computed(t) /\ stored[req[t].next.parent] # NoRow =>
          req[t].next.seen = stored[req[t].next.parent].note
    /\ OnParent(t) /\ Active(t, "ready") /\ ~req[t].follow /\ stored[req[t].row] # NoRow =>
          stored[req[t].row].note = req[t].next.note
    /\ OnParent(t) /\ Wrote(t) /\ ~Active(t, "listing") =>
          \A c \in Children : Read(t, c) # NoRow /\ Read(t, c).parent = req[t].row =>
             \/ Read(t, c).seen = req[t].next.note
             \/ c \in req[t].children
             \/ req[t].pc \in {"refreshing", "writing"} /\ req[t].at = c

\* The children the transaction has created, and whether it takes the edge that generates.
New(t) == {c \in Children : own[t][c] # Unwritten /\ origin[c] = Unborn}
Takes(t) == ~stored[req[t].row].taken /\ req[t].next.taken

\* A schedule is under way as far as it is.
Generated(t) ==
    /\ OnParent(t) /\ Computed(t) /\ stored[req[t].row] # NoRow =>
          /\ stored[req[t].row].taken => req[t].next.taken
          /\ Cardinality(New(t)) + req[t].due = IF Takes(t) THEN Len(Schedule) ELSE 0
    /\ OnParent(t) /\ ~Generates => ~req[t].next.taken /\ req[t].due = 0
    /\ IsFiniteSet({c \in Children : own[t][c] # Unwritten})

Good(t) ==
    Shape(t) /\ Holds(t) /\ Owns(t) /\ Recomputes(t) /\ Known(t) /\ Places(t) /\ Follows(t) /\ Generated(t)

\* Nobody but its creator knows a child before it commits.
Unshared ==
    \A t \in Requests, u \in Requests : t # u /\ Flying(t) /\ req[t].op = "create" =>
       /\ Flying(u) => req[u].row # req[t].row
       /\ own[u][req[t].row] = Unwritten

\* What is committed.
Committed ==
    /\ \A c \in Children : stored[c] # NoRow => origin[c] # Unborn
    /\ IsFiniteSet({c \in Children : origin[c] # Unborn})
    /\ ~Generates => \A p \in Parents : stored[p] # NoRow => ~stored[p].taken
    /\ SeenAgrees /\ NoOrphans /\ ScheduledOnce

IInv == TypeOK /\ RowsExclusive /\ Unshared /\ Committed /\ \A t \in Requests : Good(t)

\* What a row adds to a parent.
Part(row, p) == IF row # NoRow /\ row.parent = p THEN {row.amount} ELSE {}

\* A transaction owes the parent nothing: what it reads of it is what it reads it adds up to.
Settled(t, p) ==
    \/ Read(t, p) = NoRow
    \/ p \in rowLocks[t] /\ Read(t, p).figure = Figure(Snapshot(t), p)

\* A transaction has written the parent, or what it adds up.
Touches(t, p) == own[t][p] # Unwritten \/ \E c \in Children : Part(Read(t, c), p) # Part(stored[c], p)

\* What a transaction owes the figures; what it has added up to write is still so.
Owes(t) ==
    /\ \A p \in Parents : Touches(t, p) =>
          \/ p \in req[t].parents
          \/ req[t].pc \in {"summing", "writing"} /\ req[t].at = p
          \/ req[t].row = p /\ req[t].due > 0
          \/ Settled(t, p)
    /\ Active(t, "writing") /\ req[t].at \in Parents => req[t].value.figure = Figure(Snapshot(t), req[t].at)
    /\ OnChild(t) /\ Active(t, "ready") =>
          /\ req[t].next # NoRow => req[t].next.parent \in req[t].parents
          /\ stored[req[t].row] # NoRow => stored[req[t].row].parent \in req[t].parents
    /\ OnParent(t) /\ Active(t, "ready") /\ req[t].due = 0 /\ stored[req[t].row] # NoRow =>
          req[t].next.figure = Figure(stored, req[t].row) /\ EditsParent(t)

FInv == FigureAgrees /\ \A t \in Requests : Flying(t) => Owes(t)

-----------------------------------------------------------------------------
(* Sums.  What SumFunction computes is reached from its definition: a      *)
(* smallest set with no sum, or with one that is no integer, would be one  *)
(* element larger than a set that has one.                                 *)

LEMMA Smallest ==
    ASSUME NEW S, S \subseteq Nat, S # {}
    PROVE  \E n \in S : \A m \in S : n <= m
<1>. DEFINE Below == {ss \in Nat \X Nat : ss[1] < ss[2]}
<1>1. IsWellFoundedOn(Below, Nat)
  BY NatLessThanWellFounded DEF OpToRel
<1>2. PICK n \in S : \A m \in S : <<m, n>> \notin Below
  <2>. HIDE DEF Below
  <2>. QED BY <1>1, WFMin
<1>. SUFFICES ASSUME NEW m \in S PROVE n <= m
  OBVIOUS
<1>3. <<m, n>> \in Nat \X Nat /\ <<m, n>> \notin Below
  BY <1>2
<1>. QED BY <1>3

Some(s) == CHOOSE x \in s : TRUE

\* Sums of f over the sets of at most n of its arguments.
Adds(f, g, n) ==
    g = [s \in {s \in SUBSET DOMAIN f : Cardinality(s) <= n} |->
            IF s = {} THEN 0 ELSE f[Some(s)] + g[s \ {Some(s)}]]

\* A set without the element chosen from it is one smaller.
LEMMA Smaller ==
    ASSUME NEW S, IsFiniteSet(S), NEW s \in SUBSET S, s # {}
    PROVE  /\ s \ {Some(s)} \in SUBSET S
           /\ Cardinality(s) \in Nat /\ Cardinality(s) > 0
           /\ Cardinality(s \ {Some(s)}) = Cardinality(s) - 1
<1>1. IsFiniteSet(s)
  BY FS_Subset
<1>2. Some(s) \in s
  BY DEF Some
<1>3. Cardinality(s) \in Nat /\ Cardinality(s) # 0
  BY <1>1, FS_CardinalityType, FS_EmptySet
<1>4. \A x \in s : Cardinality(s \ {x}) = Cardinality(s) - 1
  BY <1>1, FS_RemoveElement
<1>. QED BY <1>2, <1>3, <1>4

LEMMA AddsExist ==
    ASSUME NEW f, IsFiniteSet(DOMAIN f), NEW n \in Nat
    PROVE  \E g : Adds(f, g, n)
<1>. DEFINE Bad == {k \in Nat : ~\E g : Adds(f, g, k)}
            D(k) == {s \in SUBSET DOMAIN f : Cardinality(s) <= k}
<1>1. SUFFICES ASSUME Bad # {} PROVE FALSE
  OBVIOUS
<1>2. PICK k \in Bad : \A m \in Bad : k <= m
  <2>1. Bad \subseteq Nat
    OBVIOUS
  <2>. HIDE DEF Bad
  <2>. QED BY <1>1, <2>1, Smallest
<1>3. \A s \in SUBSET DOMAIN f : s # {} =>
         /\ s \ {Some(s)} \in SUBSET DOMAIN f
         /\ Cardinality(s) \in Nat /\ Cardinality(s) > 0
         /\ Cardinality(s \ {Some(s)}) = Cardinality(s) - 1
  BY Smaller
<1>4. CASE k = 0
  <2>. DEFINE g == [s \in D(0) |-> 0]
  <2>1. \A s \in D(0) : s = {}
    <3>1. ASSUME NEW s \in SUBSET DOMAIN f, s # {} PROVE ~(Cardinality(s) <= 0)
      <4>1. Cardinality(s) \in Nat /\ Cardinality(s) > 0
        BY <3>1, Smaller
      <4>. QED BY <4>1
    <3>. QED BY <3>1
  <2>2. Adds(f, g, 0)
    <3>1. g = [s \in D(0) |-> IF s = {} THEN 0 ELSE f[Some(s)] + g[s \ {Some(s)}]]
      BY <2>1
    <3>. QED BY <3>1 DEF Adds
  <2>. QED BY <1>2, <1>4, <2>2
<1>5. CASE k # 0
  <2>1. k - 1 \in Nat /\ k - 1 \notin Bad
    BY <1>2, <1>5
  <2>2. PICK h : Adds(f, h, k - 1)
    BY <2>1
  <2>3. \A s \in D(k - 1) :
           h[s] = IF s = {} THEN 0 ELSE f[Some(s)] + h[s \ {Some(s)}]
    BY <2>2 DEF Adds
  <2>. DEFINE g == [s \in D(k) |-> IF s = {} THEN 0 ELSE f[Some(s)] + h[s \ {Some(s)}]]
  <2>4. \A s \in D(k) : s # {} => s \ {Some(s)} \in D(k - 1) /\ s \ {Some(s)} \in D(k)
    BY <1>2, <1>3
  <2>5. \A s \in D(k) : s \in D(k - 1) => g[s] = h[s]
    BY <2>3
  <2>6. \A s \in D(k) : s # {} => g[s \ {Some(s)}] = h[s \ {Some(s)}]
    BY <2>4, <2>5
  <2>7. Adds(f, g, k)
    <3>1. g = [s \in D(k) |-> IF s = {} THEN 0 ELSE f[Some(s)] + g[s \ {Some(s)}]]
      BY <2>6
    <3>. QED BY <3>1 DEF Adds
  <2>. QED BY <1>2, <2>7
<1>. QED BY <1>4, <1>5

\* SumFunction adds up the values of a function of finitely many arguments.
LEMMA SumIs ==
    ASSUME NEW f, IsFiniteSet(DOMAIN f)
    PROVE  \E g : Adds(f, g, Cardinality(DOMAIN f)) /\ SumFunction(f) = g[DOMAIN f]
<1>. DEFINE n == Cardinality(DOMAIN f)
            iter == CHOOSE iter : iter = [s \in SUBSET DOMAIN f |-> IF s = {} THEN 0
                       ELSE LET x == CHOOSE x \in s : TRUE IN f[x] + iter[s \ {x}]]
<1>1. SumFunction(f) = iter[DOMAIN f]
  BY DEF SumFunction, SumFunctionOnSet, FoldFunctionOnSet, MapThenFoldSet
<1>2. n \in Nat /\ {s \in SUBSET DOMAIN f : Cardinality(s) <= n} = SUBSET DOMAIN f
  BY FS_CardinalityType, FS_Subset
<1>3. PICK g : Adds(f, g, n)
  BY <1>2, AddsExist
<1>4. g = [s \in SUBSET DOMAIN f |-> IF s = {} THEN 0
             ELSE LET x == CHOOSE x \in s : TRUE IN f[x] + g[s \ {x}]]
  BY <1>2, <1>3 DEF Adds, Some
<1>5. iter = [s \in SUBSET DOMAIN f |-> IF s = {} THEN 0
             ELSE LET x == CHOOSE x \in s : TRUE IN f[x] + iter[s \ {x}]]
  BY <1>4
<1>. HIDE DEF iter, n
<1>6. Adds(f, iter, n)
  BY <1>2, <1>5 DEF Adds, Some
<1>. QED BY <1>1, <1>6 DEF n

\* The sum of nothing, and of integers.
LEMMA SumNothing == ASSUME NEW f, DOMAIN f = {} PROVE SumFunction(f) = 0
<1>1. IsFiniteSet(DOMAIN f) /\ Cardinality(DOMAIN f) = 0
  BY FS_EmptySet
<1>2. PICK g : Adds(f, g, 0) /\ SumFunction(f) = g[DOMAIN f]
  BY <1>1, SumIs
<1>. QED BY <1>1, <1>2 DEF Adds

LEMMA SumType ==
    ASSUME NEW f, IsFiniteSet(DOMAIN f), \A x \in DOMAIN f : f[x] \in Int
    PROVE  SumFunction(f) \in Int
<1>. DEFINE n == Cardinality(DOMAIN f)
<1>1. PICK g : Adds(f, g, n) /\ SumFunction(f) = g[DOMAIN f]
  BY SumIs
<1>2. \A s \in SUBSET DOMAIN f : /\ Cardinality(s) \in Nat /\ Cardinality(s) <= n
                                /\ g[s] = IF s = {} THEN 0 ELSE f[Some(s)] + g[s \ {Some(s)}]
  BY <1>1, FS_CardinalityType, FS_Subset DEF Adds
<1>. DEFINE Bad == {k \in Nat : \E s \in SUBSET DOMAIN f : Cardinality(s) = k /\ g[s] \notin Int}
<1>3. SUFFICES ASSUME Bad # {} PROVE FALSE
  BY <1>1, <1>2
<1>4. PICK k \in Bad : \A m \in Bad : k <= m
  <2>1. Bad \subseteq Nat
    OBVIOUS
  <2>. QED BY <1>3, <2>1, Smallest
<1>5. PICK s \in SUBSET DOMAIN f : Cardinality(s) = k /\ g[s] \notin Int
  BY <1>4
<1>6. s # {}
  BY <1>2, <1>5
<1>. DEFINE x == Some(s)
<1>7. x \in s /\ s \ {x} \in SUBSET DOMAIN f /\ Cardinality(s \ {x}) = k - 1 /\ k - 1 \in Nat
  BY <1>4, <1>5, <1>6, Smaller
<1>8. g[s \ {x}] \in Int
  BY <1>4, <1>7
<1>9. g[s] = f[x] + g[s \ {x}]
  BY <1>2, <1>6
<1>. QED BY <1>5, <1>7, <1>8, <1>9
-----------------------------------------------------------------------------
(* What is read.                                                           *)

LEMMA FlyingType == ASSUME TypeOK, NEW t \in Requests, Flying(t) PROVE req[t] \in Jobs
BY DEF TypeOK, Flying, Active, Idle

LEMMA Kinds ==
    ASSUME TypeOK, NEW t \in Requests, Good(t)
    PROVE  /\ Active(t, "idle") => ~Flying(t) /\ ~Computed(t) /\ ~Wrote(t)
           /\ Flying(t) => OnChild(t) \/ OnParent(t) \/ OnRemove(t) \/ OnReload(t)
           /\ Wrote(t) => Computed(t)
           /\ Computed(t) => Flying(t)
BY DEF Good, Shape, Flying, Computed, Wrote

\* A transaction that has written nothing reads what is committed.
LEMMA CleanRead ==
    ASSUME TypeOK, NEW t \in Requests, own[t] = NoWrites
    PROVE  Snapshot(t) = stored /\ \A r \in Rows : Read(t, r) = stored[r] /\ own[t][r] = Unwritten
BY DEF TypeOK, Snapshot, Read, NoWrites

\* What is read is a row of its kind.
LEMMA ReadType ==
    ASSUME TypeOK, NEW t \in Requests, Good(t)
    PROVE  /\ \A p \in Parents : Read(t, p) \in ParentRows \cup {NoRow}
           /\ \A c \in Children : Read(t, c) \in ChildRows \cup {NoRow}
<1>. USE DEF TypeOK
<1>1. \A r \in Rows : own[t][r] = Unwritten => Read(t, r) = stored[r]
  BY DEF Read
<1>2. \A r \in Rows : own[t][r] # Unwritten => Read(t, r) = own[t][r]
  BY DEF Read
<1>3. CASE own[t] = NoWrites
  <2>1. \A r \in Rows : Read(t, r) = stored[r]
    BY <1>3, CleanRead
  <2>. QED BY <2>1 DEF Rows
<1>4. CASE Wrote(t)
  <2>1. Parents \subseteq Rows /\ Children \subseteq Rows /\ Flying(t)
    BY <1>4 DEF Rows, Wrote, Computed
  <2>2. CASE OnChild(t)
    <3>1. own[t][req[t].row] \in ChildRows \cup {NoRow} /\ req[t].row \in Children
      BY <1>4, <2>2 DEF Good, Shape, Owns
    <3>2. \A p \in Parents : own[t][p] # Unwritten => own[t][p] \in ParentRows
      BY <2>2 DEF Good, Owns
    <3>3. \A c \in Children : own[t][c] # Unwritten => own[t][c] \in ChildRows \cup {NoRow}
      BY <2>2, <3>1 DEF Good, Owns
    <3>. QED BY <1>1, <1>2, <2>1, <3>2, <3>3
  <2>3. CASE OnParent(t)
    <3>1. \A p \in Parents : own[t][p] # Unwritten => own[t][p] \in ParentRows
      BY <1>4, <2>3 DEF Good, Owns
    <3>2. \A c \in Children : own[t][c] # Unwritten => own[t][c] \in ChildRows
      BY <2>3 DEF Good, Owns
    <3>. QED BY <1>1, <1>2, <2>1, <3>1, <3>2
  <2>4. CASE OnRemove(t)
    <3>1. own[t][req[t].row] = NoRow /\ req[t].row \in Parents
      BY <1>4, <2>4 DEF Good, Shape, Owns
    <3>2. \A r \in Rows : own[t][r] # Unwritten => own[t][r] = NoRow
      BY <2>4, <3>1 DEF Good, Owns
    <3>. QED BY <1>1, <1>2, <2>1, <3>2
  <2>5. CASE OnReload(t)
    <3>1. \A p \in Parents : own[t][p] # Unwritten => own[t][p] \in ParentRows
      BY <2>5 DEF Good, Owns
    <3>2. \A c \in Children : own[t][c] = Unwritten
      BY <2>1, <2>5, FiguresAssumption DEF Good, Owns
    <3>. QED BY <1>1, <1>2, <2>1, <3>1, <3>2
  <2>. QED BY <2>1, <2>2, <2>3, <2>4, <2>5, Kinds
<1>. QED BY <1>3, <1>4 DEF Good, Owns

\* A parent whose children are the same has the same figure.
LEMMA FigureSame ==
    ASSUME NEW before, NEW after, NEW p,
           \A c \in Children : Part(before[c], p) = Part(after[c], p)
    PROVE  Figure(before, p) = Figure(after, p)
<1>1. ChildrenOf(before, p) = ChildrenOf(after, p)
  BY DEF ChildrenOf, Part
<1>2. \A c \in ChildrenOf(before, p) : before[c].amount = after[c].amount
  BY DEF ChildrenOf, Part
<1>3. [c \in ChildrenOf(before, p) |-> before[c].amount] = [c \in ChildrenOf(after, p) |-> after[c].amount]
  BY <1>1, <1>2
<1>. QED BY <1>3 DEF Figure

\* Finitely many children are read, so a figure is a number.
LEMMA FigureType ==
    ASSUME TypeOK, Committed, NEW t \in Requests, Good(t), NEW p \in Parents
    PROVE  Figure(Snapshot(t), p) \in Int
<1>. DEFINE born == {c \in Children : origin[c] # Unborn}
            mine == {c \in Children : own[t][c] # Unwritten}
            f == [c \in ChildrenOf(Snapshot(t), p) |-> Snapshot(t)[c].amount]
<1>1. \A c \in Children : Snapshot(t)[c] = Read(t, c)
  BY DEF Snapshot, Rows
<1>2. ChildrenOf(Snapshot(t), p) \subseteq born \cup mine
  BY <1>1 DEF ChildrenOf, Read, Committed
<1>3. IsFiniteSet(born \cup mine)
  BY FS_Union DEF Committed, Good, Generated
<1>4. IsFiniteSet(DOMAIN f)
  BY <1>2, <1>3, FS_Subset
<1>5. \A c \in DOMAIN f : f[c] \in Int
  <2>1. \A c \in Children : Read(t, c) # NoRow => Read(t, c).amount \in Amounts
    BY ReadType DEF ChildRows
  <2>. QED BY <1>1, <2>1, FiguresAssumption DEF ChildrenOf
<1>. QED BY <1>4, <1>5, SumType DEF Figure

-----------------------------------------------------------------------------
(* The initial state.                                                      *)

LEMMA InitInv == Init => IInv
<1>. SUFFICES ASSUME Init PROVE IInv
  OBVIOUS
<1>1. \A t \in Requests : req[t] = Idle /\ own[t] = NoWrites /\ rowLocks[t] = {} /\ Active(t, "idle")
  BY DEF Init, OpenDatabase, Active, Idle
<1>2. /\ \A p \in Parents : stored[p] = [figure |-> 0, note |-> FirstNote, taken |-> FALSE]
      /\ \A c \in Children : stored[c] = NoRow /\ origin[c] = Unborn
  BY FiguresAssumption DEF Init, OpenDatabase, Rows
<1>3. TypeOK
  <2>1. [figure |-> 0, note |-> FirstNote, taken |-> FALSE] \in ParentRows
    BY FiguresAssumption DEF ParentRows
  <2>2. /\ stored \in [Rows -> Cells]
        /\ \A p \in Parents : stored[p] \in ParentRows \cup {NoRow}
        /\ \A c \in Children : stored[c] \in ChildRows \cup {NoRow}
    BY <1>2, <2>1 DEF Init, OpenDatabase, Rows, Cells
  <2>3. own \in [Requests -> [Rows -> Cells \cup {Unwritten}]]
    BY DEF Init, OpenDatabase, NoWrites
  <2>4. advisory \in [Parents \cup {NumberLock} -> Requests \cup {Nobody}]
    BY DEF Init, OpenDatabase
  <2>. QED BY <2>2, <2>3, <2>4 DEF TypeOK, Init, OpenDatabase
<1>4. RowsExclusive /\ Unshared
  BY <1>1 DEF RowsExclusive, Unshared, Flying, NoWrites
<1>5. Committed
  <2>1. {c \in Children : origin[c] # Unborn} = {}
    BY <1>2
  <2>2. \A p \in Parents : {c \in Children : origin[c] = p} = {}
    BY <1>2, FiguresAssumption
  <2>3. ScheduledOnce
    BY <1>2, <2>2, FS_EmptySet DEF ScheduledOnce
  <2>4. SeenAgrees /\ NoOrphans
    BY <1>2 DEF SeenAgrees, NoOrphans, Exists
  <2>. QED BY <1>2, <2>1, <2>3, <2>4, FS_EmptySet DEF Committed
<1>6. ASSUME NEW t \in Requests PROVE Good(t)
  <2>1. ~Flying(t) /\ ~Computed(t) /\ ~Wrote(t) /\ ~OnChild(t) /\ ~OnParent(t) /\ ~OnRemove(t) /\ ~OnReload(t)
    BY <1>1 DEF Flying, Computed, Wrote, OnChild, OnParent, OnRemove, OnReload
  <2>2. \A pc \in {"locking", "paged", "summing", "refreshing", "writing", "listing", "ready"} : ~Active(t, pc)
    BY <1>1 DEF Active, Idle
  <2>3. {c \in Children : own[t][c] # Unwritten} = {}
    BY <1>1 DEF NoWrites, Rows
  <2>4. Shape(t) /\ Holds(t) /\ Owns(t) /\ Recomputes(t)
    BY <1>1, <2>1, <2>2 DEF Shape, Holds, Owns, Recomputes
  <2>5. Known(t) /\ Places(t) /\ Follows(t)
    BY <1>1, <2>1, <2>2 DEF Known, Places, Follows
  <2>6. Generated(t)
    BY <2>1, <2>3, FS_EmptySet DEF Generated
  <2>. QED BY <2>4, <2>5, <2>6 DEF Good
<1>. QED BY <1>3, <1>4, <1>5, <1>6 DEF IInv

LEMMA InitFigures == Init => FInv
<1>. SUFFICES ASSUME Init PROVE FInv
  OBVIOUS
<1>1. /\ \A p \in Parents : stored[p].figure = 0
      /\ \A c \in Children : stored[c] = NoRow
  BY FiguresAssumption DEF Init, OpenDatabase, Rows
<1>2. \A p \in Parents : Figure(stored, p) = 0
  <2>1. \A p \in Parents : ChildrenOf(stored, p) = {}
    BY <1>1 DEF ChildrenOf
  <2>. QED BY <2>1, SumNothing DEF Figure
<1>3. \A t \in Requests : ~Flying(t)
  BY DEF Init, Flying, Active, Idle
<1>. QED BY <1>1, <1>2, <1>3 DEF FInv, FigureAgrees

-----------------------------------------------------------------------------
(* A step of another request that commits nothing.                         *)

LEMMA Bystander ==
    ASSUME TypeOK, NEW t \in Requests, Good(t),
           UNCHANGED <<stored, origin>>, req'[t] = req[t], own'[t] = own[t], rowLocks'[t] = rowLocks[t],
           \A l \in Parents \cup {NumberLock} : advisory[l] = t => advisory'[l] = t
    PROVE  Good(t)'
<1>1. /\ \A pc : Active(t, pc)' = Active(t, pc)
      /\ Flying(t)' = Flying(t) /\ Computed(t)' = Computed(t) /\ Wrote(t)' = Wrote(t)
      /\ OnChild(t)' = OnChild(t) /\ OnParent(t)' = OnParent(t)
      /\ OnRemove(t)' = OnRemove(t) /\ OnReload(t)' = OnReload(t)
  BY DEF Active, Flying, Computed, Wrote, OnChild, OnParent, OnRemove, OnReload
<1>2. \A r : Read(t, r)' = Read(t, r)
  BY DEF Read
<1>3. Shape(t)'
  BY <1>1 DEF Good, Shape
<1>4. Holds(t)'
  BY <1>1 DEF Good, Holds, Shape
<1>5. Owns(t)'
  BY <1>1 DEF Good, Owns, NewChild
<1>6. Recomputes(t)'
  BY <1>1, <1>2 DEF Good, Recomputes
<1>7. Known(t)'
  BY <1>1 DEF Good, Known
<1>8. Places(t)'
  BY <1>1 DEF Good, Places
<1>9. Follows(t)'
  BY <1>1, <1>2 DEF Good, Follows
<1>10. Generated(t)'
  BY <1>1 DEF Good, Generated, New, Takes
<1>. QED BY <1>3, <1>4, <1>5, <1>6, <1>7, <1>8, <1>9, <1>10 DEF Good

LEMMA BystanderOwes ==
    ASSUME TypeOK, NEW t \in Requests, Owes(t),
           UNCHANGED stored, req'[t] = req[t], own'[t] = own[t], rowLocks'[t] = rowLocks[t]
    PROVE  Owes(t)'
<1>1. /\ \A pc : Active(t, pc)' = Active(t, pc)
      /\ OnChild(t)' = OnChild(t) /\ OnParent(t)' = OnParent(t)
      /\ EditsParent(t)' = EditsParent(t)
  BY DEF Active, Flying, OnChild, OnParent, EditsParent, Exists
<1>2. Snapshot(t)' = Snapshot(t) /\ \A r : Read(t, r)' = Read(t, r)
  BY DEF Read, Snapshot
<1>3. \A p \in Parents : Touches(t, p)' = Touches(t, p) /\ Settled(t, p)' = Settled(t, p)
  BY <1>2 DEF Touches, Settled
<1>. QED BY <1>1, <1>2, <1>3 DEF Owes

-----------------------------------------------------------------------------
(* What every step but a commit leaves alone.                              *)

Local(t) ==
    /\ UNCHANGED <<stored, numbered, origin>>
    /\ \E job : req' = [req EXCEPT ![t] = job]
    /\ \/ UNCHANGED <<own, rowLocks, advisory>>
       \/ \E l \in Parents \cup {NumberLock} : AdvisoryLock(t, l)
       \/ \E r : SelectForUpdate(t, r)
       \/ \E r, v : WriteRow(t, r, v)
       \/ Rollback(t)

Moves(t) ==
    \/ BeginCreate(t) \/ BeginUpdate(t) \/ BeginMove(t) \/ BeginDelete(t) \/ BeginEdit(t)
    \/ BeginGenerate(t) \/ BeginRemove(t) \/ ReadPage(t)
    \/ ComputeChild(t) \/ ComputeDelete(t) \/ ComputeParent(t) \/ ListChildren(t)
    \/ SumParent(t) \/ RefreshChild(t) \/ WriteBack(t) \/ Compare(t)
    \/ CheckRemove(t) \/ InsertGenerated(t)
    \/ Wait(t) \/ Fail(t)

LEMMA NextMoves == ASSUME Next PROVE \E t \in Requests : Moves(t) \/ Finish(t)
BY DEF Next, Advance, Moves

LEMMA MovesLocal == ASSUME TypeOK, NEW t \in Requests, Good(t), Moves(t) PROVE Local(t)
<1>. USE DEF dbState, Step
<1>1. ASSUME NEW job, req' = [req EXCEPT ![t] = job], UNCHANGED <<dbState, numbered, origin>> PROVE Local(t)
  BY <1>1 DEF Local
<1>2. ASSUME Refuse(t) PROVE Local(t)
  <2>1. Rollback(t) /\ UNCHANGED <<stored, numbered, origin>>
    BY <1>2 DEF Refuse, Rollback
  <2>. QED BY <1>2, <2>1 DEF Refuse, Local
<1>3. ASSUME BeginCreate(t) \/ BeginUpdate(t) \/ BeginMove(t) \/ BeginDelete(t) \/ BeginEdit(t)
             \/ BeginGenerate(t) \/ BeginRemove(t) \/ ReadPage(t)
      PROVE  Local(t)
  BY <1>1, <1>3 DEF BeginCreate, BeginUpdate, BeginMove, BeginDelete, BeginEdit, BeginGenerate, BeginRemove,
                    Begin, ReadPage
<1>4. ASSUME ComputeChild(t) \/ ComputeDelete(t) \/ ComputeParent(t) \/ CheckRemove(t) PROVE Local(t)
  BY <1>1, <1>2, <1>4 DEF ComputeChild, ComputeDelete, ComputeParent, CheckRemove
<1>5. ASSUME ListChildren(t) \/ SumParent(t) \/ RefreshChild(t) \/ Compare(t) PROVE Local(t)
  BY <1>1, <1>5 DEF ListChildren, SumParent, RefreshChild, Recompute, Compare
<1>6. ASSUME WriteBack(t) \/ InsertGenerated(t) PROVE Local(t)
  BY <1>6 DEF WriteBack, InsertGenerated, WriteRow, Local
<1>7. ASSUME TakeLock(t) PROVE Local(t)
  <2>1. LockOf(t) \in Parents \cup {NumberLock}
    <3>1. req[t].op = "create" \/ req[t].row \in Parents
      BY <1>7 DEF TakeLock, Good, Shape
    <3>. QED BY <3>1 DEF LockOf
  <2>. QED BY <1>7, <2>1 DEF TakeLock, AdvisoryLock, Local
<1>8. ASSUME LockNumbers(t) PROVE Local(t)
  <2>1. req' = [req EXCEPT ![t] = req[t]]
    BY <1>8 DEF LockNumbers, TypeOK
  <2>. QED BY <1>8, <2>1 DEF LockNumbers, AdvisoryLock, Local
<1>9. ASSUME Write(t) PROVE Local(t)
  BY <1>2, <1>9 DEF Write, WriteRow, Local
<1>10. ASSUME LockParent(t) \/ LockChild(t) PROVE Local(t)
  BY <1>10 DEF LockParent, LockChild, SelectForUpdate, Local
<1>. QED
  BY <1>2, <1>3, <1>4, <1>5, <1>6, <1>7, <1>8, <1>9, <1>10 DEF Moves, Wait, Fail

LEMMA Elsewhere ==
    ASSUME TypeOK, NEW t \in Requests, Local(t), NEW u \in Requests \ {t}
    PROVE  /\ req'[u] = req[u] /\ own'[u] = own[u] /\ rowLocks'[u] = rowLocks[u]
           /\ \A l \in Parents \cup {NumberLock} : advisory[l] = u => advisory'[l] = u
<1>1. req'[u] = req[u]
  BY DEF Local, TypeOK
<1>2. CASE UNCHANGED <<own, rowLocks, advisory>>
  BY <1>1, <1>2
<1>3. ASSUME NEW l \in Parents \cup {NumberLock}, AdvisoryLock(t, l)
      PROVE  /\ own'[u] = own[u] /\ rowLocks'[u] = rowLocks[u]
             /\ \A k \in Parents \cup {NumberLock} : advisory[k] = u => advisory'[k] = u
  BY <1>3, FiguresAssumption DEF AdvisoryLock, TypeOK
<1>4. ASSUME NEW r, SelectForUpdate(t, r)
      PROVE  UNCHANGED <<own, advisory>> /\ rowLocks'[u] = rowLocks[u]
  BY <1>4 DEF SelectForUpdate, TypeOK
<1>5. ASSUME NEW r, NEW v, WriteRow(t, r, v)
      PROVE  UNCHANGED advisory /\ own'[u] = own[u] /\ rowLocks'[u] = rowLocks[u]
  BY <1>5 DEF WriteRow, TypeOK
<1>6. CASE Rollback(t)
  BY <1>1, <1>6 DEF Rollback, EndTx, TypeOK
<1>. QED BY <1>1, <1>2, <1>3, <1>4, <1>5, <1>6 DEF Local

\* A step that leaves the request's own writes and locks of their type leaves everything so.
LEMMA TypesKept ==
    ASSUME TypeOK, NEW t \in Requests, Local(t),
           req'[t] \in Jobs \cup {Idle},
           own'[t] \in [Rows -> Cells \cup {Unwritten}],
           rowLocks'[t] \in SUBSET Rows
    PROVE  TypeOK'
<1>1. \A u \in Requests \ {t} : req'[u] = req[u] /\ own'[u] = own[u] /\ rowLocks'[u] = rowLocks[u]
  BY Elsewhere
<1>2. req' \in [Requests -> Jobs \cup {Idle}]
  <2>1. \A u \in Requests : req'[u] \in Jobs \cup {Idle}
    BY <1>1 DEF TypeOK
  <2>. QED BY <2>1 DEF Local, TypeOK
<1>3. own' \in [Requests -> [Rows -> Cells \cup {Unwritten}]]
  <2>1. \A u \in Requests : own'[u] \in [Rows -> Cells \cup {Unwritten}]
    BY <1>1 DEF TypeOK
  <2>2. \E g : own' = [u \in Requests |-> g[u]]
    BY DEF Local, AdvisoryLock, SelectForUpdate, WriteRow, Rollback, EndTx, TypeOK
  <2>. QED BY <2>1, <2>2
<1>4. rowLocks' \in [Requests -> SUBSET Rows]
  <2>1. \A u \in Requests : rowLocks'[u] \in SUBSET Rows
    BY <1>1 DEF TypeOK
  <2>2. \E g : rowLocks' = [u \in Requests |-> g[u]]
    BY DEF Local, AdvisoryLock, SelectForUpdate, WriteRow, Rollback, EndTx, TypeOK
  <2>. QED BY <2>1, <2>2
<1>5. advisory' \in [Parents \cup {NumberLock} -> Requests \cup {Nobody}]
  BY DEF Local, AdvisoryLock, SelectForUpdate, WriteRow, Rollback, EndTx, TypeOK
<1>. QED BY <1>2, <1>3, <1>4, <1>5 DEF Local, TypeOK

LEMMA ExclusiveKept ==
    ASSUME TypeOK, RowsExclusive, NEW t \in Requests, Local(t)
    PROVE  RowsExclusive'
<1>1. CASE UNCHANGED <<own, rowLocks, advisory>>
  BY <1>1 DEF RowsExclusive
<1>2. ASSUME NEW l, AdvisoryLock(t, l) PROVE RowsExclusive'
  BY <1>2 DEF AdvisoryLock, RowsExclusive
<1>3. ASSUME NEW r, SelectForUpdate(t, r) PROVE RowsExclusive'
  BY <1>3 DEF SelectForUpdate, RowFree, RowsExclusive, TypeOK
<1>4. ASSUME NEW r, NEW v, WriteRow(t, r, v) PROVE RowsExclusive'
  BY <1>4 DEF WriteRow, RowFree, RowsExclusive, TypeOK
<1>5. CASE Rollback(t)
  BY <1>5 DEF Rollback, EndTx, RowsExclusive, TypeOK, NoWrites
<1>. QED BY <1>1, <1>2, <1>3, <1>4, <1>5 DEF Local

-----------------------------------------------------------------------------
(* A request begins.                                                       *)

\* What each kind of request begins with.
Begins(op, r, next) ==
    \/ op = "create" /\ r \in FreshIds /\ next \in ChildRows /\ stored[next.parent] # NoRow
    \/ op = "update" /\ r \in Children /\ next \in ChildRows /\ stored[r] # NoRow /\ stored[r].parent = next.parent
    \/ op = "move" /\ r \in Children /\ next \in ChildRows /\ stored[r] # NoRow /\ stored[next.parent] # NoRow
    \/ op = "delete" /\ r \in Children /\ next = NoRow /\ stored[r] # NoRow
    \/ op = "edit" /\ r \in Parents /\ next \in ParentRows /\ stored[r] # NoRow /\ next.taken = stored[r].taken
    \/ op = "generate" /\ r \in Parents /\ next \in ParentRows /\ next.taken
    \/ op = "remove" /\ r \in Parents /\ next = NoRow

LEMMA BeginsWith ==
    ASSUME TypeOK, NEW t \in Requests,
           \/ BeginCreate(t) \/ BeginUpdate(t) \/ BeginMove(t) \/ BeginDelete(t)
           \/ BeginEdit(t) \/ BeginGenerate(t) \/ BeginRemove(t)
    PROVE  \E op, r, next : Begin(t, op, r, next) /\ Begins(op, r, next)
<1>1. CASE BeginCreate(t)
  <2>1. PICK c \in FreshIds, p \in Parents, a \in Amounts :
           Exists(p) /\ Begin(t, "create", c, [parent |-> p, amount |-> a, seen |-> FirstNote])
    BY <1>1 DEF BeginCreate
  <2>2. [parent |-> p, amount |-> a, seen |-> FirstNote] \in ChildRows
    BY FiguresAssumption DEF ChildRows
  <2>. QED BY <2>1, <2>2 DEF Begins, Exists
<1>2. CASE BeginUpdate(t)
  <2>1. PICK c \in Children, a \in Amounts : Exists(c) /\ Begin(t, "update", c, [stored[c] EXCEPT !.amount = a])
    BY <1>2 DEF BeginUpdate
  <2>2. stored[c] \in ChildRows
    BY <2>1 DEF TypeOK, Exists
  <2>. DEFINE next == [stored[c] EXCEPT !.amount = a]
  <2>3. next \in ChildRows /\ next.parent = stored[c].parent
    BY <2>2 DEF ChildRows
  <2>4. Begin(t, "update", c, next) /\ Begins("update", c, next)
    BY <2>1, <2>3 DEF Begins, Exists
  <2>. QED BY <2>4
<1>3. CASE BeginMove(t)
  <2>1. PICK c \in Children, p \in Parents :
           Exists(c) /\ Exists(p) /\ Begin(t, "move", c, [stored[c] EXCEPT !.parent = p])
    BY <1>3 DEF BeginMove
  <2>2. stored[c] \in ChildRows
    BY <2>1 DEF TypeOK, Exists
  <2>. DEFINE next == [stored[c] EXCEPT !.parent = p]
  <2>3. next \in ChildRows /\ next.parent = p
    BY <2>2 DEF ChildRows
  <2>4. Begin(t, "move", c, next) /\ Begins("move", c, next)
    BY <2>1, <2>3 DEF Begins, Exists
  <2>. QED BY <2>4
<1>4. CASE BeginDelete(t)
  BY <1>4 DEF BeginDelete, Begins, Exists
<1>5. CASE BeginEdit(t)
  <2>1. PICK p \in Parents, note \in Notes : Exists(p) /\ Begin(t, "edit", p, [stored[p] EXCEPT !.note = note])
    BY <1>5 DEF BeginEdit
  <2>2. stored[p] \in ParentRows
    BY <2>1 DEF TypeOK, Exists
  <2>. DEFINE next == [stored[p] EXCEPT !.note = note]
  <2>3. next \in ParentRows /\ next.taken = stored[p].taken
    BY <2>2 DEF ParentRows
  <2>4. Begin(t, "edit", p, next) /\ Begins("edit", p, next)
    BY <2>1, <2>3 DEF Begins, Exists
  <2>. QED BY <2>4
<1>6. CASE BeginGenerate(t)
  <2>1. PICK p \in Parents : Exists(p) /\ Begin(t, "generate", p, [stored[p] EXCEPT !.taken = TRUE])
    BY <1>6 DEF BeginGenerate
  <2>2. stored[p] \in ParentRows
    BY <2>1 DEF TypeOK, Exists
  <2>. DEFINE next == [stored[p] EXCEPT !.taken = TRUE]
  <2>3. next \in ParentRows /\ next.taken
    BY <2>2 DEF ParentRows
  <2>4. Begin(t, "generate", p, next) /\ Begins("generate", p, next)
    BY <2>1, <2>3 DEF Begins
  <2>. QED BY <2>4
<1>7. CASE BeginRemove(t)
  BY <1>7 DEF BeginRemove, Begins
<1>. QED BY <1>1, <1>2, <1>3, <1>4, <1>5, <1>6, <1>7

\* A request that has computed nothing has written nothing, and asks little of the rest.
LEMMA EarlyGood ==
    ASSUME NEW t \in Requests, Flying(t)', ~Computed(t)',
           Shape(t)', Holds(t)', Known(t)', own'[t] = NoWrites,
           OnChild(t)' /\ req'[t].op \in {"create", "move"} => stored'[req'[t].next.parent] # NoRow,
           OnChild(t)' /\ req'[t].op = "update" /\ stored'[req'[t].row] # NoRow =>
               stored'[req'[t].row].parent = req'[t].next.parent,
           OnParent(t)' /\ ~Generates => ~req'[t].next.taken
    PROVE  Good(t)'
<1>1. /\ ~Wrote(t)' /\ \A r \in Rows : own'[t][r] = Unwritten
      /\ \A pc \in {"ready", "listing", "summing", "refreshing", "writing"} : ~Active(t, pc)'
  BY DEF Wrote, Computed, Active, NoWrites
<1>2. Owns(t)'
  <2>1. Parents \subseteq Rows /\ Children \subseteq Rows
    BY DEF Rows
  <2>. QED BY <1>1, <2>1 DEF Owns
<1>3. Recomputes(t)' /\ Places(t)' /\ Follows(t)'
  BY <1>1 DEF Recomputes, Places, Follows
<1>4. Generated(t)'
  <2>1. {c \in Children : own'[t][c] # Unwritten} = {}
    BY <1>1 DEF Rows
  <2>2. req'[t].due = 0
    BY DEF Shape
  <2>. QED BY <2>1, <2>2, FS_EmptySet DEF Generated
<1>. QED BY <1>2, <1>3, <1>4 DEF Good

LEMMA BeginStep ==
    ASSUME IInv, NEW t \in Requests, NEW op, NEW r, NEW next, Begin(t, op, r, next), Begins(op, r, next)
    PROVE  TypeOK' /\ Good(t)' /\ Unshared'
<1>. USE DEF IInv
<1>. DEFINE job == [pc |-> IF (r \in Parents /\ Generates) \/ (op = "create" /\ numbered)
                           THEN "locking" ELSE "begun",
                    op |-> op, row |-> r, next |-> next, at |-> r, value |-> NoRow,
                    parents |-> {}, children |-> {}, follow |-> FALSE, due |-> 0]
<1>1. /\ req' = [req EXCEPT ![t] = job] /\ Active(t, "idle") /\ op \in Operations
      /\ UNCHANGED <<stored, own, rowLocks, advisory, numbered, origin>>
  BY DEF Begin, Step, dbState
<1>2. /\ req'[t] = job
      /\ job.pc \in {"locking", "begun"} /\ job.op = op /\ job.row = r /\ job.next = next
      /\ job.parents = {} /\ job.children = {} /\ ~job.follow /\ job.due = 0
      /\ (job.pc = "locking" <=> (r \in Parents /\ Generates) \/ (op = "create" /\ numbered))
  BY <1>1 DEF TypeOK
<1>3. job \in Jobs
  <2>1. r \in Rows /\ next \in Cells /\ NoRow \in Cells
    BY DEF Begins, FreshIds, Rows, Cells
  <2>2. 0 \in 0..Len(Schedule)
    BY FiguresAssumption
  <2>. QED BY <1>1, <2>1, <2>2 DEF Jobs
<1>. HIDE DEF job
<1>4. TypeOK'
  <2>1. Local(t)
    BY <1>1 DEF Local
  <2>. QED BY <1>1, <1>2, <1>3, <2>1, TypesKept DEF TypeOK
<1>5. /\ Flying(t)' /\ ~Computed(t)' /\ own'[t] = NoWrites /\ r \in Rows
      /\ OnChild(t)' = (op \in {"create", "update", "move", "delete"})
      /\ OnParent(t)' = (op \in {"edit", "generate"})
      /\ OnRemove(t)' = (op = "remove") /\ ~OnReload(t)'
      /\ \A pc : Active(t, pc)' = (job.pc = pc)
  <2>1. own[t] = NoWrites
    BY <1>1, Kinds DEF Good, Owns
  <2>2. req'[t].pc = job.pc /\ req'[t].op = op
    BY <1>2
  <2>3. Flying(t)' /\ ~Computed(t)' /\ \A pc : Active(t, pc)' = (job.pc = pc)
    BY <1>2, <2>2 DEF Flying, Computed, Active
  <2>4. /\ OnChild(t)' = (op \in {"create", "update", "move", "delete"})
        /\ OnParent(t)' = (op \in {"edit", "generate"})
        /\ OnRemove(t)' = (op = "remove") /\ OnReload(t)' = (op = "reload")
    BY <2>2, <2>3 DEF OnChild, OnParent, OnRemove, OnReload
  <2>. QED BY <1>1, <1>3, <1>2, <2>1, <2>3, <2>4 DEF Begins, Jobs
<1>6. r \in Children => (origin[r] = Unborn <=> op = "create")
  BY FiguresAssumption DEF Begins, FreshIds, Committed
<1>7. Shape(t)'
  <2>1. op \in {"create", "update", "move", "delete"} => Parents # {}
    BY DEF Begins, ChildRows, TypeOK
  <2>2. op \in {"create", "update", "move", "delete"} =>
           r \in Children /\ next \in ChildRows \cup {NoRow} /\ (next = NoRow <=> op = "delete")
    BY FiguresAssumption DEF Begins, FreshIds
  <2>3. op \in {"edit", "generate"} => r \in Parents /\ next \in ParentRows /\ (op = "generate" => next.taken)
    BY DEF Begins
  <2>4. op = "remove" => r \in Parents /\ next = NoRow
    BY DEF Begins
  <2>5. op # "reload" /\ op \in {"create", "update", "move", "delete", "edit", "generate", "remove"}
    BY DEF Begins
  <2>6. r \in Parents => op \in {"edit", "generate", "remove"}
    BY <2>2, <2>5, FiguresAssumption
  <2>. QED BY <1>2, <1>5, <2>1, <2>2, <2>3, <2>4, <2>5, <2>6 DEF Shape
<1>8. Holds(t)' /\ Known(t)'
  BY <1>1, <1>2, <1>5, <1>6, FiguresAssumption DEF Holds, Known, Begins, FreshIds
<1>9. Good(t)'
  <2>1. OnChild(t)' /\ op \in {"create", "move"} => stored[next.parent] # NoRow
    BY <1>5 DEF Begins
  <2>2. OnChild(t)' /\ op = "update" /\ stored[r] # NoRow => stored[r].parent = next.parent
    BY <1>5 DEF Begins
  <2>3. OnParent(t)' /\ ~Generates => ~next.taken
    BY <1>1, <1>5 DEF Begins, Committed, Generates
  <2>4. (req[t].op = op /\ req[t].next = next /\ req[t].row = r)'
    BY <1>2
  <2>. QED BY <1>1, <1>4, <1>5, <1>7, <1>8, <2>1, <2>2, <2>3, <2>4, EarlyGood
<1>10. Unshared'
  <2>1. \A u \in Requests \ {t} : req'[u] = req[u] /\ Flying(u)' = Flying(u)
    BY <1>1 DEF TypeOK, Flying, Active
  <2>2. op = "create" => \A u \in Requests \ {t} : (Flying(u) => req[u].row # r) /\ own[u][r] = Unwritten
    <3>1. op = "create" => r \in FreshIds /\ r \in Children
      BY DEF Begins, FreshIds
    <3>2. \A u \in Requests : ~Flying(u) => own[u] = NoWrites
      BY DEF Good, Owns, Computed, Wrote
    <3>. QED BY <3>1, <3>2, <1>5 DEF FreshIds, Flying, NoWrites
  <2>3. ASSUME NEW u \in Requests \ {t}, Flying(u), req[u].op = "create" PROVE req[u].row # r /\ own[t][req[u].row] = Unwritten
    <3>1. req[u].row \in Children /\ origin[req[u].row] = Unborn
      BY <2>3 DEF Good, Shape, Known, OnChild
    <3>2. op # "create" => req[u].row # r
      BY <1>6, <3>1
    <3>3. req[u].row \in Rows
      BY <3>1 DEF Rows
    <3>. QED BY <1>1, <1>5, <2>2, <2>3, <3>2, <3>3 DEF NoWrites
  <2>. QED BY <1>1, <1>2, <2>1, <2>2, <2>3 DEF Unshared
<1>. QED BY <1>4, <1>9, <1>10

LEMMA ReadPageStep ==
    ASSUME IInv, NEW t \in Requests, ReadPage(t)
    PROVE  TypeOK' /\ Good(t)' /\ Unshared'
<1>. USE DEF IInv
<1>1. PICK r \in Rows :
         /\ Active(t, "idle") /\ "reload" \in Operations /\ stored[r] # NoRow
         /\ req' = [req EXCEPT ![t] =
                [pc |-> "paged", op |-> "reload", row |-> r, next |-> stored[r],
                 at |-> r, value |-> NoRow, parents |-> {}, children |-> {}, follow |-> FALSE, due |-> 0]]
         /\ UNCHANGED <<stored, own, rowLocks, advisory, numbered, origin>>
  BY DEF ReadPage, Step, Exists, dbState
<1>. DEFINE job == [pc |-> "paged", op |-> "reload", row |-> r, next |-> stored[r],
                    at |-> r, value |-> NoRow, parents |-> {}, children |-> {}, follow |-> FALSE, due |-> 0]
<1>2. /\ req' = [req EXCEPT ![t] = job] /\ req'[t] = job
      /\ job.pc = "paged" /\ job.op = "reload" /\ job.row = r /\ job.next = stored[r]
      /\ job.parents = {} /\ job.children = {} /\ ~job.follow /\ job.due = 0
  BY <1>1 DEF TypeOK
<1>3. job \in Jobs
  <2>1. stored[r] \in Cells /\ NoRow \in Cells /\ 0 \in 0..Len(Schedule)
    BY FiguresAssumption DEF TypeOK, Cells
  <2>. QED BY <1>1, <2>1 DEF Jobs
<1>. HIDE DEF job
<1>4. TypeOK'
  <2>1. Local(t)
    BY <1>1, <1>2 DEF Local
  <2>. QED BY <1>1, <1>2, <1>3, <2>1, TypesKept DEF TypeOK
<1>5. /\ Flying(t)' /\ ~Computed(t)' /\ own'[t] = NoWrites
      /\ ~OnChild(t)' /\ ~OnParent(t)' /\ ~OnRemove(t)' /\ OnReload(t)'
      /\ \A pc : Active(t, pc)' = (pc = "paged")
  <2>1. own[t] = NoWrites
    BY <1>1, Kinds DEF Good, Owns
  <2>2. req'[t].pc = "paged" /\ req'[t].op = "reload"
    BY <1>2
  <2>. QED BY <1>1, <2>1, <2>2 DEF Flying, Computed, Active, OnChild, OnParent, OnRemove, OnReload
<1>6. Shape(t)'
  <2>1. stored[r] \in IF r \in Parents THEN ParentRows ELSE ChildRows
    BY <1>1 DEF TypeOK, Rows
  <2>. QED BY <1>2, <1>5, <2>1 DEF Shape
<1>7. Holds(t)' /\ Known(t)'
  BY <1>1, <1>2, <1>5 DEF Holds, Known, Committed
<1>8. Good(t)'
  BY <1>5, <1>6, <1>7, EarlyGood
<1>9. Unshared'
  <2>1. \A u \in Requests \ {t} : req'[u] = req[u] /\ Flying(u)' = Flying(u)
    BY <1>1 DEF TypeOK, Flying, Active
  <2>2. ASSUME NEW u \in Requests \ {t}, Flying(u), req[u].op = "create" PROVE req[u].row # r /\ own[t][req[u].row] = Unwritten
    <3>1. req[u].row \in Children /\ origin[req[u].row] = Unborn
      BY <2>2 DEF Good, Shape, Known, OnChild
    <3>. QED BY <1>1, <1>5, <3>1 DEF Committed, NoWrites, Rows
  <2>. QED BY <1>1, <1>2, <2>1, <2>2 DEF Unshared
<1>. QED BY <1>4, <1>8, <1>9

-----------------------------------------------------------------------------
(* A request ends, or waits for a lock.                                    *)

LEMMA IdleGood ==
    ASSUME NEW t \in Requests, req'[t] = Idle, own'[t] = NoWrites
    PROVE  Good(t)'
<1>1. /\ ~Flying(t)' /\ ~Computed(t)' /\ ~Wrote(t)'
      /\ ~OnChild(t)' /\ ~OnParent(t)' /\ ~OnRemove(t)' /\ ~OnReload(t)'
      /\ Active(t, "idle")'
      /\ \A pc \in {"locking", "paged", "summing", "refreshing", "writing", "listing", "ready"} : ~Active(t, pc)'
  BY DEF Flying, Computed, Wrote, OnChild, OnParent, OnRemove, OnReload, Active, Idle
<1>2. {c \in Children : own'[t][c] # Unwritten} = {}
  BY DEF NoWrites, Rows
<1>3. Shape(t)' /\ Holds(t)' /\ Owns(t)' /\ Recomputes(t)'
  BY <1>1 DEF Shape, Holds, Owns, Recomputes
<1>4. Known(t)' /\ Places(t)' /\ Follows(t)'
  BY <1>1 DEF Known, Places, Follows
<1>5. Generated(t)'
  BY <1>1, <1>2, FS_EmptySet DEF Generated
<1>. QED BY <1>3, <1>4, <1>5 DEF Good

LEMMA RefuseStep ==
    ASSUME TypeOK, NEW t \in Requests, Refuse(t)
    PROVE  TypeOK' /\ Good(t)' /\ ~Flying(t)' /\ own'[t] = NoWrites
<1>1. req'[t] = Idle /\ own'[t] = NoWrites /\ rowLocks'[t] = {} /\ req' = [req EXCEPT ![t] = Idle]
  BY DEF Refuse, Step, Rollback, EndTx, TypeOK
<1>2. Local(t)
  BY <1>1 DEF Refuse, Rollback, Local
<1>3. NoWrites \in [Rows -> Cells \cup {Unwritten}]
  BY DEF NoWrites
<1>4. TypeOK'
  BY <1>1, <1>2, <1>3, TypesKept
<1>. QED BY <1>1, <1>4, IdleGood DEF Flying, Active, Idle

LEMMA UnsharedKept ==
    ASSUME TypeOK, Unshared, \A u \in Requests : Good(u), NEW t \in Requests, Local(t),
           Flying(t)' => Flying(t) /\ req'[t].op = req[t].op /\ req'[t].row = req[t].row,
           \A c \in Children : own'[t][c] # Unwritten =>
              \/ own[t][c] # Unwritten \/ origin[c] # Unborn \/ c \in FreshIds
              \/ Flying(t) /\ c = req[t].row
    PROVE  Unshared'
<1>1. \A u \in Requests \ {t} : req'[u] = req[u] /\ own'[u] = own[u] /\ Flying(u)' = Flying(u)
  BY Elsewhere DEF Flying, Active
<1>2. ASSUME NEW u \in Requests \ {t}, Flying(u), req[u].op = "create"
      PROVE  (Flying(t)' => req'[t].row # req[u].row) /\ own'[t][req[u].row] = Unwritten
  <2>1. req[u].row \in Children /\ origin[req[u].row] = Unborn
    BY <1>2 DEF Good, Shape, Known, OnChild
  <2>2. (Flying(t) => req[t].row # req[u].row) /\ own[t][req[u].row] = Unwritten
    BY <1>2 DEF Unshared
  <2>3. req[u].row \notin FreshIds
    BY <1>2 DEF FreshIds, Flying
  <2>. QED BY <2>1, <2>2, <2>3
<1>. QED BY <1>1, <1>2 DEF Unshared

LEMMA TakeLockStep ==
    ASSUME IInv, NEW t \in Requests, TakeLock(t)
    PROVE  TypeOK' /\ Good(t)' /\ Unshared'
<1>. USE DEF IInv
<1>. DEFINE job == [req[t] EXCEPT !.pc = "begun"]
<1>1. /\ Active(t, "locking") /\ Flying(t) /\ ~Computed(t) /\ req[t] \in Jobs
      /\ req' = [req EXCEPT ![t] = job] /\ req'[t] = job
      /\ AdvisoryLock(t, LockOf(t)) /\ UNCHANGED <<stored, own, rowLocks, numbered, origin>>
  BY FlyingType DEF TakeLock, Step, AdvisoryLock, TypeOK, Active, Flying, Computed
<1>2. /\ job \in Jobs /\ job.pc = "begun" /\ job.op = req[t].op /\ job.row = req[t].row /\ job.next = req[t].next
      /\ job.parents = req[t].parents /\ job.children = req[t].children
      /\ job.follow = req[t].follow /\ job.due = req[t].due
  BY <1>1 DEF Jobs
<1>. HIDE DEF job
<1>3. Moves(t)
  BY DEF Moves, Wait
<1>4. Local(t)
  BY <1>3, MovesLocal
<1>5. TypeOK'
  BY <1>1, <1>2, <1>4, TypesKept DEF TypeOK
<1>6. /\ Flying(t)' /\ ~Computed(t)' /\ own'[t] = NoWrites
      /\ OnChild(t)' = OnChild(t) /\ OnParent(t)' = OnParent(t)
      /\ OnRemove(t)' = OnRemove(t) /\ OnReload(t)' = OnReload(t)
      /\ \A pc : Active(t, pc)' = (pc = "begun")
  BY <1>1, <1>2 DEF Good, Owns, Wrote, Flying, Computed, Active, OnChild, OnParent, OnRemove, OnReload
<1>7. Shape(t)'
  <2>1. Shape(t)
    BY DEF Good
  <2>2. ~OnReload(t) /\ req'[t].pc = "begun"
    BY <1>1, <1>2, <2>1 DEF Shape, Active
  <2>3. OnChild(t) =>
          /\ req[t].row \in Children /\ req[t].next \in ChildRows \cup {NoRow}
          /\ req[t].next = NoRow <=> req[t].op = "delete"
          /\ \E p, q \in Parents : req[t].parents \subseteq {p, q}
    BY <2>1 DEF Shape
  <2>4. OnParent(t) =>
          /\ req[t].row \in Parents /\ req[t].next \in ParentRows
          /\ req[t].op = "generate" => req[t].next.taken
    BY <2>1 DEF Shape
  <2>5. OnRemove(t) => req[t].row \in Parents /\ req[t].next = NoRow
    BY <2>1 DEF Shape
  <2>6. OnChild(t) \/ OnParent(t) \/ OnRemove(t)
    BY <1>1, <2>1, <2>2 DEF Shape, Flying
  <2>7. ~OnParent(t) => ~req[t].follow
    BY <1>1, <2>1 DEF Shape
  <2>8. req[t].parents = {} /\ req[t].children = {} /\ req[t].due = 0
    BY <1>1, <2>1 DEF Shape
  <2>. QED BY <1>1, <1>2, <1>6, <2>2, <2>3, <2>4, <2>5, <2>6, <2>7, <2>8 DEF Shape
<1>8. Holds(t)'
  <2>1. OnParent(t) \/ OnRemove(t) => LockOf(t) = req[t].row /\ req[t].row \in Parents
    BY DEF LockOf, Good, Shape, OnParent, OnRemove
  <2>. QED BY <1>1, <1>2, <1>6, <2>1 DEF Holds, AdvisoryLock, TypeOK
<1>9. Known(t)'
  BY <1>1, <1>2, <1>6 DEF Good, Known
<1>10. Good(t)'
  <2>1. Places(t) /\ Generated(t)
    BY DEF Good
  <2>. QED BY <1>1, <1>2, <1>6, <1>7, <1>8, <1>9, <2>1, EarlyGood DEF Places, Generated
<1>11. Unshared'
  BY <1>1, <1>2, <1>4, UnsharedKept
<1>. QED BY <1>5, <1>10, <1>11

\* A lock taken leaves what the request was doing as it was.
LEMMA LockNumbersStep ==
    ASSUME IInv, NEW t \in Requests, LockNumbers(t)
    PROVE  TypeOK' /\ Good(t)' /\ Unshared' /\ (FInv => \A u \in Requests : Flying(u)' => Owes(u)')
<1>. USE DEF IInv
<1>1. AdvisoryLock(t, NumberLock) /\ UNCHANGED <<stored, own, rowLocks, req, numbered, origin>>
  BY DEF LockNumbers, AdvisoryLock
<1>2. Moves(t)
  BY DEF Moves, Wait
<1>3. Local(t)
  BY <1>2, MovesLocal
<1>4. TypeOK'
  BY <1>1, <1>3, TypesKept DEF TypeOK
<1>5. \A l \in Parents \cup {NumberLock} : advisory[l] = t => advisory'[l] = t
  BY <1>1 DEF AdvisoryLock, TypeOK
<1>6. Good(t)'
  BY <1>1, <1>5, Bystander
<1>7. Unshared'
  BY <1>1, <1>3, UnsharedKept DEF Flying, Active
<1>8. \A u \in Requests : Owes(u) => Owes(u)'
  BY <1>1, BystanderOwes
<1>9. \A u \in Requests : Flying(u)' = Flying(u)
  BY <1>1 DEF Flying, Active
<1>. QED BY <1>4, <1>6, <1>7, <1>8, <1>9 DEF FInv

-----------------------------------------------------------------------------
(* A request at work keeps its kind.                                       *)

LEMMA SameKinds ==
    ASSUME NEW t \in Requests, Flying(t), req'[t].op = req[t].op, req'[t].pc # "idle"
    PROVE  /\ Flying(t)'
           /\ OnChild(t)' = OnChild(t) /\ OnParent(t)' = OnParent(t)
           /\ OnRemove(t)' = OnRemove(t) /\ OnReload(t)' = OnReload(t)
           /\ \A pc : Active(t, pc)' = (req'[t].pc = pc)
           /\ Computed(t)' = (req'[t].pc \notin {"locking", "begun", "paged"})
           /\ Wrote(t)' = (req'[t].pc \notin {"locking", "begun", "paged", "ready"})
BY DEF Flying, Active, OnChild, OnParent, OnRemove, OnReload, Computed, Wrote

\* What a request is about, and how far it has come.
Subject(t) ==
    /\ OnChild(t) \/ OnParent(t) \/ OnRemove(t) \/ OnReload(t)
    /\ OnChild(t) =>
          /\ req[t].row \in Children /\ req[t].next \in ChildRows \cup {NoRow}
          /\ req[t].next = NoRow <=> req[t].op = "delete"
    /\ OnParent(t) =>
          /\ req[t].row \in Parents /\ req[t].next \in ParentRows
          /\ req[t].op = "generate" => req[t].next.taken
    /\ OnRemove(t) => req[t].row \in Parents /\ req[t].next = NoRow
    /\ OnReload(t) => req[t].next \in IF req[t].row \in Parents THEN ParentRows ELSE ChildRows

Working(t) ==
    /\ OnChild(t) => \E p, q \in Parents : req[t].parents \subseteq {p, q}
    /\ OnParent(t) \/ OnReload(t) => req[t].parents \subseteq {req[t].row}
    /\ OnRemove(t) => req[t].parents = {}
    /\ OnReload(t) => req[t].children \subseteq {req[t].row}
    /\ OnChild(t) \/ OnRemove(t) => req[t].children = {}
    /\ ~OnParent(t) => ~req[t].follow /\ req[t].due = 0
    /\ \/ Active(t, "ready") /\ ~OnReload(t)
       \/ Active(t, "listing") /\ OnParent(t)
       \/ Active(t, "written")
       \/ /\ Active(t, "summing") /\ req[t].at \in Parents /\ ~OnRemove(t)
          /\ OnParent(t) \/ OnReload(t) => req[t].at = req[t].row
       \/ /\ Active(t, "refreshing") /\ req[t].at \in Children /\ req[t].parents = {}
          /\ OnParent(t) \/ OnReload(t)
       \/ /\ Active(t, "writing") /\ req[t].at \in Parents /\ ~OnRemove(t)
          /\ OnParent(t) \/ OnReload(t) => req[t].at = req[t].row
          /\ req[t].value \in ParentRows
       \/ /\ Active(t, "writing") /\ req[t].at \in Children /\ req[t].parents = {}
          /\ OnParent(t) /\ req[t].value \in ChildRows

LEMMA Shaped ==
    ASSUME NEW t \in Requests, Computed(t)', Subject(t)', Working(t)'
    PROVE  Shape(t)'
<1>1. /\ Flying(t)' /\ \A pc : Active(t, pc)' <=> req'[t].pc = pc
      /\ OnChild(t)' <=> req'[t].op \in {"create", "update", "move", "delete"}
      /\ OnParent(t)' <=> req'[t].op \in {"edit", "generate"}
      /\ OnRemove(t)' <=> req'[t].op = "remove"
      /\ OnReload(t)' <=> req'[t].op = "reload"
  BY DEF Computed, Flying, Active, OnChild, OnParent, OnRemove, OnReload
<1>2. ~Active(t, "locking")' /\ ~Active(t, "begun")' /\ ~Active(t, "paged")'
  BY DEF Computed, Active
<1>3. /\ OnChild(t)' => ~OnParent(t)' /\ ~OnRemove(t)' /\ ~OnReload(t)'
      /\ OnParent(t)' => ~OnRemove(t)' /\ ~OnReload(t)'
      /\ OnRemove(t)' => ~OnReload(t)'
  BY <1>1
<1>4. \A p \in Parents : p \notin Children
  BY FiguresAssumption
<1>. QED BY <1>1, <1>2, <1>3, <1>4 DEF Subject, Working, Shape

LEMMA Worked ==
    ASSUME TypeOK, NEW t \in Requests, Computed(t), Shape(t)
    PROVE  Subject(t) /\ Working(t)
<1>1. /\ Flying(t) /\ \A pc : Active(t, pc) <=> req[t].pc = pc
      /\ OnChild(t) <=> req[t].op \in {"create", "update", "move", "delete"}
      /\ OnParent(t) <=> req[t].op \in {"edit", "generate"}
      /\ OnRemove(t) <=> req[t].op = "remove"
      /\ OnReload(t) <=> req[t].op = "reload"
  BY DEF Computed, Flying, Active, OnChild, OnParent, OnRemove, OnReload
<1>2. OnChild(t) \/ OnParent(t) \/ OnRemove(t) \/ OnReload(t)
  BY <1>1 DEF Shape, Flying
<1>3. Subject(t)
  BY <1>2 DEF Subject, Shape
<1>4. /\ req[t].pc \in {"ready", "listing", "written", "summing", "refreshing", "writing"}
      /\ req[t].at \in Parents \cup Children
      /\ \A p \in Parents : p \notin Children
  BY <1>1, FlyingType, FiguresAssumption DEF Jobs, Rows, Computed
<1>5. /\ OnChild(t) => ~OnParent(t) /\ ~OnRemove(t) /\ ~OnReload(t)
      /\ OnParent(t) => ~OnRemove(t) /\ ~OnReload(t)
      /\ OnRemove(t) => ~OnReload(t)
  BY <1>1
<1>6. /\ OnChild(t) => \E p, q \in Parents : req[t].parents \subseteq {p, q}
      /\ OnParent(t) \/ OnReload(t) => req[t].parents \subseteq {req[t].row}
      /\ OnRemove(t) => req[t].parents = {}
      /\ OnReload(t) => req[t].children \subseteq {req[t].row}
      /\ OnChild(t) \/ OnRemove(t) => req[t].children = {}
      /\ ~OnParent(t) => ~req[t].follow /\ req[t].due = 0
  BY <1>1, <1>5 DEF Shape
<1>7. CASE req[t].pc \in {"ready", "listing", "written"}
  <2>1. /\ req[t].pc = "ready" => ~OnReload(t)
        /\ req[t].pc = "listing" => OnParent(t)
    BY <1>1 DEF Shape
  <2>. QED BY <1>1, <1>3, <1>6, <1>7, <2>1 DEF Working
<1>8. CASE req[t].pc = "summing"
  <2>1. /\ req[t].at \in Parents /\ ~OnRemove(t)
        /\ OnParent(t) => req[t].at \in {req[t].row} \cup Children
        /\ OnReload(t) => req[t].at = req[t].row
    BY <1>1, <1>8 DEF Shape
  <2>. QED BY <1>1, <1>3, <1>4, <1>6, <1>8, <2>1 DEF Working
<1>9. CASE req[t].pc = "refreshing"
  <2>1. /\ req[t].at \in Children /\ req[t].parents = {}
        /\ OnParent(t) \/ OnReload(t)
    BY <1>1, <1>9 DEF Shape
  <2>. QED BY <1>1, <1>3, <1>6, <1>9, <2>1 DEF Working
<1>10. CASE req[t].pc = "writing"
  <2>1. /\ ~OnRemove(t)
        /\ OnParent(t) => req[t].at \in {req[t].row} \cup Children
        /\ OnReload(t) => req[t].at = req[t].row
        /\ ~OnParent(t) => req[t].at \in Parents
        /\ req[t].at \in Parents => req[t].value \in ParentRows
        /\ req[t].at \notin Parents => req[t].value \in ChildRows /\ req[t].parents = {}
    BY <1>1, <1>10 DEF Shape
  <2>. QED BY <1>1, <1>3, <1>4, <1>6, <1>10, <2>1 DEF Working
<1>. QED BY <1>3, <1>4, <1>7, <1>8, <1>9, <1>10

LEMMA SubjectKept ==
    ASSUME NEW t \in Requests, Flying(t), Shape(t),
           req'[t].op = req[t].op, req'[t].row = req[t].row, req'[t].pc # "idle",
           \/ req'[t].next = req[t].next
           \/ OnChild(t) /\ req[t].op # "delete" /\ req'[t].next \in ChildRows
           \/ OnParent(t) /\ req'[t].next \in ParentRows /\ (req[t].next.taken => req'[t].next.taken)
    PROVE  Subject(t)'
<1>1. /\ OnChild(t)' = OnChild(t) /\ OnParent(t)' = OnParent(t)
      /\ OnRemove(t)' = OnRemove(t) /\ OnReload(t)' = OnReload(t)
  BY SameKinds
<1>2. /\ OnChild(t) <=> req[t].op \in {"create", "update", "move", "delete"}
      /\ OnParent(t) <=> req[t].op \in {"edit", "generate"}
      /\ OnRemove(t) <=> req[t].op = "remove"
      /\ OnReload(t) <=> req[t].op = "reload"
  BY DEF OnChild, OnParent, OnRemove, OnReload
<1>3. OnChild(t) \/ OnParent(t) \/ OnRemove(t) \/ OnReload(t)
  BY DEF Shape, Flying
<1>4. CASE OnChild(t)
  <2>1. req[t].row \in Children /\ req[t].next \in ChildRows \cup {NoRow} /\ (req[t].next = NoRow <=> req[t].op = "delete")
    BY <1>4 DEF Shape
  <2>. QED BY <1>1, <1>2, <1>4, <2>1, FiguresAssumption DEF Subject
<1>5. CASE OnParent(t)
  <2>1. req[t].row \in Parents /\ req[t].next \in ParentRows /\ (req[t].op = "generate" => req[t].next.taken)
    BY <1>5 DEF Shape
  <2>. QED BY <1>1, <1>2, <1>5, <2>1 DEF Subject
<1>6. CASE OnRemove(t)
  <2>1. req[t].row \in Parents /\ req[t].next = NoRow
    BY <1>6 DEF Shape
  <2>. QED BY <1>1, <1>2, <1>6, <2>1 DEF Subject
<1>7. CASE OnReload(t)
  <2>1. req[t].next \in IF req[t].row \in Parents THEN ParentRows ELSE ChildRows
    BY <1>7 DEF Shape
  <2>. QED BY <1>1, <1>2, <1>7, <2>1 DEF Subject
<1>. QED BY <1>3, <1>4, <1>5, <1>6, <1>7

-----------------------------------------------------------------------------
(* A request computes what it will write.                                  *)

LEMMA ReadyGood ==
    ASSUME NEW t \in Requests, Active(t, "ready")', own'[t] = NoWrites,
           Shape(t)', Holds(t)', Known(t)', Places(t)', Follows(t)',
           OnParent(t)' /\ stored'[req'[t].row] # NoRow =>
              /\ stored'[req'[t].row].taken => req'[t].next.taken
              /\ req'[t].due = IF Takes(t)' THEN Len(Schedule) ELSE 0,
           OnParent(t)' /\ ~Generates => ~req'[t].next.taken /\ req'[t].due = 0
    PROVE  Good(t)'
<1>1. /\ ~Wrote(t)' /\ Flying(t)' /\ \A r \in Rows : own'[t][r] = Unwritten
      /\ \A pc \in {"listing", "summing", "refreshing", "writing"} : ~Active(t, pc)'
  BY DEF Wrote, Computed, Flying, Active, NoWrites
<1>2. Owns(t)'
  <2>1. Parents \subseteq Rows /\ Children \subseteq Rows
    BY DEF Rows
  <2>. QED BY <1>1, <2>1 DEF Owns
<1>3. Recomputes(t)'
  BY <1>1 DEF Recomputes
<1>4. Generated(t)'
  <2>1. {c \in Children : own'[t][c] # Unwritten} = {} /\ New(t)' = {}
    BY <1>1 DEF Rows, New
  <2>2. Len(Schedule) \in Nat
    BY FiguresAssumption
  <2>3. Cardinality({}) = 0 /\ IsFiniteSet({})
    BY FS_EmptySet
  <2>4. OnParent(t)' /\ Computed(t)' /\ stored'[req'[t].row] # NoRow =>
          Cardinality(New(t)') + req'[t].due = IF Takes(t)' THEN Len(Schedule) ELSE 0
    BY <2>1, <2>2, <2>3
  <2>. QED BY <2>1, <2>3, <2>4 DEF Generated
<1>. QED BY <1>2, <1>3, <1>4 DEF Good

LEMMA ReadyStep ==
    ASSUME IInv, NEW t \in Requests, Moves(t), Active(t, "begun"),
           NEW job \in Jobs, req' = [req EXCEPT ![t] = job],
           UNCHANGED <<stored, own, rowLocks, advisory, numbered, origin>>,
           job.pc = "ready", job.op = req[t].op, job.row = req[t].row, job.children = req[t].children,
           \/ job.next = req[t].next
           \/ /\ OnChild(t) /\ req[t].op # "delete" /\ job.next \in ChildRows
              /\ job.next.parent = req[t].next.parent
           \/ OnParent(t) /\ job.next \in ParentRows /\ (job.next.taken <=> req[t].next.taken),
           OnChild(t) => \E p, q \in Parents : job.parents \subseteq {p, q},
           ~OnChild(t) => job.parents = req[t].parents,
           ~OnParent(t) => job.follow = req[t].follow /\ job.due = req[t].due,
           OnRemove(t) => ChildrenOf(stored, req[t].row) = {},
           OnChild(t) /\ req[t].op # "delete" /\ stored[job.next.parent] # NoRow =>
              job.next.seen = stored[job.next.parent].note,
           OnParent(t) =>
              /\ stored[req[t].row] # NoRow
              /\ ~job.follow => stored[req[t].row].note = job.next.note
              /\ stored[req[t].row].taken => job.next.taken
              /\ job.due = IF ~stored[req[t].row].taken /\ job.next.taken THEN Len(Schedule) ELSE 0
    PROVE  TypeOK' /\ Good(t)' /\ Unshared'
<1>. USE DEF IInv
<1>1. Local(t)
  BY MovesLocal
<1>2. req'[t] = job
  BY DEF TypeOK
<1>3. TypeOK'
  BY <1>1, <1>2, TypesKept DEF TypeOK
<1>4. Flying(t) /\ ~Computed(t) /\ ~OnReload(t)
  <2>1. Flying(t) /\ ~Computed(t) /\ ~Active(t, "paged") /\ req[t].pc = "begun"
    BY DEF Flying, Active, Computed
  <2>. QED BY <2>1 DEF Good, Shape
<1>5. /\ Flying(t)'
      /\ OnChild(t)' = OnChild(t) /\ OnParent(t)' = OnParent(t)
      /\ OnRemove(t)' = OnRemove(t) /\ OnReload(t)' = OnReload(t)
      /\ \A pc : Active(t, pc)' = (pc = "ready")
      /\ Computed(t)' /\ ~Wrote(t)'
  <2>1. req'[t].op = req[t].op /\ req'[t].pc = "ready"
    BY <1>2
  <2>2. /\ Flying(t)'
        /\ OnChild(t)' = OnChild(t) /\ OnParent(t)' = OnParent(t)
        /\ OnRemove(t)' = OnRemove(t) /\ OnReload(t)' = OnReload(t)
        /\ \A pc : Active(t, pc)' = (req'[t].pc = pc)
        /\ Computed(t)' = (req'[t].pc \notin {"locking", "begun", "paged"})
        /\ Wrote(t)' = (req'[t].pc \notin {"locking", "begun", "paged", "ready"})
    BY <1>4, <2>1, SameKinds
  <2>. QED BY <2>1, <2>2
<1>6. Shape(t)'
  <2>1. Subject(t)'
    BY <1>2, <1>4, SubjectKept DEF Good
  <2>2. /\ req[t].parents = {} /\ req[t].children = {} /\ req[t].due = 0
        /\ ~OnParent(t) => ~req[t].follow
    BY <1>4 DEF Good, Shape
  <2>3. /\ OnChild(t) => ~OnParent(t) /\ ~OnRemove(t)
        /\ OnParent(t) => ~OnRemove(t)
    BY DEF OnChild, OnParent, OnRemove
  <2>4. OnChild(t) => \E p, q \in Parents : req'[t].parents \subseteq {p, q}
    BY <1>2
  <2>5. req'[t].children = {} /\ (~OnChild(t) => req'[t].parents = {})
    BY <1>2, <2>2
  <2>6. ~OnParent(t) => ~req'[t].follow /\ req'[t].due = 0
    BY <1>2, <1>4, <2>2
  <2>7. Working(t)'
    BY <1>4, <1>5, <2>3, <2>4, <2>5, <2>6 DEF Working
  <2>. QED BY <1>5, <2>1, <2>7, Shaped
<1>7. own'[t] = NoWrites
  BY <1>4 DEF Good, Owns, Wrote
<1>8. Holds(t)'
  <2>1. OnParent(t) \/ OnRemove(t) => (Generates => advisory[req[t].row] = t)
    BY DEF Good, Holds, Active
  <2>. QED BY <1>2, <1>5, <2>1 DEF Holds
<1>9. Known(t)'
  BY <1>2, <1>4, <1>5 DEF Good, Known
<1>10. Places(t)'
  <2>1. Places(t)
    BY DEF Good
  <2>2. OnChild(t) /\ req[t].op # "delete" => job.next.parent = req[t].next.parent
    BY DEF OnChild, OnParent
  <2>. QED BY <1>2, <1>5, <2>1, <2>2 DEF Places
<1>11. Follows(t)'
  BY <1>2, <1>5 DEF Follows
<1>12. OnParent(t) /\ ~Generates => ~job.next.taken /\ job.due = 0
  <2>1. OnParent(t) /\ ~Generates => ~req[t].next.taken
    BY DEF Good, Generated
  <2>2. OnParent(t) => (job.next.taken <=> req[t].next.taken)
    BY DEF OnChild, OnParent
  <2>. QED BY <2>1, <2>2
<1>13. Good(t)'
  <2>1. Takes(t)' = (~stored[req[t].row].taken /\ job.next.taken)
    BY <1>2 DEF Takes
  <2>. QED BY <1>2, <1>5, <1>6, <1>7, <1>8, <1>9, <1>10, <1>11, <1>12, <2>1, ReadyGood
<1>14. Unshared'
  BY <1>1, <1>2, <1>4, UnsharedKept
<1>. QED BY <1>3, <1>13, <1>14

LEMMA ComputeChildStep ==
    ASSUME IInv, NEW t \in Requests, ComputeChild(t)
    PROVE  TypeOK' /\ Good(t)' /\ Unshared'
<1>. USE DEF IInv
<1>. DEFINE parent == Read(t, req[t].next.parent)
            old == {row.parent : row \in Old(t)}
            job == [req[t] EXCEPT !.pc = "ready", !.next.seen = parent.note,
                                  !.parents = {req[t].next.parent} \cup old]
<1>1. Active(t, "begun") /\ IsChildWrite(t) /\ Flying(t) /\ OnChild(t) /\ ~OnParent(t) /\ ~OnRemove(t)
      /\ ~Computed(t) /\ req[t] \in Jobs
  BY FlyingType DEF ComputeChild, IsChildWrite, Active, Flying, OnChild, OnParent, OnRemove, Computed
<1>2. own[t] = NoWrites /\ \A r \in Rows : Read(t, r) = stored[r]
  BY <1>1, CleanRead DEF Good, Owns, Wrote
<1>3. CASE parent = NoRow
  <2>1. Refuse(t)
    BY <1>3 DEF ComputeChild
  <2>2. Local(t)
    BY <2>1 DEF Refuse, Step, Rollback, Local
  <2>. QED BY <2>1, <2>2, RefuseStep, UnsharedKept DEF NoWrites, Rows
<1>4. CASE parent # NoRow
  <2>1. req' = [req EXCEPT ![t] = job] /\ UNCHANGED <<stored, own, rowLocks, advisory, numbered, origin>>
    BY <1>4 DEF ComputeChild, Step, dbState
  <2>2. req[t].row \in Children /\ req[t].next \in ChildRows /\ req[t].op # "delete"
    BY <1>1, FiguresAssumption DEF Good, Shape, IsChildWrite
  <2>3. req[t].next.parent \in Parents /\ req[t].next.parent \in Rows /\ req[t].row \in Rows
    BY <2>2 DEF ChildRows, Rows
  <2>4. parent = stored[req[t].next.parent] /\ parent \in ParentRows /\ parent.note \in Notes
    BY <1>2, <1>4, <2>3 DEF TypeOK, ParentRows
  <2>5. old \subseteq Parents /\ \E q \in Parents : old \subseteq {q}
    <3>1. CASE Old(t) = {}
      BY <2>3, <3>1
    <3>2. CASE Old(t) # {}
      <4>1. Old(t) = {stored[req[t].row]} /\ stored[req[t].row] # NoRow
        BY <1>2, <2>3, <3>2 DEF Old
      <4>2. stored[req[t].row].parent \in Parents
        BY <2>2, <4>1 DEF TypeOK, ChildRows
      <4>. QED BY <4>1, <4>2
    <3>. QED BY <3>1, <3>2
  <2>. DEFINE next == [req[t].next EXCEPT !.seen = parent.note]
  <2>6. next \in ChildRows /\ next.parent = req[t].next.parent /\ next.seen = parent.note
    BY <2>2, <2>4 DEF ChildRows
  <2>7. /\ job.pc = "ready" /\ job.op = req[t].op /\ job.row = req[t].row /\ job.next = next
        /\ job.parents = {req[t].next.parent} \cup old /\ job.children = req[t].children
        /\ job.follow = req[t].follow /\ job.due = req[t].due
        /\ job \in Jobs
    <3>1. next \in Cells
      BY <2>6 DEF Cells
    <3>2. {req[t].next.parent} \cup old \in SUBSET Parents
      BY <2>3, <2>5
    <3>. HIDE DEF next, parent, old
    <3>3. job = [req[t] EXCEPT !.pc = "ready", !.next = next, !.parents = {req[t].next.parent} \cup old]
      BY <1>1 DEF next, parent, Jobs
    <3>. QED BY <1>1, <3>1, <3>2, <3>3 DEF Jobs
  <2>8. \E p, q \in Parents : job.parents \subseteq {p, q}
    BY <2>3, <2>5, <2>7
  <2>9. Moves(t)
    BY DEF Moves
  <2>. HIDE DEF job, next, parent, old
  <2>. QED BY <1>1, <2>1, <2>2, <2>4, <2>6, <2>7, <2>8, <2>9, ReadyStep
<1>. QED BY <1>3, <1>4

LEMMA ComputeDeleteStep ==
    ASSUME IInv, NEW t \in Requests, ComputeDelete(t)
    PROVE  TypeOK' /\ Good(t)' /\ Unshared'
<1>. USE DEF IInv
<1>. DEFINE row == Read(t, req[t].row)
            job == [req[t] EXCEPT !.pc = "ready", !.parents = {row.parent}]
<1>1. Active(t, "begun") /\ req[t].op = "delete" /\ Flying(t) /\ OnChild(t) /\ ~OnParent(t) /\ ~OnRemove(t)
      /\ ~Computed(t) /\ req[t] \in Jobs
  BY FlyingType DEF ComputeDelete, Active, Flying, OnChild, OnParent, OnRemove, Computed
<1>2. own[t] = NoWrites /\ \A r \in Rows : Read(t, r) = stored[r]
  BY <1>1, CleanRead DEF Good, Owns, Wrote
<1>3. CASE row = NoRow
  <2>1. Refuse(t)
    BY <1>3 DEF ComputeDelete
  <2>2. Local(t)
    BY <2>1 DEF Refuse, Step, Rollback, Local
  <2>. QED BY <2>1, <2>2, RefuseStep, UnsharedKept DEF NoWrites, Rows
<1>4. CASE row # NoRow
  <2>1. req' = [req EXCEPT ![t] = job] /\ UNCHANGED <<stored, own, rowLocks, advisory, numbered, origin>>
    BY <1>4 DEF ComputeDelete, Step, dbState
  <2>2. req[t].row \in Children /\ req[t].row \in Rows
    BY <1>1 DEF Good, Shape, Rows
  <2>3. row.parent \in Parents
    BY <1>2, <1>4, <2>2 DEF TypeOK, ChildRows
  <2>4. /\ job.pc = "ready" /\ job.op = req[t].op /\ job.row = req[t].row /\ job.next = req[t].next
        /\ job.parents = {row.parent} /\ job.children = req[t].children
        /\ job.follow = req[t].follow /\ job.due = req[t].due
        /\ job \in Jobs
    BY <1>1, <2>3 DEF Jobs
  <2>5. \E p, q \in Parents : job.parents \subseteq {p, q}
    BY <2>3, <2>4
  <2>6. Moves(t)
    BY DEF Moves
  <2>. HIDE DEF job, row
  <2>. QED BY <1>1, <2>1, <2>4, <2>5, <2>6, ReadyStep
<1>. QED BY <1>3, <1>4

LEMMA CheckRemoveStep ==
    ASSUME IInv, NEW t \in Requests, CheckRemove(t)
    PROVE  TypeOK' /\ Good(t)' /\ Unshared'
<1>. USE DEF IInv
<1>. DEFINE job == [req[t] EXCEPT !.pc = "ready"]
            kept == Read(t, req[t].row) = NoRow \/ ChildrenOf(Snapshot(t), req[t].row) # {}
<1>1. Active(t, "begun") /\ req[t].op = "remove" /\ Flying(t) /\ OnRemove(t) /\ ~OnParent(t) /\ ~OnChild(t)
      /\ ~Computed(t) /\ req[t] \in Jobs
  BY FlyingType DEF CheckRemove, Active, Flying, OnChild, OnParent, OnRemove, Computed
<1>2. own[t] = NoWrites /\ Snapshot(t) = stored
  BY <1>1, CleanRead DEF Good, Owns, Wrote
<1>3. CASE kept
  <2>1. Refuse(t)
    BY <1>3 DEF CheckRemove
  <2>2. Local(t)
    BY <2>1 DEF Refuse, Step, Rollback, Local
  <2>. QED BY <2>1, <2>2, RefuseStep, UnsharedKept DEF NoWrites, Rows
<1>4. CASE ~kept
  <2>1. req' = [req EXCEPT ![t] = job] /\ UNCHANGED <<stored, own, rowLocks, advisory, numbered, origin>>
    BY <1>4 DEF CheckRemove, Step, dbState
  <2>2. ChildrenOf(stored, req[t].row) = {}
    BY <1>2, <1>4
  <2>3. /\ job.pc = "ready" /\ job.op = req[t].op /\ job.row = req[t].row /\ job.next = req[t].next
        /\ job.parents = req[t].parents /\ job.children = req[t].children
        /\ job.follow = req[t].follow /\ job.due = req[t].due
        /\ job \in Jobs
    BY <1>1 DEF Jobs
  <2>4. Moves(t)
    BY DEF Moves
  <2>. HIDE DEF job, kept
  <2>. QED BY <1>1, <2>1, <2>2, <2>3, <2>4, ReadyStep
<1>. QED BY <1>3, <1>4

LEMMA ComputeParentStep ==
    ASSUME IInv, NEW t \in Requests, ComputeParent(t)
    PROVE  TypeOK' /\ Good(t)' /\ Unshared'
<1>. USE DEF IInv
<1>. DEFINE p == req[t].row
            row == Read(t, p)
            takesEdge == ~row.taken /\ req[t].next.taken
            refused == \/ row = NoRow
                       \/ row.taken /\ ~req[t].next.taken
                       \/ takesEdge /\ ChildrenOf(Snapshot(t), p) # {}
            follow == \A old \in Old(t) : old.note # req[t].next.note
            due == IF takesEdge THEN Len(Schedule) ELSE 0
            figure == Figure(Snapshot(t), p)
            job == [req[t] EXCEPT !.pc = "ready", !.next.figure = figure, !.follow = follow, !.due = due]
<1>1. Active(t, "begun") /\ Flying(t) /\ OnParent(t) /\ ~OnRemove(t) /\ ~OnChild(t)
      /\ ~Computed(t) /\ req[t] \in Jobs
  BY FlyingType DEF ComputeParent, Active, Flying, OnChild, OnParent, OnRemove, Computed
<1>2. own[t] = NoWrites /\ \A r \in Rows : Read(t, r) = stored[r]
  BY <1>1, CleanRead DEF Good, Owns, Wrote
<1>3. CASE refused
  <2>1. Refuse(t)
    BY <1>3 DEF ComputeParent
  <2>2. Local(t)
    BY <2>1 DEF Refuse, Step, Rollback, Local
  <2>. QED BY <2>1, <2>2, RefuseStep, UnsharedKept DEF NoWrites, Rows
<1>4. CASE ~refused
  <2>1. req' = [req EXCEPT ![t] = job] /\ UNCHANGED <<stored, own, rowLocks, advisory, numbered, origin>>
    BY <1>4, Zenon DEF ComputeParent, Step, dbState
  <2>2. p \in Parents /\ p \in Rows /\ req[t].next \in ParentRows
    BY <1>1 DEF Good, Shape, Rows
  <2>3. row = stored[p] /\ row # NoRow
    <3>1. row # NoRow
      BY <1>4, Zenon
    <3>. QED BY <1>2, <2>2, <3>1
  <2>. DEFINE next == [req[t].next EXCEPT !.figure = figure]
  <2>4. next \in ParentRows /\ next.note = req[t].next.note /\ next.taken = req[t].next.taken
    BY <2>2, FigureType DEF ParentRows
  <2>5. due \in 0..Len(Schedule) /\ follow \in BOOLEAN
    <3>1. Len(Schedule) \in Nat
      BY FiguresAssumption
    <3>. QED BY <3>1
  <2>6. /\ job.pc = "ready" /\ job.op = req[t].op /\ job.row = p /\ job.next = next
        /\ job.parents = req[t].parents /\ job.children = req[t].children
        /\ job.follow = follow /\ job.due = due
        /\ job \in Jobs
    <3>1. next \in Cells
      BY <2>4 DEF Cells
    <3>. HIDE DEF next, follow, due, figure
    <3>2. job = [req[t] EXCEPT !.pc = "ready", !.next = next, !.follow = follow, !.due = due]
      BY <1>1 DEF next, Jobs
    <3>. QED BY <1>1, <2>5, <3>1, <3>2 DEF Jobs
  <2>7. ~follow => stored[p].note = next.note
    <3>1. Old(t) = {} \/ Old(t) = {stored[p]}
      BY <2>3 DEF Old
    <3>. QED BY <2>4, <3>1
  <2>8. /\ stored[p].taken => next.taken
        /\ due = IF ~stored[p].taken /\ next.taken THEN Len(Schedule) ELSE 0
    BY <1>4, <2>3, <2>4
  <2>9. Moves(t)
    BY DEF Moves
  <2>. HIDE DEF job, next, follow, due, figure, row
  <2>. QED BY <1>1, <2>1, <2>3, <2>4, <2>6, <2>7, <2>8, <2>9, ReadyStep
<1>. QED BY <1>3, <1>4

-----------------------------------------------------------------------------
(* What a step of a request at work leaves as it was.                      *)

LEMMA Onward ==
    ASSUME IInv, NEW t \in Requests, Moves(t), Flying(t), ~Active(t, "locking"),
           NEW job \in Jobs, req' = [req EXCEPT ![t] = job], job.op = req[t].op, job.row = req[t].row,
           own'[t] \in [Rows -> Cells \cup {Unwritten}], rowLocks'[t] \in SUBSET Rows, UNCHANGED advisory,
           \A c \in Children : own'[t][c] # Unwritten =>
              own[t][c] # Unwritten \/ origin[c] # Unborn \/ c \in FreshIds \/ c = req[t].row
    PROVE  /\ TypeOK' /\ Unshared' /\ Holds(t)' /\ req'[t] = job /\ UNCHANGED <<stored, origin>>
           /\ Flying(t)'
           /\ OnChild(t)' = OnChild(t) /\ OnParent(t)' = OnParent(t)
           /\ OnRemove(t)' = OnRemove(t) /\ OnReload(t)' = OnReload(t)
           /\ \A pc : Active(t, pc)' = (job.pc = pc)
           /\ Computed(t)' = (job.pc \notin {"locking", "begun", "paged"})
           /\ Wrote(t)' = (job.pc \notin {"locking", "begun", "paged", "ready"})
<1>. USE DEF IInv
<1>1. Local(t)
  BY MovesLocal
<1>2. req'[t] = job
  BY DEF TypeOK
<1>3. TypeOK'
  BY <1>1, <1>2, TypesKept
<1>4. /\ Flying(t)'
      /\ OnChild(t)' = OnChild(t) /\ OnParent(t)' = OnParent(t)
      /\ OnRemove(t)' = OnRemove(t) /\ OnReload(t)' = OnReload(t)
      /\ \A pc : Active(t, pc)' = (req'[t].pc = pc)
      /\ Computed(t)' = (req'[t].pc \notin {"locking", "begun", "paged"})
      /\ Wrote(t)' = (req'[t].pc \notin {"locking", "begun", "paged", "ready"})
  <2>1. req'[t].op = req[t].op /\ req'[t].pc # "idle"
    BY <1>2 DEF Jobs
  <2>. QED BY <2>1, SameKinds
<1>5. Holds(t)'
  <2>1. OnParent(t) \/ OnRemove(t) => (Generates => advisory[req[t].row] = t)
    BY DEF Good, Holds
  <2>. QED BY <1>2, <1>4, <2>1 DEF Holds
<1>6. Unshared'
  BY <1>1, <1>2, UnsharedKept
<1>. QED BY <1>1, <1>2, <1>3, <1>4, <1>5, <1>6 DEF Local

LEMMA Writes ==
    ASSUME TypeOK, NEW t \in Requests, NEW r \in Rows, NEW v \in Cells, WriteRow(t, r, v)
    PROVE  /\ own'[t] \in [Rows -> Cells \cup {Unwritten}] /\ rowLocks'[t] \in SUBSET Rows
           /\ UNCHANGED <<stored, advisory>>
           /\ own'[t][r] = v /\ \A s \in Rows : s # r => own'[t][s] = own[t][s]
           /\ rowLocks'[t] = rowLocks[t] \cup {r}
           /\ Read(t, r)' = v /\ \A s \in Rows : s # r => Read(t, s)' = Read(t, s)
<1>1. UNCHANGED stored /\ v # Unwritten
  BY FiguresAssumption DEF WriteRow
<1>2. /\ own'[t] \in [Rows -> Cells \cup {Unwritten}] /\ rowLocks'[t] \in SUBSET Rows
      /\ own'[t][r] = v /\ \A s \in Rows : s # r => own'[t][s] = own[t][s]
      /\ rowLocks'[t] = rowLocks[t] \cup {r}
  BY DEF WriteRow, TypeOK
<1>. QED BY <1>1, <1>2 DEF WriteRow, Read

-----------------------------------------------------------------------------
(* The write itself.                                                       *)

LEMMA WriteStep ==
    ASSUME IInv, NEW t \in Requests, Write(t)
    PROVE  TypeOK' /\ Good(t)' /\ Unshared'
<1>. USE DEF IInv
<1>. PICK r, next : r = req[t].row /\ next = req[t].next
  OBVIOUS
<1>. DEFINE job == [req[t] EXCEPT !.pc = IF req[t].follow THEN "listing" ELSE "written"]
            gone == req[t].op \notin {"create", "delete", "remove"} /\ stored[r] = NoRow
<1>1. /\ Active(t, "ready") /\ Flying(t) /\ Computed(t) /\ ~Wrote(t) /\ req[t] \in Jobs
      /\ own[t] = NoWrites /\ ~Active(t, "locking") /\ r \in Rows /\ next \in Cells /\ Moves(t)
  <2>1. Active(t, "ready") /\ Flying(t) /\ Computed(t) /\ ~Wrote(t) /\ req[t] \in Jobs /\ ~Active(t, "locking")
    BY FlyingType DEF Write, Active, Flying, Computed, Wrote
  <2>. QED BY <2>1 DEF Good, Owns, Jobs, Moves, Wait
<1>2. CASE gone
  <2>1. Refuse(t)
    BY <1>2 DEF Write
  <2>2. Local(t)
    BY <2>1 DEF Refuse, Step, Rollback, Local
  <2>. QED BY <2>1, <2>2, RefuseStep, UnsharedKept DEF NoWrites, Rows
<1>3. CASE ~gone
  <2>1. WriteRow(t, r, next) /\ req' = [req EXCEPT ![t] = job]
    BY <1>3 DEF Write, Step
  <2>2. /\ job \in Jobs /\ job.op = req[t].op /\ job.row = r /\ job.next = next
        /\ job.parents = req[t].parents /\ job.children = req[t].children
        /\ job.follow = req[t].follow /\ job.due = req[t].due
        /\ job.pc = IF req[t].follow THEN "listing" ELSE "written"
    BY <1>1 DEF Jobs
  <2>. HIDE DEF job
  <2>3. /\ own'[t] \in [Rows -> Cells \cup {Unwritten}] /\ rowLocks'[t] \in SUBSET Rows
        /\ UNCHANGED <<stored, advisory>>
        /\ own'[t][r] = next /\ \A s \in Rows : s # r => own'[t][s] = Unwritten
        /\ Read(t, r)' = next /\ \A s \in Rows : s # r => Read(t, s)' = stored[s]
    <3>1. \A s \in Rows : Read(t, s) = stored[s] /\ own[t][s] = Unwritten
      BY <1>1, CleanRead
    <3>2. /\ own'[t] \in [Rows -> Cells \cup {Unwritten}] /\ rowLocks'[t] \in SUBSET Rows
          /\ UNCHANGED <<stored, advisory>>
          /\ own'[t][r] = next /\ \A s \in Rows : s # r => own'[t][s] = own[t][s]
          /\ Read(t, r)' = next /\ \A s \in Rows : s # r => Read(t, s)' = Read(t, s)
      BY <1>1, <2>1, Writes
    <3>. QED BY <3>1, <3>2
  <2>4. /\ TypeOK' /\ Unshared' /\ Holds(t)' /\ req'[t] = job /\ UNCHANGED <<stored, origin>>
        /\ Flying(t)'
        /\ OnChild(t)' = OnChild(t) /\ OnParent(t)' = OnParent(t)
        /\ OnRemove(t)' = OnRemove(t) /\ OnReload(t)' = OnReload(t)
        /\ \A pc : Active(t, pc)' = (job.pc = pc)
        /\ Computed(t)' /\ Wrote(t)'
    <3>1. \A c \in Children : own'[t][c] # Unwritten => c = req[t].row
      BY <2>3 DEF Rows
    <3>2. job.pc \in {"listing", "written"}
      BY <2>2
    <3>3. job.op = req[t].op /\ job.row = req[t].row /\ job \in Jobs
      BY <2>2
    <3>4. /\ TypeOK' /\ Unshared' /\ Holds(t)' /\ req'[t] = job /\ UNCHANGED <<stored, origin>>
          /\ Flying(t)'
          /\ OnChild(t)' = OnChild(t) /\ OnParent(t)' = OnParent(t)
          /\ OnRemove(t)' = OnRemove(t) /\ OnReload(t)' = OnReload(t)
          /\ \A pc : Active(t, pc)' = (job.pc = pc)
          /\ Computed(t)' = (job.pc \notin {"locking", "begun", "paged"})
          /\ Wrote(t)' = (job.pc \notin {"locking", "begun", "paged", "ready"})
      BY <1>1, <2>1, <2>3, <3>1, <3>3, Onward
    <3>. QED BY <3>2, <3>4
  <2>5. /\ OnChild(t) \/ OnParent(t) \/ OnRemove(t)
        /\ ~OnReload(t)
        /\ OnChild(t) => ~OnParent(t) /\ ~OnRemove(t) /\ r \in Children
        /\ OnParent(t) => ~OnRemove(t) /\ r \in Parents /\ next \in ParentRows
        /\ OnRemove(t) => r \in Parents
    <3>1. ~OnReload(t)
      BY <1>1 DEF Good, Shape, Active
    <3>2. /\ OnChild(t) => ~OnParent(t) /\ ~OnRemove(t)
          /\ OnParent(t) => ~OnRemove(t)
      BY DEF OnChild, OnParent, OnRemove
    <3>3. /\ OnChild(t) => r \in Children
          /\ OnParent(t) => r \in Parents /\ next \in ParentRows
          /\ OnRemove(t) => r \in Parents
      BY DEF Good, Shape
    <3>4. OnChild(t) \/ OnParent(t) \/ OnRemove(t)
      BY <1>1, <3>1, Kinds
    <3>. QED BY <3>1, <3>2, <3>3, <3>4
  <2>6. OnParent(t) \/ req[t].op \in {"update", "move"} => stored[r] # NoRow
    BY <1>3 DEF OnParent
  <2>7. Shape(t)'
    <3>1. Subject(t)'
      BY <1>1, <2>2, <2>4, SubjectKept DEF Good, Jobs
    <3>2. Subject(t) /\ Working(t)
      BY <1>1, Worked DEF Good
    <3>3. Working(t)'
      BY <2>2, <2>4, <2>5, <3>2 DEF Working
    <3>. QED BY <2>4, <3>1, <3>3, Shaped
  <2>8. Owns(t)'
    <3>1. Parents \subseteq Rows /\ Children \subseteq Rows /\ Parents \cap Children = {}
      BY FiguresAssumption DEF Rows
    <3>2. req'[t].row = r /\ req'[t].next = next /\ req'[t].op = req[t].op
      BY <2>2, <2>4
    <3>3. CASE OnChild(t)
      <4>1. \A c \in Children \ {r} : own'[t][c] = Unwritten
        BY <2>3, <3>1
      <4>2. \A p \in Parents : own'[t][p] = Unwritten
        BY <2>3, <2>5, <3>1, <3>3
      <4>. QED BY <2>3, <2>4, <2>5, <2>6, <3>2, <3>3, <4>1, <4>2 DEF Owns
    <3>4. CASE OnParent(t)
      <4>1. \A c \in Children : own'[t][c] = Unwritten
        BY <2>3, <2>5, <3>1, <3>4
      <4>2. \A p \in Parents \ {r} : own'[t][p] = Unwritten
        BY <2>3, <3>1
      <4>. QED BY <2>3, <2>4, <2>5, <2>6, <3>2, <3>4, <4>1, <4>2 DEF Owns
    <3>5. CASE OnRemove(t)
      BY <2>2, <2>3, <2>4, <2>5, <3>1, <3>5 DEF Owns
    <3>. QED BY <2>5, <3>3, <3>4, <3>5
  <2>9. Recomputes(t)'
    BY <2>2, <2>4 DEF Recomputes
  <2>10. Known(t)'
    BY <1>1, <2>2, <2>4 DEF Known, Good
  <2>11. Places(t)'
    BY <1>1, <2>2, <2>4 DEF Places, Good
  <2>12. Follows(t)'
    <3>1. Follows(t)
      BY DEF Good
    <3>2. ASSUME OnParent(t), ~req[t].follow, NEW c \in Children, Read(t, c)' # NoRow, Read(t, c)'.parent = r
          PROVE  Read(t, c)'.seen = next.note
      <4>1. Read(t, c)' = stored[c] /\ c \in Rows
        BY <2>3, <2>5, <3>2, FiguresAssumption DEF Rows
      <4>2. stored[c].seen = NoteOf(stored[r])
        BY <3>2, <4>1 DEF Committed, SeenAgrees, Exists
      <4>3. stored[r].note = next.note
        BY <1>1, <2>6, <3>1, <3>2 DEF Follows
      <4>. QED BY <2>6, <3>2, <4>1, <4>2, <4>3 DEF NoteOf
    <3>3. /\ OnChild(t) /\ req[t].op # "delete" /\ stored[next.parent] # NoRow => next.seen = stored[next.parent].note
      BY <1>1, <3>1 DEF Follows
    <3>4. job.pc = "listing" \/ (job.pc = "written" /\ ~req[t].follow)
      BY <2>2
    <3>. QED BY <2>2, <2>4, <3>2, <3>3, <3>4 DEF Follows
  <2>13. Generated(t)'
    <3>1. Generated(t)
      BY DEF Good
    <3>2. OnParent(t) => {c \in Children : own'[t][c] # Unwritten} = {}
      <4>1. OnParent(t) => \A c \in Children : c \in Rows /\ c # r
        BY <2>5, FiguresAssumption DEF Rows
      <4>2. OnParent(t) => \A c \in Children : own'[t][c] = Unwritten
        BY <2>3, <4>1
      <4>. QED BY <4>2
    <3>3. {c \in Children : own'[t][c] # Unwritten} \subseteq {r} /\ IsFiniteSet({r})
      BY <2>3, FS_Singleton DEF Rows
    <3>4. {c \in Children : own[t][c] # Unwritten} = {}
      BY <1>1 DEF NoWrites, Rows
    <3>5. New(t) = {} /\ (OnParent(t) => New(t)' = {})
      BY <3>2, <3>4 DEF New
    <3>6. Takes(t)' = Takes(t)
      BY <2>2, <2>4 DEF Takes
    <3>7. IsFiniteSet({c \in Children : own'[t][c] # Unwritten})
      BY <3>3, FS_Subset
    <3>8. OnParent(t) /\ stored[r] # NoRow =>
             /\ stored[r].taken => next.taken
             /\ Cardinality(New(t)) + req[t].due = IF Takes(t) THEN Len(Schedule) ELSE 0
      BY <1>1, <3>1 DEF Generated
    <3>9. OnParent(t) /\ ~Generates => ~next.taken /\ req[t].due = 0
      BY <3>1 DEF Generated
    <3>10. req'[t].row = r /\ req'[t].next = next /\ req'[t].due = req[t].due
      BY <2>2, <2>4
    <3>. QED BY <2>4, <3>5, <3>6, <3>7, <3>8, <3>9, <3>10, SMTT(30) DEF Generated
  <2>. QED BY <2>4, <2>7, <2>8, <2>9, <2>10, <2>11, <2>12, <2>13 DEF Good
<1>. QED BY <1>2, <1>3

-----------------------------------------------------------------------------
(* Rows are recomputed.                                                    *)

\* Where a request stands that has written, and what it holds of the row it stands at.
Stands(t, job, locks) ==
    \/ job.pc = "written"
    \/ /\ job.pc = "summing" /\ job.at \in Parents /\ ~OnRemove(t)
       /\ OnParent(t) \/ OnReload(t) => job.at = req[t].row
       /\ job.at \in locks \/ stored[job.at] = NoRow
    \/ /\ job.pc = "refreshing" /\ job.at \in Children /\ job.parents = {}
       /\ OnParent(t) \/ OnReload(t)
       /\ \/ job.at \in locks
          \/ stored[job.at] = NoRow /\ origin[job.at] # Unborn /\ own[t][job.at] = Unwritten
    \/ /\ job.pc = "writing" /\ job.at \in Parents /\ ~OnRemove(t)
       /\ OnParent(t) \/ OnReload(t) => job.at = req[t].row
       /\ job.at \in locks /\ job.value \in ParentRows /\ Read(t, job.at) # NoRow
       /\ job.value.note = Read(t, job.at).note /\ job.value.taken = Read(t, job.at).taken
    \/ /\ job.pc = "writing" /\ job.at \in Children /\ job.parents = {} /\ OnParent(t)
       /\ job.at \in locks /\ job.value \in ChildRows /\ Read(t, job.at) # NoRow
       /\ job.value.parent = Read(t, job.at).parent /\ job.value.amount = Read(t, job.at).amount
       /\ job.value.parent = req[t].row /\ job.value.seen = req[t].next.note

\* A child a parent's write has yet to bring in line is on its list, or at hand.
Listed(t, job) ==
    \A c \in Children : Read(t, c) # NoRow /\ Read(t, c).parent = req[t].row =>
        \/ Read(t, c).seen = req[t].next.note
        \/ c \in job.children
        \/ job.pc \in {"refreshing", "writing"} /\ job.at = c

LEMMA QuietStep ==
    ASSUME IInv, NEW t \in Requests, Moves(t), Wrote(t),
           NEW job \in Jobs, req' = [req EXCEPT ![t] = job],
           UNCHANGED <<own, advisory>>, rowLocks'[t] \in SUBSET Rows,
           job.op = req[t].op, job.row = req[t].row, job.next = req[t].next,
           job.follow = req[t].follow, job.due = req[t].due, job.parents \subseteq req[t].parents,
           ~OnParent(t) => job.children \subseteq req[t].children,
           \A c \in job.children : origin[c] # Unborn,
           Stands(t, job, rowLocks'[t]),
           OnParent(t) => Listed(t, job)
    PROVE  TypeOK' /\ Good(t)' /\ Unshared'
<1>. USE DEF IInv
<1>1. /\ Flying(t) /\ Computed(t) /\ ~Active(t, "locking") /\ ~Active(t, "ready") /\ ~Active(t, "idle")
      /\ job.pc \in {"written", "summing", "refreshing", "writing"}
  BY DEF Wrote, Computed, Flying, Active, Stands
<1>2. own'[t] \in [Rows -> Cells \cup {Unwritten}] /\ own'[t] = own[t]
  BY DEF TypeOK
<1>3. /\ TypeOK' /\ Unshared' /\ Holds(t)' /\ req'[t] = job /\ UNCHANGED <<stored, origin>>
      /\ Flying(t)'
      /\ OnChild(t)' = OnChild(t) /\ OnParent(t)' = OnParent(t)
      /\ OnRemove(t)' = OnRemove(t) /\ OnReload(t)' = OnReload(t)
      /\ \A pc : Active(t, pc)' = (job.pc = pc)
      /\ Computed(t)' = (job.pc \notin {"locking", "begun", "paged"})
      /\ Wrote(t)' = (job.pc \notin {"locking", "begun", "paged", "ready"})
  BY <1>1, <1>2, Onward
<1>4. Computed(t)' /\ Wrote(t)' /\ ~Active(t, "ready")' /\ ~Active(t, "listing")'
  BY <1>1, <1>3
<1>5. \A r \in Rows : Read(t, r)' = Read(t, r)
  BY <1>2, <1>3 DEF Read
<1>6. Subject(t) /\ Working(t)
  BY <1>1, Worked DEF Good
<1>7. Shape(t)'
  <2>1. Subject(t)'
    BY <1>1, <1>3, SubjectKept DEF Good, Jobs
  <2>2. /\ OnChild(t) => \E p, q \in Parents : job.parents \subseteq {p, q}
        /\ OnParent(t) \/ OnReload(t) => job.parents \subseteq {req[t].row}
        /\ OnRemove(t) => job.parents = {}
        /\ ~OnParent(t) => ~job.follow /\ job.due = 0
    BY <1>6 DEF Working
  <2>3. /\ OnReload(t) => job.children \subseteq {req[t].row}
        /\ OnChild(t) \/ OnRemove(t) => job.children = {}
    <3>1. OnReload(t) \/ OnChild(t) \/ OnRemove(t) => ~OnParent(t)
      BY DEF OnParent, OnReload, OnChild, OnRemove
    <3>. QED BY <1>6, <3>1 DEF Working
  <2>4. Working(t)'
    BY <1>3, <2>2, <2>3 DEF Working, Stands
  <2>. QED BY <1>4, <2>1, <2>4, Shaped
<1>8. Owns(t)'
  BY <1>1, <1>2, <1>3, <1>4 DEF Good, Owns, NewChild
<1>9. Recomputes(t)'
  <2>1. \A p \in Parents : p \in Rows /\ p \notin Children
    BY FiguresAssumption DEF Rows
  <2>2. Children \subseteq Rows
    BY DEF Rows
  <2>3. /\ req'[t].at = job.at /\ req'[t].value = job.value
        /\ req'[t].row = req[t].row /\ req'[t].next = req[t].next
        /\ Active(t, "summing")' <=> job.pc = "summing"
        /\ Active(t, "refreshing")' <=> job.pc = "refreshing"
        /\ Active(t, "writing")' <=> job.pc = "writing"
    BY <1>3
  <2>4. /\ job.pc = "summing" => job.at \in rowLocks'[t] \/ stored[job.at] = NoRow
        /\ job.pc = "refreshing" =>
              \/ job.at \in rowLocks'[t]
              \/ stored[job.at] = NoRow /\ origin[job.at] # Unborn /\ own[t][job.at] = Unwritten
        /\ job.pc = "writing" => job.at \in rowLocks'[t] /\ Read(t, job.at) # NoRow
    BY <1>1 DEF Stands
  <2>5. job.pc = "writing" => Read(t, job.at)' = Read(t, job.at)
    BY <1>5, <2>1, <2>2 DEF Stands
  <2>6. job.pc = "writing" =>
          IF job.at \in Parents
          THEN job.value.note = Read(t, job.at).note /\ job.value.taken = Read(t, job.at).taken
          ELSE /\ job.value.parent = Read(t, job.at).parent
               /\ job.value.amount = Read(t, job.at).amount
               /\ job.value.parent = req[t].row /\ job.value.seen = req[t].next.note
    BY <2>1 DEF Stands
  <2>7. Read(t, req[t].at)' = Read(t, job.at)'
    BY <2>3 DEF Read
  <2>. QED BY <1>2, <1>3, <2>3, <2>4, <2>5, <2>6, <2>7 DEF Recomputes
<1>10. Known(t)'
  BY <1>1, <1>3 DEF Good, Known
<1>11. Places(t)'
  BY <1>1, <1>3, <1>4 DEF Good, Places
<1>12. Follows(t)'
  <2>1. Children \subseteq Rows
    BY DEF Rows
  <2>. QED BY <1>1, <1>3, <1>4, <1>5, <2>1 DEF Good, Follows, Listed
<1>13. Generated(t)'
  <2>1. Takes(t)' = Takes(t) /\ New(t)' = New(t)
    BY <1>2, <1>3 DEF Takes, New
  <2>2. Generated(t)
    BY DEF Good
  <2>3. OnParent(t) /\ stored[req[t].row] # NoRow =>
          /\ stored[req[t].row].taken => req[t].next.taken
          /\ Cardinality(New(t)) + req[t].due = IF Takes(t) THEN Len(Schedule) ELSE 0
    BY <1>1, <2>2 DEF Generated
  <2>4. /\ OnParent(t) /\ ~Generates => ~req[t].next.taken /\ req[t].due = 0
        /\ IsFiniteSet({c \in Children : own[t][c] # Unwritten})
    BY <2>2 DEF Generated
  <2>5. req'[t].row = req[t].row /\ req'[t].next = req[t].next /\ req'[t].due = req[t].due
    BY <1>3
  <2>. QED BY <1>2, <1>3, <2>1, <2>3, <2>4, <2>5 DEF Generated
<1>. QED BY <1>3, <1>7, <1>8, <1>9, <1>10, <1>11, <1>12, <1>13 DEF Good

LEMMA NextParentIn ==
    ASSUME TypeOK, NEW t \in Requests, Flying(t), req[t].parents # {}
    PROVE  NextParent(t) \in req[t].parents /\ NextParent(t) \in Parents
<1>1. req[t].parents \subseteq Parents /\ req[t].parents \subseteq Nat
  BY FlyingType, FiguresAssumption DEF Jobs
<1>2. \E n \in req[t].parents : \A m \in req[t].parents : n <= m
  BY <1>1, Smallest
<1>. QED BY <1>1, <1>2 DEF NextParent, Min

\* What is read of a parent, when there is nothing to read.
LEMMA NoParentRead ==
    ASSUME TypeOK, NEW t \in Requests, Good(t), Wrote(t), ~OnRemove(t), NEW p \in Parents, Read(t, p) = NoRow
    PROVE  stored[p] = NoRow
<1>1. OnChild(t) \/ OnReload(t) \/ OnParent(t)
  BY Kinds
<1>2. own[t][p] # Unwritten => own[t][p] \in ParentRows
  BY <1>1 DEF Good, Owns
<1>. QED BY <1>2, FiguresAssumption DEF Read

LEMMA ListChildrenStep ==
    ASSUME IInv, NEW t \in Requests, ListChildren(t)
    PROVE  TypeOK' /\ Good(t)' /\ Unshared'
<1>. USE DEF IInv
<1>. PICK below : below = ChildrenOf(Snapshot(t), req[t].row)
  OBVIOUS
<1>. DEFINE job == [req[t] EXCEPT !.pc = "written", !.children = below]
<1>1. Active(t, "listing") /\ Wrote(t) /\ Flying(t) /\ OnParent(t) /\ req[t] \in Jobs /\ Moves(t)
  <2>1. Active(t, "listing") /\ Wrote(t) /\ Flying(t)
    BY DEF ListChildren, Active, Flying, Computed, Wrote
  <2>. QED BY <2>1, FlyingType DEF Good, Shape, Active, Moves
<1>2. below \subseteq Children /\ \A c \in Children : c \in below <=> Read(t, c) # NoRow /\ Read(t, c).parent = req[t].row
  BY DEF ChildrenOf, Snapshot, Rows
<1>3. \A c \in below : origin[c] # Unborn
  <2>1. \A c \in Children : own[t][c] = Unwritten
    BY <1>1 DEF Good, Owns
  <2>. QED BY <1>2, <2>1 DEF Committed, Read
<1>4. /\ job \in Jobs /\ job.pc = "written" /\ job.op = req[t].op /\ job.row = req[t].row /\ job.next = req[t].next
      /\ job.parents = req[t].parents /\ job.children = below
      /\ job.follow = req[t].follow /\ job.due = req[t].due
  BY <1>1, <1>2 DEF Jobs
<1>5. req' = [req EXCEPT ![t] = job] /\ UNCHANGED <<own, advisory, rowLocks>>
  BY DEF ListChildren, Step, dbState
<1>. HIDE DEF job
<1>6. Stands(t, job, rowLocks'[t]) /\ Listed(t, job)
  BY <1>2, <1>4 DEF Stands, Listed
<1>7. rowLocks'[t] \in SUBSET Rows
  BY <1>5 DEF TypeOK
<1>. QED BY <1>1, <1>3, <1>4, <1>5, <1>6, <1>7, QuietStep

LEMMA LockParentStep ==
    ASSUME IInv, NEW t \in Requests, LockParent(t)
    PROVE  TypeOK' /\ Good(t)' /\ Unshared'
<1>. USE DEF IInv
<1>. PICK p : p = NextParent(t)
  OBVIOUS
<1>. DEFINE job == [req[t] EXCEPT !.pc = "summing", !.at = p, !.parents = @ \ {p}]
<1>1. Active(t, "written") /\ Wrote(t) /\ Flying(t) /\ Computed(t) /\ req[t] \in Jobs /\ Moves(t) /\ req[t].parents # {}
  <2>1. Active(t, "written") /\ Wrote(t) /\ Flying(t) /\ Computed(t) /\ req[t].parents # {}
    BY DEF LockParent, Active, Flying, Computed, Wrote
  <2>. QED BY <2>1, FlyingType DEF Moves, Wait
<1>2. p \in req[t].parents /\ p \in Parents
  BY <1>1, NextParentIn
<1>3. /\ job \in Jobs /\ job.pc = "summing" /\ job.op = req[t].op /\ job.row = req[t].row /\ job.next = req[t].next
      /\ job.at = p /\ job.parents \subseteq req[t].parents /\ job.children = req[t].children
      /\ job.follow = req[t].follow /\ job.due = req[t].due
  BY <1>1, <1>2 DEF Jobs, Rows
<1>4. req' = [req EXCEPT ![t] = job] /\ SelectForUpdate(t, p) /\ UNCHANGED <<own, advisory>>
  BY DEF LockParent, Step, SelectForUpdate
<1>. HIDE DEF job
<1>5. /\ ~OnRemove(t)
      /\ OnParent(t) \/ OnReload(t) => p = req[t].row
  <2>1. Working(t)
    BY <1>1, Worked DEF Good
  <2>. QED BY <1>1, <1>2, <2>1 DEF Working
<1>6. /\ rowLocks'[t] \in SUBSET Rows
      /\ p \in rowLocks'[t] \/ stored[p] = NoRow
  <2>1. Read(t, p) = NoRow => stored[p] = NoRow
    BY <1>1, <1>2, <1>5, NoParentRead
  <2>. QED BY <1>2, <1>4, <2>1 DEF SelectForUpdate, TypeOK, Rows
<1>7. Stands(t, job, rowLocks'[t])
  BY <1>2, <1>3, <1>5, <1>6 DEF Stands
<1>8. OnParent(t) => Listed(t, job)
  BY <1>1, <1>3 DEF Good, Follows, Listed, Active
<1>9. \A c \in job.children : origin[c] # Unborn
  BY <1>1, <1>3 DEF Good, Known
<1>. QED BY <1>1, <1>3, <1>4, <1>6, <1>7, <1>8, <1>9, QuietStep

LEMMA LockChildStep ==
    ASSUME IInv, NEW t \in Requests, LockChild(t)
    PROVE  TypeOK' /\ Good(t)' /\ Unshared'
<1>. USE DEF IInv
<1>1. PICK c \in req[t].children :
         /\ SelectForUpdate(t, c)
         /\ Step(t, [req[t] EXCEPT !.pc = "refreshing", !.at = c, !.children = @ \ {c}])
  BY DEF LockChild
<1>. DEFINE job == [req[t] EXCEPT !.pc = "refreshing", !.at = c, !.children = @ \ {c}]
<1>2. Active(t, "written") /\ Wrote(t) /\ Flying(t) /\ Computed(t) /\ req[t] \in Jobs /\ Moves(t) /\ req[t].parents = {}
  <2>1. Active(t, "written") /\ Wrote(t) /\ Flying(t) /\ Computed(t) /\ req[t].parents = {}
    BY DEF LockChild, Active, Flying, Computed, Wrote
  <2>. QED BY <2>1, FlyingType DEF Moves, Wait
<1>3. c \in Children /\ c \in Rows
  BY <1>2 DEF Jobs, Rows
<1>4. /\ job \in Jobs /\ job.pc = "refreshing" /\ job.op = req[t].op /\ job.row = req[t].row /\ job.next = req[t].next
      /\ job.at = c /\ job.parents = {} /\ job.children = req[t].children \ {c}
      /\ job.follow = req[t].follow /\ job.due = req[t].due
  BY <1>2, <1>3 DEF Jobs
<1>5. req' = [req EXCEPT ![t] = job] /\ UNCHANGED <<own, advisory>>
  BY <1>1 DEF Step, SelectForUpdate
<1>. HIDE DEF job
<1>6. OnParent(t) \/ OnReload(t)
  <2>1. Working(t)
    BY <1>2, Worked DEF Good
  <2>. QED BY <1>2, <2>1, Kinds DEF Working
<1>7. origin[c] # Unborn /\ \A d \in job.children : origin[d] # Unborn
  BY <1>2, <1>4 DEF Good, Known
<1>8. /\ rowLocks'[t] \in SUBSET Rows
      /\ c \in rowLocks'[t] \/ (stored[c] = NoRow /\ own[t][c] = Unwritten)
  <2>1. own[t][c] # Unwritten => own[t][c] # NoRow
    BY <1>3, <1>6, FiguresAssumption DEF Good, Owns
  <2>2. Read(t, c) = NoRow => stored[c] = NoRow /\ own[t][c] = Unwritten
    BY <2>1 DEF Read
  <2>. QED BY <1>1, <1>3, <2>2 DEF SelectForUpdate, TypeOK
<1>9. Stands(t, job, rowLocks'[t])
  BY <1>3, <1>4, <1>6, <1>7, <1>8 DEF Stands
<1>10. OnParent(t) => Listed(t, job)
  BY <1>2, <1>4 DEF Good, Follows, Listed, Active
<1>. QED BY <1>2, <1>4, <1>5, <1>7, <1>8, <1>9, <1>10, QuietStep

\* The row that was recomputed is done with.
LEMMA RecomputedStep ==
    ASSUME IInv, NEW t \in Requests, Moves(t), Wrote(t), req' = [req EXCEPT ![t] = Recomputed(t)],
           UNCHANGED <<own, rowLocks, advisory>>,
           OnParent(t) => Listed(t, Recomputed(t))
    PROVE  TypeOK' /\ Good(t)' /\ Unshared'
<1>. USE DEF IInv
<1>. DEFINE job == [req[t] EXCEPT !.pc = "written", !.at = req[t].row, !.value = NoRow]
<1>1. Flying(t) /\ Computed(t) /\ req[t] \in Jobs
  BY FlyingType DEF Wrote, Computed
<1>2. /\ job = Recomputed(t)
      /\ job \in Jobs /\ job.pc = "written" /\ job.op = req[t].op /\ job.row = req[t].row /\ job.next = req[t].next
      /\ job.parents = req[t].parents /\ job.children = req[t].children
      /\ job.follow = req[t].follow /\ job.due = req[t].due
  BY <1>1 DEF Jobs, Recomputed, Cells
<1>. HIDE DEF job
<1>3. Stands(t, job, rowLocks'[t])
  BY <1>2 DEF Stands
<1>4. \A c \in job.children : origin[c] # Unborn
  BY <1>1, <1>2 DEF Good, Known
<1>5. rowLocks'[t] \in SUBSET Rows
  BY DEF TypeOK
<1>. QED BY <1>2, <1>3, <1>4, <1>5, QuietStep

LEMMA SumParentStep ==
    ASSUME IInv, NEW t \in Requests, SumParent(t)
    PROVE  TypeOK' /\ Good(t)' /\ Unshared'
<1>. USE DEF IInv
<1>. PICK p, row, figure : p = req[t].at /\ row = Read(t, p) /\ figure = Figure(Snapshot(t), p)
  OBVIOUS
<1>. PICK value : value = IF row = NoRow THEN NoRow ELSE [row EXCEPT !.figure = figure]
  OBVIOUS
<1>1. Active(t, "summing") /\ Wrote(t) /\ Flying(t) /\ Computed(t) /\ req[t] \in Jobs /\ Moves(t)
  <2>1. Active(t, "summing") /\ Wrote(t) /\ Flying(t) /\ Computed(t)
    BY DEF SumParent, Active, Flying, Computed, Wrote
  <2>. QED BY <2>1, FlyingType DEF Moves
<1>2. Recompute(t, value) /\ UNCHANGED <<own, rowLocks, advisory>>
  BY DEF SumParent, Recompute, dbState
<1>3. /\ p \in Parents /\ p \in Rows /\ p \notin Children /\ ~OnRemove(t)
      /\ OnParent(t) \/ OnReload(t) => p = req[t].row
      /\ req[t].pc = "summing"
  <2>1. Working(t)
    BY <1>1, Worked DEF Good
  <2>. QED BY <1>1, <2>1, FiguresAssumption DEF Working, Active, Rows
<1>4. CASE value = row
  <2>1. req' = [req EXCEPT ![t] = Recomputed(t)]
    BY <1>2, <1>4 DEF Recompute, Step
  <2>2. OnParent(t) => Listed(t, Recomputed(t))
    BY <1>1, <1>3 DEF Good, Follows, Listed, Recomputed, Active, Jobs
  <2>. QED BY <1>1, <1>2, <2>1, <2>2, RecomputedStep
<1>5. CASE value # row
  <2>. DEFINE job == [req[t] EXCEPT !.pc = "writing", !.value = value]
  <2>1. req' = [req EXCEPT ![t] = job]
    BY <1>2, <1>5 DEF Recompute, Step
  <2>2. row \in ParentRows /\ row # NoRow
    BY <1>3, <1>5, ReadType
  <2>3. value \in ParentRows /\ value.note = row.note /\ value.taken = row.taken
    BY <1>3, <2>2, FigureType DEF ParentRows
  <2>4. /\ job \in Jobs /\ job.pc = "writing" /\ job.op = req[t].op /\ job.row = req[t].row /\ job.next = req[t].next
        /\ job.at = p /\ job.value = value /\ job.parents = req[t].parents /\ job.children = req[t].children
        /\ job.follow = req[t].follow /\ job.due = req[t].due
    BY <1>1, <2>3 DEF Jobs, Cells
  <2>. HIDE DEF job
  <2>5. p \in rowLocks[t]
    BY <1>1, <1>3, <2>2 DEF Good, Recomputes, RowsExclusive, Read
  <2>6. Stands(t, job, rowLocks'[t])
    BY <1>2, <1>3, <2>2, <2>3, <2>4, <2>5 DEF Stands
  <2>7. OnParent(t) => Listed(t, job)
    BY <1>1, <1>3, <2>4 DEF Good, Follows, Listed, Active
  <2>8. (\A c \in job.children : origin[c] # Unborn) /\ rowLocks'[t] \in SUBSET Rows
    BY <1>1, <1>2, <2>4 DEF Good, Known, TypeOK
  <2>. QED BY <1>1, <1>2, <2>1, <2>4, <2>6, <2>7, <2>8, QuietStep
<1>. QED BY <1>4, <1>5

LEMMA RefreshChildStep ==
    ASSUME IInv, NEW t \in Requests, RefreshChild(t)
    PROVE  TypeOK' /\ Good(t)' /\ Unshared'
<1>. USE DEF IInv
<1>. PICK c, row : c = req[t].at /\ row = Read(t, c)
  OBVIOUS
<1>. PICK note : note = NoteOf(Read(t, row.parent))
  OBVIOUS
<1>. PICK value : value = IF row = NoRow THEN NoRow ELSE [row EXCEPT !.seen = note]
  OBVIOUS
<1>1. Active(t, "refreshing") /\ Wrote(t) /\ Flying(t) /\ Computed(t) /\ req[t] \in Jobs /\ Moves(t)
  <2>1. Active(t, "refreshing") /\ Wrote(t) /\ Flying(t) /\ Computed(t)
    BY DEF RefreshChild, Active, Flying, Computed, Wrote
  <2>. QED BY <2>1, FlyingType DEF Moves
<1>2. Recompute(t, value) /\ UNCHANGED <<own, rowLocks, advisory>>
  BY DEF RefreshChild, Recompute, dbState
<1>3. /\ c \in Children /\ c \in Rows /\ c \notin Parents /\ (OnParent(t) \/ OnReload(t))
      /\ req[t].parents = {} /\ req[t].pc = "refreshing"
  <2>1. Working(t)
    BY <1>1, Worked DEF Good
  <2>. QED BY <1>1, <2>1, FiguresAssumption DEF Working, Active, Rows
<1>4. row \in ChildRows \cup {NoRow} /\ (row # NoRow => row.parent \in Parents /\ row.parent \in Rows)
  BY <1>3, ReadType DEF ChildRows, Rows
\* What the child copies is what it holds, but for a child of the parent the request writes.
<1>5. ASSUME row # NoRow, ~(OnParent(t) /\ row.parent = req[t].row) PROVE note = row.seen
  <2>1. own[t][c] = Unwritten /\ row = stored[c]
    BY <1>3, <1>5, FiguresAssumption DEF Good, Owns, Read
  <2>2. row.seen = NoteOf(stored[row.parent]) /\ stored[row.parent] # NoRow
    BY <1>3, <1>5, <2>1 DEF Committed, SeenAgrees, NoOrphans, Exists
  <2>3. CASE own[t][row.parent] = Unwritten
    BY <2>2, <2>3 DEF Read
  <2>4. CASE own[t][row.parent] # Unwritten
    <3>1. OnReload(t) /\ row.parent \in Parents
      BY <1>3, <1>4, <1>5, <2>4 DEF Good, Owns
    <3>2. own[t][row.parent].note = stored[row.parent].note /\ own[t][row.parent] # NoRow
      BY <2>4, <3>1, FiguresAssumption DEF Good, Owns
    <3>. QED BY <2>2, <2>4, <3>2 DEF Read, NoteOf
  <2>. QED BY <2>3, <2>4
<1>6. ASSUME row # NoRow, OnParent(t), row.parent = req[t].row PROVE note = req[t].next.note /\ note \in Notes
  <2>1. /\ own[t][req[t].row] \in ParentRows /\ own[t][req[t].row].note = req[t].next.note
        /\ req[t].next \in ParentRows
    BY <1>1, <1>6 DEF Good, Owns, Shape
  <2>. QED BY <1>6, <2>1, FiguresAssumption DEF Read, NoteOf, ParentRows, Cells
<1>7. CASE value = row
  <2>1. req' = [req EXCEPT ![t] = Recomputed(t)]
    BY <1>2, <1>7 DEF Recompute, Step
  <2>2. ASSUME OnParent(t) PROVE Listed(t, Recomputed(t))
    <3>1. row # NoRow /\ row.parent = req[t].row => row.seen = req[t].next.note
      BY <1>4, <1>6, <1>7, <2>2 DEF ChildRows
    <3>2. Recomputed(t).children = req[t].children
      BY <1>1 DEF Recomputed, Jobs
    <3>. QED BY <1>1, <2>2, <3>1, <3>2 DEF Good, Follows, Listed, Active
  <2>. QED BY <1>1, <1>2, <2>1, <2>2, RecomputedStep
<1>8. CASE value # row
  <2>. DEFINE job == [req[t] EXCEPT !.pc = "writing", !.value = value]
  <2>1. req' = [req EXCEPT ![t] = job]
    BY <1>2, <1>8 DEF Recompute, Step
  <2>2. row # NoRow /\ row \in ChildRows /\ OnParent(t) /\ row.parent = req[t].row
    BY <1>4, <1>5, <1>8 DEF ChildRows
  <2>3. value \in ChildRows /\ value.parent = row.parent /\ value.amount = row.amount /\ value.seen = req[t].next.note
    BY <1>6, <2>2 DEF ChildRows
  <2>4. /\ job \in Jobs /\ job.pc = "writing" /\ job.op = req[t].op /\ job.row = req[t].row /\ job.next = req[t].next
        /\ job.at = c /\ job.value = value /\ job.parents = {} /\ job.children = req[t].children
        /\ job.follow = req[t].follow /\ job.due = req[t].due
    BY <1>1, <1>3, <2>3 DEF Jobs, Cells
  <2>. HIDE DEF job
  <2>5. c \in rowLocks[t]
    BY <1>1, <2>2 DEF Good, Recomputes, Read
  <2>6. Stands(t, job, rowLocks'[t])
    BY <1>2, <1>3, <2>2, <2>3, <2>4, <2>5 DEF Stands
  <2>7. Listed(t, job)
    BY <1>1, <1>3, <2>2, <2>4 DEF Good, Follows, Listed, Active
  <2>8. (\A d \in job.children : origin[d] # Unborn) /\ rowLocks'[t] \in SUBSET Rows /\ job.parents \subseteq req[t].parents
    BY <1>1, <1>2, <2>4 DEF Good, Known, TypeOK
  <2>. QED BY <1>1, <1>2, <2>1, <2>2, <2>4, <2>6, <2>7, <2>8, QuietStep
<1>. QED BY <1>7, <1>8

LEMMA CompareStep ==
    ASSUME IInv, NEW t \in Requests, Compare(t)
    PROVE  TypeOK' /\ Good(t)' /\ Unshared'
<1>. USE DEF IInv
<1>. PICK r : r = req[t].row
  OBVIOUS
<1>. DEFINE job == [req[t] EXCEPT !.pc = "written", !.parents = {r} \cap Parents, !.children = {r} \cap Children]
<1>1. /\ Active(t, "paged") /\ Flying(t) /\ ~Computed(t) /\ OnReload(t) /\ req[t] \in Jobs /\ r \in Rows
      /\ ~Active(t, "locking") /\ own[t] = NoWrites /\ Moves(t)
  <2>1. Active(t, "paged") /\ Flying(t) /\ ~Computed(t) /\ ~Active(t, "locking")
    BY DEF Compare, Active, Flying, Computed
  <2>. QED BY <2>1, FlyingType DEF Good, Shape, Owns, Wrote, Moves, Jobs
<1>2. UNCHANGED <<own, rowLocks, advisory>> /\ (req' = [req EXCEPT ![t] = Idle] \/ req' = [req EXCEPT ![t] = job])
  BY DEF Compare, Step, dbState
<1>3. CASE req' = [req EXCEPT ![t] = Idle]
  <2>1. req'[t] = Idle /\ own'[t] = NoWrites
    BY <1>1, <1>2, <1>3 DEF TypeOK
  <2>2. Local(t)
    BY <1>1, MovesLocal
  <2>3. TypeOK'
    BY <1>2, <2>1, <2>2, TypesKept DEF TypeOK
  <2>4. Unshared'
    BY <1>2, <2>1, <2>2, UnsharedKept DEF Flying, Active, Idle
  <2>. QED BY <2>1, <2>3, <2>4, IdleGood
<1>4. CASE req' = [req EXCEPT ![t] = job]
  <2>1. /\ job \in Jobs /\ job.pc = "written" /\ job.op = req[t].op /\ job.row = r /\ job.next = req[t].next
        /\ job.parents = {r} \cap Parents /\ job.children = {r} \cap Children
        /\ job.follow = req[t].follow /\ job.due = req[t].due
    BY <1>1 DEF Jobs
  <2>. HIDE DEF job
  <2>2. own'[t] \in [Rows -> Cells \cup {Unwritten}] /\ rowLocks'[t] \in SUBSET Rows /\ own'[t] = NoWrites
    BY <1>1, <1>2 DEF TypeOK
  <2>3. /\ TypeOK' /\ Unshared' /\ Holds(t)' /\ req'[t] = job /\ UNCHANGED <<stored, origin>>
        /\ Flying(t)'
        /\ OnChild(t)' = OnChild(t) /\ OnParent(t)' = OnParent(t)
        /\ OnRemove(t)' = OnRemove(t) /\ OnReload(t)' = OnReload(t)
        /\ \A pc : Active(t, pc)' = (job.pc = pc)
        /\ Computed(t)' = (job.pc \notin {"locking", "begun", "paged"})
        /\ Wrote(t)' = (job.pc \notin {"locking", "begun", "paged", "ready"})
    <3>1. \A c \in Children : own'[t][c] # Unwritten => own[t][c] # Unwritten
      BY <1>2
    <3>2. job.op = req[t].op /\ job.row = req[t].row /\ job \in Jobs
      BY <2>1
    <3>3. UNCHANGED advisory
      BY <1>2
    <3>. QED BY <1>1, <1>4, <2>2, <3>1, <3>2, <3>3, Onward
  <2>4. /\ Computed(t)' /\ Wrote(t)' /\ OnReload(t)' /\ ~OnChild(t)' /\ ~OnParent(t)' /\ ~OnRemove(t)'
        /\ Active(t, "written")' /\ \A pc \in {"ready", "summing", "refreshing", "writing"} : ~Active(t, pc)'
    BY <1>1, <2>1, <2>3 DEF OnChild, OnParent, OnRemove, OnReload
  <2>5. Shape(t)'
    <3>1. Subject(t)'
      BY <1>1, <2>1, <2>3, SubjectKept DEF Good, Jobs
    <3>2. ~req[t].follow /\ req[t].due = 0
      BY <1>1, <2>3, <2>4 DEF Good, Shape
    <3>3. Working(t)'
      BY <2>1, <2>3, <2>4, <3>2 DEF Working
    <3>. QED BY <2>4, <3>1, <3>3, Shaped
  <2>6. \A s \in Rows : own'[t][s] = Unwritten
    BY <2>2 DEF NoWrites
  <2>7. Owns(t)' /\ Recomputes(t)' /\ Places(t)' /\ Follows(t)'
    BY <2>2, <2>4, <2>6 DEF Owns, Recomputes, Places, Follows, Rows
  <2>8. Known(t)'
    <3>1. r \in Children => origin[r] # Unborn
      BY <1>1 DEF Good, Known, OnReload
    <3>. QED BY <1>1, <2>1, <2>3, <3>1 DEF Known, OnReload
  <2>9. Generated(t)'
    <3>1. {c \in Children : own'[t][c] # Unwritten} = {}
      BY <2>6 DEF Rows
    <3>. QED BY <2>4, <3>1, FS_EmptySet DEF Generated
  <2>. QED BY <2>3, <2>5, <2>7, <2>8, <2>9 DEF Good
<1>. QED BY <1>2, <1>3, <1>4

LEMMA WriteBackStep ==
    ASSUME IInv, NEW t \in Requests, WriteBack(t)
    PROVE  TypeOK' /\ Good(t)' /\ Unshared'
<1>. USE DEF IInv
<1>. PICK r, at, value, next : r = req[t].row /\ at = req[t].at /\ value = req[t].value /\ next = req[t].next
  OBVIOUS
<1>. PICK parents : parents = IF at \in Children /\ req[t].op # "reload" THEN {value.parent} ELSE req[t].parents
  OBVIOUS
<1>. DEFINE job == [req[t] EXCEPT !.pc = "written", !.at = req[t].row, !.value = NoRow, !.parents = parents]
<1>1. /\ Active(t, "writing") /\ Wrote(t) /\ Flying(t) /\ Computed(t) /\ ~Active(t, "locking") /\ ~Active(t, "ready")
      /\ req[t] \in Jobs /\ Moves(t) /\ at \in Rows /\ value \in Cells /\ r \in Rows
  <2>1. Active(t, "writing") /\ Wrote(t) /\ Flying(t) /\ Computed(t) /\ ~Active(t, "locking") /\ ~Active(t, "ready")
    BY DEF WriteBack, Active, Flying, Computed, Wrote
  <2>. QED BY <2>1, FlyingType DEF Moves, Jobs
<1>2. Subject(t) /\ Working(t)
  BY <1>1, Worked DEF Good
\* Either a parent is written or, by a parent's write, one of its children.
<1>3. \/ /\ at \in Parents /\ at \notin Children /\ value \in ParentRows /\ ~OnRemove(t) /\ parents = req[t].parents
         /\ OnParent(t) \/ OnReload(t) => at = r
         /\ value.note = Read(t, at).note /\ value.taken = Read(t, at).taken
      \/ /\ at \in Children /\ at \notin Parents /\ value \in ChildRows /\ OnParent(t) /\ parents = {r}
         /\ r \in Parents /\ r # at
         /\ value.amount = Read(t, at).amount /\ Read(t, at).parent = r
         /\ value.parent = r /\ value.seen = next.note
  BY <1>1, <1>2, FiguresAssumption DEF Working, Subject, Active, Good, Recomputes, OnParent
<1>4. at \in rowLocks[t] /\ Read(t, at) # NoRow
  BY <1>1 DEF Good, Recomputes
<1>5. /\ job \in Jobs /\ job.pc = "written" /\ job.op = req[t].op /\ job.row = r /\ job.next = next
      /\ job.parents = parents /\ job.children = req[t].children
      /\ job.follow = req[t].follow /\ job.due = req[t].due
  BY <1>1, <1>3 DEF Jobs, Cells
<1>6. WriteRow(t, at, value) /\ req' = [req EXCEPT ![t] = job]
  <2>1. job = [Recomputed(t) EXCEPT !.parents = IF req[t].at \in Children /\ req[t].op # "reload"
                                                THEN {req[t].value.parent} ELSE @]
    BY <1>1 DEF Recomputed, Jobs
  <2>. HIDE DEF job
  <2>. QED BY <2>1 DEF WriteBack, Step
<1>. HIDE DEF job
<1>7. /\ own'[t] \in [Rows -> Cells \cup {Unwritten}] /\ rowLocks'[t] \in SUBSET Rows
      /\ UNCHANGED <<stored, advisory>>
      /\ own'[t][at] = value /\ \A s \in Rows : s # at => own'[t][s] = own[t][s]
      /\ Read(t, at)' = value /\ \A s \in Rows : s # at => Read(t, s)' = Read(t, s)
      /\ value # Unwritten
  <2>1. value # Unwritten
    BY <1>1, FiguresAssumption
  <2>. QED BY <1>1, <1>6, <2>1, Writes
<1>8. Parents \subseteq Rows /\ Children \subseteq Rows /\ Parents \cap Children = {}
  BY FiguresAssumption DEF Rows
\* A child written for the first time was committed.
<1>9. at \in Children => own[t][at] # Unwritten \/ (stored[at] # NoRow /\ origin[at] # Unborn)
  BY <1>4 DEF Read, Committed
<1>10. /\ TypeOK' /\ Unshared' /\ Holds(t)' /\ req'[t] = job /\ UNCHANGED <<stored, origin>>
       /\ Flying(t)'
       /\ OnChild(t)' = OnChild(t) /\ OnParent(t)' = OnParent(t)
       /\ OnRemove(t)' = OnRemove(t) /\ OnReload(t)' = OnReload(t)
       /\ \A pc : Active(t, pc)' = (job.pc = pc)
       /\ Computed(t)' = (job.pc \notin {"locking", "begun", "paged"})
       /\ Wrote(t)' = (job.pc \notin {"locking", "begun", "paged", "ready"})
  <2>1. \A c \in Children : own'[t][c] # Unwritten => own[t][c] # Unwritten \/ origin[c] # Unborn
    BY <1>7, <1>8, <1>9
  <2>2. job.op = req[t].op /\ job.row = req[t].row
    BY <1>5
  <2>. QED BY <1>1, <1>5, <1>6, <1>7, <2>1, <2>2, Onward
<1>11. /\ Computed(t)' /\ Wrote(t)' /\ Active(t, "written")'
       /\ \A pc \in {"ready", "listing", "summing", "refreshing", "writing"} : ~Active(t, pc)'
       /\ req'[t].row = r /\ req'[t].next = next /\ req'[t].op = req[t].op /\ req'[t].due = req[t].due
       /\ req'[t].pc = "written" /\ req'[t].children = req[t].children
  BY <1>5, <1>10
<1>12. Shape(t)'
  <2>1. Subject(t)'
    BY <1>1, <1>5, <1>10, SubjectKept DEF Good, Jobs
  <2>2. /\ OnChild(t) => ~OnParent(t) /\ ~OnRemove(t) /\ ~OnReload(t)
        /\ OnParent(t) => ~OnRemove(t) /\ ~OnReload(t)
    BY DEF OnChild, OnParent, OnRemove, OnReload
  <2>3. Working(t)'
    BY <1>2, <1>3, <1>5, <1>10, <1>11, <2>2 DEF Working
  <2>. QED BY <1>11, <2>1, <2>3, Shaped
<1>13. Recomputes(t)'
  BY <1>11 DEF Recomputes
<1>14. Known(t)' /\ Places(t)'
  BY <1>1, <1>10, <1>11 DEF Good, Known, Places
<1>15. Follows(t)'
  <2>1. ASSUME OnParent(t), NEW c \in Children, Read(t, c)' # NoRow, Read(t, c)'.parent = r
        PROVE  Read(t, c)'.seen = next.note \/ c \in req[t].children
    <3>1. CASE c = at
      BY <1>3, <1>7, <2>1, <3>1
    <3>2. CASE c # at
      <4>1. Read(t, c)' = Read(t, c)
        BY <1>7, <1>8, <3>2
      <4>. QED BY <1>1, <2>1, <3>2, <4>1 DEF Good, Follows, Active
    <3>. QED BY <3>1, <3>2
  <2>2. Follows(t)
    BY DEF Good
  <2>. QED BY <1>1, <1>10, <1>11, <2>1, <2>2 DEF Follows
<1>16. Owns(t)'
  <2>1. Owns(t)
    BY DEF Good
  <2>2. \A c \in Children : NewChild(c)' = NewChild(c)
    BY <1>10 DEF NewChild
  <2>3. CASE at \in Parents
    <3>1. \A c \in Children : own'[t][c] = own[t][c]
      BY <1>7, <1>8, <2>3
    <3>2. \A p \in Parents : p # at => own'[t][p] = own[t][p]
      BY <1>7, <1>8
    <3>3. CASE OnChild(t)
      <4>1. ~OnParent(t) /\ ~OnRemove(t) /\ ~OnReload(t) /\ r \in Children
        BY <1>2, <3>3 DEF Subject, OnChild, OnParent, OnRemove, OnReload
      <4>2. stored[at] # NoRow /\ value.note = stored[at].note /\ value.taken = stored[at].taken
        BY <1>3, <1>4, <2>1, <2>3, <3>3 DEF Owns, Read
      <4>3. \A p \in Parents : own'[t][p] # Unwritten =>
               /\ stored[p] # NoRow /\ own'[t][p] \in ParentRows
               /\ own'[t][p].note = stored[p].note /\ own'[t][p].taken = stored[p].taken
        <5>1. own'[t][at] = value /\ value \in ParentRows
          BY <1>3, <1>7, <2>3
        <5>2. \A p \in Parents : own[t][p] # Unwritten =>
                 /\ stored[p] # NoRow /\ own[t][p] \in ParentRows
                 /\ own[t][p].note = stored[p].note /\ own[t][p].taken = stored[p].taken
          BY <2>1, <3>3 DEF Owns
        <5>. QED BY <3>2, <4>2, <5>1, <5>2
      <4>4. /\ \A c \in Children \ {r} : own'[t][c] = Unwritten
            /\ own'[t][r] = next
            /\ req[t].op \in {"update", "move"} => stored[r] # NoRow
        BY <1>1, <2>1, <3>1, <3>3, <4>1 DEF Owns
      <4>. QED BY <1>10, <1>11, <4>1, <4>3, <4>4 DEF Owns
    <3>4. CASE OnParent(t)
      <4>1. ~OnChild(t) /\ ~OnRemove(t) /\ ~OnReload(t) /\ at = r
        BY <1>3, <2>3, <3>4 DEF OnChild, OnParent, OnRemove, OnReload
      <4>2. /\ own[t][r] \in ParentRows /\ own[t][r] # Unwritten /\ stored[r] # NoRow
            /\ own[t][r].note = next.note /\ own[t][r].taken = next.taken
        BY <1>1, <2>1, <3>4, FiguresAssumption DEF Owns, Cells
      <4>3. value \in ParentRows /\ value.note = next.note /\ value.taken = next.taken
        BY <1>3, <2>3, <4>1, <4>2 DEF Read
      <4>. QED BY <1>7, <1>10, <1>11, <2>1, <2>2, <3>1, <3>2, <4>1, <4>2, <4>3, <3>4, SMTT(30) DEF Owns
    <3>5. CASE OnReload(t)
      <4>1. ~OnChild(t) /\ ~OnRemove(t) /\ ~OnParent(t) /\ at = r
        BY <1>3, <2>3, <3>5 DEF OnChild, OnParent, OnRemove, OnReload
      <4>2. stored[at] # NoRow /\ value.note = stored[at].note /\ value.taken = stored[at].taken
        BY <1>3, <1>4, <2>1, <2>3, <3>5 DEF Owns, Read
      <4>3. \A p \in Parents : own'[t][p] # Unwritten =>
               /\ stored[p] # NoRow /\ own'[t][p] \in ParentRows
               /\ own'[t][p].note = stored[p].note /\ own'[t][p].taken = stored[p].taken
        BY <1>3, <1>7, <2>1, <2>3, <3>2, <3>5, <4>2, SMTT(30) DEF Owns
      <4>4. \A s \in Rows \ ({r} \cap Parents) : own'[t][s] = Unwritten
        BY <1>7, <2>1, <2>3, <3>5, <4>1 DEF Owns
      <4>. QED BY <1>10, <1>11, <4>1, <4>3, <4>4 DEF Owns
    <3>. QED BY <1>2, <1>3, <2>3, <3>3, <3>4, <3>5 DEF Subject
  <2>4. CASE at \in Children
    <3>1. /\ OnParent(t) /\ ~OnChild(t) /\ ~OnRemove(t) /\ ~OnReload(t)
          /\ value \in ChildRows /\ r \in Parents /\ value.parent = r /\ value.seen = next.note
          /\ value.amount = Read(t, at).amount /\ Read(t, at).parent = r
      BY <1>3, <2>4 DEF OnChild, OnParent, OnRemove, OnReload
    <3>2. \A p \in Parents : own'[t][p] = own[t][p]
      BY <1>7, <1>8, <2>4
    <3>3. \/ NewChild(at) /\ Generates
          \/ stored[at] # NoRow /\ stored[at].parent = r /\ stored[at].amount = value.amount
      <4>1. CASE own[t][at] = Unwritten
        BY <1>4, <3>1, <4>1 DEF Read
      <4>2. CASE own[t][at] # Unwritten
        BY <2>1, <2>4, <3>1, <4>2 DEF Owns, Read
      <4>. QED BY <4>1, <4>2
    <3>4. ASSUME NEW c \in Children, own'[t][c] # Unwritten
          PROVE  /\ own'[t][c] \in ChildRows /\ own'[t][c].parent = r /\ own'[t][c].seen = next.note
                 /\ \/ NewChild(c) /\ Generates
                    \/ stored[c] # NoRow /\ stored[c].parent = r /\ stored[c].amount = own'[t][c].amount
      <4>1. CASE c = at
        BY <1>7, <3>1, <3>3, <4>1
      <4>2. CASE c # at
        <5>1. own'[t][c] = own[t][c]
          BY <1>7, <1>8, <4>2
        <5>. QED BY <2>1, <3>1, <3>4, <5>1 DEF Owns
      <4>. QED BY <4>1, <4>2
    <3>5. /\ own[t][r] \in ParentRows /\ stored[r] # NoRow
          /\ own[t][r].note = next.note /\ own[t][r].taken = next.taken
          /\ \A p \in Parents \ {r} : own[t][p] = Unwritten
      BY <1>1, <2>1, <3>1 DEF Owns
    <3>. QED BY <1>10, <1>11, <2>2, <3>1, <3>2, <3>4, <3>5 DEF Owns
  <2>. QED BY <1>3, <2>3, <2>4
<1>17. Generated(t)'
  <2>1. Generated(t)
    BY DEF Good
  <2>2. New(t)' = New(t)
    BY <1>7, <1>8, <1>9, <1>10 DEF New
  <2>3. IsFiniteSet({c \in Children : own'[t][c] # Unwritten})
    <3>1. IsFiniteSet({c \in Children : own[t][c] # Unwritten} \cup {at})
      BY <2>1, FS_AddElement DEF Generated
    <3>2. {c \in Children : own'[t][c] # Unwritten} \subseteq {c \in Children : own[t][c] # Unwritten} \cup {at}
      BY <1>7, <1>8
    <3>. QED BY <3>1, <3>2, FS_Subset
  <2>4. Takes(t)' = Takes(t)
    BY <1>10, <1>11 DEF Takes
  <2>5. OnParent(t) /\ stored[r] # NoRow =>
          /\ stored[r].taken => next.taken
          /\ Cardinality(New(t)) + req[t].due = IF Takes(t) THEN Len(Schedule) ELSE 0
    BY <1>1, <2>1 DEF Generated
  <2>6. OnParent(t) /\ ~Generates => ~next.taken /\ req[t].due = 0
    BY <2>1 DEF Generated
  <2>. QED BY <1>10, <1>11, <2>2, <2>3, <2>4, <2>5, <2>6 DEF Generated
<1>. QED BY <1>10, <1>12, <1>13, <1>14, <1>15, <1>16, <1>17 DEF Good

LEMMA InsertGeneratedStep ==
    ASSUME IInv, NEW t \in Requests, InsertGenerated(t)
    PROVE  TypeOK' /\ Good(t)' /\ Unshared'
<1>. USE DEF IInv
<1>. PICK r, next : r = req[t].row /\ next = req[t].next
  OBVIOUS
<1>. PICK value : value = [parent |-> r, amount |-> Schedule[Len(Schedule) + 1 - req[t].due],
                           seen |-> NoteOf(Read(t, r))]
  OBVIOUS
<1>1. PICK c \in FreshIds : WriteRow(t, c, value)
  BY DEF InsertGenerated
<1>. DEFINE job == [req[t] EXCEPT !.parents = {r}, !.due = @ - 1]
<1>2. /\ Active(t, "written") /\ Wrote(t) /\ Flying(t) /\ Computed(t) /\ ~Active(t, "locking") /\ ~Active(t, "ready")
      /\ ~Active(t, "listing") /\ req[t] \in Jobs /\ Moves(t) /\ r \in Rows
      /\ req[t].parents = {} /\ req[t].children = {} /\ req[t].due \in 1..Len(Schedule)
  <2>1. /\ Active(t, "written") /\ Wrote(t) /\ Flying(t) /\ Computed(t) /\ ~Active(t, "locking") /\ ~Active(t, "ready")
        /\ ~Active(t, "listing") /\ req[t].parents = {} /\ req[t].children = {} /\ req[t].due > 0
    BY DEF InsertGenerated, Generating, Active, Flying, Computed, Wrote
  <2>2. Len(Schedule) \in Nat /\ req[t].due \in 0..Len(Schedule)
    BY <2>1, FlyingType, FiguresAssumption DEF Jobs
  <2>. QED BY <2>1, <2>2, FlyingType DEF Moves, Jobs
<1>3. Subject(t) /\ Working(t)
  BY <1>2, Worked DEF Good
<1>4. /\ OnParent(t) /\ ~OnChild(t) /\ ~OnRemove(t) /\ ~OnReload(t)
      /\ r \in Parents /\ next \in ParentRows /\ Generates
  <2>1. OnParent(t)
    BY <1>2, <1>3 DEF Working
  <2>2. Generates
    <3>1. ~Generates => req[t].due = 0
      BY <2>1 DEF Good, Generated
    <3>2. req[t].due # 0
      BY <1>2
    <3>. QED BY <3>1, <3>2
  <2>. QED BY <1>3, <2>1, <2>2 DEF Subject, OnParent, OnChild, OnRemove, OnReload
<1>5. /\ own[t][r] \in ParentRows /\ own[t][r].note = next.note /\ own[t][r].taken = next.taken /\ stored[r] # NoRow
      /\ Read(t, r) = own[t][r] /\ Read(t, r) # NoRow
  <2>1. own[t][r] \in ParentRows /\ own[t][r].note = next.note /\ own[t][r].taken = next.taken /\ stored[r] # NoRow
    BY <1>2, <1>4 DEF Good, Owns
  <2>. QED BY <2>1, FiguresAssumption DEF Read, Cells
<1>6. value \in ChildRows /\ value.parent = r /\ value.seen = next.note
  <2>1. Schedule[Len(Schedule) + 1 - req[t].due] \in Amounts
    BY <1>2, FiguresAssumption
  <2>2. NoteOf(Read(t, r)) = next.note /\ next.note \in Notes
    BY <1>4, <1>5 DEF NoteOf, ParentRows
  <2>. QED BY <1>4, <2>1, <2>2 DEF ChildRows
<1>7. c \in Children /\ c \in Rows /\ c # r /\ c \notin Parents /\ own[t][c] = Unwritten /\ NewChild(c)
  <2>1. c \in Children /\ origin[c] = Unborn /\ own[t][c] = Unwritten
    BY <1>2 DEF FreshIds, Active
  <2>. QED BY <1>4, <2>1, FiguresAssumption DEF NewChild, Committed, Rows
<1>8. /\ job \in Jobs /\ job.pc = "written" /\ job.op = req[t].op /\ job.row = r /\ job.next = next
      /\ job.parents = {r} /\ job.children = {}
      /\ job.follow = req[t].follow /\ job.due = req[t].due - 1
  <2>1. req[t].due - 1 \in 0..Len(Schedule)
    BY <1>2, FiguresAssumption
  <2>. QED BY <1>2, <1>4, <2>1 DEF Jobs, Active
<1>9. req' = [req EXCEPT ![t] = job]
  BY DEF InsertGenerated, Step
<1>. HIDE DEF job
<1>10. /\ own'[t] \in [Rows -> Cells \cup {Unwritten}] /\ rowLocks'[t] \in SUBSET Rows
       /\ UNCHANGED <<stored, advisory>>
       /\ own'[t][c] = value /\ \A s \in Rows : s # c => own'[t][s] = own[t][s]
       /\ Read(t, c)' = value /\ \A s \in Rows : s # c => Read(t, s)' = Read(t, s)
       /\ value # Unwritten
  <2>1. value # Unwritten /\ value \in Cells
    BY <1>6, FiguresAssumption DEF Cells
  <2>. QED BY <1>1, <1>7, <2>1, Writes
<1>11. Parents \subseteq Rows /\ Children \subseteq Rows /\ Parents \cap Children = {}
  BY FiguresAssumption DEF Rows
<1>12. /\ TypeOK' /\ Unshared' /\ Holds(t)' /\ req'[t] = job /\ UNCHANGED <<stored, origin>>
       /\ Flying(t)'
       /\ OnChild(t)' = OnChild(t) /\ OnParent(t)' = OnParent(t)
       /\ OnRemove(t)' = OnRemove(t) /\ OnReload(t)' = OnReload(t)
       /\ \A pc : Active(t, pc)' = (job.pc = pc)
       /\ Computed(t)' = (job.pc \notin {"locking", "begun", "paged"})
       /\ Wrote(t)' = (job.pc \notin {"locking", "begun", "paged", "ready"})
  <2>1. \A d \in Children : own'[t][d] # Unwritten => own[t][d] # Unwritten \/ d \in FreshIds
    BY <1>1, <1>10, <1>11
  <2>2. job.op = req[t].op /\ job.row = req[t].row
    BY <1>8
  <2>. QED BY <1>2, <1>8, <1>9, <1>10, <2>1, <2>2, Onward
<1>13. /\ Computed(t)' /\ Wrote(t)' /\ Active(t, "written")'
       /\ \A pc \in {"ready", "listing", "summing", "refreshing", "writing"} : ~Active(t, pc)'
       /\ req'[t].row = r /\ req'[t].next = next /\ req'[t].op = req[t].op /\ req'[t].due = req[t].due - 1
       /\ req'[t].pc = "written" /\ req'[t].children = {}
       /\ OnParent(t)' /\ ~OnChild(t)' /\ ~OnRemove(t)' /\ ~OnReload(t)'
  BY <1>4, <1>8, <1>12
<1>14. Shape(t)'
  <2>1. Subject(t)'
    BY <1>2, <1>8, <1>12, SubjectKept DEF Good, Jobs
  <2>2. Working(t)'
    BY <1>8, <1>12, <1>13 DEF Working
  <2>. QED BY <1>13, <2>1, <2>2, Shaped
<1>15. Recomputes(t)'
  BY <1>13 DEF Recomputes
<1>16. Known(t)' /\ Places(t)'
  BY <1>4, <1>11, <1>12, <1>13 DEF Known, Places
<1>17. Follows(t)'
  <2>1. ASSUME NEW d \in Children, Read(t, d)' # NoRow, Read(t, d)'.parent = r
        PROVE  Read(t, d)'.seen = next.note
    <3>1. CASE d = c
      BY <1>6, <1>10, <3>1
    <3>2. CASE d # c
      <4>1. Read(t, d)' = Read(t, d)
        BY <1>10, <1>11, <3>2
      <4>2. Follows(t) /\ req[t].pc = "written"
        BY <1>2 DEF Good, Active
      <4>. QED BY <1>2, <1>4, <2>1, <4>1, <4>2 DEF Follows
    <3>. QED BY <3>1, <3>2
  <2>. QED BY <1>13, <2>1 DEF Follows
<1>18. Owns(t)'
  <2>1. Owns(t)
    BY DEF Good
  <2>2. \A d \in Children : NewChild(d)' = NewChild(d)
    BY <1>12 DEF NewChild
  <2>3. \A p \in Parents : own'[t][p] = own[t][p]
    BY <1>7, <1>10, <1>11
  <2>4. ASSUME NEW d \in Children, own'[t][d] # Unwritten
        PROVE  /\ own'[t][d] \in ChildRows /\ own'[t][d].parent = r /\ own'[t][d].seen = next.note
               /\ \/ NewChild(d) /\ Generates
                  \/ stored[d] # NoRow /\ stored[d].parent = r /\ stored[d].amount = own'[t][d].amount
    <3>1. CASE d = c
      BY <1>4, <1>6, <1>7, <1>10, <3>1
    <3>2. CASE d # c
      <4>1. own'[t][d] = own[t][d]
        BY <1>10, <1>11, <3>2
      <4>. QED BY <1>4, <2>1, <2>4, <4>1 DEF Owns
    <3>. QED BY <3>1, <3>2
  <2>5. \A p \in Parents \ {r} : own[t][p] = Unwritten
    BY <1>4, <2>1 DEF Owns
  <2>. QED BY <1>4, <1>5, <1>12, <1>13, <2>2, <2>3, <2>4, <2>5 DEF Owns
<1>19. Generated(t)'
  <2>1. Generated(t)
    BY DEF Good
  <2>2. New(t)' = New(t) \cup {c} /\ c \notin New(t)
    BY <1>7, <1>10, <1>11, <1>12 DEF New, NewChild
  <2>3. /\ IsFiniteSet({d \in Children : own[t][d] # Unwritten})
        /\ {d \in Children : own'[t][d] # Unwritten} = {d \in Children : own[t][d] # Unwritten} \cup {c}
    BY <1>7, <1>10, <1>11, <2>1 DEF Generated
  <2>4. IsFiniteSet({d \in Children : own'[t][d] # Unwritten})
    BY <2>3, FS_AddElement
  <2>5. IsFiniteSet(New(t))
    BY <2>3, FS_Subset DEF New
  <2>6. Cardinality(New(t)) \in Nat /\ Cardinality(New(t) \cup {c}) = Cardinality(New(t)) + 1
    BY <2>2, <2>5, FS_AddElement, FS_CardinalityType
  <2>7. Takes(t)' = Takes(t)
    BY <1>12, <1>13 DEF Takes
  <2>8. /\ stored[r].taken => next.taken
        /\ Cardinality(New(t)) + req[t].due = IF Takes(t) THEN Len(Schedule) ELSE 0
    BY <1>2, <1>4, <1>5, <2>1 DEF Generated
  <2>9. Cardinality(New(t)') + req'[t].due = Cardinality(New(t)) + req[t].due
    BY <1>2, <1>13, <2>2, <2>6
  <2>. QED BY <1>4, <1>12, <1>13, <2>4, <2>7, <2>8, <2>9 DEF Generated
<1>. QED BY <1>12, <1>14, <1>15, <1>16, <1>17, <1>18, <1>19 DEF Good

\* Every step but a commit: the request that takes it, and the others.
LEMMA MovesStep ==
    ASSUME IInv, NEW t \in Requests, Moves(t)
    PROVE  IInv'
<1>. USE DEF IInv
<1>1. TypeOK' /\ Good(t)' /\ Unshared'
  <2>1. CASE BeginCreate(t) \/ BeginUpdate(t) \/ BeginMove(t) \/ BeginDelete(t) \/ BeginEdit(t)
             \/ BeginGenerate(t) \/ BeginRemove(t)
    BY <2>1, BeginsWith, BeginStep
  <2>2. CASE ReadPage(t)
    BY <2>2, ReadPageStep
  <2>3. CASE ComputeChild(t) \/ ComputeDelete(t) \/ ComputeParent(t) \/ CheckRemove(t)
    BY <2>3, ComputeChildStep, ComputeDeleteStep, ComputeParentStep, CheckRemoveStep
  <2>4. CASE ListChildren(t) \/ SumParent(t) \/ RefreshChild(t) \/ WriteBack(t) \/ Compare(t) \/ InsertGenerated(t)
    BY <2>4, ListChildrenStep, SumParentStep, RefreshChildStep, WriteBackStep, CompareStep, InsertGeneratedStep
  <2>5. CASE Wait(t)
    BY <2>5, TakeLockStep, LockNumbersStep, WriteStep, LockParentStep, LockChildStep DEF Wait
  <2>6. CASE Fail(t)
    <3>1. Refuse(t)
      BY <2>6 DEF Fail
    <3>2. Local(t)
      BY <3>1 DEF Refuse, Step, Rollback, Local
    <3>. QED BY <3>1, <3>2, RefuseStep, UnsharedKept DEF NoWrites, Rows
  <2>. QED BY <2>1, <2>2, <2>3, <2>4, <2>5, <2>6 DEF Moves
<1>2. Local(t)
  BY MovesLocal
<1>3. RowsExclusive'
  BY <1>2, ExclusiveKept
<1>4. UNCHANGED <<stored, origin>>
  BY <1>2 DEF Local
<1>5. Committed'
  BY <1>4 DEF Committed, SeenAgrees, NoOrphans, ScheduledOnce, Exists, Generates
<1>6. ASSUME NEW u \in Requests \ {t} PROVE Good(u)'
  BY <1>2, <1>4, Elsewhere, Bystander
<1>. QED BY <1>1, <1>3, <1>5, <1>6

-----------------------------------------------------------------------------
(* A commit.                                                               *)

\* What a request that finishes is, and what it leaves.
LEMMA Finishes ==
    ASSUME IInv, NEW t \in Requests, Finish(t)
    PROVE  /\ Active(t, "written") /\ Flying(t) /\ Computed(t) /\ Wrote(t) /\ req[t] \in Jobs
           /\ ~Active(t, "locking") /\ ~Active(t, "listing") /\ ~Active(t, "refreshing") /\ ~Active(t, "writing")
           /\ req[t].parents = {} /\ req[t].children = {} /\ req[t].due = 0
           /\ OnChild(t) \/ OnParent(t) \/ OnRemove(t) \/ OnReload(t)
           /\ req'[t] = Idle /\ own'[t] = NoWrites /\ rowLocks'[t] = {}
           /\ \A r \in Rows : stored'[r] = Read(t, r)
           /\ \A u \in Requests \ {t} :
                 /\ req'[u] = req[u] /\ own'[u] = own[u] /\ rowLocks'[u] = rowLocks[u]
                 /\ \A l \in Parents \cup {NumberLock} : advisory[l] = u => advisory'[l] = u
           /\ \A u \in Requests \ {t}, r \in Rows : own[t][r] # Unwritten => own[u][r] = Unwritten /\ r \notin rowLocks[u]
<1>. USE DEF IInv
<1>1. /\ Active(t, "written") /\ Flying(t) /\ Computed(t) /\ Wrote(t) /\ req[t] \in Jobs
      /\ ~Active(t, "locking") /\ ~Active(t, "listing") /\ ~Active(t, "refreshing") /\ ~Active(t, "writing")
      /\ req[t].parents = {} /\ req[t].children = {} /\ req[t].due = 0
  <2>1. /\ Active(t, "written") /\ Flying(t) /\ Computed(t) /\ Wrote(t)
        /\ ~Active(t, "locking") /\ ~Active(t, "listing") /\ ~Active(t, "refreshing") /\ ~Active(t, "writing")
        /\ req[t].parents = {} /\ req[t].children = {} /\ req[t].due = 0
    BY DEF Finish, Active, Flying, Computed, Wrote
  <2>. QED BY <2>1, FlyingType
<1>2. OnChild(t) \/ OnParent(t) \/ OnRemove(t) \/ OnReload(t)
  BY <1>1, Kinds
<1>3. /\ req'[t] = Idle /\ own'[t] = NoWrites /\ rowLocks'[t] = {}
      /\ \A r \in Rows : stored'[r] = Read(t, r)
  BY DEF Finish, Step, Commit, EndTx, TypeOK, Snapshot
<1>4. ASSUME NEW u \in Requests \ {t}
      PROVE  /\ req'[u] = req[u] /\ own'[u] = own[u] /\ rowLocks'[u] = rowLocks[u]
             /\ \A l \in Parents \cup {NumberLock} : advisory[l] = u => advisory'[l] = u
  BY DEF Finish, Step, Commit, EndTx, TypeOK
<1>5. ASSUME NEW u \in Requests \ {t}, NEW r \in Rows, own[t][r] # Unwritten
      PROVE  own[u][r] = Unwritten /\ r \notin rowLocks[u]
  BY <1>5 DEF RowsExclusive
<1>. QED BY <1>1, <1>2, <1>3, <1>4, <1>5

\* No parent comes back, only its removal takes one away, and only its edit changes what it says.
LEMMA ParentsKept ==
    ASSUME IInv, NEW t \in Requests, Finish(t), NEW p \in Parents
    PROVE  /\ stored'[p] \in ParentRows \cup {NoRow}
           /\ stored[p] = NoRow => stored'[p] = NoRow
           /\ stored[p] # NoRow /\ stored'[p] = NoRow => OnRemove(t) /\ req[t].row = p
           /\ stored'[p] # NoRow /\ ~(OnParent(t) /\ req[t].row = p) =>
                 stored'[p].note = stored[p].note /\ stored'[p].taken = stored[p].taken
           /\ OnParent(t) /\ req[t].row = p =>
                 /\ stored[p] # NoRow /\ stored'[p] # NoRow
                 /\ stored'[p].note = req[t].next.note /\ stored'[p].taken = req[t].next.taken
<1>. USE DEF IInv
<1>1. /\ Wrote(t) /\ (OnChild(t) \/ OnParent(t) \/ OnRemove(t) \/ OnReload(t))
      /\ stored'[p] = Read(t, p) /\ p \in Rows
  BY Finishes DEF Rows
<1>2. Owns(t) /\ Shape(t) /\ stored[p] \in ParentRows \cup {NoRow}
  BY DEF Good, TypeOK
<1>3. CASE own[t][p] = Unwritten
  <2>1. ~(OnParent(t) /\ req[t].row = p)
    BY <1>1, <1>2, <1>3, FiguresAssumption DEF Owns, Cells
  <2>. QED BY <1>1, <1>2, <1>3, <2>1 DEF Read
<1>4. CASE own[t][p] # Unwritten
  <2>1. stored'[p] = own[t][p]
    BY <1>1, <1>4 DEF Read
  <2>2. CASE OnChild(t) \/ OnReload(t)
    <3>1. ~OnParent(t)
      BY <2>2 DEF OnChild, OnReload, OnParent
    <3>. QED BY <1>2, <1>4, <2>1, <2>2, <3>1, FiguresAssumption DEF Owns
  <2>3. CASE OnParent(t)
    <3>1. req[t].row = p
      BY <1>2, <1>4, <2>3 DEF Owns
    <3>. QED BY <1>1, <1>2, <2>1, <2>3, <3>1, FiguresAssumption DEF Owns
  <2>4. CASE OnRemove(t)
    <3>1. req[t].row = p /\ own[t][p] = req[t].next /\ req[t].next = NoRow /\ ~OnParent(t)
      BY <1>1, <1>2, <1>4, <2>4 DEF Owns, Shape, OnRemove, OnParent
    <3>. QED BY <2>1, <2>4, <3>1
  <2>. QED BY <1>1, <2>2, <2>3, <2>4
<1>. QED BY <1>3, <1>4

\* A child that is written is the request's own, or one the edit of its parent follows or generates.
LEMMA ChildrenWritten ==
    ASSUME IInv, NEW t \in Requests, Finish(t), NEW c \in Children
    PROVE  /\ own[t][c] = Unwritten => stored'[c] = stored[c]
           /\ own[t][c] # Unwritten =>
                 /\ stored'[c] = own[t][c] /\ ~OnReload(t) /\ ~OnRemove(t)
                 /\ \/ /\ OnChild(t) /\ ~OnParent(t) /\ c = req[t].row /\ stored'[c] = req[t].next
                       /\ origin[c] = Unborn <=> req[t].op = "create"
                       /\ req[t].op \in {"update", "move"} => stored[c] # NoRow
                    \/ /\ OnParent(t) /\ ~OnChild(t) /\ stored'[c] \in ChildRows /\ c # req[t].row
                       /\ stored'[c].parent = req[t].row /\ stored'[c].seen = req[t].next.note
                       /\ \/ NewChild(c) /\ Generates
                          \/ /\ stored[c] # NoRow
                             /\ stored[c].parent = req[t].row /\ stored[c].amount = stored'[c].amount
<1>. USE DEF IInv
<1>1. /\ Wrote(t) /\ Flying(t) /\ (OnChild(t) \/ OnParent(t) \/ OnRemove(t) \/ OnReload(t))
      /\ stored'[c] = Read(t, c) /\ c \in Rows /\ c \notin Parents
  <2>1. c \in Rows /\ c \notin Parents
    BY FiguresAssumption DEF Rows
  <2>. QED BY <2>1, Finishes
<1>2. Owns(t) /\ Shape(t) /\ Known(t)
  BY DEF Good
<1>3. CASE own[t][c] = Unwritten
  BY <1>1, <1>3 DEF Read
<1>4. CASE own[t][c] # Unwritten
  <2>1. stored'[c] = own[t][c]
    BY <1>1, <1>4 DEF Read
  <2>2. ~OnReload(t) /\ ~OnRemove(t)
    <3>1. OnReload(t) => c \in Rows \ ({req[t].row} \cap Parents)
      BY <1>1
    <3>2. OnRemove(t) => c \in Rows \ {req[t].row}
      BY <1>1, <1>2 DEF Shape
    <3>. QED BY <1>2, <1>4, <3>1, <3>2 DEF Owns
  <2>3. CASE OnChild(t)
    <3>1. c = req[t].row /\ own[t][c] = req[t].next /\ ~OnParent(t)
      BY <1>1, <1>2, <1>4, <2>3 DEF Owns, OnChild, OnParent
    <3>2. origin[c] = Unborn <=> req[t].op = "create"
      BY <1>1, <1>2, <3>1 DEF Known
    <3>3. req[t].op \in {"update", "move"} => stored[c] # NoRow
      BY <1>1, <1>2, <2>3, <3>1 DEF Owns
    <3>. QED BY <1>4, <2>1, <2>2, <2>3, <3>1, <3>2, <3>3
  <2>4. CASE OnParent(t)
    <3>1. c # req[t].row /\ ~OnChild(t)
      BY <1>1, <1>2, <2>4 DEF Shape, OnChild, OnParent
    <3>. QED BY <1>2, <1>4, <2>1, <2>2, <2>4, <3>1 DEF Owns
  <2>. QED BY <1>1, <2>2, <2>3, <2>4
<1>. QED BY <1>3, <1>4

\* The children that are born, and whose.
LEMMA Births ==
    ASSUME IInv, NEW t \in Requests, Finish(t), NEW c \in Children
    PROVE  /\ own[t][c] = Unwritten => origin'[c] = origin[c]
           /\ origin[c] # Unborn => origin'[c] = origin[c]
           /\ origin[c] = Unborn /\ own[t][c] # Unwritten =>
                 \/ OnChild(t) /\ origin'[c] = ByHand
                 \/ OnParent(t) /\ origin'[c] = req[t].row /\ req[t].row \in Parents
           /\ origin'[c] = Unborn => origin[c] = Unborn /\ own[t][c] = Unwritten
           /\ origin'[c] \in Parents \cup {ByHand, Unborn}
           /\ stored[c] = NoRow /\ origin[c] # Unborn => stored'[c] = NoRow
<1>. USE DEF IInv
<1>1. origin'[c] = IF origin[c] # Unborn \/ own[t][c] = Unwritten THEN origin[c]
                   ELSE IF c = req[t].row THEN ByHand ELSE req[t].row
  BY DEF Finish
<1>2. origin[c] \in Parents \cup {ByHand, Unborn} /\ (OnParent(t) => req[t].row \in Parents)
  BY DEF TypeOK, Good, Shape
<1>3. CASE origin[c] # Unborn \/ own[t][c] = Unwritten
  <2>1. stored[c] = NoRow /\ origin[c] # Unborn => stored'[c] = NoRow
    <3>1. OnChild(t) => (req[t].next = NoRow <=> req[t].op = "delete")
      BY DEF Good, Shape
    <3>2. OnChild(t) => req[t].op \in {"create", "update", "move", "delete"}
      BY DEF OnChild
    <3>. QED BY <3>1, <3>2, ChildrenWritten DEF NewChild
  <2>. QED BY <1>1, <1>2, <1>3, <2>1
<1>4. CASE origin[c] = Unborn /\ own[t][c] # Unwritten
  BY <1>1, <1>2, <1>4, ChildrenWritten, FiguresAssumption
<1>. QED BY <1>3, <1>4

\* Two requests do not both write a parent: the second waits for the lock of a parent that
\* generates, and edits of another are apart.
LEMMA Alone ==
    ASSUME IInv, Apart, NEW t \in Requests, NEW u \in Requests \ {t}, OnParent(t), OnParent(u),
           ~Active(t, "locking"), ~Active(u, "locking")
    PROVE  req[t].row # req[u].row
<1>. USE DEF IInv
<1>1. CASE Generates
  BY <1>1 DEF Good, Holds
<1>2. CASE ~Generates
  <2>1. req[t].op \in Operations /\ req[u].op \in Operations /\ Flying(t) /\ Flying(u)
    BY FlyingType DEF OnParent, Jobs
  <2>2. req[t].op = "edit" /\ req[u].op = "edit"
    BY <1>2, <2>1 DEF OnParent, Generates
  <2>3. ~Collide(t, u)
    BY <2>1 DEF Apart, Flying
  <2>. QED BY <1>2, <2>2, <2>3 DEF Collide
<1>. QED BY <1>1, <1>2

\* Whoever brings a child under a parent, or writes one there, agrees with an edit of the parent
\* on what the children copy.
LEMMA SameNote ==
    ASSUME IInv, Apart, NEW t \in Requests, NEW u \in Requests \ {t}, OnParent(t), OnChild(u),
           stored[req[t].row] # NoRow
    PROVE  stored[req[t].row].note = req[t].next.note
<1>1. ~Collide(t, u)
  BY DEF Apart, OnParent, OnChild, Flying
<1>. QED BY <1>1 DEF Collide, EditsParent, OnParent, OnChild, Exists

LEMMA CommitGood ==
    ASSUME IInv, Apart, NEW t \in Requests, Finish(t), NEW u \in Requests \ {t}
    PROVE  Good(u)'
<1>. USE DEF IInv
<1>1. /\ req'[u] = req[u] /\ own'[u] = own[u] /\ rowLocks'[u] = rowLocks[u]
      /\ \A l \in Parents \cup {NumberLock} : advisory[l] = u => advisory'[l] = u
      /\ \A r \in Rows : own[t][r] # Unwritten => own[u][r] = Unwritten /\ r \notin rowLocks[u]
      /\ \A r \in Rows : stored'[r] = Read(t, r)
      /\ Flying(t) /\ Computed(t) /\ Wrote(t) /\ Active(t, "written") /\ ~Active(t, "locking")
      /\ OnChild(t) \/ OnParent(t) \/ OnRemove(t) \/ OnReload(t)
  BY Finishes
<1>2. /\ \A pc : Active(u, pc)' = Active(u, pc)
      /\ Flying(u)' = Flying(u) /\ Computed(u)' = Computed(u) /\ Wrote(u)' = Wrote(u)
      /\ OnChild(u)' = OnChild(u) /\ OnParent(u)' = OnParent(u)
      /\ OnRemove(u)' = OnRemove(u) /\ OnReload(u)' = OnReload(u)
  BY <1>1 DEF Active, Flying, Computed, Wrote, OnChild, OnParent, OnRemove, OnReload
<1>3. Parents \subseteq Rows /\ Children \subseteq Rows /\ Parents \cap Children = {}
  BY FiguresAssumption DEF Rows
<1>4. \A r \in Rows : own[u][r] # Unwritten \/ r \in rowLocks[u] => stored'[r] = stored[r]
  BY <1>1 DEF Read
<1>5. \A c \in Children : own[u][c] # Unwritten => origin'[c] = origin[c] /\ (NewChild(c)' <=> NewChild(c))
  BY <1>1, <1>3, <1>4, Births DEF NewChild
<1>6. \A r \in Rows : own[u][r] # Unwritten \/ r \in rowLocks[u] => Read(u, r)' = Read(u, r)
  BY <1>1, <1>4 DEF Read
<1>7. Shape(u)'
  BY <1>1, <1>2 DEF Good, Shape
<1>8. Holds(u)'
  BY <1>1, <1>2 DEF Good, Holds, Shape
<1>9. Known(u)'
  <2>1. Known(u)
    BY DEF Good
  <2>2. Flying(u) /\ req[u].op = "create" => own[t][req[u].row] = Unwritten
    BY DEF Unshared
  <2>3. Flying(u) /\ req[u].row \in Children => (origin'[req[u].row] = Unborn <=> req[u].op = "create")
    BY <2>1, <2>2, Births DEF Known
  <2>4. Flying(u) => req[u].children \subseteq Children
    BY FlyingType DEF Jobs
  <2>5. Flying(u) => \A c \in req[u].children : origin'[c] # Unborn
    BY <2>1, <2>4, Births DEF Known
  <2>. QED BY <1>1, <1>2, <2>3, <2>5 DEF Known
<1>10. Owns(u)'
  <2>1. Owns(u) /\ Shape(u)
    BY DEF Good
  <2>2. OnParent(u) /\ Wrote(u) => stored'[req[u].row] = stored[req[u].row]
    BY <1>3, <1>4, <2>1, FiguresAssumption DEF Owns, Shape, Cells
  <2>3. OnChild(u) /\ req[u].op \in {"update", "move"} /\ Wrote(u) => stored'[req[u].row] # NoRow
    <3>1. ASSUME OnChild(u), req[u].op \in {"update", "move"}, Wrote(u)
          PROVE  own[u][req[u].row] # Unwritten /\ req[u].row \in Rows /\ stored[req[u].row] # NoRow
      <4>1. req[u].next \in ChildRows \cup {NoRow} /\ own[u][req[u].row] = req[u].next /\ req[u].row \in Rows
        BY <1>3, <2>1, <3>1 DEF Owns, Shape
      <4>2. stored[req[u].row] # NoRow
        BY <2>1, <3>1 DEF Owns
      <4>. QED BY <4>1, <4>2, FiguresAssumption DEF Cells
    <3>. QED BY <1>4, <3>1
  <2>4. \A r \in Rows : own[u][r] # Unwritten => stored'[r] = stored[r]
    BY <1>4
  <2>5. /\ ~Wrote(u) => own[u] = NoWrites
        /\ OnReload(u) => \A r \in Rows \ ({req[u].row} \cap Parents) : own[u][r] = Unwritten
        /\ OnRemove(u) => \A r \in Rows \ {req[u].row} : own[u][r] = Unwritten
        /\ OnChild(u) => \A c \in Children \ {req[u].row} : own[u][c] = Unwritten
        /\ (OnChild(u) \/ OnRemove(u)) /\ Wrote(u) => own[u][req[u].row] = req[u].next
    BY <2>1 DEF Owns
  <2>6. OnParent(u) =>
          /\ \A p \in Parents \ {req[u].row} : own[u][p] = Unwritten
          /\ \A c \in Children : own[u][c] # Unwritten =>
                /\ own[u][c] \in ChildRows
                /\ own[u][c].parent = req[u].row /\ own[u][c].seen = req[u].next.note
                /\ \/ NewChild(c)' /\ Generates
                   \/ /\ stored'[c] # NoRow
                      /\ stored'[c].parent = req[u].row /\ stored'[c].amount = own[u][c].amount
          /\ Active(u, "listing") => \A c \in Children : own[u][c] = Unwritten
    BY <1>3, <1>5, <2>1, <2>4 DEF Owns
  <2>7. OnParent(u) /\ Wrote(u) =>
          /\ stored'[req[u].row] # NoRow /\ own[u][req[u].row] \in ParentRows
          /\ own[u][req[u].row].note = req[u].next.note /\ own[u][req[u].row].taken = req[u].next.taken
    BY <2>1, <2>2 DEF Owns
  <2>8. OnChild(u) \/ OnReload(u) => \A p \in Parents : own[u][p] # Unwritten =>
          /\ stored'[p] # NoRow /\ own[u][p] \in ParentRows
          /\ own[u][p].note = stored'[p].note /\ own[u][p].taken = stored'[p].taken
    BY <1>3, <2>1, <2>4 DEF Owns
  <2>. QED BY <1>1, <1>2, <2>3, <2>5, <2>6, <2>7, <2>8 DEF Owns
<1>11. Recomputes(u)'
  <2>1. Recomputes(u) /\ Shape(u)
    BY DEF Good
  <2>2. Active(u, "summing") => req[u].at \in rowLocks[u] \/ stored'[req[u].at] = NoRow
    BY <2>1, ParentsKept DEF Recomputes, Shape
  <2>3. Active(u, "refreshing") =>
          \/ req[u].at \in rowLocks[u]
          \/ stored'[req[u].at] = NoRow /\ origin'[req[u].at] # Unborn /\ own[u][req[u].at] = Unwritten
    BY <2>1, Births DEF Recomputes, Shape
  <2>4. Active(u, "writing") => Read(u, req[u].at)' = Read(u, req[u].at)
    <3>1. Active(u, "writing") => req[u].at \in rowLocks[u] /\ req[u].at \in Rows
      BY <2>1 DEF Recomputes, TypeOK
    <3>. QED BY <1>1, <1>6, <3>1 DEF Read
  <2>. QED BY <1>1, <1>2, <2>1, <2>2, <2>3, <2>4 DEF Recomputes
\* A child that appears under the parent u writes or removes is the one t was about.
<1>12. ASSUME NEW c \in Children, own[t][c] # Unwritten, OnParent(u) \/ OnRemove(u), Computed(u),
              stored'[c] # NoRow, stored'[c].parent = req[u].row
       PROVE  OnChild(t) /\ c = req[t].row /\ stored'[c] = req[t].next /\ req[t].op \in {"create", "update", "move"}
  <2>1. ~Active(u, "locking")
    BY <1>12 DEF Active, Computed
  <2>2. CASE OnChild(t)
    <3>1. c = req[t].row /\ stored'[c] = req[t].next
      BY <1>12, <2>2, ChildrenWritten
    <3>2. req[t].op \in {"create", "update", "move", "delete"} /\ (req[t].next = NoRow <=> req[t].op = "delete")
      BY <2>2 DEF OnChild, Good, Shape
    <3>. QED BY <1>12, <2>2, <3>1, <3>2
  <2>3. CASE OnParent(t)
    <3>1. /\ req[t].row = req[u].row
          /\ \/ NewChild(c) /\ Generates
             \/ stored[c] # NoRow /\ stored[c].parent = req[t].row
      BY <1>12, <2>3, ChildrenWritten DEF OnChild, OnParent
    <3>2. OnRemove(u)
      BY <1>1, <1>12, <2>1, <2>3, <3>1, Alone
    <3>3. CASE NewChild(c) /\ Generates
      BY <1>1, <2>1, <2>3, <3>1, <3>2, <3>3 DEF Good, Holds
    <3>4. CASE stored[c] # NoRow /\ stored[c].parent = req[t].row
      BY <1>12, <3>1, <3>2, <3>4 DEF Good, Places, ChildrenOf
    <3>. QED BY <3>1, <3>3, <3>4
  <2>. QED BY <1>1, <1>12, <2>2, <2>3, ChildrenWritten
<1>13. Places(u)'
  <2>1. Places(u) /\ Places(t) /\ Shape(u)
    BY DEF Good
  <2>2. ASSUME OnChild(u), req[u].op \in {"create", "move"} PROVE stored'[req[u].next.parent] # NoRow
    <3>1. req[u].next.parent \in Parents
      BY <2>1, <2>2, FiguresAssumption DEF Shape, ChildRows
    <3>2. stored[req[u].next.parent] # NoRow
      BY <2>1, <2>2 DEF Places
    <3>3. ~(OnRemove(t) /\ req[t].row = req[u].next.parent)
      BY <1>1, <2>2 DEF Apart, Collide, OnRemove, OnChild, Flying
    <3>. QED BY <3>1, <3>2, <3>3, ParentsKept
  <2>3. ASSUME OnChild(u), req[u].op = "update", stored'[req[u].row] # NoRow
        PROVE  stored'[req[u].row].parent = req[u].next.parent
    <3>. PICK c \in Children : c = req[u].row
      BY <2>1, <2>3 DEF Shape
    <3>1. stored[c] # NoRow /\ stored[c].parent = req[u].next.parent
      <4>1. origin[c] # Unborn
        BY <2>3 DEF Good, Known, OnChild
      <4>2. stored[c] # NoRow
        BY <2>3, <4>1, Births
      <4>. QED BY <2>1, <2>3, <4>2 DEF Places
    <3>2. CASE own[t][c] = Unwritten
      BY <3>1, <3>2, ChildrenWritten
    <3>3. CASE own[t][c] # Unwritten /\ OnParent(t)
      BY <3>1, <3>3, ChildrenWritten DEF NewChild, OnChild, OnParent
    <3>4. CASE own[t][c] # Unwritten /\ OnChild(t)
      <4>1. c = req[t].row /\ stored'[c] = req[t].next
        BY <3>4, ChildrenWritten DEF OnChild, OnParent
      <4>2. req[t].op # "move"
        BY <1>1, <2>3, <4>1 DEF Apart, Collide, OnChild, Flying
      <4>3. req[t].op # "create" /\ req[t].op # "delete"
        <5>1. req[t].op # "create"
          <6>1. Unshared /\ Flying(t) /\ Flying(u) /\ t # u /\ req[u].row = req[t].row
            BY <1>1, <2>3, <4>1 DEF OnChild
          <6>. QED BY <6>1 DEF Unshared
        <5>2. req[t].next = NoRow <=> req[t].op = "delete"
          BY <3>4 DEF Good, Shape
        <5>. QED BY <2>3, <4>1, <5>1, <5>2
      <4>4. req[t].op = "update"
        BY <3>4, <4>2, <4>3 DEF OnChild
      <4>. QED BY <2>1, <3>1, <3>4, <4>1, <4>4 DEF Places
    <3>. QED BY <3>2, <3>3, <3>4, ChildrenWritten
  <2>4. ASSUME OnRemove(u), Computed(u) PROVE ChildrenOf(stored', req[u].row) = {}
    <3>1. ChildrenOf(stored, req[u].row) = {}
      BY <2>1, <2>4 DEF Places
    <3>2. ASSUME NEW c \in Children, stored'[c] # NoRow, stored'[c].parent = req[u].row PROVE FALSE
      <4>1. own[t][c] # Unwritten
        BY <3>1, <3>2, ChildrenWritten DEF ChildrenOf
      <4>2. OnChild(t) /\ c = req[t].row /\ stored'[c] = req[t].next /\ req[t].op \in {"create", "update", "move"}
        BY <1>12, <2>4, <3>2, <4>1
      <4>3. ~(req[t].op \in {"create", "move"})
        BY <1>1, <2>4, <3>2, <4>2 DEF Apart, Collide, OnRemove, Flying
      <4>4. stored[c] # NoRow /\ stored[c].parent = req[t].next.parent
        <5>1. stored[c] # NoRow
          BY <4>1, <4>2, <4>3, ChildrenWritten DEF OnChild, OnParent
        <5>. QED BY <2>1, <4>2, <4>3, <5>1 DEF Places
      <4>. QED BY <3>1, <3>2, <4>2, <4>4 DEF ChildrenOf
    <3>. QED BY <3>2 DEF ChildrenOf
  <2>5. ChildrenOf(stored, req[u].row)' = ChildrenOf(stored', req[u].row)
    BY <1>1 DEF ChildrenOf
  <2>. QED BY <1>1, <1>2, <2>2, <2>3, <2>4, <2>5 DEF Places
<1>14. Generated(u)'
  <2>1. Generated(u) /\ Shape(u)
    BY DEF Good
  <2>2. New(u)' = New(u)
    BY <1>1, <1>5 DEF New
  <2>3. ASSUME OnParent(u), Computed(u), stored'[req[u].row] # NoRow
        PROVE  stored[req[u].row] # NoRow /\ stored'[req[u].row].taken = stored[req[u].row].taken
    <3>1. req[u].row \in Parents /\ ~Active(u, "locking")
      BY <2>1, <2>3 DEF Shape, Active, Computed
    <3>2. ~(OnParent(t) /\ req[t].row = req[u].row)
      BY <1>1, <2>3, <3>1, Alone
    <3>. QED BY <2>3, <3>1, <3>2, ParentsKept
  <2>4. OnParent(u) /\ Computed(u) /\ stored'[req[u].row] # NoRow => Takes(u)' = Takes(u)
    BY <1>1, <2>3 DEF Takes
  <2>5. OnParent(u) /\ Computed(u) /\ stored'[req[u].row] # NoRow =>
          /\ stored'[req[u].row].taken => req[u].next.taken
          /\ Cardinality(New(u)) + req[u].due = IF Takes(u) THEN Len(Schedule) ELSE 0
    BY <2>1, <2>3 DEF Generated
  <2>6. /\ OnParent(u) /\ ~Generates => ~req[u].next.taken /\ req[u].due = 0
        /\ IsFiniteSet({c \in Children : own[u][c] # Unwritten})
    BY <2>1 DEF Generated
  <2>. QED BY <1>1, <1>2, <2>2, <2>4, <2>5, <2>6 DEF Generated
<1>15. Follows(u)'
  <2>1. Follows(u) /\ Follows(t) /\ Shape(u)
    BY DEF Good
  <2>2. ASSUME OnChild(u), req[u].op # "delete", Computed(u), stored'[req[u].next.parent] # NoRow
        PROVE  req[u].next.seen = stored'[req[u].next.parent].note
    <3>. PICK p \in Parents : p = req[u].next.parent
      BY <2>1, <2>2, FiguresAssumption DEF Shape, ChildRows
    <3>1. stored[p] # NoRow /\ req[u].next.seen = stored[p].note
      BY <2>1, <2>2, ParentsKept DEF Follows
    <3>2. OnParent(t) /\ req[t].row = p => stored[p].note = req[t].next.note
      BY <2>2, <3>1, SameNote
    <3>. QED BY <2>2, <3>1, <3>2, ParentsKept
  <2>3. ASSUME OnParent(u), Active(u, "ready"), ~req[u].follow, stored'[req[u].row] # NoRow
        PROVE  stored'[req[u].row].note = req[u].next.note
    <3>1. req[u].row \in Parents /\ ~Active(u, "locking")
      BY <2>1, <2>3 DEF Shape, Active
    <3>2. ~(OnParent(t) /\ req[t].row = req[u].row)
      BY <1>1, <2>3, <3>1, Alone
    <3>. QED BY <2>1, <2>3, <3>1, <3>2, ParentsKept DEF Follows
  <2>4. ASSUME OnParent(u), Wrote(u), ~Active(u, "listing"), NEW c \in Children,
               Read(u, c)' # NoRow, Read(u, c)'.parent = req[u].row
        PROVE  \/ Read(u, c)'.seen = req[u].next.note
               \/ c \in req[u].children
               \/ req[u].pc \in {"refreshing", "writing"} /\ req[u].at = c
    <3>1. CASE Read(u, c)' = Read(u, c)
      BY <2>1, <2>4, <3>1 DEF Follows
    <3>2. CASE Read(u, c)' # Read(u, c)
      <4>1. own[u][c] = Unwritten /\ stored'[c] = Read(u, c)' /\ own[t][c] # Unwritten
        BY <1>1, <1>3, <3>2, ChildrenWritten DEF Read
      <4>2. OnChild(t) /\ stored'[c] = req[t].next /\ req[t].op \in {"create", "update", "move"}
        BY <1>12, <2>4, <4>1 DEF Wrote
      <4>3. stored[req[u].row] # NoRow
        BY <2>4 DEF Good, Owns
      <4>4. stored[req[u].row].note = req[u].next.note
        BY <2>4, <4>2, <4>3, SameNote
      <4>5. req[t].next.seen = stored[req[u].row].note
        BY <1>1, <2>1, <2>4, <4>1, <4>2, <4>3 DEF Follows
      <4>. QED BY <4>1, <4>2, <4>4, <4>5
    <3>. QED BY <3>1, <3>2
  <2>. QED BY <1>1, <1>2, <2>2, <2>3, <2>4 DEF Follows
<1>. QED BY <1>7, <1>8, <1>9, <1>10, <1>11, <1>13, <1>14, <1>15 DEF Good

\* What a committed child points at is there, and holds what the child copied.
LEMMA CommitCopies ==
    ASSUME IInv, Apart, NEW t \in Requests, Finish(t), NEW c \in Children, stored'[c] # NoRow
    PROVE  /\ stored'[c].parent \in Parents /\ stored'[stored'[c].parent] # NoRow
           /\ stored'[c].seen = stored'[stored'[c].parent].note
<1>. USE DEF IInv
<1>1. /\ Flying(t) /\ Computed(t) /\ Wrote(t) /\ Active(t, "written") /\ req[t].children = {}
      /\ ~Active(t, "listing") /\ ~Active(t, "refreshing") /\ ~Active(t, "writing")
      /\ OnChild(t) \/ OnParent(t) \/ OnRemove(t) \/ OnReload(t)
      /\ \A r \in Rows : stored'[r] = Read(t, r)
  BY Finishes
<1>2. Follows(t) /\ Places(t) /\ Shape(t)
  BY DEF Good
<1>3. req[t].pc \notin {"refreshing", "writing"}
  BY <1>1 DEF Active
\* A parent whose note changes has had its children follow.
<1>4. ASSUME OnParent(t), stored'[c].parent = req[t].row PROVE stored'[c].seen = req[t].next.note
  BY <1>1, <1>2, <1>3, <1>4 DEF Follows, Rows
<1>5. CASE own[t][c] = Unwritten
  <2>. PICK p : p = stored[c].parent
    OBVIOUS
  <2>1. stored'[c] = stored[c] /\ stored[c] # NoRow
    BY <1>5, ChildrenWritten
  <2>2. p \in Parents
    BY <2>1 DEF TypeOK, ChildRows
  <2>3. stored[p] # NoRow /\ stored[c].seen = stored[p].note
    BY <2>1 DEF Committed, NoOrphans, SeenAgrees, Exists, NoteOf
  <2>4. ~(OnRemove(t) /\ req[t].row = p)
    BY <1>1, <1>2, <2>1 DEF Places, ChildrenOf
  <2>5. OnParent(t) /\ req[t].row = p => stored'[c].seen = stored'[p].note
    BY <1>4, <2>1, <2>2, ParentsKept
  <2>. QED BY <2>1, <2>2, <2>3, <2>4, <2>5, ParentsKept
<1>6. CASE own[t][c] # Unwritten /\ OnChild(t)
  <2>. PICK p : p = req[t].next.parent
    OBVIOUS
  <2>1. /\ ~OnParent(t) /\ ~OnRemove(t) /\ c = req[t].row /\ stored'[c] = req[t].next
        /\ req[t].op \in {"update", "move"} => stored[c] # NoRow
    BY <1>6, ChildrenWritten DEF OnChild, OnParent, OnRemove
  <2>2. req[t].op \in {"create", "update", "move"} /\ req[t].next \in ChildRows
    BY <1>2, <1>6, <2>1 DEF Shape, OnChild
  <2>3. p \in Parents
    BY <2>2 DEF ChildRows
  <2>4. stored[p] # NoRow
    <3>1. CASE req[t].op \in {"create", "move"}
      BY <1>2, <1>6, <3>1 DEF Places
    <3>2. CASE req[t].op = "update"
      BY <1>2, <1>6, <2>1, <3>2 DEF Places, Committed, NoOrphans, Exists
    <3>. QED BY <2>2, <3>1, <3>2
  <2>5. req[t].next.seen = stored[p].note
    BY <1>1, <1>2, <1>6, <2>2, <2>4 DEF Follows
  <2>. QED BY <2>1, <2>3, <2>4, <2>5, ParentsKept
<1>7. CASE own[t][c] # Unwritten /\ OnParent(t)
  <2>1. stored'[c].parent = req[t].row /\ req[t].row \in Parents
    BY <1>2, <1>7, ChildrenWritten DEF OnChild, OnParent, Shape
  <2>. QED BY <1>4, <1>7, <2>1, ParentsKept
<1>. QED BY <1>1, <1>5, <1>6, <1>7, ChildrenWritten

LEMMA CommitSchedules ==
    ASSUME IInv, NEW t \in Requests, Finish(t)
    PROVE  ScheduledOnce' /\ IsFiniteSet({c \in Children : origin'[c] # Unborn})
<1>. USE DEF IInv
<1>1. Flying(t) /\ Computed(t) /\ req[t].due = 0
  BY Finishes
<1>. DEFINE mine == {c \in Children : own[t][c] # Unwritten}
            born == {c \in Children : origin[c] # Unborn}
<1>2. IsFiniteSet(mine) /\ IsFiniteSet(born)
  BY DEF Good, Generated, Committed
<1>3. IsFiniteSet({c \in Children : origin'[c] # Unborn})
  <2>1. {c \in Children : origin'[c] # Unborn} \subseteq born \cup mine
    BY Births
  <2>. QED BY <1>2, <2>1, FS_Union, FS_Subset
<1>4. ASSUME NEW p \in Parents, stored'[p] # NoRow
      PROVE  Cardinality({c \in Children : origin'[c] = p}) = IF stored'[p].taken THEN Len(Schedule) ELSE 0
  <2>. DEFINE before == {c \in Children : origin[c] = p}
  <2>1. stored[p] # NoRow /\ Cardinality(before) = IF stored[p].taken THEN Len(Schedule) ELSE 0
    BY <1>4, ParentsKept DEF Committed, ScheduledOnce, Exists
  <2>2. p # Unborn /\ p # ByHand /\ Len(Schedule) \in Nat
    BY FiguresAssumption
  <2>3. CASE OnParent(t) /\ req[t].row = p
    <3>1. ~OnChild(t)
      BY <2>3 DEF OnChild, OnParent
    <3>2. {c \in Children : origin'[c] = p} = before \cup New(t)
      <4>1. ASSUME NEW c \in Children PROVE origin'[c] = p <=> c \in before \/ c \in New(t)
        <5>1. CASE origin[c] # Unborn \/ own[t][c] = Unwritten
          BY <2>2, <5>1, Births DEF New
        <5>2. CASE origin[c] = Unborn /\ own[t][c] # Unwritten
          BY <2>3, <3>1, <5>2, Births DEF New
        <5>. QED BY <5>1, <5>2
      <4>2. New(t) \subseteq Children
        BY DEF New
      <4>. QED BY <4>1, <4>2
    <3>3. before \cap New(t) = {} /\ IsFiniteSet(before) /\ IsFiniteSet(New(t))
      <4>1. before \subseteq born /\ New(t) \subseteq mine /\ before \cap New(t) = {}
        BY <2>2 DEF New
      <4>. QED BY <1>2, <4>1, FS_Subset
    <3>4. Cardinality(before \cup New(t)) = Cardinality(before) + Cardinality(New(t))
      <4>1. Cardinality(before \cap New(t)) = 0 /\ Cardinality(before) \in Nat /\ Cardinality(New(t)) \in Nat
        BY <3>3, FS_EmptySet, FS_CardinalityType
      <4>2. Cardinality(before \cup New(t)) = Cardinality(before) + Cardinality(New(t)) - Cardinality(before \cap New(t))
        BY <3>3, FS_Union
      <4>. HIDE DEF before
      <4>. QED BY <4>1, <4>2
    <3>5. /\ stored[p].taken => req[t].next.taken
          /\ Cardinality(New(t)) + req[t].due = IF Takes(t) THEN Len(Schedule) ELSE 0
      BY <1>1, <2>1, <2>3 DEF Good, Generated
    <3>6. Cardinality(New(t)) \in Nat
      BY <3>3, FS_CardinalityType
    <3>7. /\ Takes(t) => Cardinality(New(t)) = Len(Schedule)
          /\ ~Takes(t) => Cardinality(New(t)) = 0
      BY <1>1, <3>5, <3>6
    <3>8. stored'[p].taken <=> req[t].next.taken
      <4>1. stored'[p].taken = req[t].next.taken
        BY <2>3, ParentsKept
      <4>. QED BY <4>1, Zenon
    <3>9. Takes(t) <=> ~stored[p].taken /\ req[t].next.taken
      BY <2>3 DEF Takes
    <3>. PICK n : n = Cardinality({c \in Children : origin'[c] = p})
      OBVIOUS
    <3>. HIDE DEF before
    <3>10. n = Cardinality(before) + Cardinality(New(t))
      BY <3>2, <3>4
    <3>11. CASE stored[p].taken
      <4>1. req[t].next.taken /\ ~Takes(t) /\ Cardinality(before) = Len(Schedule) /\ Cardinality(New(t)) = 0
        BY <2>1, <3>5, <3>7, <3>9, <3>11
      <4>. QED BY <2>2, <3>8, <3>10, <4>1
    <3>12. CASE ~stored[p].taken /\ req[t].next.taken
      <4>1. Cardinality(before) = 0 /\ Cardinality(New(t)) = Len(Schedule)
        BY <2>1, <3>7, <3>9, <3>12
      <4>. QED BY <2>2, <3>8, <3>12, <3>10, <4>1
    <3>13. CASE ~stored[p].taken /\ ~req[t].next.taken
      <4>1. Cardinality(before) = 0 /\ Cardinality(New(t)) = 0
        BY <2>1, <3>7, <3>9, <3>13
      <4>. QED BY <3>8, <3>13, <3>10, <4>1
    <3>. QED BY <3>11, <3>12, <3>13
  <2>4. CASE ~(OnParent(t) /\ req[t].row = p)
    <3>1. \A c \in Children : origin'[c] = p <=> origin[c] = p
      BY <2>2, <2>4, Births
    <3>2. {c \in Children : origin'[c] = p} = before
      BY <3>1
    <3>. QED BY <1>4, <2>1, <2>4, <3>2, ParentsKept
  <2>. QED BY <2>3, <2>4
<1>. QED BY <1>3, <1>4 DEF ScheduledOnce, Exists

LEMMA FinishStep ==
    ASSUME IInv, Apart, NEW t \in Requests, Finish(t)
    PROVE  IInv'
<1>. USE DEF IInv
<1>1. /\ req'[t] = Idle /\ own'[t] = NoWrites /\ rowLocks'[t] = {}
      /\ \A u \in Requests \ {t} : req'[u] = req[u] /\ own'[u] = own[u] /\ rowLocks'[u] = rowLocks[u]
  BY Finishes
<1>2. TypeOK'
  <2>1. stored' \in [Rows -> Cells] /\ \A r \in Rows : stored'[r] = Read(t, r)
    <3>1. stored' = Snapshot(t) /\ \A r \in Rows : stored'[r] = Read(t, r)
      BY Finishes DEF Finish, Commit
    <3>2. \A r \in Rows : Read(t, r) \in Cells
      BY FiguresAssumption DEF TypeOK, Read
    <3>. QED BY <3>1, <3>2 DEF Snapshot
  <2>2. /\ \A p \in Parents : stored'[p] \in ParentRows \cup {NoRow}
        /\ \A c \in Children : stored'[c] \in ChildRows \cup {NoRow}
    BY <2>1, ReadType DEF Rows
  <2>3. own' \in [Requests -> [Rows -> Cells \cup {Unwritten}]] /\ rowLocks' \in [Requests -> SUBSET Rows]
    BY DEF Finish, Commit, EndTx, TypeOK, NoWrites
  <2>4. advisory' \in [Parents \cup {NumberLock} -> Requests \cup {Nobody}]
    BY DEF Finish, Commit, EndTx, TypeOK
  <2>5. req' \in [Requests -> Jobs \cup {Idle}] /\ numbered' \in BOOLEAN
    BY DEF Finish, Step, TypeOK
  <2>6. origin' \in [Children -> Parents \cup {ByHand, Unborn}]
    <3>1. \A c \in Children : origin'[c] \in Parents \cup {ByHand, Unborn}
      BY Births
    <3>2. \E g : origin' = [c \in Children |-> g[c]]
      BY <3>1 DEF Finish
    <3>. QED BY <3>1, <3>2
  <2>. QED BY <2>1, <2>2, <2>3, <2>4, <2>5, <2>6 DEF TypeOK
<1>3. RowsExclusive'
  BY DEF Finish, Commit, EndTx, RowsExclusive, TypeOK, NoWrites
<1>4. Unshared'
  <2>1. ~Flying(t)' /\ \A u \in Requests \ {t} : Flying(u)' = Flying(u)
    BY <1>1 DEF Flying, Active, Idle
  <2>2. \A u \in Requests \ {t} : Flying(u) /\ req[u].op = "create" => own'[t][req[u].row] = Unwritten
    BY <1>1 DEF NoWrites, Good, Shape, OnChild, Rows
  <2>. QED BY <1>1, <2>1, <2>2 DEF Unshared
<1>5. Committed'
  <2>1. \A c \in Children : stored'[c] # NoRow => origin'[c] # Unborn
    <3>1. ASSUME NEW c \in Children, origin'[c] = Unborn PROVE stored'[c] = NoRow
      BY <3>1, Births, ChildrenWritten DEF Committed
    <3>. QED BY <3>1
  <2>2. ~Generates => \A p \in Parents : stored'[p] # NoRow => ~stored'[p].taken
    BY ParentsKept DEF Committed, Good, Generated
  <2>3. SeenAgrees' /\ NoOrphans'
    BY CommitCopies DEF SeenAgrees, NoOrphans, Exists, NoteOf
  <2>. QED BY <2>1, <2>2, <2>3, CommitSchedules DEF Committed, Generates
<1>6. ASSUME NEW u \in Requests PROVE Good(u)'
  BY <1>1, IdleGood, CommitGood
<1>. QED BY <1>2, <1>3, <1>4, <1>5, <1>6

LEMMA InvStep == IInv /\ Apart /\ [Next]_vars => IInv'
<1>. SUFFICES ASSUME IInv, Apart, [Next]_vars PROVE IInv'
  OBVIOUS
<1>1. CASE Next
  BY <1>1, NextMoves, MovesStep, FinishStep
<1>2. CASE UNCHANGED vars
  <2>1. UNCHANGED <<stored, own, rowLocks, advisory, req, numbered, origin>>
    BY <1>2 DEF vars, dbState
  <2>2. TypeOK' /\ RowsExclusive'
    BY <2>1 DEF IInv, TypeOK, RowsExclusive
  <2>3. Unshared'
    BY <2>1 DEF IInv, Unshared, Flying, Active
  <2>4. Committed'
    BY <2>1 DEF IInv, Committed, SeenAgrees, NoOrphans, ScheduledOnce, Exists, Generates
  <2>5. \A u \in Requests : Good(u)'
    BY <2>1, Bystander DEF IInv
  <2>. QED BY <2>2, <2>3, <2>4, <2>5 DEF IInv
<1>. QED BY <1>1, <1>2

\* Requests that are kept apart keep every request in the course its writes need.
THEOREM Invariance == Spec /\ []Apart => []IInv
<1>1. Init => IInv
  BY InitInv
<1>2. IInv /\ Apart /\ [Next]_vars => IInv'
  BY InvStep
<1>. QED BY <1>1, <1>2, PTL DEF Spec

-----------------------------------------------------------------------------
(* Figures: what each step owes them.                                      *)

LEMMA EarlyOwes ==
    ASSUME NEW t \in Requests, own'[t] = NoWrites, req'[t].pc \notin {"ready", "writing"}
    PROVE  Owes(t)'
<1>1. \A r \in Rows : own'[t][r] = Unwritten /\ Read(t, r)' = stored'[r]
  BY DEF NoWrites, Read
<1>2. \A p \in Parents : ~Touches(t, p)'
  BY <1>1 DEF Touches, Rows
<1>. QED BY <1>2 DEF Owes, Active

LEMMA QuietOwes ==
    ASSUME TypeOK, NEW t \in Requests, Owes(t), UNCHANGED <<stored, own>>, rowLocks[t] \subseteq rowLocks'[t],
           req'[t].row = req[t].row, req'[t].due = req[t].due, req'[t].pc # "ready",
           \A p \in Parents : p \in req[t].parents \/ (req[t].pc \in {"summing", "writing"} /\ req[t].at = p) =>
               \/ p \in req'[t].parents
               \/ req'[t].pc \in {"summing", "writing"} /\ req'[t].at = p
               \/ Settled(t, p),
           req'[t].pc = "writing" /\ req'[t].at \in Parents =>
               req'[t].value.figure = Figure(Snapshot(t), req'[t].at)
    PROVE  Owes(t)'
<1>1. Snapshot(t)' = Snapshot(t) /\ \A r : Read(t, r)' = Read(t, r)
  BY DEF Snapshot, Read
<1>2. \A p \in Parents : (Touches(t, p)' <=> Touches(t, p)) /\ (Settled(t, p) => Settled(t, p)')
  BY <1>1 DEF Touches, Settled
<1>3. \A p \in Parents : Touches(t, p)' =>
          \/ p \in req'[t].parents
          \/ req'[t].pc \in {"summing", "writing"} /\ req'[t].at = p
          \/ req'[t].row = p /\ req'[t].due > 0
          \/ Settled(t, p)'
  BY <1>2 DEF Owes
<1>4. Figure(Snapshot(t), req[t].at)' = Figure(Snapshot(t), req'[t].at)
  BY <1>1 DEF Figure, ChildrenOf
<1>. QED BY <1>3, <1>4 DEF Owes, Active

\* A row at hand is locked, if there is one.
LEMMA AtHand ==
    ASSUME IInv, NEW t \in Requests, Active(t, "summing"), Read(t, req[t].at) # NoRow
    PROVE  req[t].at \in rowLocks[t]
<1>1. req[t].at \in Rows
  BY DEF IInv, Good, Shape, Active, Rows
<1>. QED BY <1>1 DEF IInv, Good, Recomputes, RowsExclusive, Read

LEMMA QuietMoves ==
    ASSUME IInv, NEW t \in Requests, Owes(t),
           ListChildren(t) \/ LockParent(t) \/ LockChild(t) \/ SumParent(t) \/ RefreshChild(t)
    PROVE  Owes(t)'
<1>. USE DEF IInv
<1>1. Flying(t) /\ req[t] \in Jobs
  BY FlyingType DEF Flying, Active, ListChildren, LockParent, LockChild, SumParent, RefreshChild
<1>2. CASE ListChildren(t)
  <2>1. UNCHANGED <<stored, own, rowLocks>> /\ req'[t] = [req[t] EXCEPT !.pc = "written", !.children = ChildrenOf(Snapshot(t), req[t].row)]
    BY <1>2 DEF ListChildren, Step, dbState, TypeOK
  <2>2. req[t].pc = "listing" /\ req'[t].pc = "written" /\ req'[t].row = req[t].row /\ req'[t].due = req[t].due
        /\ req'[t].parents = req[t].parents
    BY <1>1, <1>2, <2>1 DEF ListChildren, Active, Jobs
  <2>. QED BY <2>1, <2>2, QuietOwes
<1>3. CASE LockParent(t)
  <2>. PICK q : q = NextParent(t)
    OBVIOUS
  <2>1. UNCHANGED <<stored, own>> /\ req'[t] = [req[t] EXCEPT !.pc = "summing", !.at = q, !.parents = @ \ {q}]
    BY <1>3 DEF LockParent, Step, SelectForUpdate, TypeOK
  <2>2. rowLocks[t] \subseteq rowLocks'[t]
    BY <1>3 DEF LockParent, SelectForUpdate, TypeOK
  <2>3. req[t].pc = "written" /\ req'[t].pc = "summing" /\ req'[t].row = req[t].row /\ req'[t].due = req[t].due
        /\ req'[t].at = q /\ req'[t].parents = req[t].parents \ {q}
    BY <1>1, <1>3, <2>1 DEF LockParent, Active, Jobs
  <2>. QED BY <2>1, <2>2, <2>3, QuietOwes
<1>4. CASE LockChild(t)
  <2>1. PICK c \in req[t].children : req'[t] = [req[t] EXCEPT !.pc = "refreshing", !.at = c, !.children = @ \ {c}]
    BY <1>4 DEF LockChild, Step, TypeOK
  <2>2. rowLocks[t] \subseteq rowLocks'[t] /\ UNCHANGED <<stored, own>>
    BY <1>4 DEF LockChild, SelectForUpdate, TypeOK
  <2>3. req[t].pc = "written" /\ req'[t].pc = "refreshing" /\ req'[t].row = req[t].row /\ req'[t].due = req[t].due
        /\ req'[t].parents = req[t].parents
    BY <1>1, <1>4, <2>1 DEF LockChild, Active, Jobs
  <2>. QED BY <2>2, <2>3, QuietOwes
<1>5. CASE SumParent(t)
  <2>. PICK p, row, figure : p = req[t].at /\ row = Read(t, p) /\ figure = Figure(Snapshot(t), p)
    OBVIOUS
  <2>. PICK value : value = IF row = NoRow THEN NoRow ELSE [row EXCEPT !.figure = figure]
    OBVIOUS
  <2>1. Recompute(t, value) /\ UNCHANGED <<stored, own, rowLocks>> /\ Active(t, "summing")
    BY <1>5 DEF SumParent, Recompute, dbState
  <2>2. p \in Parents /\ row \in ParentRows \cup {NoRow}
    BY <2>1, ReadType DEF Good, Shape
  <2>3. CASE value = row
    <3>1. req'[t] = [req[t] EXCEPT !.pc = "written", !.at = req[t].row, !.value = NoRow]
      BY <2>1, <2>3 DEF Recompute, Recomputed, Step, TypeOK
    <3>2. req'[t].pc = "written" /\ req'[t].row = req[t].row /\ req'[t].due = req[t].due
          /\ req'[t].parents = req[t].parents
      BY <1>1, <3>1 DEF Jobs
    <3>3. Settled(t, p)
      <4>1. row # NoRow => row.figure = figure
        BY <2>2, <2>3 DEF ParentRows
      <4>. QED BY <2>1, <4>1, AtHand DEF Settled
    <3>. QED BY <2>1, <3>2, <3>3, QuietOwes
  <2>4. CASE value # row
    <3>1. req'[t] = [req[t] EXCEPT !.pc = "writing", !.value = value]
      BY <2>1, <2>4 DEF Recompute, Step, TypeOK
    <3>2. req'[t].pc = "writing" /\ req'[t].row = req[t].row /\ req'[t].due = req[t].due
          /\ req'[t].parents = req[t].parents /\ req'[t].at = p /\ req'[t].value = value
      BY <1>1, <3>1 DEF Jobs
    <3>3. value.figure = figure
      BY <2>2, <2>4 DEF ParentRows
    <3>. QED BY <2>1, <3>2, <3>3, QuietOwes
  <2>. QED BY <2>3, <2>4
<1>6. CASE RefreshChild(t)
  <2>1. PICK value : Recompute(t, value) /\ Active(t, "refreshing")
    BY <1>6 DEF RefreshChild
  <2>2. UNCHANGED <<stored, own, rowLocks>> /\ req[t].at \notin Parents
    BY <2>1, FiguresAssumption DEF Recompute, dbState, Good, Shape
  <2>3. CASE req' = [req EXCEPT ![t] = Recomputed(t)]
    <3>1. req'[t].pc = "written" /\ req'[t].row = req[t].row /\ req'[t].due = req[t].due
          /\ req'[t].parents = req[t].parents
      BY <1>1, <2>3 DEF Recomputed, TypeOK, Jobs
    <3>. QED BY <2>1, <2>2, <3>1, QuietOwes DEF Active
  <2>4. CASE req' = [req EXCEPT ![t] = [req[t] EXCEPT !.pc = "writing", !.value = value]]
    <3>1. req'[t].pc = "writing" /\ req'[t].row = req[t].row /\ req'[t].due = req[t].due
          /\ req'[t].parents = req[t].parents /\ req'[t].at = req[t].at
      BY <1>1, <2>4 DEF TypeOK, Jobs
    <3>. QED BY <2>1, <2>2, <3>1, QuietOwes DEF Active
  <2>. QED BY <2>1, <2>3, <2>4 DEF Recompute, Step
<1>. QED BY <1>2, <1>3, <1>4, <1>5, <1>6

LEMMA ReadyOwes ==
    ASSUME NEW t \in Requests, own'[t] = NoWrites, req'[t].pc = "ready",
           OnChild(t)' =>
              /\ req'[t].next # NoRow => req'[t].next.parent \in req'[t].parents
              /\ stored'[req'[t].row] # NoRow => stored'[req'[t].row].parent \in req'[t].parents,
           OnParent(t)' /\ req'[t].due = 0 /\ stored'[req'[t].row] # NoRow =>
              req'[t].next.figure = Figure(stored', req'[t].row) /\ EditsParent(t)'
    PROVE  Owes(t)'
<1>1. \A r \in Rows : own'[t][r] = Unwritten /\ Read(t, r)' = stored'[r]
  BY DEF NoWrites, Read
<1>2. \A p \in Parents : ~Touches(t, p)'
  BY <1>1 DEF Touches, Rows
<1>3. Figure(stored, req[t].row)' = Figure(stored', req'[t].row)
  BY DEF Figure, ChildrenOf
<1>. QED BY <1>2, <1>3 DEF Owes, Active

\* A child's write reaches every parent it adds to or takes from: the one its row names now
\* is read with the old values, or the write cannot have changed it.
LEMMA ComputeChildOwes ==
    ASSUME IInv, HasEvents \/ "move" \notin Operations, NEW t \in Requests, ComputeChild(t), Flying(t)'
    PROVE  Owes(t)'
<1>. USE DEF IInv
<1>. PICK p, note, old : p = req[t].next.parent /\ note = Read(t, p).note /\ old = {row.parent : row \in Old(t)}
  OBVIOUS
<1>1. Active(t, "begun") /\ IsChildWrite(t) /\ Flying(t) /\ OnChild(t) /\ req[t] \in Jobs
  BY FlyingType DEF ComputeChild, IsChildWrite, Active, Flying, OnChild
<1>2. own[t] = NoWrites /\ \A r \in Rows : Read(t, r) = stored[r]
  BY <1>1, CleanRead DEF Good, Owns, Wrote, Computed, Active
<1>3. ~Refuse(t)
  BY DEF Flying, Active, Refuse, Step, Idle, TypeOK
<1>4. /\ req' = [req EXCEPT ![t] = [req[t] EXCEPT !.pc = "ready", !.next.seen = note, !.parents = {p} \cup old]]
      /\ UNCHANGED <<stored, own>>
  BY <1>3 DEF ComputeChild, Step, dbState
<1>5. req[t].row \in Children /\ req[t].row \in Rows /\ req[t].next \in ChildRows
  BY <1>1, FiguresAssumption DEF Good, Shape, IsChildWrite, Rows
<1>6. /\ req'[t].pc = "ready" /\ req'[t].op = req[t].op /\ req'[t].row = req[t].row
      /\ req'[t].parents = {p} \cup old /\ req'[t].next.parent = p
  BY <1>1, <1>4, <1>5 DEF TypeOK, Jobs, ChildRows
<1>7. ASSUME stored[req[t].row] # NoRow PROVE stored[req[t].row].parent \in {p} \cup old
  <2>1. CASE HasEvents
    BY <1>2, <1>5, <1>7, <2>1 DEF Old
  <2>2. CASE req[t].op = "update"
    BY <1>1, <1>7, <2>2 DEF Good, Places
  <2>3. CASE req[t].op = "create"
    BY <1>1, <1>5, <1>7, <2>3 DEF Good, Known, Committed
  <2>4. CASE req[t].op = "move" /\ ~HasEvents
    BY <1>1, <2>4 DEF Jobs
  <2>. QED BY <1>1, <2>1, <2>2, <2>3, <2>4 DEF IsChildWrite
<1>8. ~OnParent(t)'
  BY <1>1, <1>6 DEF OnParent, IsChildWrite
<1>. QED BY <1>2, <1>4, <1>6, <1>7, <1>8, ReadyOwes

LEMMA ComputeDeleteOwes ==
    ASSUME IInv, NEW t \in Requests, ComputeDelete(t), Flying(t)'
    PROVE  Owes(t)'
<1>. USE DEF IInv
<1>. PICK p : p = Read(t, req[t].row).parent
  OBVIOUS
<1>1. Active(t, "begun") /\ req[t].op = "delete" /\ Flying(t) /\ OnChild(t) /\ req[t] \in Jobs
  BY FlyingType DEF ComputeDelete, Active, Flying, OnChild
<1>2. own[t] = NoWrites /\ \A r \in Rows : Read(t, r) = stored[r]
  BY <1>1, CleanRead DEF Good, Owns, Wrote, Computed, Active
<1>3. ~Refuse(t)
  BY DEF Flying, Active, Refuse, Step, Idle, TypeOK
<1>4. req' = [req EXCEPT ![t] = [req[t] EXCEPT !.pc = "ready", !.parents = {p}]] /\ UNCHANGED <<stored, own>>
  BY <1>3 DEF ComputeDelete, Step, dbState
<1>5. req[t].row \in Rows /\ req[t].next = NoRow
  BY <1>1 DEF Good, Shape, Rows
<1>6. /\ req'[t].pc = "ready" /\ req'[t].op = "delete" /\ req'[t].row = req[t].row
      /\ req'[t].parents = {p} /\ req'[t].next = NoRow
  BY <1>1, <1>4, <1>5 DEF TypeOK, Jobs
<1>7. ~OnParent(t)'
  BY <1>6 DEF OnParent
<1>. QED BY <1>2, <1>4, <1>5, <1>6, <1>7, ReadyOwes

\* A parent that generates nothing adds up what is committed, and while it is written no child is.
LEMMA ComputeParentOwes ==
    ASSUME IInv, NEW t \in Requests, ComputeParent(t), Flying(t)'
    PROVE  Owes(t)'
<1>. USE DEF IInv
<1>. PICK p, row, figure, follow, takesEdge :
        /\ p = req[t].row /\ row = Read(t, p) /\ figure = Figure(Snapshot(t), p)
        /\ follow = (\A old \in Old(t) : old.note # req[t].next.note)
        /\ takesEdge = (~row.taken /\ req[t].next.taken)
  OBVIOUS
<1>1. Active(t, "begun") /\ req[t].op \in {"edit", "generate"} /\ Flying(t) /\ OnParent(t) /\ req[t] \in Jobs
  BY FlyingType DEF ComputeParent, Active, Flying, OnParent
<1>2. own[t] = NoWrites /\ Snapshot(t) = stored /\ \A r \in Rows : Read(t, r) = stored[r]
  BY <1>1, CleanRead DEF Good, Owns, Wrote, Computed, Active
<1>3. ~Refuse(t)
  BY DEF Flying, Active, Refuse, Step, Idle, TypeOK
<1>4. /\ req' = [req EXCEPT ![t] = [req[t] EXCEPT !.pc = "ready", !.next.figure = figure, !.follow = follow,
                                                  !.due = IF takesEdge THEN Len(Schedule) ELSE 0]]
      /\ UNCHANGED <<stored, own>>
  BY <1>3 DEF ComputeParent, Step, dbState
<1>5. p \in Parents /\ p \in Rows /\ req[t].next \in ParentRows /\ (req[t].op = "generate" => req[t].next.taken)
  BY <1>1 DEF Good, Shape, Rows
<1>6. /\ req'[t].pc = "ready" /\ req'[t].op = req[t].op /\ req'[t].row = p
      /\ req'[t].next.figure = figure
      /\ req'[t].due = IF takesEdge THEN Len(Schedule) ELSE 0
  BY <1>1, <1>4, <1>5 DEF TypeOK, Jobs, ParentRows
<1>7. ~OnChild(t)' /\ OnParent(t)'
  BY <1>1, <1>6 DEF OnChild, OnParent, Flying, Active
<1>8. ASSUME req'[t].due = 0, stored[p] # NoRow PROVE EditsParent(t)'
  <2>1. Len(Schedule) # 0
    BY FiguresAssumption
  <2>2. ~takesEdge
    BY <1>6, <1>8, <2>1
  <2>3. CASE req[t].op = "edit"
    BY <1>6, <2>3 DEF EditsParent
  <2>4. CASE req[t].op = "generate"
    <3>1. stored[p].taken
      BY <1>2, <1>5, <2>2, <2>4
    <3>. QED BY <1>4, <1>6, <1>8, <2>4, <3>1 DEF EditsParent, Exists
  <2>. QED BY <1>1, <2>3, <2>4
<1>. QED BY <1>2, <1>4, <1>6, <1>7, <1>8, ReadyOwes

LEMMA CheckRemoveOwes ==
    ASSUME IInv, NEW t \in Requests, CheckRemove(t), Flying(t)'
    PROVE  Owes(t)'
<1>. USE DEF IInv
<1>1. Active(t, "begun") /\ req[t].op = "remove" /\ Flying(t) /\ req[t] \in Jobs
  BY FlyingType DEF CheckRemove, Active, Flying
<1>2. own[t] = NoWrites
  BY <1>1 DEF Good, Owns, Wrote, Computed, Active
<1>3. ~Refuse(t)
  BY DEF Flying, Active, Refuse, Step, Idle, TypeOK
<1>4. req' = [req EXCEPT ![t] = [req[t] EXCEPT !.pc = "ready"]] /\ UNCHANGED <<stored, own>>
  BY <1>3 DEF CheckRemove, Step, dbState
<1>5. req'[t].pc = "ready" /\ req'[t].op = "remove"
  BY <1>1, <1>4 DEF TypeOK, Jobs
<1>6. ~OnChild(t)' /\ ~OnParent(t)'
  BY <1>5 DEF OnChild, OnParent
<1>. QED BY <1>2, <1>4, <1>5, <1>6, ReadyOwes

LEMMA EarlyMoves ==
    ASSUME IInv, NEW t \in Requests, Flying(t)',
           \/ \E op, r, next : Begin(t, op, r, next)
           \/ ReadPage(t) \/ TakeLock(t) \/ Compare(t)
    PROVE  Owes(t)'
<1>. USE DEF IInv
<1>1. own[t] = NoWrites
  BY DEF Good, Owns, Wrote, Computed, Flying, Active, Begin, ReadPage, TakeLock, Compare
<1>2. CASE \E op, r, next : Begin(t, op, r, next)
  <2>1. UNCHANGED own /\ req'[t].pc \notin {"ready", "writing"}
    BY <1>2 DEF Begin, Step, dbState, TypeOK
  <2>. QED BY <1>1, <2>1, EarlyOwes
<1>3. CASE ReadPage(t)
  <2>1. UNCHANGED own /\ req'[t].pc \notin {"ready", "writing"}
    BY <1>3 DEF ReadPage, Step, dbState, TypeOK
  <2>. QED BY <1>1, <2>1, EarlyOwes
<1>4. CASE TakeLock(t)
  <2>1. UNCHANGED own /\ req' = [req EXCEPT ![t] = [req[t] EXCEPT !.pc = "begun"]] /\ req[t] \in Jobs
    BY <1>4, FlyingType DEF TakeLock, AdvisoryLock, Step, Active, Flying
  <2>2. req'[t].pc = "begun"
    BY <2>1 DEF TypeOK, Jobs
  <2>. QED BY <1>1, <2>1, <2>2, EarlyOwes
<1>5. CASE Compare(t)
  <2>. PICK r : r = req[t].row
    OBVIOUS
  <2>1. /\ UNCHANGED own /\ req[t] \in Jobs
        /\ \/ req' = [req EXCEPT ![t] = Idle]
           \/ req' = [req EXCEPT ![t] = [req[t] EXCEPT !.pc = "written", !.parents = {r} \cap Parents,
                                                       !.children = {r} \cap Children]]
    BY <1>5, FlyingType DEF Compare, Step, dbState, Active, Flying
  <2>2. req'[t].pc \in {"idle", "written"}
    <3>1. CASE req' = [req EXCEPT ![t] = Idle]
      BY <3>1 DEF TypeOK, Idle
    <3>2. CASE req' # [req EXCEPT ![t] = Idle]
      <4>. DEFINE job == [req[t] EXCEPT !.pc = "written", !.parents = {r} \cap Parents, !.children = {r} \cap Children]
      <4>1. job.pc = "written" /\ req' = [req EXCEPT ![t] = job]
        BY <2>1, <3>2 DEF Jobs
      <4>. HIDE DEF job
      <4>. QED BY <4>1 DEF TypeOK
    <3>. QED BY <3>1, <3>2
  <2>. QED BY <1>1, <2>1, <2>2, EarlyOwes
<1>. QED BY <1>2, <1>3, <1>4, <1>5

\* After the write every parent it reaches is among those to recompute, or is the one written.
LEMMA WriteOwes ==
    ASSUME IInv, NEW t \in Requests, Owes(t), Write(t), Flying(t)'
    PROVE  Owes(t)'
<1>. USE DEF IInv
<1>. PICK r, next : r = req[t].row /\ next = req[t].next
  OBVIOUS
<1>1. /\ Active(t, "ready") /\ Flying(t) /\ Computed(t) /\ ~Wrote(t) /\ req[t] \in Jobs
      /\ own[t] = NoWrites /\ r \in Rows /\ next \in Cells
  <2>1. Active(t, "ready") /\ Flying(t) /\ Computed(t) /\ ~Wrote(t) /\ req[t] \in Jobs
    BY FlyingType DEF Write, Active, Flying, Computed, Wrote
  <2>. QED BY <2>1 DEF Good, Owns, Jobs
<1>2. ~Refuse(t)
  BY DEF Flying, Active, Refuse, Step, Idle, TypeOK
<1>3. /\ WriteRow(t, r, next) /\ ~(req[t].op \notin {"create", "delete", "remove"} /\ stored[r] = NoRow)
      /\ req' = [req EXCEPT ![t] = [req[t] EXCEPT !.pc = IF req[t].follow THEN "listing" ELSE "written"]]
  BY <1>2 DEF Write, Step
<1>4. /\ req'[t].pc \in {"listing", "written"} /\ req'[t].row = r /\ req'[t].parents = req[t].parents
      /\ req'[t].due = req[t].due
  BY <1>1, <1>3 DEF TypeOK, Jobs
<1>5. /\ own'[t][r] = next /\ \A s \in Rows : s # r => own'[t][s] = Unwritten
      /\ Read(t, r)' = next /\ \A s \in Rows : s # r => Read(t, s)' = stored[s]
      /\ UNCHANGED stored /\ rowLocks'[t] = rowLocks[t] \cup {r}
  <2>1. \A s \in Rows : Read(t, s) = stored[s] /\ own[t][s] = Unwritten
    BY <1>1, CleanRead
  <2>2. /\ own'[t][r] = next /\ \A s \in Rows : s # r => own'[t][s] = own[t][s]
        /\ Read(t, r)' = next /\ \A s \in Rows : s # r => Read(t, s)' = Read(t, s)
        /\ UNCHANGED stored /\ rowLocks'[t] = rowLocks[t] \cup {r}
    BY <1>1, <1>3, Writes
  <2>. QED BY <2>1, <2>2
<1>6. Subject(t) /\ (OnChild(t) \/ OnParent(t) \/ OnRemove(t))
  BY <1>1, Worked DEF Good, Working, Subject, Active
<1>7. \A p \in Parents : p \in Rows /\ p \notin Children
  BY FiguresAssumption DEF Rows
<1>8. \A c \in Children : c \in Rows /\ (c # r => Read(t, c)' = stored[c])
  BY <1>5 DEF Rows
<1>9. ASSUME NEW p \in Parents, Touches(t, p)'
      PROVE  p \in req[t].parents \/ (r = p /\ req[t].due > 0) \/ Settled(t, p)'
  <2>1. own'[t][p] # Unwritten \/ \E c \in Children : Part(Read(t, c)', p) # Part(stored[c], p)
    BY <1>5, <1>9 DEF Touches
  <2>2. r = p \/ (r \in Children /\ Part(next, p) # Part(stored[r], p))
    BY <1>5, <1>7, <1>8, <2>1
  <2>3. CASE OnChild(t)
    <3>1. r \in Children /\ Part(next, p) # Part(stored[r], p)
      BY <1>6, <1>7, <2>2, <2>3 DEF Subject
    <3>2. (next # NoRow /\ next.parent = p) \/ (stored[r] # NoRow /\ stored[r].parent = p)
      BY <3>1 DEF Part
    <3>. QED BY <1>1, <2>3, <3>2 DEF Owes
  <2>4. CASE OnParent(t)
    <3>1. r = p /\ stored[r] # NoRow /\ next \in ParentRows
      BY <1>3, <1>6, <1>7, <2>2, <2>4 DEF Subject, OnParent
    <3>2. CASE req[t].due > 0
      BY <3>1, <3>2
    <3>3. CASE ~(req[t].due > 0)
      <4>1. req[t].due = 0
        <5>1. req[t].due \in Nat
          BY <1>1, FiguresAssumption DEF Jobs
        <5>. QED BY <3>3, <5>1
      <4>2. next.figure = Figure(stored, p)
        BY <1>1, <2>4, <3>1, <4>1 DEF Owes
      <4>. PICK snapshot : snapshot = Snapshot(t)'
        OBVIOUS
      <4>3. \A c \in Children : snapshot[c] = stored[c]
        BY <1>7, <1>8, <3>1 DEF Snapshot
      <4>4. Figure(stored, p) = Figure(snapshot, p)
        BY <4>3, FigureSame
      <4>5. Figure(Snapshot(t), p)' = Figure(snapshot, p)
        BY DEF Figure, ChildrenOf
      <4>6. p \in rowLocks'[t] /\ Read(t, p)' = next
        BY <1>5, <3>1
      <4>. QED BY <4>2, <4>4, <4>5, <4>6 DEF Settled
    <3>. QED BY <3>2, <3>3
  <2>5. CASE OnRemove(t)
    <3>1. r = p /\ next = NoRow
      BY <1>6, <1>7, <2>2, <2>5 DEF Subject
    <3>. QED BY <1>5, <3>1 DEF Settled
  <2>. QED BY <1>6, <2>3, <2>4, <2>5
<1>. QED BY <1>4, <1>9 DEF Owes, Active

\* A parent's write reaches no other parent.
LEMMA TouchesOwn ==
    ASSUME NEW t \in Requests, OnParent(t)', Owns(t)', NEW p \in Parents, Touches(t, p)'
    PROVE  p = req'[t].row
<1>1. CASE own'[t][p] # Unwritten
  BY <1>1 DEF Owns
<1>2. ASSUME NEW c \in Children, Part(Read(t, c), p)' # Part(stored[c], p)'
      PROVE  p = req'[t].row
  <2>1. own'[t][c] # Unwritten /\ Read(t, c)' = own'[t][c]
    BY <1>2 DEF Read, Part
  <2>2. /\ own'[t][c].parent = req'[t].row
        /\ \/ stored'[c] = NoRow
           \/ stored'[c] # NoRow /\ stored'[c].parent = req'[t].row
    BY <2>1 DEF Owns, NewChild
  <2>. QED BY <1>2, <2>1, <2>2 DEF Part
<1>. QED BY <1>1, <1>2 DEF Touches

LEMMA WriteBackOwes ==
    ASSUME IInv, NEW t \in Requests, Owes(t), WriteBack(t)
    PROVE  Owes(t)'
<1>. USE DEF IInv
<1>. PICK at, value : at = req[t].at /\ value = req[t].value
  OBVIOUS
<1>. PICK parents : parents = IF at \in Children /\ req[t].op # "reload" THEN {value.parent} ELSE req[t].parents
  OBVIOUS
<1>1. /\ Active(t, "writing") /\ Flying(t) /\ Computed(t) /\ req[t] \in Jobs /\ at \in Rows /\ value \in Cells
  <2>1. Active(t, "writing") /\ Flying(t) /\ Computed(t)
    BY DEF WriteBack, Active, Flying, Computed
  <2>. QED BY <2>1, FlyingType DEF Jobs
<1>2. /\ WriteRow(t, at, value)
      /\ req' = [req EXCEPT ![t] = [req[t] EXCEPT !.pc = "written", !.at = req[t].row, !.value = NoRow,
                                                  !.parents = parents]]
  <2>1. [Recomputed(t) EXCEPT !.parents = IF at \in Children /\ req[t].op # "reload" THEN {value.parent} ELSE @]
        = [req[t] EXCEPT !.pc = "written", !.at = req[t].row, !.value = NoRow, !.parents = parents]
    BY <1>1 DEF Recomputed, Jobs
  <2>. QED BY <2>1 DEF WriteBack, Step
<1>3. /\ req'[t].pc = "written" /\ req'[t].op = req[t].op /\ req'[t].row = req[t].row /\ req'[t].parents = parents
      /\ req'[t].due = req[t].due
  BY <1>1, <1>2 DEF TypeOK, Jobs
<1>4. /\ own'[t][at] = value /\ \A s \in Rows : s # at => own'[t][s] = own[t][s]
      /\ Read(t, at)' = value /\ \A s \in Rows : s # at => Read(t, s)' = Read(t, s)
      /\ UNCHANGED stored /\ rowLocks'[t] = rowLocks[t] \cup {at}
  BY <1>1, <1>2, Writes
<1>5. /\ \A p \in Parents : p \in Rows /\ p \notin Children
      /\ \A c \in Children : c \in Rows
  BY FiguresAssumption DEF Rows
<1>6. Working(t)
  BY <1>1, Worked DEF Good
<1>7. CASE at \in Parents
  <2>1. parents = req[t].parents /\ value.figure = Figure(Snapshot(t), at)
    BY <1>1, <1>5, <1>7 DEF Owes
  <2>2. \A c \in Children : Read(t, c)' = Read(t, c)
    BY <1>4, <1>5, <1>7
  <2>3. ASSUME NEW p \in Parents PROVE Figure(Snapshot(t), p)' = Figure(Snapshot(t), p)
    <3>. PICK snapshot : snapshot = Snapshot(t)'
      OBVIOUS
    <3>1. \A c \in Children : Snapshot(t)[c] = snapshot[c]
      BY <1>5, <2>2 DEF Snapshot
    <3>2. Figure(Snapshot(t), p) = Figure(snapshot, p)
      BY <3>1, FigureSame
    <3>3. Figure(Snapshot(t), p)' = Figure(snapshot, p)
      BY DEF Figure, ChildrenOf
    <3>. QED BY <3>2, <3>3
  <2>4. Settled(t, at)'
    BY <1>4, <1>7, <2>1, <2>3 DEF Settled
  <2>5. ASSUME NEW p \in Parents, p # at
        PROVE  (Touches(t, p)' => Touches(t, p)) /\ (Settled(t, p) => Settled(t, p)')
    BY <1>4, <1>5, <2>2, <2>3, <2>5 DEF Touches, Settled
  <2>6. \A p \in Parents : Touches(t, p)' =>
            p \in req[t].parents \/ (req[t].row = p /\ req[t].due > 0) \/ Settled(t, p)'
    BY <2>4, <2>5 DEF Owes
  <2>. QED BY <1>3, <2>1, <2>6 DEF Owes, Active
<1>8. CASE at \notin Parents
  <2>1. OnParent(t) /\ at \in Children
    BY <1>1, <1>6, <1>8 DEF Working, Active
  <2>2. req[t].op # "reload" /\ value.parent = req[t].row
    BY <1>1, <1>8, <2>1 DEF Good, Recomputes, OnParent
  <2>3. Owns(t)' /\ OnParent(t)'
    <3>1. Good(t)'
      BY WriteBackStep
    <3>. QED BY <1>3, <2>1, <3>1 DEF Good, OnParent, Flying, Active
  <2>4. \A p \in Parents : Touches(t, p)' => p \in req'[t].parents
    BY <1>3, <2>1, <2>2, <2>3, TouchesOwn
  <2>. QED BY <1>3, <2>4 DEF Owes, Active
<1>. QED BY <1>7, <1>8

LEMMA InsertGeneratedOwes ==
    ASSUME IInv, NEW t \in Requests, InsertGenerated(t)
    PROVE  Owes(t)'
<1>. USE DEF IInv
<1>1. Active(t, "written") /\ Flying(t) /\ Computed(t) /\ req[t] \in Jobs /\ req[t].due > 0
  BY FlyingType DEF InsertGenerated, Generating, Active, Flying, Computed
<1>2. OnParent(t)
  BY <1>1, Worked DEF Good, Working
<1>3. req' = [req EXCEPT ![t] = [req[t] EXCEPT !.parents = {req[t].row}, !.due = @ - 1]]
  BY DEF InsertGenerated, Step
<1>4. /\ req'[t].pc = "written" /\ req'[t].op = req[t].op /\ req'[t].row = req[t].row
      /\ req'[t].parents = {req[t].row}
  BY <1>1, <1>3 DEF TypeOK, Jobs, Active
<1>5. Owns(t)' /\ OnParent(t)'
  <2>1. Good(t)'
    BY InsertGeneratedStep
  <2>. QED BY <1>2, <1>4, <2>1 DEF Good, OnParent, Flying, Active
<1>6. \A p \in Parents : Touches(t, p)' => p \in req'[t].parents
  BY <1>4, <1>5, TouchesOwn
<1>. QED BY <1>4, <1>6 DEF Owes, Active

LEMMA MovesFigures ==
    ASSUME IInv, FInv, HasEvents \/ "move" \notin Operations, NEW t \in Requests, Moves(t)
    PROVE  FInv'
<1>. USE DEF IInv
<1>1. Local(t)
  BY MovesLocal
<1>2. FigureAgrees'
  BY <1>1 DEF Local, FInv, FigureAgrees, Exists, Figure, ChildrenOf
<1>3. ASSUME NEW u \in Requests \ {t}, Flying(u)' PROVE Owes(u)'
  <2>1. req'[u] = req[u] /\ own'[u] = own[u] /\ rowLocks'[u] = rowLocks[u] /\ UNCHANGED stored
    BY <1>1, Elsewhere DEF Local
  <2>2. Flying(u)
    BY <1>3, <2>1 DEF Flying, Active
  <2>. QED BY <2>1, <2>2, BystanderOwes DEF FInv
<1>4. ASSUME Flying(t)' PROVE Owes(t)'
  <2>1. CASE BeginCreate(t) \/ BeginUpdate(t) \/ BeginMove(t) \/ BeginDelete(t) \/ BeginEdit(t)
             \/ BeginGenerate(t) \/ BeginRemove(t)
    BY <1>4, <2>1, BeginsWith, EarlyMoves
  <2>2. CASE ReadPage(t) \/ TakeLock(t) \/ Compare(t)
    BY <1>4, <2>2, EarlyMoves
  <2>3. CASE ComputeChild(t) \/ ComputeDelete(t) \/ ComputeParent(t) \/ CheckRemove(t)
    BY <1>4, <2>3, ComputeChildOwes, ComputeDeleteOwes, ComputeParentOwes, CheckRemoveOwes
  <2>4. CASE ListChildren(t) \/ LockParent(t) \/ LockChild(t) \/ SumParent(t) \/ RefreshChild(t)
             \/ Write(t) \/ WriteBack(t)
    <3>1. Flying(t)
      BY <2>4 DEF Flying, Active, ListChildren, LockParent, LockChild, SumParent, RefreshChild, Write, WriteBack
    <3>. QED BY <1>4, <2>4, <3>1, QuietMoves, WriteOwes, WriteBackOwes DEF FInv
  <2>5. CASE InsertGenerated(t)
    BY <2>5, InsertGeneratedOwes
  <2>6. CASE LockNumbers(t)
    BY <1>4, <2>6, LockNumbersStep
  <2>7. CASE Fail(t)
    BY <1>4, <2>7 DEF Fail, Refuse, Step, Flying, Active, Idle, TypeOK
  <2>. QED BY <2>1, <2>2, <2>3, <2>4, <2>5, <2>6, <2>7 DEF Moves, Wait
<1>5. \A u \in Requests : Flying(u)' => Owes(u)'
  BY <1>3, <1>4
<1>. QED BY <1>2, <1>5 DEF FInv

-----------------------------------------------------------------------------
(* Figures: a commit.                                                      *)

LEMMA CommitFigures ==
    ASSUME IInv, FInv, NEW t \in Requests, Finish(t)
    PROVE  FigureAgrees'
<1>1. /\ stored' = Snapshot(t) /\ Flying(t) /\ Active(t, "written") /\ req[t].parents = {} /\ req[t].due = 0
      /\ \A r \in Rows : stored'[r] = Read(t, r)
  BY Finishes DEF Finish, Commit
<1>2. Owes(t)
  BY <1>1 DEF FInv
<1>3. ASSUME NEW p \in Parents, stored'[p] # NoRow PROVE stored'[p].figure = Figure(stored', p)
  <2>1. p \in Rows /\ stored'[p] = Read(t, p) /\ \A c \in Children : c \in Rows /\ stored'[c] = Read(t, c)
    BY <1>1 DEF Rows
  <2>2. CASE Touches(t, p)
    <3>1. Settled(t, p)
      BY <1>1, <1>2, <2>2 DEF Owes, Active
    <3>. QED BY <1>1, <1>3, <2>1, <3>1 DEF Settled
  <2>3. CASE ~Touches(t, p)
    <3>1. own[t][p] = Unwritten /\ \A c \in Children : Part(stored'[c], p) = Part(stored[c], p)
      BY <2>1, <2>3 DEF Touches
    <3>2. Figure(stored', p) = Figure(stored, p)
      BY <3>1, FigureSame
    <3>3. stored'[p] = stored[p]
      BY <2>1, <3>1 DEF Read
    <3>. QED BY <1>3, <3>2, <3>3 DEF FInv, FigureAgrees, Exists
  <2>. QED BY <2>2, <2>3
<1>. QED BY <1>3 DEF FigureAgrees, Exists, Figure, ChildrenOf

\* A parent that is gone is gone for everyone.
LEMMA GoneRead ==
    ASSUME IInv, NEW u \in Requests, NEW p \in Parents, stored[p] = NoRow
    PROVE  Read(u, p) = NoRow
<1>. USE DEF IInv
<1>1. CASE own[u][p] = Unwritten
  BY <1>1 DEF Read
<1>2. CASE own[u][p] # Unwritten
  <2>1. p \in Rows
    BY DEF Rows
  <2>2. Wrote(u)
    BY <1>2, <2>1 DEF Good, Owns, NoWrites
  <2>3. OnChild(u) \/ OnParent(u) \/ OnRemove(u) \/ OnReload(u)
    BY <2>2, Kinds
  <2>4. ~OnChild(u) /\ ~OnReload(u)
    BY <1>2 DEF Good, Owns
  <2>5. ~OnParent(u)
    BY <1>2, <2>2 DEF Good, Owns
  <2>6. OnRemove(u) => own[u][p] = NoRow
    BY <1>2, <2>1, <2>2 DEF Good, Owns, Shape
  <2>. QED BY <1>2, <2>3, <2>4, <2>5, <2>6 DEF Read
<1>. QED BY <1>1, <1>2

\* Whoever holds a parent keeps what it reads of it, and what it adds up there, when another
\* commits: to write the parent or to change what it adds up, that other would have held it.
LEMMA HeldFigure ==
    ASSUME IInv, FInv, NEW t \in Requests, Finish(t), NEW u \in Requests \ {t},
           NEW p \in Parents, p \in rowLocks[u], stored[p] # NoRow
    PROVE  Read(u, p)' = Read(u, p) /\ Figure(Snapshot(u), p)' = Figure(Snapshot(u), p)
<1>. USE DEF IInv
<1>. PICK after : after = Snapshot(u)'
  OBVIOUS
<1>1. /\ Flying(t) /\ Active(t, "written") /\ req[t].parents = {} /\ req[t].due = 0
      /\ own'[u] = own[u] /\ p \in Rows
      /\ \A r \in Rows : stored'[r] = Read(t, r)
      /\ \A r \in Rows : own[t][r] # Unwritten => own[u][r] = Unwritten /\ r \notin rowLocks[u]
  <2>1. p \in Rows
    BY DEF Rows
  <2>. QED BY <2>1, Finishes
<1>2. own[t][p] = Unwritten /\ stored'[p] = stored[p] /\ p \notin rowLocks[t]
  BY <1>1 DEF Read, RowsExclusive
<1>3. ~Touches(t, p)
  <2>1. Touches(t, p) => Settled(t, p)
    BY <1>1 DEF FInv, Owes, Active
  <2>. QED BY <1>2, <2>1 DEF Settled, Read
<1>4. \A r \in Rows : Read(u, r)' = IF own[u][r] = Unwritten THEN Read(t, r) ELSE own[u][r]
  BY <1>1 DEF Read
<1>5. \A c \in Children : Part(Snapshot(u)[c], p) = Part(after[c], p)
  <2>1. \A c \in Children : c \in Rows /\ Snapshot(u)[c] = Read(u, c) /\ after[c] = Read(u, c)'
    BY DEF Snapshot, Rows
  <2>2. \A c \in Children : Part(Read(t, c), p) = Part(stored[c], p)
    BY <1>3 DEF Touches
  <2>. QED BY <1>4, <2>1, <2>2 DEF Read
<1>6. Figure(Snapshot(u), p) = Figure(after, p)
  BY <1>5, FigureSame
<1>7. Figure(Snapshot(u), p)' = Figure(after, p)
  BY DEF Figure, ChildrenOf
<1>. QED BY <1>1, <1>2, <1>4, <1>6, <1>7 DEF Read

\* A child another request is about to write stays where it is: it is not moved meanwhile.
LEMMA StaysUnder ==
    ASSUME IInv, Apart, NEW t \in Requests, Finish(t), NEW u \in Requests \ {t}, OnChild(u),
           stored'[req[u].row] # NoRow
    PROVE  stored[req[u].row] # NoRow /\ stored'[req[u].row].parent = stored[req[u].row].parent
<1>. USE DEF IInv
<1>. PICK c : c = req[u].row
  OBVIOUS
<1>1. c \in Children /\ Flying(t) /\ Flying(u)
  BY Finishes DEF Good, Shape, OnChild
<1>2. CASE own[t][c] = Unwritten
  BY <1>1, <1>2, ChildrenWritten
<1>3. CASE own[t][c] # Unwritten
  <2>1. req[u].op # "create"
    BY <1>1, <1>3 DEF Unshared
  <2>2. origin[c] # Unborn
    BY <1>1, <2>1 DEF Good, Known
  <2>3. CASE OnChild(t)
    <3>1. /\ ~OnParent(t) /\ c = req[t].row /\ stored'[c] = req[t].next
          /\ origin[c] = Unborn <=> req[t].op = "create"
          /\ req[t].op \in {"update", "move"} => stored[c] # NoRow
      BY <1>1, <1>3, <2>3, ChildrenWritten
    <3>2. req[t].op # "delete"
      BY <2>3, <3>1 DEF Good, Shape
    <3>3. req[t].op # "move"
      BY <1>1, <3>1 DEF Apart, Collide, Flying
    <3>4. req[t].op = "update"
      BY <2>2, <2>3, <3>1, <3>2, <3>3 DEF OnChild
    <3>5. stored[c].parent = req[t].next.parent
      BY <2>3, <3>1, <3>4 DEF Good, Places
    <3>. QED BY <3>1, <3>4, <3>5
  <2>4. CASE ~OnChild(t)
    <3>1. /\ stored'[c].parent = req[t].row
          /\ \/ NewChild(c)
             \/ stored[c] # NoRow /\ stored[c].parent = req[t].row
      BY <1>1, <1>3, <2>4, ChildrenWritten
    <3>. QED BY <2>2, <3>1 DEF NewChild
  <2>. QED BY <2>3, <2>4
<1>. QED BY <1>2, <1>3

\* What an edit has added up of its parent stays so: while it is under way no child of its is
\* written but by itself.
LEMMA EditStands ==
    ASSUME IInv, Apart, NEW t \in Requests, Finish(t), NEW u \in Requests \ {t}, OnParent(u),
           ~Active(u, "locking"), stored'[req[u].row] # NoRow, stored[req[u].row] # NoRow, EditsParent(u)
    PROVE  Figure(stored', req[u].row) = Figure(stored, req[u].row) /\ EditsParent(u)'
<1>. USE DEF IInv
<1>. PICK p : p = req[u].row
  OBVIOUS
<1>1. p \in Parents /\ Flying(t) /\ Flying(u) /\ ~Active(t, "locking") /\ req'[u] = req[u]
  <2>1. p \in Parents
    BY DEF Good, Shape
  <2>. QED BY <2>1, Finishes DEF OnParent
<1>2. ~OnChild(t)
  BY <1>1 DEF Apart, Collide, Flying, OnChild
<1>3. ~(OnParent(t) /\ req[t].row = p)
  BY <1>1, Alone
<1>4. \A c \in Children : Part(stored'[c], p) = Part(stored[c], p)
  <2>. SUFFICES ASSUME NEW c \in Children PROVE Part(stored'[c], p) = Part(stored[c], p)
    OBVIOUS
  <2>1. CASE own[t][c] = Unwritten
    BY <2>1, ChildrenWritten
  <2>2. CASE own[t][c] # Unwritten
    <3>1. /\ OnParent(t) /\ stored'[c].parent = req[t].row
          /\ \/ NewChild(c)
             \/ stored[c] # NoRow /\ stored[c].parent = req[t].row
      BY <1>2, <2>2, ChildrenWritten
    <3>. QED BY <1>3, <3>1 DEF NewChild, Part
  <2>. QED BY <2>1, <2>2
<1>5. Figure(stored', p) = Figure(stored, p)
  BY <1>4, FigureSame
<1>6. stored'[p].note = stored[p].note /\ (stored'[p].taken <=> stored[p].taken)
  BY <1>1, <1>3, ParentsKept
<1>7. EditsParent(u)'
  BY <1>1, <1>6 DEF EditsParent, Exists
<1>. QED BY <1>5, <1>7

LEMMA CommitOwes ==
    ASSUME IInv, FInv, Apart, NEW t \in Requests, Finish(t), NEW u \in Requests \ {t}, Flying(u)'
    PROVE  Owes(u)'
<1>. USE DEF IInv
<1>1. /\ req'[u] = req[u] /\ own'[u] = own[u] /\ rowLocks'[u] = rowLocks[u]
      /\ \A r \in Rows : stored'[r] = Read(t, r)
      /\ \A r \in Rows : own[t][r] # Unwritten => own[u][r] = Unwritten /\ r \notin rowLocks[u]
  BY Finishes
<1>2. /\ Flying(u) /\ Owes(u) /\ \A pc : Active(u, pc)' = Active(u, pc)
      /\ OnChild(u)' = OnChild(u) /\ OnParent(u)' = OnParent(u)
  BY <1>1 DEF FInv, Flying, Active, OnChild, OnParent
<1>3. ASSUME NEW p \in Parents, Touches(u, p)' PROVE Touches(u, p)
  <2>1. CASE own'[u][p] # Unwritten
    BY <1>1, <2>1 DEF Touches
  <2>2. ASSUME NEW c \in Children, Part(Read(u, c), p)' # Part(stored[c], p)' PROVE Touches(u, p)
    <3>1. own[u][c] # Unwritten
      BY <1>1, <2>2 DEF Read, Part
    <3>2. c \in Rows /\ own[t][c] = Unwritten /\ stored'[c] = stored[c] /\ Read(u, c)' = Read(u, c)
      BY <1>1, <3>1 DEF Read, Rows
    <3>3. Part(Read(u, c), p) # Part(stored[c], p)
      BY <2>2, <3>2 DEF Part
    <3>. QED BY <3>3 DEF Touches
  <2>. QED BY <1>3, <2>1, <2>2 DEF Touches
<1>4. ASSUME NEW p \in Parents, Settled(u, p) PROVE Settled(u, p)'
  <2>1. CASE stored[p] = NoRow
    <3>1. Read(u, p) = NoRow /\ stored'[p] = NoRow
      BY <2>1, GoneRead, ParentsKept
    <3>. QED BY <1>1, <3>1 DEF Settled, Read
  <2>2. CASE stored[p] # NoRow /\ p \in rowLocks[u]
    <3>1. Read(u, p)' = Read(u, p) /\ Figure(Snapshot(u), p)' = Figure(Snapshot(u), p)
      BY <2>2, HeldFigure
    <3>. QED BY <1>1, <1>4, <3>1 DEF Settled
  <2>3. CASE stored[p] # NoRow /\ p \notin rowLocks[u]
    <3>1. Read(u, p) = NoRow
      BY <1>4, <2>3 DEF Settled
    <3>2. p \in Rows /\ own[u][p] # Unwritten
      BY <2>3, <3>1 DEF Read, Rows
    <3>. QED BY <2>3, <3>2 DEF RowsExclusive
  <2>. QED BY <2>1, <2>2, <2>3
<1>5. ASSUME NEW p \in Parents, Touches(u, p)'
      PROVE  \/ p \in req'[u].parents
             \/ req'[u].pc \in {"summing", "writing"} /\ req'[u].at = p
             \/ req'[u].row = p /\ req'[u].due > 0
             \/ Settled(u, p)'
  BY <1>1, <1>2, <1>3, <1>4, <1>5 DEF Owes
<1>6. ASSUME Active(u, "writing"), req[u].at \in Parents
      PROVE  req'[u].value.figure = Figure(Snapshot(u), req[u].at)'
  <2>1. req[u].at \in rowLocks[u] /\ Read(u, req[u].at) # NoRow
    BY <1>6 DEF Good, Recomputes
  <2>2. stored[req[u].at] # NoRow
    BY <1>6, <2>1, GoneRead
  <2>. PICK p : p = req[u].at
    OBVIOUS
  <2>3. Figure(Snapshot(u), p)' = Figure(Snapshot(u), p)
    BY <1>6, <2>1, <2>2, HeldFigure
  <2>4. Figure(Snapshot(u), req[u].at)' = Figure(Snapshot(u), p)'
    BY <1>1
  <2>. QED BY <1>1, <1>2, <1>6, <2>3, <2>4 DEF Owes
<1>7. ASSUME OnChild(u), Active(u, "ready")
      PROVE  /\ req'[u].next # NoRow => req'[u].next.parent \in req'[u].parents
             /\ stored'[req'[u].row] # NoRow => stored'[req'[u].row].parent \in req'[u].parents
  BY <1>1, <1>2, <1>7, StaysUnder DEF Owes
<1>8. ASSUME OnParent(u), Active(u, "ready"), req[u].due = 0, stored'[req[u].row] # NoRow
      PROVE  req'[u].next.figure = Figure(stored', req[u].row) /\ EditsParent(u)'
  <2>1. req[u].row \in Parents /\ ~Active(u, "locking")
    BY <1>8 DEF Good, Shape, Active
  <2>2. stored[req[u].row] # NoRow
    BY <1>8, <2>1, ParentsKept
  <2>3. req[u].next.figure = Figure(stored, req[u].row) /\ EditsParent(u)
    BY <1>2, <1>8, <2>2 DEF Owes
  <2>. QED BY <1>1, <1>8, <2>1, <2>2, <2>3, EditStands
<1>9. Figure(stored, req[u].row)' = Figure(stored', req'[u].row)
  BY DEF Figure, ChildrenOf
<1>10. Active(u, "writing")' /\ req'[u].at \in Parents => req'[u].value.figure = Figure(Snapshot(u), req[u].at)'
  BY <1>1, <1>2, <1>6
<1>. QED BY <1>1, <1>2, <1>5, <1>7, <1>8, <1>9, <1>10 DEF Owes

LEMMA FigureStep ==
    IInv /\ FInv /\ Apart /\ (HasEvents \/ "move" \notin Operations) /\ [Next]_vars => FInv'
<1>. SUFFICES ASSUME IInv, FInv, Apart, HasEvents \/ "move" \notin Operations, [Next]_vars PROVE FInv'
  OBVIOUS
<1>1. CASE Next
  <2>1. PICK t \in Requests : Moves(t) \/ Finish(t)
    BY <1>1, NextMoves
  <2>2. CASE Finish(t)
    <3>1. ~Flying(t)'
      BY <2>2, Finishes DEF Flying, Active, Idle
    <3>2. FigureAgrees'
      BY <2>2, CommitFigures
    <3>3. \A u \in Requests : Flying(u)' => Owes(u)'
      BY <2>2, <3>1, CommitOwes
    <3>. QED BY <3>2, <3>3 DEF FInv
  <2>. QED BY <2>1, <2>2, MovesFigures
<1>2. CASE UNCHANGED vars
  <2>1. UNCHANGED <<stored, own, rowLocks, advisory, req, numbered, origin>>
    BY <1>2 DEF vars, dbState
  <2>2. FigureAgrees'
    BY <2>1 DEF FInv, FigureAgrees, Exists, Figure, ChildrenOf
  <2>3. ASSUME NEW u \in Requests, Flying(u)' PROVE Owes(u)'
    BY <2>1, <2>3, BystanderOwes DEF FInv, IInv, Flying, Active
  <2>4. \A u \in Requests : Flying(u)' => Owes(u)'
    BY <2>3
  <2>. QED BY <2>2, <2>4 DEF FInv
<1>. QED BY <1>1, <1>2

-----------------------------------------------------------------------------
(* What the runs check, for every number of requests and records.          *)

\* Every step leaves requests and rows of their kind.
THEOREM Typed == Spec /\ []Apart => []TypeOK
<1>1. IInv => TypeOK
  BY DEF IInv
<1>. QED BY <1>1, Invariance, PTL

\* "A contract's paid figure never disagrees with its instalments" (RecomputeParents): in what is
\* committed, at every moment, a parent's figure is the sum of its children, while requests are
\* kept apart and a write reads the old values, or no child is moved.
THEOREM FiguresKept ==
    ASSUME HasEvents \/ "move" \notin Operations
    PROVE  Spec /\ []Apart => []FigureAgrees
<1>1. Init => FInv
  BY InitFigures
<1>2. IInv /\ FInv /\ Apart /\ [Next]_vars => FInv'
  BY FigureStep
<1>3. FInv => FigureAgrees
  BY DEF FInv
<1>. QED BY <1>1, <1>2, <1>3, Invariance, PTL DEF Spec

\* "A value taken from a contract follows the contract" (RecomputeChildren): what a child keeps of
\* its parent is what the parent holds.
THEOREM CopiesFollow == Spec /\ []Apart => []SeenAgrees
<1>1. IInv => SeenAgrees
  BY DEF IInv, Committed
<1>. QED BY <1>1, Invariance, PTL

\* No child points at a record that is gone (deleteAllowed).
THEOREM OrphansNever == Spec /\ []Apart => []NoOrphans
<1>1. IInv => NoOrphans
  BY DEF IInv, Committed
<1>. QED BY <1>1, Invariance, PTL

\* An edge that generates does so once: "two writers cannot each find no schedule and both write
\* one" (writeLockKeys), and none is left part-written.
THEOREM GeneratedOnce == Spec /\ []Apart => []ScheduledOnce
<1>1. IInv => ScheduledOnce
  BY DEF IInv, Committed
<1>. QED BY <1>1, Invariance, PTL

-----------------------------------------------------------------------------
(* Waiting.  A circle of requests that wait on one another would hold what *)
(* the others need.  What is held: nothing before the write; a reload's    *)
(* row once nothing is left to lock; by a child's write, parents smaller   *)
(* than the ones still to lock; by a parent's edit, its own children, of   *)
(* which no other edit waits for any and which nobody writes meanwhile.    *)

Held(t) ==
    /\ ~Wrote(t) => rowLocks[t] = {}
    /\ OnReload(t) => rowLocks[t] = {} \/ (req[t].parents = {} /\ req[t].children = {})
    /\ OnChild(t) => \A p \in rowLocks[t] \cap Parents, q \in req[t].parents : p < q
    /\ OnParent(t) =>
          /\ \A c \in rowLocks[t] \cap Children :
                origin[c] = Unborn \/ (stored[c] # NoRow /\ stored[c].parent = req[t].row)
          /\ \A c \in req[t].children : stored[c] = NoRow \/ stored[c].parent = req[t].row
          /\ Computed(t) /\ req[t].follow /\ stored[req[t].row] # NoRow => EditsParent(t)
          /\ Active(t, "listing") \/ req[t].children # {} => req[t].follow /\ Wrote(t)
          /\ req[t].op = "edit" /\ req[t].next.taken /\ stored[req[t].row] # NoRow => stored[req[t].row].taken
          /\ req[t].due > 0 => req[t].op = "generate"
    /\ \A l \in Parents \cup {NumberLock} : advisory[l] = t => Flying(t) /\ ~Active(t, "locking") /\ ~OnReload(t)
    /\ advisory[NumberLock] = t =>
          \/ req[t].op = "create"
          \/ OnParent(t) /\ Wrote(t) /\ ~Active(t, "listing") /\ req[t].children = {}

HInv == \A t \in Requests : Held(t)

\* A child's write that waits for a parent to recompute.
Queued(t) == OnChild(t) /\ Active(t, "written") /\ req[t].parents # {}

\* Who holds a row and waits is a child's write in the queue for its parents, or a parent's edit.
LEMMA HolderWaits ==
    ASSUME IInv, NEW t \in Requests, Held(t), NEW u \in Requests, WaitsFor(t, u), rowLocks[t] # {}
    PROVE  Active(t, "written") /\ Wrote(t) /\ (Queued(t) \/ OnParent(t))
<1>. USE DEF IInv
<1>1. Wrote(t) /\ Flying(t)
  BY DEF Held, Wrote, Computed
<1>2. Active(t, "written")
  BY <1>1 DEF WaitsFor, Generating, Wrote, Computed, Active
<1>3. \/ Generating(t)
      \/ req[t].parents # {}
      \/ req[t].children # {}
  BY <1>1, <1>2 DEF WaitsFor, Wrote, Computed, Active
<1>4. OnChild(t) \/ OnParent(t) \/ OnRemove(t) \/ OnReload(t)
  BY <1>1, Kinds
<1>5. CASE OnReload(t)
  <2>1. ~OnParent(t)
    BY <1>5 DEF OnReload, OnParent
  <2>2. req[t].parents = {} /\ req[t].children = {} /\ req[t].due = 0
    BY <1>1, <1>5, <2>1 DEF Held, Good, Shape
  <2>. QED BY <1>3, <2>2 DEF Generating
<1>6. CASE OnRemove(t)
  <2>1. ~OnParent(t) /\ ~OnReload(t)
    BY <1>6 DEF OnReload, OnParent, OnRemove
  <2>2. req[t].parents = {} /\ req[t].children = {} /\ req[t].due = 0
    BY <1>1, <1>6, <2>1 DEF Good, Shape
  <2>. QED BY <1>3, <2>2 DEF Generating
<1>7. CASE OnChild(t)
  <2>1. ~OnParent(t) /\ ~OnReload(t)
    BY <1>7 DEF OnReload, OnParent, OnChild
  <2>2. req[t].children = {} /\ req[t].due = 0
    BY <1>1, <1>7, <2>1 DEF Good, Shape
  <2>. QED BY <1>1, <1>2, <1>3, <1>7, <2>2 DEF Generating, Queued
<1>. QED BY <1>1, <1>2, <1>4, <1>5, <1>6, <1>7

\* An edit of a parent that has written it waits for nobody who waits.
LEMMA EditMoves ==
    ASSUME IInv, HInv, Apart, NumbersApart, NEW t \in Requests, OnParent(t), Active(t, "written"),
           NEW u \in Requests, WaitsFor(t, u), NEW v \in Requests, WaitsFor(u, v)
    PROVE  FALSE
<1>. USE DEF IInv
<1>1. /\ Flying(t) /\ Wrote(t) /\ Held(t) /\ Held(u) /\ Shape(t) /\ req[t] \in Jobs
      /\ req[t].row \in Parents /\ req[t].parents \subseteq {req[t].row}
  BY FlyingType DEF HInv, Good, Shape, Active, Flying, Computed, Wrote, OnParent
<1>2. ASSUME NEW x \in Requests, OnParent(x), Wrote(x) PROVE req[x].row \in rowLocks[x]
  BY <1>2, FiguresAssumption DEF Good, Owns, Shape, RowsExclusive, Rows, Cells
<1>3. ~(Active(t, "written") /\ req[t].parents # {} /\ WaitsForRow(t, u, NextParent(t)))
  <2>. SUFFICES ASSUME req[t].parents # {}, WaitsForRow(t, u, NextParent(t)) PROVE FALSE
    OBVIOUS
  <2>1. NextParent(t) = req[t].row
    BY <1>1, NextParentIn
  <2>. QED BY <1>1, <1>2, <2>1 DEF WaitsForRow, RowsExclusive
<1>4. ~(Generating(t) /\ numbered /\ WaitsForLock(t, u, NumberLock))
  <2>. SUFFICES ASSUME Generating(t), numbered, WaitsForLock(t, u, NumberLock) PROVE FALSE
    OBVIOUS
  <2>1. t # u /\ advisory[NumberLock] = u /\ Flying(u)
    BY DEF WaitsForLock, HInv, Held
  <2>2. req[t].op = "generate"
    BY <1>1 DEF Held, Generating
  <2>3. req[u].op # "create"
    BY <1>1, <2>1, <2>2 DEF NumbersApart, Flying
  <2>4. OnParent(u) /\ Wrote(u) /\ req[u].children = {}
    BY <1>1, <2>1, <2>3 DEF Held
  <2>5. rowLocks[u] # {} /\ req[u].row \in rowLocks[u]
    BY <1>2, <2>4
  <2>6. Active(u, "written")
    BY <1>1, <2>5, HolderWaits
  <2>7. req[u].parents # {} => NextParent(u) = req[u].row
    BY <2>1, <2>4, NextParentIn DEF Good, Shape
  <2>8. ~(req[u].parents # {} /\ WaitsForRow(u, v, NextParent(u)))
    BY <2>5, <2>7 DEF WaitsForRow, RowsExclusive
  <2>9. ~WaitsForLock(u, v, NumberLock)
    BY <2>1 DEF WaitsForLock
  <2>. QED BY <2>4, <2>6, <2>8, <2>9 DEF WaitsFor, Active
<1>5. PICK c \in req[t].children : WaitsForRow(t, u, c)
  BY <1>3, <1>4 DEF WaitsFor, Active
<1>6. t # u /\ c \in rowLocks[u] /\ c \in Children /\ c \notin Parents /\ origin[c] # Unborn
  <2>1. t # u /\ c \in rowLocks[u] /\ c \in Children
    BY <1>1, <1>5 DEF WaitsForRow, Jobs
  <2>. QED BY <1>1, <2>1, FiguresAssumption DEF Good, Known
<1>7. Active(u, "written") /\ Wrote(u) /\ (Queued(u) \/ OnParent(u))
  BY <1>1, <1>6, HolderWaits
<1>8. CASE OnChild(u)
  <2>1. stored[req[t].row] # NoRow
    BY <1>1 DEF Good, Owns
  <2>2. EditsParent(t)
    BY <1>1, <1>5, <2>1 DEF Held, Wrote
  <2>3. req[u].op \in {"create", "update", "move", "delete"} /\ ~Collide(t, u)
    BY <1>1, <1>6, <1>8 DEF Apart, OnChild, Flying
  <2>. QED BY <2>2, <2>3 DEF Collide
<1>9. CASE OnParent(u)
  <2>1. stored[c] # NoRow /\ stored[c].parent = req[u].row
    BY <1>1, <1>6, <1>9 DEF Held
  <2>2. stored[c].parent = req[t].row
    BY <1>1, <1>5, <2>1 DEF Held
  <2>3. req[t].row \in rowLocks[t] /\ req[u].row \in rowLocks[u]
    BY <1>1, <1>2, <1>7, <1>9
  <2>. QED BY <1>6, <2>1, <2>2, <2>3 DEF RowsExclusive
<1>. QED BY <1>7, <1>8, <1>9 DEF Queued

\* Of a finite set of numbered things one has the largest number.
LEMMA Largest ==
    ASSUME NEW S, IsFiniteSet(S), S # {}, NEW f \in [S -> Nat]
    PROVE  \E x \in S : \A y \in S : f[y] <= f[x]
<1>. DEFINE Tops(T) == {x \in T : \A y \in T : f[y] <= f[x]}
            Bad == {n \in Nat : \E T \in SUBSET S : T # {} /\ Cardinality(T) = n /\ Tops(T) = {}}
<1>1. SUFFICES ASSUME Tops(S) = {} PROVE FALSE
  OBVIOUS
<1>2. Cardinality(S) \in Bad
  <2>1. Cardinality(S) \in Nat
    BY FS_CardinalityType
  <2>. QED BY <1>1, <2>1
<1>3. PICK n \in Bad : \A m \in Bad : n <= m
  <2>1. Bad \subseteq Nat /\ Bad # {}
    BY <1>2
  <2>. HIDE DEF Bad
  <2>. QED BY <2>1, Smallest
<1>4. PICK T \in SUBSET S : T # {} /\ Cardinality(T) = n /\ Tops(T) = {}
  OBVIOUS
<1>5. PICK s : s = T \ {Some(T)}
  OBVIOUS
<1>6. /\ s \in SUBSET S /\ Cardinality(s) \in Nat /\ Cardinality(s) < n
      /\ Some(T) \in T /\ \A y \in T : y = Some(T) \/ y \in s
  <2>1. /\ T \ {Some(T)} \in SUBSET S
        /\ Cardinality(T) \in Nat /\ Cardinality(T) > 0
        /\ Cardinality(T \ {Some(T)}) = Cardinality(T) - 1
    BY <1>4, Smaller
  <2>2. Some(T) \in T
    BY <1>4 DEF Some
  <2>. QED BY <1>4, <1>5, <2>1, <2>2
<1>7. PICK a : a = Some(T)
  OBVIOUS
<1>8. CASE s = {}
  <2>1. a \in Tops(T)
    BY <1>4, <1>6, <1>7, <1>8
  <2>. QED BY <1>4, <2>1
<1>9. CASE s # {}
  <2>1. Cardinality(s) \notin Bad
    BY <1>3, <1>6
  <2>2. PICK x \in s : \A y \in s : f[y] <= f[x]
    BY <1>6, <1>9, <2>1
  <2>3. x \in T /\ a \in T /\ f[x] \in Nat /\ f[a] \in Nat /\ \A y \in T : f[y] \in Nat
    BY <1>4, <1>5, <1>6, <1>7, <2>2
  <2>4. CASE f[a] <= f[x]
    <3>1. x \in Tops(T)
      BY <1>6, <1>7, <2>2, <2>3, <2>4
    <3>. QED BY <1>4, <3>1
  <2>5. CASE f[x] < f[a]
    <3>1. a \in Tops(T)
      BY <1>6, <1>7, <2>2, <2>3, <2>5
    <3>. QED BY <1>4, <3>1
  <2>. QED BY <2>3, <2>4, <2>5
<1>. QED BY <1>8, <1>9

\* Requests that all wait would be queueing for parents, each for a larger one than the last.
LEMMA Queueing ==
    ASSUME IInv, HInv, Apart, NumbersApart, IsFiniteSet(Requests)
    PROVE  NoWaitCycle
<1>. USE DEF IInv
<1>. SUFFICES ASSUME NEW S \in SUBSET Requests, S # {}, \A t \in S : \E u \in S : WaitsFor(t, u)
              PROVE  FALSE
  BY DEF NoWaitCycle
<1>1. ASSUME NEW t \in S, NEW u \in S, WaitsFor(t, u), ~Active(t, "locking")
      PROVE  Queued(u)
  <2>1. PICK v \in S, w \in S : WaitsFor(u, v) /\ WaitsFor(v, w)
    OBVIOUS
  <2>2. CASE Generating(t)
    <3>1. OnParent(t) /\ Active(t, "written")
      BY <2>2 DEF Generating, Good, Shape, Active, Flying
    <3>. QED BY <1>1, <2>1, <3>1, EditMoves
  <2>3. CASE ~Generating(t)
    <3>1. \E r : r \in rowLocks[u]
      BY <1>1, <2>3 DEF WaitsFor, WaitsForRow
    <3>2. Active(u, "written") /\ (Queued(u) \/ OnParent(u))
      BY <2>1, <3>1, HolderWaits DEF HInv
    <3>. QED BY <2>1, <3>2, EditMoves
  <2>. QED BY <2>2, <2>3
<1>2. \E t \in S : Queued(t)
  <2>1. PICK t \in S, u \in S, v \in S : WaitsFor(t, u) /\ WaitsFor(u, v)
    OBVIOUS
  <2>2. CASE Active(t, "locking")
    <3>1. advisory[LockOf(t)] = u
      BY <2>1, <2>2 DEF WaitsFor, WaitsForLock, WaitsForRow, Generating, Active
    <3>2. LockOf(t) \in Parents \cup {NumberLock}
      <4>1. req[t].op = "create" \/ req[t].row \in Parents
        BY <2>2 DEF Good, Shape
      <4>. QED BY <4>1 DEF LockOf
    <3>3. ~Active(u, "locking")
      BY <3>1, <3>2 DEF HInv, Held
    <3>. QED BY <1>1, <2>1, <3>3
  <2>. QED BY <1>1, <2>1, <2>2
<1>. DEFINE R == {t \in S : Queued(t)}
            f == [t \in R |-> NextParent(t)]
<1>3. ASSUME NEW t \in R
      PROVE  NextParent(t) \in req[t].parents /\ NextParent(t) \in Parents /\ NextParent(t) \in Nat
  BY NextParentIn, FiguresAssumption DEF Queued, OnChild
<1>4. PICK t \in R : \A u \in R : NextParent(u) <= NextParent(t)
  <2>1. R # {} /\ IsFiniteSet(R) /\ f \in [R -> Nat]
    <3>1. R # {} /\ R \subseteq Requests
      BY <1>2
    <3>. QED BY <1>3, <3>1, FS_Subset
  <2>2. PICK t \in R : \A u \in R : f[u] <= f[t]
    <3>. HIDE DEF R, f
    <3>. QED BY <2>1, Largest
  <2>. QED BY <2>2
<1>5. PICK u \in S : WaitsFor(t, u)
  OBVIOUS
<1>6. Active(t, "written") /\ req[t].parents # {} /\ ~Active(t, "locking")
  BY DEF Queued, Active
<1>7. u \in R
  BY <1>1, <1>5, <1>6
<1>8. NextParent(t) \in rowLocks[u]
  BY <1>5, <1>6 DEF WaitsFor, WaitsForRow, Generating, Active
<1>9. NextParent(t) < NextParent(u)
  BY <1>3, <1>7, <1>8 DEF HInv, Held, Queued
<1>. QED BY <1>3, <1>4, <1>7, <1>9

-----------------------------------------------------------------------------
(* What is held is held so: the invariant of the steps.                    *)

LEMMA HeldBystander ==
    ASSUME NEW t \in Requests, Held(t),
           UNCHANGED <<stored, origin>>, req'[t] = req[t], rowLocks'[t] = rowLocks[t],
           \A l \in Parents \cup {NumberLock} : advisory'[l] = t => advisory[l] = t
    PROVE  Held(t)'
<1>1. /\ \A pc : Active(t, pc)' = Active(t, pc)
      /\ Flying(t)' = Flying(t) /\ Computed(t)' = Computed(t) /\ Wrote(t)' = Wrote(t)
      /\ OnChild(t)' = OnChild(t) /\ OnParent(t)' = OnParent(t) /\ OnReload(t)' = OnReload(t)
      /\ EditsParent(t)' = EditsParent(t)
  BY DEF Active, Flying, Computed, Wrote, OnChild, OnParent, OnReload, EditsParent, Exists
<1>. QED BY <1>1 DEF Held

\* A lock another request takes, or gives back, is not this one's.
LEMMA NoGift ==
    ASSUME TypeOK, NEW t \in Requests, Local(t), NEW u \in Requests \ {t}
    PROVE  \A l \in Parents \cup {NumberLock} : advisory'[l] = u => advisory[l] = u
<1>1. ASSUME NEW k \in Parents \cup {NumberLock}, AdvisoryLock(t, k)
      PROVE  \A l \in Parents \cup {NumberLock} : advisory'[l] = u => advisory[l] = u
  BY <1>1 DEF AdvisoryLock, TypeOK
<1>2. CASE Rollback(t)
  BY <1>2, FiguresAssumption DEF Rollback, EndTx
<1>. QED BY <1>1, <1>2 DEF Local, SelectForUpdate, WriteRow

\* Nothing is held before the write but a lock.
LEMMA HeldEarly ==
    ASSUME NEW t \in Requests, rowLocks'[t] = {}, UNCHANGED stored, req'[t].pc # "listing",
           req'[t].children = {},
           OnParent(t)' =>
              /\ Computed(t)' /\ req'[t].follow /\ stored[req'[t].row] # NoRow => EditsParent(t)'
              /\ req'[t].op = "edit" /\ req'[t].next.taken /\ stored[req'[t].row] # NoRow =>
                    stored[req'[t].row].taken
              /\ req'[t].due > 0 => req'[t].op = "generate",
           \A l \in Parents \cup {NumberLock} :
              advisory'[l] = t => Flying(t)' /\ req'[t].pc # "locking" /\ req'[t].op # "reload",
           advisory'[NumberLock] = t => req'[t].op = "create"
    PROVE  Held(t)'
<1>1. ~Active(t, "listing")' /\ (Active(t, "locking")' <=> req'[t].pc = "locking")
      /\ (OnReload(t)' => req'[t].op = "reload")
  BY DEF Active, OnReload
<1>. QED BY <1>1 DEF Held

LEMMA HeldIdle ==
    ASSUME NEW t \in Requests, req'[t] = Idle, rowLocks'[t] = {},
           \A l \in Parents \cup {NumberLock} : advisory'[l] # t
    PROVE  Held(t)'
<1>1. ~Flying(t)' /\ ~OnChild(t)' /\ ~OnParent(t)' /\ ~OnReload(t)'
  BY DEF Flying, Active, Idle, OnChild, OnParent, OnReload
<1>. QED BY <1>1 DEF Held

LEMMA HeldRefuse ==
    ASSUME TypeOK, NEW t \in Requests, Refuse(t)
    PROVE  Held(t)'
<1>1. req'[t] = Idle /\ rowLocks'[t] = {} /\ \A l \in Parents \cup {NumberLock} : advisory'[l] # t
  BY FiguresAssumption DEF Refuse, Step, Rollback, EndTx, TypeOK
<1>. QED BY <1>1, HeldIdle

\* After the write a request stays what it is: what it locks, and what it has yet to lock.
LEMMA HeldOn ==
    ASSUME NEW t \in Requests, Held(t), Computed(t), UNCHANGED <<stored, origin>>,
           req'[t].op = req[t].op, req'[t].row = req[t].row, req'[t].next = req[t].next,
           req'[t].follow = req[t].follow, req'[t].due > 0 => req[t].due > 0,
           req'[t].pc \notin {"idle", "locking", "begun", "paged", "ready"},
           OnReload(t) => rowLocks'[t] = {} \/ (req'[t].parents = {} /\ req'[t].children = {}),
           OnChild(t) => \A p \in rowLocks'[t] \cap Parents, q \in req'[t].parents : p < q,
           OnParent(t) =>
              /\ \A c \in rowLocks'[t] \cap Children :
                    c \in rowLocks[t] \/ origin[c] = Unborn \/ (stored[c] # NoRow /\ stored[c].parent = req[t].row)
              /\ \A c \in req'[t].children :
                    c \in req[t].children \/ stored[c] = NoRow \/ stored[c].parent = req[t].row
              /\ req'[t].pc = "listing" \/ req'[t].children # {} => req[t].follow,
           \A l \in Parents \cup {NumberLock} :
              advisory'[l] = t => advisory[l] = t \/ (l = NumberLock /\ OnParent(t)),
           advisory'[NumberLock] = t /\ OnParent(t) => req'[t].pc # "listing" /\ req'[t].children = {}
    PROVE  Held(t)'
<1>1. /\ Flying(t)' /\ Flying(t) /\ Computed(t)' /\ Wrote(t)' /\ ~Active(t, "locking")'
      /\ Active(t, "listing")' <=> req'[t].pc = "listing"
  BY DEF Flying, Computed, Wrote, Active
<1>2. /\ OnChild(t)' = OnChild(t) /\ OnParent(t)' = OnParent(t) /\ OnReload(t)' = OnReload(t)
      /\ EditsParent(t)' = EditsParent(t)
  BY <1>1 DEF OnChild, OnParent, OnReload, EditsParent, Exists
<1>3. OnReload(t)' => \A l \in Parents \cup {NumberLock} : advisory'[l] # t
  BY <1>2 DEF Held, OnReload, OnParent
<1>4. advisory'[NumberLock] = t => req'[t].op = "create" \/ OnParent(t)
  BY DEF Held
<1>5. /\ ~Wrote(t)' => rowLocks'[t] = {}
      /\ OnReload(t)' => rowLocks'[t] = {} \/ (req'[t].parents = {} /\ req'[t].children = {})
      /\ OnChild(t)' => \A p \in rowLocks'[t] \cap Parents, q \in req'[t].parents : p < q
  BY <1>1, <1>2
<1>6. OnParent(t)' =>
          /\ \A c \in rowLocks'[t] \cap Children :
                origin'[c] = Unborn \/ (stored'[c] # NoRow /\ stored'[c].parent = req'[t].row)
          /\ \A c \in req'[t].children : stored'[c] = NoRow \/ stored'[c].parent = req'[t].row
          /\ Computed(t)' /\ req'[t].follow /\ stored'[req'[t].row] # NoRow => EditsParent(t)'
          /\ Active(t, "listing")' \/ req'[t].children # {} => req'[t].follow /\ Wrote(t)'
          /\ req'[t].op = "edit" /\ req'[t].next.taken /\ stored'[req'[t].row] # NoRow => stored'[req'[t].row].taken
          /\ req'[t].due > 0 => req'[t].op = "generate"
  BY <1>1, <1>2 DEF Held
<1>. QED BY <1>1, <1>2, <1>3, <1>4, <1>5, <1>6 DEF Held

LEMMA HeldBegins ==
    ASSUME IInv, NEW t \in Requests, Held(t),
           NEW op, NEW r, NEW next, Begin(t, op, r, next), Begins(op, r, next)
    PROVE  Held(t)'
<1>. USE DEF IInv
<1>1. /\ rowLocks[t] = {} /\ \A l \in Parents \cup {NumberLock} : advisory[l] # t
      /\ UNCHANGED <<stored, rowLocks, advisory>>
  BY DEF Held, Begin, Wrote, Computed, Flying, dbState
<1>2. /\ req'[t].op = op /\ req'[t].row = r /\ req'[t].next = next
      /\ req'[t].children = {} /\ ~req'[t].follow /\ req'[t].due = 0 /\ req'[t].pc \in {"locking", "begun"}
  BY DEF Begin, Step, TypeOK
<1>3. OnParent(t)' => op \in {"edit", "generate"}
  BY <1>2 DEF OnParent
<1>4. OnParent(t)' /\ op = "edit" /\ next.taken /\ stored[r] # NoRow => stored[r].taken
  BY DEF Begins
<1>5. req'[t].pc # "listing" /\ ~(req'[t].due > 0)
  BY <1>2
<1>. QED BY <1>1, <1>2, <1>4, <1>5, HeldEarly

LEMMA HeldReads ==
    ASSUME IInv, NEW t \in Requests, Held(t), ReadPage(t)
    PROVE  Held(t)'
<1>. USE DEF IInv
<1>1. /\ rowLocks[t] = {} /\ \A l \in Parents \cup {NumberLock} : advisory[l] # t
      /\ UNCHANGED <<stored, rowLocks, advisory>>
  BY DEF Held, ReadPage, Wrote, Computed, Flying, dbState
<1>2. req'[t].op = "reload" /\ req'[t].children = {} /\ req'[t].pc = "paged"
  BY DEF ReadPage, Step, TypeOK
<1>3. ~OnParent(t)'
  BY <1>2 DEF OnParent
<1>. QED BY <1>1, <1>2, <1>3, HeldEarly

LEMMA HeldTakes ==
    ASSUME IInv, NEW t \in Requests, Held(t), TakeLock(t)
    PROVE  Held(t)'
<1>. USE DEF IInv
<1>1. /\ Active(t, "locking") /\ Flying(t) /\ ~Computed(t) /\ ~Wrote(t) /\ req[t] \in Jobs
      /\ req'[t] = [req[t] EXCEPT !.pc = "begun"] /\ AdvisoryLock(t, LockOf(t)) /\ UNCHANGED <<stored, rowLocks>>
  BY FlyingType DEF TakeLock, Step, AdvisoryLock, TypeOK, Active, Flying, Computed, Wrote
<1>2. /\ req'[t].pc = "begun" /\ req'[t].op = req[t].op /\ req'[t].row = req[t].row /\ req'[t].next = req[t].next
      /\ req'[t].children = req[t].children /\ req'[t].due = req[t].due
  BY <1>1 DEF Jobs
<1>3. /\ Flying(t)' /\ ~Computed(t)' /\ rowLocks'[t] = {} /\ OnParent(t)' = OnParent(t)
      /\ req[t].children = {} /\ req[t].due = 0
  BY <1>1, <1>2 DEF Flying, Computed, Active, OnParent, Held, Good, Shape
<1>4. LockOf(t) = NumberLock => req[t].op = "create"
  <2>1. req[t].op # "create" => req[t].row \in Parents
    BY <1>1 DEF Good, Shape
  <2>. QED BY <2>1, FiguresAssumption DEF LockOf
<1>5. /\ \A l \in Parents \cup {NumberLock} : advisory'[l] = t => advisory[l] = t \/ l = LockOf(t)
      /\ \A l \in Parents \cup {NumberLock} : advisory[l] # t
  BY <1>1 DEF AdvisoryLock, TypeOK, Held
<1>6. req[t].op # "reload"
  BY <1>1 DEF Good, Shape, OnParent, OnRemove
<1>7. OnParent(t)' =>
         (req'[t].op = "edit" /\ req'[t].next.taken /\ stored[req'[t].row] # NoRow
             => stored[req'[t].row].taken)
  BY <1>2, <1>3 DEF Held
<1>8. advisory'[NumberLock] = t => req'[t].op = "create"
  BY <1>2, <1>4, <1>5
<1>9. req'[t].pc \notin {"listing", "locking"} /\ req'[t].op # "reload" /\ req'[t].children = {} /\ ~(req'[t].due > 0)
  BY <1>2, <1>3, <1>6
<1>10. \A l \in Parents \cup {NumberLock} :
          advisory'[l] = t => Flying(t)' /\ req'[t].pc # "locking" /\ req'[t].op # "reload"
  BY <1>3, <1>9
<1>. QED BY <1>1, <1>3, <1>7, <1>8, <1>9, <1>10, HeldEarly

\* What a request that is ready to write holds.
LEMMA HeldReady ==
    ASSUME IInv, NEW t \in Requests, Held(t), Active(t, "begun"), UNCHANGED <<stored, rowLocks, advisory>>,
           req'[t].pc = "ready", req'[t].op = req[t].op, req'[t].row = req[t].row,
           req'[t].children = req[t].children,
           OnParent(t) =>
              /\ req'[t].next.taken <=> req[t].next.taken
              /\ req'[t].follow /\ stored[req[t].row] # NoRow => EditsParent(t)'
              /\ req'[t].due > 0 => req[t].op = "generate"
    PROVE  Held(t)'
<1>. USE DEF IInv
<1>1. /\ Flying(t) /\ ~Computed(t) /\ ~Wrote(t) /\ req[t].children = {} /\ rowLocks'[t] = {}
      /\ OnParent(t)' = OnParent(t) /\ Flying(t)'
  BY DEF Flying, Computed, Wrote, Active, OnParent, Held, Good, Shape
<1>2. req[t].op # "reload"
  BY DEF Good, Shape, OnReload, Flying, Active
<1>3. /\ \A l \in Parents \cup {NumberLock} :
            advisory'[l] = t => Flying(t)' /\ req'[t].pc # "locking" /\ req'[t].op # "reload"
      /\ advisory'[NumberLock] = t => req'[t].op = "create"
  BY <1>1, <1>2 DEF Held
<1>4. OnParent(t)' =>
         (req'[t].op = "edit" /\ req'[t].next.taken /\ stored[req'[t].row] # NoRow
             => stored[req'[t].row].taken)
  BY <1>1 DEF Held
<1>. QED BY <1>1, <1>3, <1>4, HeldEarly

LEMMA HeldComputes ==
    ASSUME IInv, NEW t \in Requests, Held(t), ComputeChild(t) \/ ComputeDelete(t) \/ CheckRemove(t)
    PROVE  Held(t)'
<1>. USE DEF IInv
<1>1. CASE Refuse(t)
  BY <1>1, HeldRefuse
<1>. SUFFICES ASSUME ~Refuse(t) PROVE Held(t)'
  BY <1>1
<1>2. /\ Active(t, "begun") /\ Flying(t) /\ ~OnParent(t) /\ req[t] \in Jobs
      /\ UNCHANGED <<stored, rowLocks, advisory>>
  BY FlyingType DEF ComputeChild, ComputeDelete, CheckRemove, IsChildWrite, Active, Flying, OnParent, dbState
<1>3. \/ \E seen, parents : req'[t] = [req[t] EXCEPT !.pc = "ready", !.next.seen = seen, !.parents = parents]
      \/ \E parents : req'[t] = [req[t] EXCEPT !.pc = "ready", !.parents = parents]
      \/ req'[t] = [req[t] EXCEPT !.pc = "ready"]
  <2>1. CASE ComputeChild(t)
    <3>. PICK seen, parents : /\ seen = Read(t, req[t].next.parent).note
                              /\ parents = {req[t].next.parent} \cup {old.parent : old \in Old(t)}
      OBVIOUS
    <3>1. req'[t] = [req[t] EXCEPT !.pc = "ready", !.next.seen = seen, !.parents = parents]
      BY <2>1 DEF ComputeChild, Step, TypeOK
    <3>. QED BY <3>1
  <2>2. CASE ComputeDelete(t)
    BY <2>2 DEF ComputeDelete, Step, TypeOK
  <2>3. CASE CheckRemove(t)
    BY <2>3 DEF CheckRemove, Step, TypeOK
  <2>. QED BY <2>1, <2>2, <2>3
<1>4. /\ req'[t].pc = "ready" /\ req'[t].op = req[t].op /\ req'[t].row = req[t].row
      /\ req'[t].children = req[t].children
  BY <1>2, <1>3 DEF Jobs
<1>. QED BY <1>2, <1>4, HeldReady

LEMMA HeldEdits ==
    ASSUME IInv, HasEvents, NEW t \in Requests, Held(t), ComputeParent(t)
    PROVE  Held(t)'
<1>. USE DEF IInv
<1>1. CASE Refuse(t)
  BY <1>1, HeldRefuse
<1>. SUFFICES ASSUME ~Refuse(t) PROVE Held(t)'
  BY <1>1
<1>. PICK p, row, figure, follow, due :
        /\ p = req[t].row /\ row = Read(t, p) /\ figure = Figure(Snapshot(t), p)
        /\ follow = (\A old \in Old(t) : old.note # req[t].next.note)
        /\ due = IF ~row.taken /\ req[t].next.taken THEN Len(Schedule) ELSE 0
  OBVIOUS
<1>2. /\ Active(t, "begun") /\ Flying(t) /\ OnParent(t) /\ ~Wrote(t) /\ req[t] \in Jobs
      /\ UNCHANGED <<stored, rowLocks, advisory>> /\ row # NoRow
  BY FlyingType DEF ComputeParent, Active, Flying, OnParent, Computed, Wrote, dbState
<1>3. req'[t] = [req[t] EXCEPT !.pc = "ready", !.next.figure = figure, !.follow = follow, !.due = due]
  BY Zenon DEF ComputeParent, Step, TypeOK
<1>4. p \in Parents /\ req[t].next \in ParentRows /\ row = stored[p]
  <2>1. own[t] = NoWrites /\ p \in Parents /\ req[t].next \in ParentRows
    BY <1>2 DEF Good, Owns, Shape
  <2>. QED BY <2>1, CleanRead DEF Rows
<1>5. /\ req'[t].pc = "ready" /\ req'[t].op = req[t].op /\ req'[t].row = p
      /\ req'[t].children = req[t].children /\ req'[t].follow = follow /\ req'[t].due = due
      /\ req'[t].next.taken = req[t].next.taken /\ req'[t].next.note = req[t].next.note
  BY <1>2, <1>3, <1>4 DEF Jobs, ParentRows
<1>6. follow => stored[p].note # req[t].next.note
  BY <1>2, <1>4 DEF Old
<1>7. follow => EditsParent(t)'
  BY <1>2, <1>4, <1>5, <1>6 DEF EditsParent, OnParent, Exists
<1>8. due > 0 => req[t].op = "generate"
  BY <1>2, <1>4 DEF Held, OnParent
<1>. QED BY <1>2, <1>5, <1>7, <1>8, HeldReady

LEMMA HeldWrites ==
    ASSUME IInv, NEW t \in Requests, Held(t), Write(t)
    PROVE  Held(t)'
<1>. USE DEF IInv
<1>. PICK r, next : r = req[t].row /\ next = req[t].next
  OBVIOUS
<1>1. CASE Refuse(t)
  BY <1>1, HeldRefuse
<1>. SUFFICES ASSUME ~Refuse(t) PROVE Held(t)'
  BY <1>1
<1>2. /\ req'[t] = [req[t] EXCEPT !.pc = IF req[t].follow THEN "listing" ELSE "written"]
      /\ WriteRow(t, r, next) /\ UNCHANGED origin
  BY DEF Write, Step, TypeOK
<1>3. Active(t, "ready") /\ Flying(t) /\ Computed(t) /\ ~Wrote(t) /\ req[t] \in Jobs
  BY FlyingType DEF Write, Active, Flying, Computed, Wrote
<1>4. /\ req'[t].op = req[t].op /\ req'[t].row = req[t].row /\ req'[t].next = req[t].next
      /\ req'[t].parents = req[t].parents /\ req'[t].children = req[t].children
      /\ req'[t].follow = req[t].follow /\ req'[t].due = req[t].due
      /\ req'[t].pc = IF req[t].follow THEN "listing" ELSE "written"
  BY <1>2, <1>3 DEF Jobs
<1>5. UNCHANGED <<stored, advisory>> /\ rowLocks'[t] = {r}
  <2>1. r \in Rows /\ next \in Cells
    BY <1>3 DEF Jobs
  <2>. QED BY <1>2, <1>3, <2>1, Writes DEF Held
<1>6. /\ ~OnReload(t)
      /\ OnChild(t) => r \notin Parents
      /\ OnParent(t) => r \notin Children
  BY <1>3, FiguresAssumption DEF Good, Shape, Active
<1>7. advisory[NumberLock] = t => ~OnParent(t)
  BY <1>3 DEF Held, OnParent
<1>8. OnParent(t) => (req[t].children # {} => req[t].follow)
  BY DEF Held
<1>. QED BY <1>2, <1>3, <1>4, <1>5, <1>6, <1>7, <1>8, HeldOn

LEMMA HeldLists ==
    ASSUME IInv, NEW t \in Requests, Held(t), ListChildren(t)
    PROVE  Held(t)'
<1>. USE DEF IInv
<1>. PICK below : below = ChildrenOf(Snapshot(t), req[t].row)
  OBVIOUS
<1>1. /\ Active(t, "listing") /\ Flying(t) /\ Computed(t) /\ Wrote(t) /\ req[t] \in Jobs
      /\ req'[t] = [req[t] EXCEPT !.pc = "written", !.children = below]
      /\ UNCHANGED <<stored, rowLocks, advisory, origin>>
  BY FlyingType DEF ListChildren, Active, Flying, Computed, Wrote, Step, TypeOK, dbState
<1>2. /\ req'[t].op = req[t].op /\ req'[t].row = req[t].row /\ req'[t].next = req[t].next
      /\ req'[t].parents = req[t].parents /\ req'[t].children = below
      /\ req'[t].follow = req[t].follow /\ req'[t].due = req[t].due /\ req'[t].pc = "written"
  BY <1>1 DEF Jobs
<1>3. OnParent(t)
  BY <1>1 DEF Good, Shape, Active
<1>4. \A c \in below : stored[c].parent = req[t].row
  <2>1. \A c \in Children : own[t][c] = Unwritten
    BY <1>1, <1>3 DEF Good, Owns
  <2>. QED BY <2>1 DEF ChildrenOf, Snapshot, Read, Rows
<1>5. req[t].follow /\ advisory[NumberLock] # t /\ ~OnReload(t) /\ ~OnChild(t)
  BY <1>1, <1>3 DEF Held, OnParent, OnReload, OnChild
<1>. QED BY <1>1, <1>2, <1>3, <1>4, <1>5, HeldOn

\* The parents of a child's write are locked in their order.
LEMMA HeldLocksParent ==
    ASSUME IInv, NEW t \in Requests, Held(t), LockParent(t)
    PROVE  Held(t)'
<1>. USE DEF IInv
<1>. PICK p : p = NextParent(t)
  OBVIOUS
<1>1. /\ Active(t, "written") /\ Flying(t) /\ Computed(t) /\ Wrote(t) /\ req[t] \in Jobs /\ req[t].parents # {}
      /\ req'[t] = [req[t] EXCEPT !.pc = "summing", !.at = p, !.parents = @ \ {p}]
      /\ SelectForUpdate(t, p) /\ UNCHANGED <<stored, advisory, origin>>
  BY FlyingType DEF LockParent, Active, Flying, Computed, Wrote, Step, SelectForUpdate, TypeOK
<1>2. /\ req'[t].op = req[t].op /\ req'[t].row = req[t].row /\ req'[t].next = req[t].next
      /\ req'[t].parents = req[t].parents \ {p} /\ req'[t].children = req[t].children
      /\ req'[t].follow = req[t].follow /\ req'[t].due = req[t].due /\ req'[t].pc = "summing"
  BY <1>1 DEF Jobs
<1>3. p \in req[t].parents /\ p \in Parents /\ p \notin Children /\ \A q \in req[t].parents : p <= q
  <2>1. req[t].parents \subseteq Parents /\ req[t].parents \subseteq Nat
    BY <1>1, FiguresAssumption DEF Jobs
  <2>2. PICK n \in req[t].parents : \A m \in req[t].parents : n <= m
    BY <1>1, <2>1, Smallest
  <2>3. p \in req[t].parents /\ \A q \in req[t].parents : p <= q
    BY <2>2 DEF NextParent, Min
  <2>. QED BY <2>1, <2>3, FiguresAssumption
<1>4. \A q \in rowLocks'[t] : q = p \/ q \in rowLocks[t]
  BY <1>1 DEF SelectForUpdate, TypeOK
<1>5. OnChild(t) => \A q \in rowLocks'[t] \cap Parents, s \in req'[t].parents : q < s
  <2>. SUFFICES ASSUME OnChild(t), NEW q \in rowLocks'[t] \cap Parents, NEW s \in req[t].parents, s # p PROVE q < s
    BY <1>2
  <2>1. CASE q \in rowLocks[t]
    BY <2>1 DEF Held
  <2>2. CASE q = p
    <3>1. p \in Nat /\ s \in Nat
      BY <1>1, <1>3, FiguresAssumption DEF Jobs
    <3>. QED BY <1>3, <2>2, <3>1
  <2>. QED BY <1>4, <2>1, <2>2
<1>6. OnReload(t) => req'[t].parents = {} /\ req'[t].children = {}
  <2>. SUFFICES ASSUME OnReload(t) PROVE req[t].parents \ {p} = {} /\ req[t].children = {}
    BY <1>2
  <2>1. req[t].parents \subseteq {req[t].row} /\ req[t].children \subseteq {req[t].row} /\ req[t].children \subseteq Children
    BY <1>1 DEF Good, Shape, Jobs
  <2>. QED BY <1>3, <2>1
<1>7. OnParent(t) => \A c \in rowLocks'[t] \cap Children : c \in rowLocks[t]
  BY <1>3, <1>4
<1>8. OnParent(t) =>
         /\ req[t].children # {} => req[t].follow
         /\ advisory[NumberLock] = t => req[t].children = {}
  BY DEF Held, OnParent
<1>. QED BY <1>1, <1>2, <1>5, <1>6, <1>7, <1>8, HeldOn

LEMMA HeldLocksChild ==
    ASSUME IInv, NEW t \in Requests, Held(t), LockChild(t)
    PROVE  Held(t)'
<1>. USE DEF IInv
<1>1. PICK c \in req[t].children :
         /\ SelectForUpdate(t, c)
         /\ Step(t, [req[t] EXCEPT !.pc = "refreshing", !.at = c, !.children = @ \ {c}])
  BY DEF LockChild
<1>2. /\ Active(t, "written") /\ Flying(t) /\ Computed(t) /\ Wrote(t) /\ req[t] \in Jobs /\ req[t].parents = {}
      /\ req'[t] = [req[t] EXCEPT !.pc = "refreshing", !.at = c, !.children = @ \ {c}]
      /\ UNCHANGED <<stored, advisory, origin>>
  BY <1>1, FlyingType DEF LockChild, Active, Flying, Computed, Wrote, Step, SelectForUpdate, TypeOK
<1>3. /\ req'[t].op = req[t].op /\ req'[t].row = req[t].row /\ req'[t].next = req[t].next
      /\ req'[t].parents = {} /\ req'[t].children = req[t].children \ {c}
      /\ req'[t].follow = req[t].follow /\ req'[t].due = req[t].due /\ req'[t].pc = "refreshing"
  BY <1>2 DEF Jobs
<1>4. c \in Children /\ c \in Rows /\ c \notin Parents /\ origin[c] # Unborn
  BY <1>2, FiguresAssumption DEF Jobs, Rows, Good, Known
<1>5. \A q \in rowLocks'[t] : q \in rowLocks[t] \/ (q = c /\ Read(t, c) # NoRow)
  BY <1>1 DEF SelectForUpdate, TypeOK
<1>6. OnReload(t) => req'[t].children = {}
  BY <1>3 DEF Good, Shape
<1>7. OnParent(t) => \A d \in rowLocks'[t] \cap Children :
         d \in rowLocks[t] \/ (stored[d] # NoRow /\ stored[d].parent = req[t].row)
  <2>. SUFFICES ASSUME OnParent(t), Read(t, c) # NoRow PROVE stored[c] # NoRow /\ stored[c].parent = req[t].row
    BY <1>5
  <2>1. own[t][c] # Unwritten => stored[c] # NoRow
    BY <1>4 DEF Good, Owns, NewChild
  <2>. QED BY <2>1 DEF Held, Read
<1>8. OnParent(t) => req[t].follow /\ advisory[NumberLock] # t
  BY DEF Held, OnParent
<1>. QED BY <1>2, <1>3, <1>6, <1>7, <1>8, HeldOn

LEMMA HeldSums ==
    ASSUME IInv, NEW t \in Requests, Held(t), SumParent(t) \/ RefreshChild(t)
    PROVE  Held(t)'
<1>. USE DEF IInv
<1>1. PICK value : Recompute(t, value) /\ (Active(t, "summing") \/ Active(t, "refreshing"))
  BY DEF SumParent, RefreshChild
<1>2. /\ Flying(t) /\ Computed(t) /\ Wrote(t) /\ ~Active(t, "listing") /\ req[t] \in Jobs
      /\ UNCHANGED <<stored, rowLocks, advisory, origin>>
      /\ \/ req'[t] = [req[t] EXCEPT !.pc = "written", !.at = req[t].row, !.value = NoRow]
         \/ req'[t] = [req[t] EXCEPT !.pc = "writing", !.value = value]
  BY <1>1, FlyingType DEF Recompute, Recomputed, Active, Flying, Computed, Wrote, Step, TypeOK, dbState
<1>3. /\ req'[t].op = req[t].op /\ req'[t].row = req[t].row /\ req'[t].next = req[t].next
      /\ req'[t].parents = req[t].parents /\ req'[t].children = req[t].children
      /\ req'[t].follow = req[t].follow /\ req'[t].due = req[t].due /\ req'[t].pc \in {"written", "writing"}
  BY <1>2 DEF Jobs
<1>. QED BY <1>2, <1>3, HeldOn DEF Held, OnParent

LEMMA HeldWritesBack ==
    ASSUME IInv, NEW t \in Requests, Held(t), WriteBack(t)
    PROVE  Held(t)'
<1>. USE DEF IInv
<1>. PICK at, value : at = req[t].at /\ value = req[t].value
  OBVIOUS
<1>. PICK parents : parents = IF at \in Children /\ req[t].op # "reload" THEN {value.parent} ELSE req[t].parents
  OBVIOUS
<1>1. Active(t, "writing") /\ Flying(t) /\ Computed(t) /\ Wrote(t) /\ ~Active(t, "listing") /\ req[t] \in Jobs
  <2>1. Active(t, "writing") /\ Flying(t) /\ Computed(t) /\ Wrote(t) /\ ~Active(t, "listing")
    BY DEF WriteBack, Active, Flying, Computed, Wrote
  <2>. QED BY <2>1, FlyingType
<1>2. /\ req'[t] = [req[t] EXCEPT !.pc = "written", !.at = req[t].row, !.value = NoRow, !.parents = parents]
      /\ WriteRow(t, at, value) /\ UNCHANGED origin
  <2>1. req'[t] = [Recomputed(t) EXCEPT !.parents = parents]
    BY <1>1 DEF WriteBack, Step, Recomputed, TypeOK, Jobs
  <2>. QED BY <1>1, <2>1 DEF WriteBack, Recomputed, Jobs
<1>3. /\ req'[t].op = req[t].op /\ req'[t].row = req[t].row /\ req'[t].next = req[t].next
      /\ req'[t].parents = parents /\ req'[t].children = req[t].children
      /\ req'[t].follow = req[t].follow /\ req'[t].due = req[t].due /\ req'[t].pc = "written"
  BY <1>1, <1>2 DEF Jobs
<1>4. rowLocks'[t] = rowLocks[t] /\ UNCHANGED <<stored, advisory>>
  <2>1. at \in rowLocks[t]
    BY <1>1 DEF Good, Recomputes
  <2>. QED BY <1>2, <2>1 DEF WriteRow, TypeOK
<1>5. OnReload(t) \/ OnChild(t) => parents = req[t].parents
  <2>1. OnChild(t) => at \notin Children
    <3>1. OnChild(t) => ~OnParent(t)
      BY DEF OnChild, OnParent
    <3>2. Flying(t) /\ ~OnParent(t) => (req[t].pc = "writing" => req[t].at \in Parents)
      BY DEF Good, Shape
    <3>. QED BY <1>1, <3>1, <3>2, FiguresAssumption DEF Active
  <2>. QED BY <2>1 DEF OnReload
<1>6. OnParent(t) =>
         /\ req[t].children # {} => req[t].follow
         /\ advisory[NumberLock] = t => req[t].children = {}
  BY DEF Held, OnParent
<1>. QED BY <1>1, <1>2, <1>3, <1>4, <1>5, <1>6, HeldOn DEF Held

LEMMA HeldInserts ==
    ASSUME IInv, NEW t \in Requests, Held(t), InsertGenerated(t)
    PROVE  Held(t)'
<1>. USE DEF IInv
<1>. PICK value : value = [parent |-> req[t].row, amount |-> Schedule[Len(Schedule) + 1 - req[t].due],
                           seen |-> NoteOf(Read(t, req[t].row))]
  OBVIOUS
<1>1. PICK c \in FreshIds : WriteRow(t, c, value)
  BY DEF InsertGenerated
<1>2. /\ Active(t, "written") /\ Flying(t) /\ Computed(t) /\ Wrote(t) /\ req[t].children = {} /\ req[t].due > 0
      /\ req[t] \in Jobs /\ UNCHANGED <<stored, advisory, origin>>
      /\ req'[t] = [req[t] EXCEPT !.parents = {req[t].row}, !.due = @ - 1]
  <2>1. Active(t, "written") /\ Flying(t) /\ Computed(t) /\ Wrote(t) /\ req[t].children = {} /\ req[t].due > 0
    BY DEF InsertGenerated, Generating, Active, Flying, Computed, Wrote
  <2>2. UNCHANGED <<stored, advisory, origin>>
    BY <1>1 DEF InsertGenerated, WriteRow
  <2>3. req'[t] = [req[t] EXCEPT !.parents = {req[t].row}, !.due = @ - 1]
    BY DEF InsertGenerated, Step, TypeOK
  <2>. QED BY <2>1, <2>2, <2>3, FlyingType
<1>3. /\ req'[t].op = req[t].op /\ req'[t].row = req[t].row /\ req'[t].next = req[t].next
      /\ req'[t].children = {} /\ req'[t].follow = req[t].follow /\ req'[t].pc = "written"
  BY <1>2 DEF Jobs, Active
<1>4. OnParent(t) /\ ~OnChild(t) /\ ~OnReload(t)
  BY <1>2 DEF Good, Shape, OnParent, OnChild, OnReload
<1>5. origin[c] = Unborn /\ \A q \in rowLocks'[t] : q = c \/ q \in rowLocks[t]
  BY <1>1 DEF FreshIds, WriteRow, TypeOK
<1>. QED BY <1>2, <1>3, <1>4, <1>5, HeldOn

LEMMA HeldNumbers ==
    ASSUME IInv, NEW t \in Requests, Held(t), LockNumbers(t)
    PROVE  Held(t)'
<1>. USE DEF IInv
<1>1. AdvisoryLock(t, NumberLock) /\ UNCHANGED <<stored, rowLocks, req, origin>>
  BY DEF LockNumbers, AdvisoryLock
<1>2. /\ Active(t, "written") /\ Flying(t) /\ Computed(t) /\ Wrote(t) /\ req[t].children = {} /\ req[t].due > 0
      /\ req'[t].pc = "written"
  BY <1>1 DEF LockNumbers, Generating, Active, Flying, Computed, Wrote
<1>3. OnParent(t) /\ ~OnChild(t) /\ ~OnReload(t)
  BY <1>2 DEF Good, Shape, OnParent, OnChild, OnReload
<1>4. \A l \in Parents \cup {NumberLock} : advisory'[l] = t => advisory[l] = t \/ l = NumberLock
  BY <1>1 DEF AdvisoryLock, TypeOK
<1>. QED BY <1>1, <1>2, <1>3, <1>4, HeldOn

LEMMA HeldCompares ==
    ASSUME IInv, NEW t \in Requests, Held(t), Compare(t)
    PROVE  Held(t)'
<1>. USE DEF IInv
<1>. PICK r : r = req[t].row
  OBVIOUS
<1>1. /\ OnReload(t) /\ ~Wrote(t) /\ req[t] \in Jobs /\ UNCHANGED <<rowLocks, advisory>>
      /\ \/ req'[t] = Idle
         \/ req'[t] = [req[t] EXCEPT !.pc = "written", !.parents = {r} \cap Parents, !.children = {r} \cap Children]
  <2>1. Active(t, "paged") /\ ~Wrote(t) /\ Flying(t)
    BY DEF Compare, Active, Flying, Computed, Wrote
  <2>. QED BY <2>1, FlyingType DEF Good, Shape, Compare, Step, TypeOK, dbState
<1>2. rowLocks'[t] = {} /\ \A l \in Parents \cup {NumberLock} : advisory'[l] # t
  BY <1>1 DEF Held
<1>3. CASE req'[t] = Idle
  BY <1>2, <1>3, HeldIdle
<1>4. CASE req'[t] # Idle
  <2>1. req'[t].op = "reload"
    BY <1>1, <1>4 DEF OnReload, Jobs
  <2>. QED BY <1>2, <2>1 DEF Held, OnChild, OnParent
<1>. QED BY <1>3, <1>4

LEMMA HeldMoves ==
    ASSUME IInv, HInv, HasEvents, NEW t \in Requests, Moves(t)
    PROVE  HInv'
<1>. USE DEF IInv
<1>1. Held(t)
  BY DEF HInv
<1>2. Held(t)'
  <2>1. CASE BeginCreate(t) \/ BeginUpdate(t) \/ BeginMove(t) \/ BeginDelete(t) \/ BeginEdit(t)
             \/ BeginGenerate(t) \/ BeginRemove(t)
    BY <1>1, <2>1, BeginsWith, HeldBegins
  <2>2. CASE ComputeChild(t) \/ ComputeDelete(t) \/ ComputeParent(t) \/ CheckRemove(t) \/ ReadPage(t)
    BY <1>1, <2>2, HeldComputes, HeldEdits, HeldReads
  <2>3. CASE ListChildren(t) \/ SumParent(t) \/ RefreshChild(t) \/ WriteBack(t) \/ Compare(t) \/ InsertGenerated(t)
    BY <1>1, <2>3, HeldLists, HeldSums, HeldWritesBack, HeldCompares, HeldInserts
  <2>4. CASE Wait(t)
    BY <1>1, <2>4, HeldTakes, HeldNumbers, HeldWrites, HeldLocksParent, HeldLocksChild DEF Wait
  <2>5. CASE Fail(t)
    BY <2>5, HeldRefuse DEF Fail
  <2>. QED BY <2>1, <2>2, <2>3, <2>4, <2>5 DEF Moves
<1>3. ASSUME NEW u \in Requests \ {t} PROVE Held(u)'
  <2>1. Local(t)
    BY MovesLocal
  <2>2. UNCHANGED <<stored, origin>> /\ Held(u)
    BY <2>1 DEF Local, HInv
  <2>. QED BY <2>1, <2>2, Elsewhere, NoGift, HeldBystander
<1>. QED BY <1>2, <1>3 DEF HInv

\* A commit of another takes nothing from what an edit follows: its children stay its children.
LEMMA HeldCommit ==
    ASSUME IInv, HInv, Apart, NEW t \in Requests, Finish(t), NEW u \in Requests \ {t}
    PROVE  Held(u)'
<1>. USE DEF IInv
<1>. PICK p : p = req[u].row
  OBVIOUS
<1>1. /\ req'[u] = req[u] /\ rowLocks'[u] = rowLocks[u] /\ Held(u)
      /\ \A l \in Parents \cup {NumberLock} : advisory'[l] = u => advisory[l] = u
      /\ \A r \in Rows : own[t][r] # Unwritten => r \notin rowLocks[u]
      /\ Flying(t) /\ ~Active(t, "locking")
  <2>1. \A l \in Parents \cup {NumberLock} : advisory'[l] = u => advisory[l] = u
    BY FiguresAssumption DEF Finish, Commit, EndTx
  <2>. QED BY <2>1, Finishes DEF HInv
<1>2. /\ \A pc : Active(u, pc)' = Active(u, pc)
      /\ Flying(u)' = Flying(u) /\ Computed(u)' = Computed(u) /\ Wrote(u)' = Wrote(u)
      /\ OnChild(u)' = OnChild(u) /\ OnParent(u)' = OnParent(u) /\ OnReload(u)' = OnReload(u)
  BY <1>1 DEF Active, Flying, Computed, Wrote, OnChild, OnParent, OnReload
<1>3. ASSUME NEW c \in rowLocks[u] \cap Children PROVE stored'[c] = stored[c] /\ origin'[c] = origin[c]
  BY <1>1, ChildrenWritten, Births DEF Rows
<1>4. ASSUME OnParent(u) PROVE p \in Parents /\ Flying(u)
  BY <1>4 DEF Good, Shape, OnParent
<1>5. ASSUME OnParent(u), NEW c \in req[u].children, stored[c] = NoRow \/ stored[c].parent = p
      PROVE  stored'[c] = NoRow \/ stored'[c].parent = p
  <2>1. c \in Children /\ origin[c] # Unborn
    BY <1>4, <1>5, FlyingType DEF Jobs, Good, Known
  <2>2. CASE own[t][c] = Unwritten
    BY <1>5, <2>1, <2>2, ChildrenWritten
  <2>3. CASE stored[c] = NoRow
    BY <2>1, <2>3, Births
  <2>4. CASE OnChild(t)
    <3>1. /\ ~Collide(u, t) /\ req[t].op \in {"create", "update", "move", "delete"}
      BY <1>1, <1>4, <1>5, <2>4 DEF Apart, OnChild, Flying
    <3>2. ~EditsParent(u)
      BY <3>1 DEF Collide
    <3>3. req[u].follow /\ Wrote(u)
      BY <1>1, <1>5 DEF Held
    <3>4. stored[p] # NoRow
      BY <1>5, <3>3 DEF Good, Owns
    <3>. QED BY <1>1, <1>5, <3>2, <3>3, <3>4 DEF Held, Wrote
  <2>5. CASE own[t][c] # Unwritten /\ ~OnChild(t) /\ stored[c] # NoRow
    BY <1>5, <2>1, <2>5, ChildrenWritten DEF NewChild
  <2>. QED BY <2>2, <2>3, <2>4, <2>5
\* Whoever changes a parent's own row waits for its edit, or is apart from it.
<1>6. ASSUME OnParent(u), stored'[p] # NoRow
      PROVE  /\ stored[p] # NoRow /\ (stored[p].taken => stored'[p].taken)
             /\ Computed(u) /\ EditsParent(u) => EditsParent(u)'
  <2>1. stored[p] # NoRow
    BY <1>4, <1>6, ParentsKept
  <2>2. stored[p].taken => stored'[p].taken
    <3>1. CASE OnParent(t) /\ req[t].row = p
      <4>1. Computed(t) /\ stored'[p].taken = req[t].next.taken
        BY <1>4, <1>6, <3>1, Finishes, ParentsKept
      <4>. QED BY <2>1, <3>1, <4>1 DEF Good, Generated
    <3>2. CASE ~(OnParent(t) /\ req[t].row = p)
      BY <1>4, <1>6, <3>2, ParentsKept
    <3>. QED BY <3>1, <3>2
  <2>3. Computed(u) /\ EditsParent(u) => EditsParent(u)'
    <3>1. Computed(u) => ~Active(u, "locking")
      BY DEF Computed, Active
    <3>. QED BY <1>6, <2>1, <3>1, EditStands
  <2>. QED BY <2>1, <2>2, <2>3
<1>7. OnParent(u) =>
          /\ \A c \in rowLocks[u] \cap Children :
                origin'[c] = Unborn \/ (stored'[c] # NoRow /\ stored'[c].parent = p)
          /\ \A c \in req[u].children : stored'[c] = NoRow \/ stored'[c].parent = p
          /\ Computed(u) /\ req[u].follow /\ stored'[p] # NoRow => EditsParent(u)'
          /\ Active(u, "listing") \/ req[u].children # {} => req[u].follow /\ Wrote(u)
          /\ req[u].op = "edit" /\ req[u].next.taken /\ stored'[p] # NoRow => stored'[p].taken
          /\ req[u].due > 0 => req[u].op = "generate"
  BY <1>1, <1>3, <1>5, <1>6 DEF Held
<1>. QED BY <1>1, <1>2, <1>7 DEF Held

LEMMA HeldStep == IInv /\ HInv /\ Apart /\ HasEvents /\ [Next]_vars => HInv'
<1>. SUFFICES ASSUME IInv, HInv, Apart, HasEvents, [Next]_vars PROVE HInv'
  OBVIOUS
<1>1. CASE Next
  <2>1. PICK t \in Requests : Moves(t) \/ Finish(t)
    BY <1>1, NextMoves
  <2>2. ASSUME Finish(t) PROVE HInv'
    <3>1. req'[t] = Idle /\ rowLocks'[t] = {}
      BY <2>2, Finishes
    <3>2. \A l \in Parents \cup {NumberLock} : advisory'[l] # t
      BY <2>2, FiguresAssumption DEF Finish, Commit, EndTx
    <3>3. Held(t)'
      BY <3>1, <3>2, HeldIdle
    <3>. QED BY <2>2, <3>3, HeldCommit DEF HInv
  <2>. QED BY <2>1, <2>2, HeldMoves
<1>2. CASE UNCHANGED vars
  <2>1. UNCHANGED <<stored, rowLocks, advisory, req, origin>>
    BY <1>2 DEF vars, dbState
  <2>. QED BY <2>1, HeldBystander DEF HInv
<1>. QED BY <1>1, <1>2

\* No set of requests all wait on one another, however many there are: a write and the recomputing
\* of what it reaches "queue instead of one writing over the other" (recomputeRecord), while
\* requests are kept apart and a write reads the old values.
THEOREM Queue ==
    ASSUME HasEvents, IsFiniteSet(Requests)
    PROVE  Spec /\ []Apart /\ []NumbersApart => []NoWaitCycle
<1>1. Init => HInv
  <2>1. SUFFICES ASSUME Init, NEW t \in Requests PROVE Held(t)
    BY DEF HInv
  <2>2. req[t] = Idle /\ rowLocks[t] = {} /\ \A l \in Parents \cup {NumberLock} : advisory[l] # t
    <3>1. req[t] = Idle /\ rowLocks[t] = {} /\ \A l \in Parents \cup {NumberLock} : advisory[l] = Nobody
      BY <2>1 DEF Init, OpenDatabase
    <3>. QED BY <3>1, FiguresAssumption
  <2>3. ~Flying(t) /\ ~OnChild(t) /\ ~OnParent(t) /\ ~OnReload(t)
    BY <2>2 DEF Flying, Active, Idle, OnChild, OnParent, OnReload
  <2>. QED BY <2>2, <2>3 DEF Held
<1>2. IInv /\ HInv /\ Apart /\ [Next]_vars => HInv'
  BY HeldStep
<1>3. IInv /\ HInv /\ Apart /\ NumbersApart => NoWaitCycle
  BY Queueing
<1>. QED BY <1>1, <1>2, <1>3, Invariance, PTL DEF Spec

=============================================================================
