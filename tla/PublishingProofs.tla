-------------------------- MODULE PublishingProofs --------------------------
(***************************************************************************)
(* Drafts are what their admins were told, commits write over what they    *)
(* were reviewed against, the disk loads and what is served follows it,    *)
(* for every number of requests, admins, Applications and files and any    *)
(* number of crashes, while no commit lands between a publish's check of   *)
(* its draft's base and its reading of the version.                        *)
(*                                                                         *)
(* The argument: a draft is changed by the holder of its lock alone, so    *)
(* what a request loaded is still stored when it saves or drops (Loaded).  *)
(* One request at a time writes, and while it does what is on disk is a    *)
(* mixture it knows both halves of (Writing): taken back, the disk loads   *)
(* as it did; finished, it differs from what the change began with.  So a  *)
(* draft that was written and is still stored has a base that is no longer *)
(* installed (Unwritten).                                                  *)
(***************************************************************************)
EXTENDS Publishing, WellFoundedInduction, TLAPS

-----------------------------------------------------------------------------
(* The inductive invariant.                                                *)

Flying(t) == ~Active(t, "idle")

\* Which steps each kind of request takes.
PhasedBy(t) ==
    Flying(t) =>
        /\ req[t].op = "stage" => req[t].pc \in {"draft", "loading", "staging"}
        /\ req[t].op = "discard" => req[t].pc \in {"draft", "loading"}
        /\ req[t].op = "publish" => req[t].pc # "staging"
        /\ req[t].op = "apply" => req[t].pc \in {"planned", "reviewing", "writing", "reload", "swapping"}

\* Who holds each lock.
LockedBy(t) ==
    /\ Flying(t) /\ req[t].op # "apply" /\ ~Active(t, "draft") => drafting[Draft(t)] = t
    /\ Active(t, "reviewing") \/ Active(t, "writing") => committing = t
    /\ Active(t, "swapping") <=> reloading = t

Planning == {"checking", "versioning", "planned", "reviewing", "writing", "dropping"}

\* What a request loaded of its draft is what is stored.
LoadedBy(t) ==
    Flying(t) =>
        /\ req[t].op = "publish" /\ req[t].pc \in {"draft", "loading"} => req[t].ask = NoChange
        /\ Active(t, "staging") =>
              /\ req[t].ops = Add(drafts[Draft(t)].ops, req[t].ask)
              /\ drafts[Draft(t)] # NoDraft => req[t].base = drafts[Draft(t)].base
        /\ req[t].op = "publish" /\ req[t].pc \in Planning =>
              /\ drafts[Draft(t)] # NoDraft
              /\ req[t].ops = drafts[Draft(t)].ops
              /\ req[t].base = drafts[Draft(t)].base

\* The version a publish will commit at has the Application as the draft's base has it; what
\* is about to be served was read.
SeenBy(t) ==
    /\ Flying(t) /\ req[t].op = "publish" /\ req[t].pc \in {"planned", "reviewing"} =>
          req[t].seen[req[t].app] = req[t].base
    /\ Active(t, "swapping") => req[t].seen \in Installations

\* The Application while it is written: the files yet to do are as they were.
Half(before, ops, todo) == [f \in Files |-> IF f \in todo THEN before[f] ELSE Apply(before, ops)[f]]

\* What a request that writes found, and what it has made of it so far.
WritingBy(t) ==
    Active(t, "writing") =>
        /\ req[t].before \in Contents
        /\ \A f \in req[t].todo : req[t].ops[f] # Unset
        /\ Here(t) = Half(req[t].before, req[t].ops, req[t].todo)
        /\ Apply(req[t].before, req[t].ops) # req[t].before
        /\ req[t].before \notin Unloadable
        /\ \A a \in Apps : a # req[t].app => installed[a] \notin Unloadable
        /\ req[t].op = "publish" => req[t].before = req[t].base
        /\ req[t].op = "apply" =>
              \A a \in Apps : req[t].seen[a] = IF a = req[t].app THEN req[t].before ELSE installed[a]

Personal(t) == PhasedBy(t) /\ LockedBy(t) /\ LoadedBy(t) /\ SeenBy(t) /\ WritingBy(t)

\* What was told is what is stored, at every moment.
Told == \A d \in Users \X Apps : drafts[d].ops = told[d]

\* A draft that was written and is still stored began against what is no longer installed.
Unwritten ==
    \A d \in written :
        /\ drafts[d] # NoDraft
        /\ \A t \in Requests : Active(t, "writing") /\ req[t].app = d[2] => drafts[d].base # req[t].before
        /\ (\A t \in Requests : Active(t, "writing") => req[t].app # d[2]) => drafts[d].base # installed[d[2]]

\* Nobody writes, and no write was cut short: the disk loads.
Disk == (\A t \in Requests : ~Active(t, "writing")) /\ ~torn => Loads(installed)

Serving == live = installed \/ (torn /\ live = Unavailable /\ ~Loads(installed))

Changing(t) == req[t].pc \in {"writing", "dropping", "reload"}

\* Nobody is about to reload or to make it necessary: what is served, or is about to be, is
\* what is on disk.
Live ==
    ~behind /\ (\A t \in Requests : ~Changing(t)) =>
        /\ reloading = Nobody => Serving
        /\ \A t \in Requests : reloading = t => req[t].seen = installed

Shared == Told /\ Unwritten /\ Disk /\ Live

Standing == (\A t \in Requests : Personal(t)) /\ Shared

IInv == TypeOK /\ Standing

-----------------------------------------------------------------------------
(* Lemmas.                                                                 *)

\* aiassist.Write's next file is one of those left.
LEMMA Least ==
    ASSUME NEW S \in SUBSET Nat, S # {}
    PROVE  Min(S) \in S
<1>. DEFINE R == {ss \in Nat \X Nat : ss[1] < ss[2]}
<1>1. OpToRel(<, Nat) = R
  BY Zenon DEF OpToRel
<1>2. IsWellFoundedOn(R, Nat)
  BY <1>1, NatLessThanWellFounded, Zenon
<1>3. \A a, b \in Nat : b < a => <<b, a>> \in R
  BY SMT
<1>. HIDE DEF R
<1>4. PICK x \in S : \A y \in S : ~(<<y, x>> \in R)
  BY <1>2, WFMin, Zenon
<1>5. ASSUME NEW y \in S PROVE x <= y
  <2>1. ~(y < x)
    BY <1>3, <1>4
  <2>. QED BY <2>1
<1>. QED BY <1>5 DEF Min

LEMMA FlyingType ==
    ASSUME TypeOK, NEW t \in Requests, Flying(t)
    PROVE  /\ req[t] \in Jobs
           /\ Draft(t) \in Users \X Apps
           /\ Here(t) \in Contents
BY DEF TypeOK, Flying, Active, Idle, Draft, Here, Jobs, Installations

LEMMA AddType ==
    ASSUME NEW ops \in Changes, NEW more \in Changes
    PROVE  Add(ops, more) \in Changes /\ Add(ops, NoChange) = ops
BY DEF Add, Changes, NoChange

LEMMA NoChangeType == NoChange \in Changes /\ NoDraft \in Drafts /\ NoDraft.ops = NoChange
BY DEF NoChange, Changes, NoDraft, Drafts

LEMMA OneChangeType == OneChange \subseteq Changes
BY DEF OneChange, NoChange, Changes

\* A request that is over leaves the others their locks.
LEMMA ReleaseEffect ==
    ASSUME NEW t \in Requests, TypeOK, Release(t)
    PROVE  /\ \A u \in Requests \ {t} :
                 /\ \A d \in Users \X Apps : drafting'[d] = u <=> drafting[d] = u
                 /\ committing' = u <=> committing = u
                 /\ reloading' = u <=> reloading = u
           /\ reloading' # t /\ committing' # t
BY PublishingAssumption DEF Release, TypeOK

\* What a step of one request leaves of the others'.
LEMMA Elsewhere ==
    ASSUME IInv, NEW t \in Requests,
           \A u \in Requests \ {t} :
              /\ req'[u] = req[u]
              /\ \A d \in Users \X Apps : drafting[d] = u => drafting'[d] = u
              /\ committing = u => committing' = u
              /\ reloading' = u <=> reloading = u,
           \A d \in Users \X Apps : drafts'[d] # drafts[d] => drafting[d] = t,
           installed' = installed \/ committing = t
    PROVE  \A u \in Requests \ {t} : Personal(u)'
<1>. SUFFICES ASSUME NEW u \in Requests \ {t} PROVE Personal(u)'
  OBVIOUS
<1>1. Personal(u)
  BY DEF IInv, Standing
<1>2. /\ Flying(u)' = Flying(u) /\ req'[u] = req[u] /\ Draft(u)' = Draft(u)
      /\ Active(u, "draft")' = Active(u, "draft") /\ Active(u, "staging")' = Active(u, "staging")
      /\ Active(u, "reviewing")' = Active(u, "reviewing") /\ Active(u, "writing")' = Active(u, "writing")
      /\ Active(u, "swapping")' = Active(u, "swapping")
  BY DEF Flying, Active, Draft
<1>3. Flying(u) => Draft(u) \in Users \X Apps
  BY FlyingType DEF IInv
<1>4. PhasedBy(u)' /\ SeenBy(u)'
  BY <1>1, <1>2 DEF Personal, PhasedBy, SeenBy
<1>5. LockedBy(u)'
  BY <1>1, <1>2, <1>3 DEF Personal, LockedBy
<1>6. LoadedBy(u)'
  <2>1. Flying(u) /\ req[u].op # "apply" /\ ~Active(u, "draft") => drafts'[Draft(u)] = drafts[Draft(u)]
    BY <1>1, <1>3 DEF Personal, LockedBy
  <2>2. Flying(u) /\ (Active(u, "staging") \/ (req[u].op = "publish" /\ req[u].pc \in Planning)) =>
           req[u].op # "apply" /\ ~Active(u, "draft")
    BY <1>1 DEF Personal, PhasedBy, Planning, Active
  <2>. QED BY <1>1, <1>2, <2>1, <2>2 DEF Personal, LoadedBy, Planning
<1>7. WritingBy(u)'
  <2>1. Active(u, "writing") => installed' = installed
    BY <1>1 DEF Personal, LockedBy
  <2>2. Here(u)' = installed'[req[u].app]
    BY <1>2 DEF Here
  <2>. QED BY <1>1, <1>2, <2>1, <2>2 DEF Personal, WritingBy, Here
<1>. QED BY <1>4, <1>5, <1>6, <1>7 DEF Personal

\* A step of a request that is not at work on the installation, before or after, and that
\* touches no draft, disk or served metadata, leaves everything the requests share.
LEMMA QuietStep ==
    ASSUME IInv, NEW t \in Requests, UNCHANGED <<disk, drafts, ghosts>>, reloading' = reloading,
           \A u \in Requests \ {t} : req'[u] = req[u],
           req[t].pc \notin {"writing", "dropping", "reload", "swapping"},
           req'[t].pc \notin {"writing", "dropping", "reload", "swapping"}
    PROVE  Shared'
<1>. USE DEF IInv, Standing, Shared, disk, ghosts
<1>1. \A u \in Requests : /\ Active(u, "writing")' = Active(u, "writing")
                          /\ Changing(u)' = Changing(u)
                          /\ Active(u, "writing") => req'[u] = req[u]
  BY DEF Active, Changing
<1>2. Told'
  BY DEF Told
<1>3. Unwritten'
  BY <1>1 DEF Unwritten
<1>4. Disk'
  BY <1>1 DEF Disk, Loads
<1>5. \A u \in Requests : reloading = u => req'[u] = req[u]
  BY DEF Personal, LockedBy, Active
<1>6. Live'
  BY <1>1, <1>5 DEF Live, Serving, Loads
<1>. QED BY <1>2, <1>3, <1>4, <1>6

\* A request that is not running has nothing to keep.
LEMMA IdlePersonal ==
    ASSUME NEW t \in Requests, req'[t] = Idle, reloading' # t
    PROVE  Personal(t)'
BY DEF Idle, Personal, PhasedBy, LockedBy, LoadedBy, SeenBy, WritingBy, Flying, Active

LEMMA InitInv == Init => IInv
<1>. SUFFICES ASSUME Init PROVE IInv
  OBVIOUS
<1>1. [f \in Files |-> FirstText] \in Contents
  BY PublishingAssumption DEF Contents
<1>2. TypeOK
  <2>1. installed \in Installations /\ live \in Installations
    BY <1>1 DEF Init, Installations
  <2>2. drafts \in [Users \X Apps -> Drafts] /\ told \in [Users \X Apps -> Changes]
    BY NoChangeType DEF Init
  <2>3. drafting \in [Users \X Apps -> Requests \cup {Nobody}] /\ req \in [Requests -> Jobs \cup {Idle}]
    BY DEF Init
  <2>4. crashes \in 0 .. MaxCrashes
    BY PublishingAssumption DEF Init
  <2>. QED BY <2>1, <2>2, <2>3, <2>4 DEF Init, TypeOK
<1>3. \A t \in Requests : Personal(t)
  BY PublishingAssumption DEF Init, Idle, Personal, PhasedBy, LockedBy, LoadedBy, SeenBy, WritingBy, Flying, Active
<1>4. Told /\ Unwritten
  BY NoChangeType DEF Init, Told, Unwritten
<1>5. Disk /\ Live
  BY PublishingAssumption DEF Init, Disk, Live, Serving, Loads
<1>. QED BY <1>2, <1>3, <1>4, <1>5 DEF IInv, Standing, Shared

-----------------------------------------------------------------------------
(* Steps that leave everything stored, installed and served as it is.      *)

LEMMA BeginStep ==
    ASSUME IInv, NEW t \in Requests, NEW u \in Users, NEW a \in Apps, NEW op, NEW pc, NEW ask, NEW seen,
           Begin(t, op, pc, u, a, ask, seen), ask \in Changes,
           \/ op \in {"stage", "publish", "discard"} /\ pc = "draft" /\ seen = NoBase
           \/ op = "apply" /\ pc = "planned" /\ seen = installed,
           op = "publish" => ask = NoChange
    PROVE  IInv'
<1>. USE DEF IInv, Standing
<1>. DEFINE job == [pc |-> pc, op |-> op, user |-> u, app |-> a, ask |-> ask, ops |-> ask, base |-> NoBase,
                    seen |-> seen, before |-> NoBase, todo |-> {}]
<1>1. /\ \A v \in Requests \ {t} : req'[v] = req[v]
      /\ req'[t] = job /\ Active(t, "idle") /\ UNCHANGED <<disk, drafts, locks, ghosts>>
  BY DEF Begin, TypeOK
<1>2. TypeOK'
  <2>1. job \in Jobs
    BY DEF TypeOK, Jobs
  <2>. QED BY <1>1, <2>1 DEF Begin, TypeOK, disk, locks, ghosts
<1>3. \A v \in Requests \ {t} : Personal(v)'
  BY <1>1, Elsewhere DEF disk, locks
<1>4. Personal(t)'
  <2>1. reloading' # t
    BY <1>1 DEF locks, Personal, LockedBy, Active
  <2>. QED
    BY <1>1, <2>1 DEF Personal, PhasedBy, LockedBy, LoadedBy, SeenBy, WritingBy, Flying, Active, Planning
<1>5. Shared'
  BY <1>1, QuietStep DEF Active, locks
<1>. QED BY <1>2, <1>3, <1>4, <1>5

LEMMA RefuseStep ==
    ASSUME IInv, NEW t \in Requests, Refuse(t), Flying(t),
           req[t].pc \notin {"writing", "dropping", "reload", "swapping"}
    PROVE  IInv'
<1>. USE DEF IInv, Standing
<1>1. /\ \A v \in Requests \ {t} : req'[v] = req[v]
      /\ req'[t] = Idle /\ Release(t) /\ UNCHANGED <<disk, drafts, ghosts>>
  BY DEF Refuse, Answer, TypeOK
<1>2. TypeOK'
  BY <1>1, PublishingAssumption DEF Refuse, Answer, Release, TypeOK, disk, ghosts
<1>3. \A v \in Requests \ {t} : Personal(v)'
  BY <1>1, ReleaseEffect, Elsewhere DEF disk
<1>4. Personal(t)'
  BY <1>1, ReleaseEffect, IdlePersonal
<1>5. Shared'
  <2>1. reloading' = reloading
    BY <1>1 DEF Release, Personal, LockedBy, Active
  <2>. QED BY <1>1, <2>1, QuietStep DEF Idle
<1>. QED BY <1>2, <1>3, <1>4, <1>5

LEMMA LockDraftStep ==
    ASSUME IInv, NEW t \in Requests, LockDraft(t)
    PROVE  IInv'
<1>. USE DEF IInv, Standing
<1>1. /\ Active(t, "draft") /\ Flying(t) /\ req[t] \in Jobs /\ Draft(t) \in Users \X Apps
      /\ drafting[Draft(t)] = Nobody /\ drafting' = [drafting EXCEPT ![Draft(t)] = t]
      /\ UNCHANGED <<disk, drafts, committing, reloading, ghosts>>
  BY FlyingType DEF LockDraft, Flying, Active
<1>2. req' = [req EXCEPT ![t] = [req[t] EXCEPT !.pc = "loading"]]
  BY DEF LockDraft, Go
<1>3. /\ \A v \in Requests \ {t} : req'[v] = req[v]
      /\ req'[t] = [req[t] EXCEPT !.pc = "loading"]
  BY <1>2 DEF TypeOK
<1>4. TypeOK'
  <2>1. req'[t] \in Jobs
    BY <1>1, <1>3 DEF Jobs
  <2>. QED BY <1>1, <1>2, <1>3, <2>1 DEF TypeOK, disk, ghosts
<1>5. \A v \in Requests \ {t} : Personal(v)'
  <2>1. \A v \in Requests \ {t} : \A d \in Users \X Apps : drafting[d] = v => drafting'[d] = v
    BY <1>1, PublishingAssumption DEF TypeOK
  <2>. QED BY <1>1, <1>3, <2>1, Elsewhere DEF disk
<1>6. Personal(t)'
  <2>1. /\ req'[t].pc = "loading" /\ req'[t].op = req[t].op /\ req'[t].user = req[t].user
        /\ req'[t].app = req[t].app /\ req'[t].ask = req[t].ask
    BY <1>1, <1>3 DEF Jobs
  <2>2. drafting'[Draft(t)'] = t
    BY <1>1, <2>1 DEF Draft, TypeOK
  <2>3. Personal(t)
    BY <1>1
  <2>4. reloading' # t
    BY <1>1, <2>3 DEF Personal, LockedBy, Active
  <2>. QED BY <1>1, <2>1, <2>2, <2>3, <2>4
           DEF Personal, PhasedBy, LockedBy, LoadedBy, SeenBy, WritingBy, Flying, Active, Planning
<1>7. Shared'
  BY <1>1, <1>3, QuietStep DEF Jobs, Active
<1>. QED BY <1>4, <1>5, <1>6, <1>7

\* What a step does to one running request, when it moves it on and changes no lock.
LEMMA MoveEffect ==
    ASSUME IInv, NEW t \in Requests, Flying(t), NEW job \in Jobs,
           req' = [req EXCEPT ![t] = job],
           UNCHANGED <<disk, drafts, ghosts>>,
           \A u \in Requests \ {t} :
              /\ \A d \in Users \X Apps : drafting[d] = u => drafting'[d] = u
              /\ committing = u => committing' = u,
           reloading' = reloading,
           drafting' \in [Users \X Apps -> Requests \cup {Nobody}],
           committing' \in Requests \cup {Nobody}
    PROVE  /\ TypeOK'
           /\ req'[t] = job
           /\ \A u \in Requests \ {t} : req'[u] = req[u] /\ Personal(u)'
<1>. USE DEF IInv, Standing
<1>1. req'[t] = job /\ \A u \in Requests \ {t} : req'[u] = req[u]
  BY DEF TypeOK
<1>2. TypeOK'
  BY DEF TypeOK, disk, ghosts
<1>3. \A u \in Requests \ {t} : Personal(u)'
  BY <1>1, Elsewhere DEF disk
<1>. QED BY <1>1, <1>2, <1>3

LEMMA LoadDraftStep ==
    ASSUME IInv, NEW t \in Requests, LoadDraft(t)
    PROVE  IInv'
<1>. USE DEF IInv, Standing
<1>. DEFINE d == drafts[Draft(t)]
            job == [req[t] EXCEPT !.pc = IF req[t].op = "stage" THEN "staging" ELSE "checking",
                                  !.ops = Add(d.ops, req[t].ask),
                                  !.base = IF d = NoDraft THEN Here(t) ELSE d.base]
<1>1. /\ Active(t, "loading") /\ req[t].op # "discard" /\ Flying(t) /\ req[t] \in Jobs
      /\ Draft(t) \in Users \X Apps /\ Here(t) \in Contents
  BY FlyingType DEF LoadDraft, Flying, Active
<1>2. CASE Refuse(t)
  BY <1>1, <1>2, RefuseStep DEF Active
<1>3. CASE ~Refuse(t)
  <2>1. /\ req' = [req EXCEPT ![t] = job]
        /\ UNCHANGED <<disk, drafts, locks, ghosts>>
        /\ req[t].op = "publish" => d # NoDraft
    BY <1>3 DEF LoadDraft
  <2>2. d \in Drafts /\ Add(d.ops, req[t].ask) \in Changes
    BY <1>1, AddType DEF TypeOK, Drafts, Jobs
  <2>3. job \in Jobs
    BY <1>1, <2>2 DEF Jobs, Drafts
  <2>4. TypeOK' /\ req'[t] = job /\ \A u \in Requests \ {t} : req'[u] = req[u] /\ Personal(u)'
    BY <1>1, <2>1, <2>3, MoveEffect DEF locks, TypeOK
  <2>5. /\ job.pc = IF req[t].op = "stage" THEN "staging" ELSE "checking"
        /\ job.ops = Add(d.ops, req[t].ask)
        /\ job.base = IF d = NoDraft THEN Here(t) ELSE d.base
        /\ job.op = req[t].op /\ job.user = req[t].user /\ job.app = req[t].app /\ job.ask = req[t].ask
    BY <1>1 DEF Jobs
  <2>6. req[t].op \in {"stage", "publish"}
    BY <1>1 DEF Jobs, Personal, PhasedBy, Active
  <2>7. Draft(t)' = Draft(t) /\ drafting' = drafting /\ reloading' = reloading /\ drafts' = drafts
    BY <2>1, <2>4, <2>5 DEF Draft, locks
  <2>8. Personal(t)
    BY <1>1
  <2>9. PhasedBy(t)' /\ LockedBy(t)'
    BY <1>1, <2>4, <2>5, <2>6, <2>7, <2>8 DEF Personal, PhasedBy, LockedBy, Flying, Active
  <2>10. LoadedBy(t)'
    <3>1. req[t].op = "publish" => job.ops = d.ops
      BY <1>1, <2>2, <2>5, <2>8, AddType DEF Personal, LoadedBy, Drafts, Active
    <3>2. drafts'[Draft(t)'] = d
      BY <2>7
    <3>. HIDE DEF d, job
    <3>3. CASE req[t].op = "stage"
      BY <2>4, <2>5, <3>2, <3>3 DEF LoadedBy, Active
    <3>4. CASE req[t].op = "publish"
      BY <2>1, <2>4, <2>5, <3>1, <3>2, <3>4 DEF LoadedBy, Active
    <3>. QED BY <2>6, <3>3, <3>4
  <2>11. SeenBy(t)' /\ WritingBy(t)'
    BY <2>4, <2>5 DEF SeenBy, WritingBy, Active
  <2>12. Shared'
    BY <1>1, <2>1, <2>4, <2>5, QuietStep DEF Active, locks
  <2>. QED BY <2>4, <2>9, <2>10, <2>11, <2>12 DEF Personal
<1>. QED BY <1>2, <1>3

LEMMA CheckBaseStep ==
    ASSUME IInv, NEW t \in Requests, CheckBase(t)
    PROVE  IInv'
<1>. USE DEF IInv, Standing
<1>. DEFINE job == [req[t] EXCEPT !.pc = "versioning"]
<1>1. Active(t, "checking") /\ Flying(t) /\ req[t] \in Jobs /\ Personal(t)
  BY FlyingType DEF CheckBase, Flying, Active
<1>2. CASE Refuse(t)
  BY <1>1, <1>2, RefuseStep DEF Active
<1>3. CASE ~Refuse(t)
  <2>1. req' = [req EXCEPT ![t] = job] /\ UNCHANGED <<disk, drafts, locks, ghosts>>
    BY <1>3 DEF CheckBase, Go
  <2>2. job \in Jobs
    BY <1>1 DEF Jobs
  <2>3. TypeOK' /\ req'[t] = job /\ \A u \in Requests \ {t} : req'[u] = req[u] /\ Personal(u)'
    BY <1>1, <2>1, <2>2, MoveEffect DEF locks, TypeOK
  <2>4. /\ job.pc = "versioning" /\ job.op = req[t].op /\ job.user = req[t].user
        /\ job.app = req[t].app /\ job.ops = req[t].ops /\ job.base = req[t].base
    BY <1>1 DEF Jobs
  <2>5. req[t].op = "publish"
    BY <1>1 DEF Jobs, Personal, PhasedBy, Active
  <2>6. Personal(t)'
    <3>. HIDE DEF job
    <3>1. Draft(t)' = Draft(t)
      BY <2>3, <2>4 DEF Draft
    <3>2. PhasedBy(t)' /\ LockedBy(t)'
      BY <1>1, <2>1, <2>3, <2>4, <2>5, <3>1 DEF locks, Personal, PhasedBy, LockedBy, Flying, Active
    <3>3. LoadedBy(t)'
      BY <1>1, <2>1, <2>3, <2>4, <2>5, <3>1 DEF Personal, LoadedBy, Flying, Active, Planning
    <3>4. SeenBy(t)' /\ WritingBy(t)'
      BY <2>3, <2>4 DEF SeenBy, WritingBy, Active
    <3>. QED BY <3>2, <3>3, <3>4 DEF Personal
  <2>7. Shared'
    BY <1>1, <2>1, <2>3, <2>4, QuietStep DEF Active, locks
  <2>. QED BY <2>3, <2>6, <2>7
<1>. QED BY <1>2, <1>3

\* The version read is of an installation whose Application is still what the draft began
\* against.
LEMMA ReadVersionStep ==
    ASSUME IInv, Unraced, NEW t \in Requests, ReadVersion(t)
    PROVE  IInv'
<1>. USE DEF IInv, Standing
<1>. DEFINE job == [req[t] EXCEPT !.pc = "planned", !.seen = installed]
<1>1. /\ Active(t, "versioning") /\ Flying(t) /\ req[t] \in Jobs /\ Personal(t)
      /\ installed[req[t].app] = req[t].base
  BY FlyingType DEF ReadVersion, Flying, Active, Unraced, Here
<1>2. req' = [req EXCEPT ![t] = job] /\ UNCHANGED <<disk, drafts, locks, ghosts>>
  BY DEF ReadVersion
<1>3. job \in Jobs
  BY <1>1 DEF Jobs, TypeOK
<1>4. TypeOK' /\ req'[t] = job /\ \A u \in Requests \ {t} : req'[u] = req[u] /\ Personal(u)'
  BY <1>1, <1>2, <1>3, MoveEffect DEF locks, TypeOK
<1>5. /\ job.pc = "planned" /\ job.seen = installed /\ job.op = req[t].op /\ job.user = req[t].user
      /\ job.app = req[t].app /\ job.ops = req[t].ops /\ job.base = req[t].base
  BY <1>1 DEF Jobs
<1>6. req[t].op = "publish"
  BY <1>1 DEF Jobs, Personal, PhasedBy, Active
<1>7. Personal(t)'
  <2>. HIDE DEF job
  <2>1. Draft(t)' = Draft(t)
    BY <1>4, <1>5 DEF Draft
  <2>2. PhasedBy(t)' /\ LockedBy(t)'
    BY <1>1, <1>2, <1>4, <1>5, <1>6, <2>1 DEF locks, Personal, PhasedBy, LockedBy, Flying, Active
  <2>3. LoadedBy(t)'
    BY <1>1, <1>2, <1>4, <1>5, <1>6, <2>1 DEF Personal, LoadedBy, Flying, Active, Planning
  <2>4. SeenBy(t)' /\ WritingBy(t)'
    BY <1>1, <1>4, <1>5 DEF SeenBy, WritingBy, Active
  <2>. QED BY <2>2, <2>3, <2>4 DEF Personal
<1>8. Shared'
  BY <1>1, <1>2, <1>4, <1>5, QuietStep DEF Active, locks
<1>. QED BY <1>4, <1>7, <1>8

LEMMA LockCommitStep ==
    ASSUME IInv, NEW t \in Requests, LockCommit(t)
    PROVE  IInv'
<1>. USE DEF IInv, Standing
<1>. DEFINE job == [req[t] EXCEPT !.pc = "reviewing"]
<1>1. /\ Active(t, "planned") /\ Flying(t) /\ req[t] \in Jobs /\ Personal(t)
      /\ committing = Nobody /\ committing' = t
      /\ UNCHANGED <<disk, drafts, drafting, reloading, ghosts>>
  BY FlyingType DEF LockCommit, Flying, Active
<1>2. req' = [req EXCEPT ![t] = job]
  BY DEF LockCommit, Go
<1>3. job \in Jobs
  BY <1>1 DEF Jobs
<1>4. TypeOK' /\ req'[t] = job /\ \A u \in Requests \ {t} : req'[u] = req[u] /\ Personal(u)'
  <2>1. \A u \in Requests : committing # u
    BY <1>1, PublishingAssumption
  <2>2. /\ drafting' \in [Users \X Apps -> Requests \cup {Nobody}]
        /\ committing' \in Requests \cup {Nobody}
        /\ UNCHANGED <<disk, drafts, ghosts>> /\ drafting' = drafting /\ reloading' = reloading
    BY <1>1 DEF TypeOK
  <2>. QED BY <1>1, <1>2, <1>3, <2>1, <2>2, MoveEffect
<1>5. /\ job.pc = "reviewing" /\ job.seen = req[t].seen /\ job.op = req[t].op /\ job.user = req[t].user
      /\ job.app = req[t].app /\ job.ops = req[t].ops /\ job.base = req[t].base
  BY <1>1 DEF Jobs
<1>6. Personal(t)'
  BY <1>1, <1>4, <1>5
     DEF Personal, PhasedBy, LockedBy, LoadedBy, SeenBy, WritingBy, Flying, Active, Planning, Draft
<1>7. Shared'
  BY <1>1, <1>4, <1>5, QuietStep DEF Active
<1>. QED BY <1>4, <1>6, <1>7

\* What is about to be written over is what the request saw.
LEMMA ReviewStep ==
    ASSUME IInv, NEW t \in Requests, Review(t)
    PROVE  IInv'
<1>. USE DEF IInv, Standing
<1>. DEFINE desired == Apply(Here(t), req[t].ops)
            left == {f \in Files : desired[f] # Here(t)[f]}
            job == [req[t] EXCEPT !.pc = "writing", !.before = Here(t), !.todo = left]
<1>1. /\ Active(t, "reviewing") /\ Flying(t) /\ req[t] \in Jobs /\ Personal(t)
      /\ Here(t) \in Contents /\ committing = t
  BY FlyingType DEF Review, Flying, Active, Personal, LockedBy
<1>2. CASE Refuse(t)
  BY <1>1, <1>2, RefuseStep DEF Active
<1>3. CASE ~Refuse(t)
  <2>1. /\ req' = [req EXCEPT ![t] = job] /\ UNCHANGED <<disk, drafts, locks, ghosts>>
        /\ installed = req[t].seen /\ Loads(installed) /\ desired # Here(t)
    BY <1>3 DEF Review, Fresh
  <2>2. job \in Jobs
    BY <1>1 DEF Jobs
  <2>3. TypeOK' /\ req'[t] = job /\ \A u \in Requests \ {t} : req'[u] = req[u] /\ Personal(u)'
    BY <1>1, <2>1, <2>2, MoveEffect DEF locks, TypeOK
  <2>4. /\ job.pc = "writing" /\ job.seen = req[t].seen /\ job.op = req[t].op /\ job.user = req[t].user
        /\ job.app = req[t].app /\ job.ops = req[t].ops /\ job.base = req[t].base
        /\ job.before = Here(t) /\ job.todo = left
    BY <1>1 DEF Jobs
  <2>5. PhasedBy(t)' /\ LockedBy(t)' /\ LoadedBy(t)' /\ SeenBy(t)'
    <3>. HIDE DEF job
    <3>1. Draft(t)' = Draft(t)
      BY <2>3, <2>4 DEF Draft
    <3>2. PhasedBy(t)' /\ LockedBy(t)'
      BY <1>1, <2>1, <2>3, <2>4, <3>1 DEF locks, Personal, PhasedBy, LockedBy, Flying, Active
    <3>3. LoadedBy(t)'
      BY <1>1, <2>1, <2>3, <2>4, <3>1 DEF Personal, LoadedBy, Flying, Active, Planning
    <3>4. SeenBy(t)'
      BY <2>3, <2>4 DEF SeenBy, Active
    <3>. QED BY <3>2, <3>3, <3>4
  <2>6. WritingBy(t)'
    <3>1. \A f \in left : req[t].ops[f] # Unset
      BY DEF Apply
    <3>2. Here(t) = Half(Here(t), req[t].ops, left)
      BY <1>1 DEF Half, Contents
    <3>3. \A a \in Apps : installed[a] \notin Unloadable
      BY <2>1 DEF Loads
    <3>4. req[t].app \in Apps
      BY <1>1 DEF Jobs
    <3>5. req[t].op = "publish" => Here(t) = req[t].base
      BY <1>1, <2>1 DEF Personal, SeenBy, Active, Here
    <3>6. installed' = installed /\ Here(t)' = Here(t)
      BY <2>1, <2>3, <2>4 DEF disk, Here
    <3>7. Here(t) = installed[req[t].app]
      BY DEF Here
    <3>. HIDE DEF left, job
    <3>. QED BY <1>1, <2>1, <2>3, <2>4, <3>1, <3>2, <3>3, <3>4, <3>5, <3>6, <3>7 DEF WritingBy
  <2>7. Shared'
    <3>1. \A u \in Requests \ {t} : ~Active(u, "writing") /\ ~Active(u, "writing")'
      BY <1>1, <2>3 DEF Personal, LockedBy, Active
    <3>2. Active(t, "writing")' /\ req'[t].before = installed[req[t].app] /\ req'[t].app = req[t].app
          /\ ~Active(t, "writing") /\ Changing(t)'
      BY <1>1, <2>3, <2>4 DEF Active, Changing, Here
    <3>3. Told' /\ Disk' /\ Live'
      BY <2>1, <3>2 DEF Shared, Told, Disk, Live, disk, ghosts
    <3>4. Unwritten'
      <4>1. UNCHANGED <<installed, drafts, written>>
        BY <2>1 DEF disk, ghosts
      <4>2. \A e \in written : drafts[e] # NoDraft /\ drafts[e].base # installed[e[2]]
        BY <3>1, <3>2 DEF Shared, Unwritten
      <4>. QED BY <3>1, <3>2, <4>1, <4>2 DEF Unwritten
    <3>. QED BY <3>3, <3>4 DEF Shared
  <2>. QED BY <2>3, <2>5, <2>6, <2>7 DEF Personal
<1>. QED BY <1>2, <1>3

-----------------------------------------------------------------------------
(* Writing.                                                                *)

\* Nobody else writes while a request does, and nobody commits but who holds the lock.
LEMMA OneWriter ==
    ASSUME IInv, NEW t \in Requests, Active(t, "writing")
    PROVE  /\ Flying(t) /\ req[t] \in Jobs /\ Personal(t) /\ committing = t
           /\ req[t].app \in Apps /\ req[t].ops \in Changes /\ req[t].todo \in SUBSET Files
           /\ req[t].before \in Contents
           /\ \A u \in Requests \ {t} : ~Active(u, "writing") /\ ~Active(u, "reviewing")
<1>. USE DEF IInv, Standing
<1>1. Flying(t) /\ req[t] \in Jobs /\ Personal(t)
  BY FlyingType DEF Flying, Active
<1>2. committing = t /\ req[t].before \in Contents
  BY <1>1 DEF Personal, LockedBy, WritingBy
<1>3. \A u \in Requests \ {t} : ~Active(u, "writing") /\ ~Active(u, "reviewing")
  BY <1>2 DEF Personal, LockedBy
<1>. QED BY <1>1, <1>2, <1>3 DEF Jobs

\* One more file is replaced: what is on disk is the same mixture, one file further.
LEMMA WriteFileStep ==
    ASSUME IInv, NEW t \in Requests, WriteFile(t)
    PROVE  IInv'
<1>. USE DEF IInv, Standing
<1>. DEFINE f == Min(req[t].todo)  app == req[t].app  ops == req[t].ops
            job == [req[t] EXCEPT !.todo = @ \ {f}]
<1>1. Active(t, "writing") /\ req[t].todo # {}
  BY DEF WriteFile
<1>2. /\ Flying(t) /\ req[t] \in Jobs /\ Personal(t) /\ committing = t
      /\ app \in Apps /\ ops \in Changes /\ req[t].todo \in SUBSET Files /\ req[t].before \in Contents
      /\ \A u \in Requests \ {t} : ~Active(u, "writing")
  BY <1>1, OneWriter
<1>3. f \in req[t].todo /\ f \in Files /\ ops[f] # Unset /\ ops[f] \in Texts
  <2>1. f \in req[t].todo
    BY <1>1, <1>2, Least, PublishingAssumption
  <2>. QED BY <1>1, <1>2, <2>1 DEF Personal, WritingBy, Changes
<1>4. /\ installed' = [installed EXCEPT ![app] = [installed[app] EXCEPT ![f] = ops[f]]]
      /\ req' = [req EXCEPT ![t] = job] /\ UNCHANGED <<live, drafts, locks, ghosts>>
  BY DEF WriteFile
<1>5. installed \in Installations /\ installed[app] \in Contents
  BY <1>2 DEF TypeOK, Installations
<1>6. installed'[app] = [installed[app] EXCEPT ![f] = ops[f]] /\ \A a \in Apps \ {app} : installed'[a] = installed[a]
  BY <1>2, <1>4, <1>5 DEF Installations
<1>7. installed'[app] \in Contents /\ installed' \in Installations
  <2>1. [installed[app] EXCEPT ![f] = ops[f]] \in Contents
    BY <1>3, <1>5 DEF Contents
  <2>. QED BY <1>4, <1>5, <1>6, <2>1 DEF Installations
<1>8. job \in Jobs
  BY <1>2 DEF Jobs
<1>9. req'[t] = job /\ \A u \in Requests \ {t} : req'[u] = req[u]
  BY <1>4 DEF TypeOK
<1>10. /\ job.pc = "writing" /\ job.seen = req[t].seen /\ job.op = req[t].op /\ job.user = req[t].user
       /\ job.app = app /\ job.ops = ops /\ job.base = req[t].base
       /\ job.before = req[t].before /\ job.todo = req[t].todo \ {f}
  BY <1>1, <1>2 DEF Jobs, Active
<1>11. TypeOK'
  BY <1>4, <1>7, <1>8 DEF TypeOK, locks, ghosts
<1>12. \A u \in Requests \ {t} : Personal(u)'
  BY <1>2, <1>4, <1>9, Elsewhere DEF locks
<1>. HIDE DEF f, job
<1>13. PhasedBy(t)' /\ LockedBy(t)' /\ LoadedBy(t)' /\ SeenBy(t)'
  BY <1>1, <1>2, <1>4, <1>9, <1>10
     DEF locks, Personal, PhasedBy, LockedBy, LoadedBy, SeenBy, Flying, Active, Planning, Draft
<1>14. WritingBy(t)'
  <2>1. installed'[app] = Half(req[t].before, ops, req[t].todo \ {f})
    <3>1. installed[app] = Half(req[t].before, ops, req[t].todo)
      BY <1>1, <1>2 DEF Personal, WritingBy, Here
    <3>2. \A g \in Files : installed'[app][g] = Half(req[t].before, ops, req[t].todo \ {f})[g]
      BY <1>3, <1>5, <1>6, <3>1 DEF Half, Apply, Contents
    <3>. QED BY <1>7, <3>2 DEF Half, Contents
  <2>2. Here(t)' = installed'[app]
    BY <1>9, <1>10 DEF Here
  <2>. QED BY <1>1, <1>2, <1>6, <1>9, <1>10, <2>1, <2>2 DEF Personal, WritingBy
<1>15. Shared'
  <2>1. \A u \in Requests : Active(u, "writing")' = Active(u, "writing")
    BY <1>1, <1>9, <1>10 DEF Active
  <2>2. Changing(t)'
    BY <1>9, <1>10 DEF Changing
  <2>3. Told' /\ Disk' /\ Live'
    BY <1>1, <1>4, <2>1, <2>2 DEF Shared, Told, Disk, Live, ghosts
  <2>4. Unwritten'
    <3>. SUFFICES ASSUME NEW e \in written
                  PROVE  /\ drafts[e] # NoDraft
                         /\ \A u \in Requests : Active(u, "writing") /\ req'[u].app = e[2] =>
                                drafts[e].base # req'[u].before
                         /\ (\A u \in Requests : Active(u, "writing") => req'[u].app # e[2]) =>
                                drafts[e].base # installed'[e[2]]
      BY <1>4, <2>1 DEF Unwritten, ghosts
    <3>1. \A u \in Requests : Active(u, "writing") => req'[u].app = req[u].app /\ req'[u].before = req[u].before
      BY <1>2, <1>9, <1>10
    <3>2. e[2] \in Apps
      BY DEF TypeOK
    <3>3. e[2] # app => installed'[e[2]] = installed[e[2]]
      BY <1>6, <3>2
    <3>. QED BY <1>1, <3>1, <3>3 DEF Shared, Unwritten
  <2>. QED BY <2>3, <2>4 DEF Shared
<1>. QED BY <1>11, <1>12, <1>13, <1>14, <1>15 DEF Personal

\* Everything written is put back: the disk is what it was when the write began, and loads.
LEMMA TakeBackStep ==
    ASSUME IInv, NEW t \in Requests, TakeBack(t)
    PROVE  IInv'
<1>. USE DEF IInv, Standing
<1>. DEFINE app == req[t].app  before == req[t].before
<1>1. Active(t, "writing")
  BY DEF TakeBack
<1>2. /\ Flying(t) /\ req[t] \in Jobs /\ Personal(t) /\ committing = t
      /\ app \in Apps /\ before \in Contents
      /\ \A u \in Requests \ {t} : ~Active(u, "writing")
  BY <1>1, OneWriter
<1>3. /\ installed' = [installed EXCEPT ![app] = before]
      /\ Release(t) /\ req' = [req EXCEPT ![t] = Idle] /\ behind' = TRUE
      /\ UNCHANGED <<live, drafts, told, written, torn, crashes>>
  BY DEF TakeBack, PutBack, Answer
<1>4. installed'[app] = before /\ installed' \in Installations /\ \A a \in Apps \ {app} : installed'[a] = installed[a]
  BY <1>2, <1>3 DEF TypeOK, Installations
<1>5. req'[t] = Idle /\ \A u \in Requests \ {t} : req'[u] = req[u]
  BY <1>3 DEF TypeOK
<1>6. TypeOK'
  BY <1>3, <1>4, PublishingAssumption DEF Release, TypeOK
<1>7. \A u \in Requests \ {t} : Personal(u)'
  BY <1>2, <1>3, <1>5, ReleaseEffect, Elsewhere
<1>8. Personal(t)'
  BY <1>3, <1>5, ReleaseEffect, IdlePersonal
<1>9. \A u \in Requests : ~Active(u, "writing")'
  BY <1>2, <1>5 DEF Active, Idle
<1>10. Told' /\ Live'
  BY <1>3 DEF Shared, Told, Live
<1>11. Disk'
  <2>1. before \notin Unloadable /\ \A a \in Apps : a # app => installed[a] \notin Unloadable
    BY <1>1, <1>2 DEF Personal, WritingBy
  <2>. QED BY <1>4, <2>1 DEF Disk, Loads
<1>12. Unwritten'
  <2>. SUFFICES ASSUME NEW e \in written
                PROVE  drafts[e] # NoDraft /\ drafts[e].base # installed'[e[2]]
    BY <1>3, <1>9 DEF Unwritten
  <2>1. e[2] \in Apps
    BY DEF TypeOK
  <2>2. CASE e[2] = app
    BY <1>1, <1>4, <2>2 DEF Shared, Unwritten
  <2>3. CASE e[2] # app
    BY <1>2, <1>4, <2>1, <2>3 DEF Shared, Unwritten
  <2>. QED BY <2>2, <2>3
<1>. QED BY <1>6, <1>7, <1>8, <1>10, <1>11, <1>12 DEF Shared

\* The write is complete: what is on disk is no longer what it began with.
LEMMA VerifyStep ==
    ASSUME IInv, NEW t \in Requests, Verify(t)
    PROVE  IInv'
<1>. USE DEF IInv, Standing
<1>. DEFINE app == req[t].app  before == req[t].before
            job == IF req[t].op = "apply" THEN Written(t)
                   ELSE [req[t] EXCEPT !.pc = "dropping", !.seen = NoBase, !.before = NoBase]
<1>1. Active(t, "writing") /\ req[t].todo = {} /\ Loads(installed)
  BY DEF Verify
<1>2. /\ Flying(t) /\ req[t] \in Jobs /\ Personal(t) /\ committing = t
      /\ app \in Apps /\ before \in Contents /\ req[t].ops \in Changes
      /\ \A u \in Requests \ {t} : ~Active(u, "writing") /\ ~Active(u, "reviewing")
  BY <1>1, OneWriter
<1>3. /\ committing' = Nobody
      /\ written' = {d \in written : d[2] # app} \cup (IF req[t].op = "publish" THEN {Draft(t)} ELSE {})
      /\ req' = [req EXCEPT ![t] = job]
      /\ UNCHANGED <<disk, drafts, drafting, reloading, told, behind, torn, crashes>>
  BY DEF Verify
<1>4. req[t].op \in {"publish", "apply"}
  BY <1>1, <1>2 DEF Jobs, Personal, PhasedBy, Active
<1>5. job \in Jobs
  BY <1>2, NoChangeType DEF Jobs, Written
<1>6. req'[t] = job /\ \A u \in Requests \ {t} : req'[u] = req[u]
  BY <1>3 DEF TypeOK
<1>7. /\ job.op = req[t].op /\ job.user = req[t].user /\ job.app = app
      /\ req[t].op = "apply" => job.pc = "reload"
      /\ req[t].op = "publish" => job.pc = "dropping" /\ job.ops = req[t].ops /\ job.base = req[t].base
  BY <1>2 DEF Jobs, Written
<1>8. TypeOK'
  <2>1. written' \in SUBSET (Users \X Apps)
    BY <1>2, <1>3, FlyingType DEF TypeOK
  <2>. QED BY <1>3, <1>5, <2>1 DEF TypeOK, disk
<1>9. \A u \in Requests \ {t} : Personal(u)'
  <2>1. \A u \in Requests \ {t} : committing # u
    BY <1>2
  <2>. QED BY <1>3, <1>2, <1>6, <2>1, Elsewhere, PublishingAssumption DEF disk
<1>. HIDE DEF job
<1>10. Personal(t)'
  <2>1. Draft(t)' = Draft(t)
    BY <1>6, <1>7 DEF Draft
  <2>2. PhasedBy(t)' /\ LockedBy(t)'
    BY <1>1, <1>2, <1>3, <1>4, <1>6, <1>7, <2>1 DEF Personal, PhasedBy, LockedBy, Flying, Active
  <2>3. LoadedBy(t)'
    BY <1>1, <1>2, <1>3, <1>4, <1>6, <1>7, <2>1 DEF Personal, LoadedBy, Flying, Active, Planning
  <2>4. SeenBy(t)' /\ WritingBy(t)'
    BY <1>4, <1>6, <1>7 DEF SeenBy, WritingBy, Active
  <2>. QED BY <2>2, <2>3, <2>4 DEF Personal
<1>11. /\ \A u \in Requests : ~Active(u, "writing")'
       /\ Changing(t)'
  BY <1>2, <1>4, <1>6, <1>7 DEF Active, Changing
<1>12. Told' /\ Disk' /\ Live'
  BY <1>1, <1>3, <1>11 DEF Shared, Told, Disk, Live, Loads, disk
<1>13. Unwritten'
  <2>. SUFFICES ASSUME NEW e \in written'
                PROVE  drafts[e] # NoDraft /\ drafts[e].base # installed[e[2]]
    BY <1>3, <1>11 DEF Unwritten, disk
  <2>1. CASE e \in written /\ e[2] # app
    BY <1>2, <2>1 DEF Shared, Unwritten
  <2>2. CASE req[t].op = "publish" /\ e = Draft(t)
    <3>1. installed[app] # before
      <4>1. installed[app] = Half(before, req[t].ops, {}) /\ Apply(before, req[t].ops) # before
        BY <1>1, <1>2 DEF Personal, WritingBy, Here
      <4>2. Half(before, req[t].ops, {}) = Apply(before, req[t].ops)
        BY DEF Half, Apply
      <4>. QED BY <4>1, <4>2
    <3>2. drafts[e] # NoDraft /\ drafts[e].base = before
      BY <1>1, <1>2, <2>2 DEF Personal, LoadedBy, WritingBy, Planning, Active
    <3>. QED BY <2>2, <3>1, <3>2 DEF Draft
  <2>. QED BY <1>3, <2>1, <2>2
<1>. QED BY <1>8, <1>9, <1>10, <1>12, <1>13 DEF Shared

-----------------------------------------------------------------------------
(* Drafts.                                                                 *)

\* What is saved is what was stored with what was asked added to it, which is what is told.
LEMMA SaveDraftStep ==
    ASSUME IInv, NEW t \in Requests, SaveDraft(t)
    PROVE  IInv'
<1>. USE DEF IInv, Standing
<1>. DEFINE d == Draft(t)  ops == req[t].ops
            undone == Apply(Here(t), ops) = Here(t)
            saved == IF undone THEN NoDraft ELSE [ops |-> ops, base |-> req[t].base]
            says == IF undone THEN NoChange ELSE Add(told[d], req[t].ask)
<1>1. Active(t, "staging") /\ Loads(installed)
  BY DEF SaveDraft
<1>2. /\ Flying(t) /\ req[t] \in Jobs /\ Personal(t) /\ d \in Users \X Apps /\ Here(t) \in Contents
      /\ ops \in Changes /\ req[t].ask \in Changes /\ req[t].base \in Contents \cup {NoBase}
  BY <1>1, FlyingType DEF Flying, Active, Jobs
<1>3. /\ drafts' = [drafts EXCEPT ![d] = saved] /\ told' = [told EXCEPT ![d] = says]
      /\ written' = (IF undone THEN written \ {d} ELSE written)
      /\ Release(t) /\ req' = [req EXCEPT ![t] = Idle] /\ UNCHANGED <<disk, behind, torn, crashes>>
  BY DEF SaveDraft, Answer
<1>4. req'[t] = Idle /\ \A u \in Requests \ {t} : req'[u] = req[u]
  BY <1>3 DEF TypeOK
<1>5. /\ ops = Add(told[d], req[t].ask)
      /\ drafts[d] # NoDraft => req[t].base = drafts[d].base
      /\ drafting[d] = t
  BY <1>1, <1>2 DEF Personal, LoadedBy, LockedBy, PhasedBy, Active, Shared, Told
<1>6. saved.ops = says
  BY <1>5, NoChangeType
<1>7. saved \in Drafts /\ says \in Changes
  BY <1>2, <1>5, NoChangeType DEF Drafts
<1>8. ~undone => saved # NoDraft
  <2>1. Here(t) = Apply(Here(t), NoChange)
    BY <1>2 DEF Apply, NoChange, Contents
  <2>2. ~undone => ops # NoChange
    BY <2>1
  <2>. QED BY <2>2, NoChangeType
<1>. HIDE DEF d, ops, undone, saved, says
<1>9. TypeOK'
  BY <1>2, <1>3, <1>7, PublishingAssumption DEF Release, TypeOK, disk
<1>10. \A u \in Requests \ {t} : Personal(u)'
  <2>1. \A e \in Users \X Apps : drafts'[e] # drafts[e] => drafting[e] = t
    BY <1>3, <1>5 DEF TypeOK
  <2>. QED BY <1>3, <1>4, <2>1, ReleaseEffect, Elsewhere DEF disk
<1>11. Personal(t)'
  BY <1>3, <1>4, ReleaseEffect, IdlePersonal
<1>12. /\ reloading' = reloading
       /\ \A u \in Requests : /\ Active(u, "writing")' = Active(u, "writing") /\ Changing(u)' = Changing(u)
                              /\ Active(u, "writing") \/ reloading = u => req'[u] = req[u]
  BY <1>1, <1>2, <1>3, <1>4 DEF Release, Personal, LockedBy, Active, Changing, Idle
<1>13. Told'
  <2>1. drafts'[d] = saved /\ told'[d] = says
    BY <1>2, <1>3 DEF TypeOK
  <2>2. \A e \in Users \X Apps \ {d} : drafts'[e] = drafts[e] /\ told'[e] = told[e]
    BY <1>3 DEF TypeOK
  <2>. QED BY <1>6, <2>1, <2>2 DEF Shared, Told
<1>14. Disk' /\ Live'
  BY <1>3, <1>12 DEF Shared, Disk, Live, Serving, Loads, disk
<1>15. Unwritten'
  <2>. SUFFICES ASSUME NEW e \in written'
                PROVE  drafts'[e] # NoDraft /\ drafts'[e].base = drafts[e].base /\ drafts[e] # NoDraft
    BY <1>3, <1>12 DEF Shared, Unwritten, disk
  <2>1. e \in written /\ e \in Users \X Apps /\ drafts[e] # NoDraft
    BY <1>3 DEF Shared, Unwritten, TypeOK
  <2>2. CASE e = d
    <3>1. ~undone /\ drafts'[d] = saved
      BY <1>2, <1>3, <2>2 DEF TypeOK
    <3>2. saved.base = req[t].base
      BY <3>1 DEF saved
    <3>. QED BY <1>5, <1>8, <2>1, <2>2, <3>1, <3>2
  <2>3. CASE e # d
    BY <1>3, <2>1, <2>3 DEF TypeOK
  <2>. QED BY <2>2, <2>3
<1>. QED BY <1>9, <1>10, <1>11, <1>13, <1>14, <1>15 DEF Shared

\* A draft that is gone: none of its changes is told of any more, and it is not one that was
\* written and is still stored.
LEMMA DraftGone ==
    ASSUME IInv, NEW d \in Users \X Apps,
           drafts' = [drafts EXCEPT ![d] = NoDraft], told' = [told EXCEPT ![d] = NoChange],
           written' = written \ {d}, installed' = installed,
           \A u \in Requests : /\ Active(u, "writing")' = Active(u, "writing")
                               /\ Active(u, "writing") => req'[u] = req[u]
    PROVE  Told' /\ Unwritten'
<1>. USE DEF IInv, Standing, Shared
<1>1. drafts'[d] = NoDraft /\ told'[d] = NoChange
  BY DEF TypeOK
<1>2. \A e \in Users \X Apps \ {d} : drafts'[e] = drafts[e] /\ told'[e] = told[e]
  BY DEF TypeOK
<1>3. Told'
  BY <1>1, <1>2, NoChangeType DEF Told
<1>4. \A e \in written' : e \in written /\ drafts'[e] = drafts[e]
  BY <1>2 DEF TypeOK
<1>5. Unwritten'
  BY <1>4 DEF Unwritten
<1>. QED BY <1>3, <1>5

LEMMA DiscardStep ==
    ASSUME IInv, NEW t \in Requests, Discard(t)
    PROVE  IInv'
<1>. USE DEF IInv, Standing
<1>1. Active(t, "loading") /\ req[t].op = "discard" /\ Flying(t) /\ Draft(t) \in Users \X Apps
  BY FlyingType DEF Discard, Flying, Active
<1>2. /\ drafts' = [drafts EXCEPT ![Draft(t)] = NoDraft] /\ told' = [told EXCEPT ![Draft(t)] = NoChange]
      /\ written' = written \ {Draft(t)}
      /\ Release(t) /\ req' = [req EXCEPT ![t] = Idle] /\ UNCHANGED <<disk, behind, torn, crashes>>
  BY DEF Discard, Answer
<1>3. req'[t] = Idle /\ \A u \in Requests \ {t} : req'[u] = req[u]
  BY <1>2 DEF TypeOK
<1>4. TypeOK'
  BY <1>1, <1>2, NoChangeType, PublishingAssumption DEF Release, TypeOK, disk
<1>5. \A u \in Requests \ {t} : Personal(u)'
  <2>1. drafting[Draft(t)] = t
    BY <1>1 DEF Personal, LockedBy, Active
  <2>2. \A e \in Users \X Apps : drafts'[e] # drafts[e] => drafting[e] = t
    BY <1>2, <2>1 DEF TypeOK
  <2>. QED BY <1>2, <1>3, <2>2, ReleaseEffect, Elsewhere DEF disk
<1>6. Personal(t)'
  BY <1>2, <1>3, ReleaseEffect, IdlePersonal
<1>7. /\ reloading' = reloading
      /\ \A u \in Requests : /\ Active(u, "writing")' = Active(u, "writing") /\ Changing(u)' = Changing(u)
                             /\ Active(u, "writing") \/ reloading = u => req'[u] = req[u]
  BY <1>1, <1>2, <1>3 DEF Release, Personal, LockedBy, Active, Changing, Idle
<1>8. Told' /\ Unwritten'
  BY <1>1, <1>2, <1>7, DraftGone DEF disk
<1>9. Disk' /\ Live'
  BY <1>2, <1>7 DEF Shared, Disk, Live, Serving, Loads, disk
<1>. QED BY <1>4, <1>5, <1>6, <1>8, <1>9 DEF Shared

LEMMA DropDraftStep ==
    ASSUME IInv, NEW t \in Requests, DropDraft(t)
    PROVE  IInv'
<1>. USE DEF IInv, Standing
<1>. DEFINE d == Draft(t)  job == Written(t)
            says == [f \in Files |-> IF told[d][f] = req[t].ops[f] THEN Unset ELSE told[d][f]]
<1>1. /\ Active(t, "dropping") /\ Flying(t) /\ req[t] \in Jobs /\ d \in Users \X Apps /\ Personal(t)
  BY FlyingType DEF DropDraft, Flying, Active
<1>2. req[t].op = "publish"
  BY <1>1 DEF Jobs, Personal, PhasedBy, Active
<1>3. req[t].ops = told[d] /\ drafting[d] = t
  BY <1>1, <1>2 DEF Personal, LoadedBy, LockedBy, Shared, Told, Planning, Active
<1>4. says = NoChange
  BY <1>3 DEF NoChange
<1>5. /\ drafts' = [drafts EXCEPT ![d] = NoDraft] /\ written' = written \ {d}
      /\ req' = [req EXCEPT ![t] = job] /\ UNCHANGED <<disk, locks, behind, torn, crashes>>
      /\ told' = [told EXCEPT ![d] = says]
  BY <1>1 DEF DropDraft, TypeOK
<1>6. job \in Jobs
  BY <1>1, NoChangeType DEF Jobs, Written
<1>7. req'[t] = job /\ \A u \in Requests \ {t} : req'[u] = req[u]
  BY <1>5 DEF TypeOK
<1>8. job.op = req[t].op /\ job.user = req[t].user /\ job.app = req[t].app /\ job.pc = "reload"
  BY <1>1 DEF Jobs, Written
<1>. HIDE DEF job, d, says
<1>9. TypeOK'
  BY <1>1, <1>4, <1>5, <1>6, NoChangeType DEF TypeOK, disk, locks
<1>10. \A u \in Requests \ {t} : Personal(u)'
  <2>1. \A e \in Users \X Apps : drafts'[e] # drafts[e] => drafting[e] = t
    BY <1>3, <1>5 DEF TypeOK
  <2>. QED BY <1>5, <1>7, <2>1, Elsewhere DEF disk, locks
<1>11. Personal(t)'
  <2>1. Draft(t)' = d
    BY <1>7, <1>8 DEF Draft, d
  <2>. QED BY <1>1, <1>2, <1>3, <1>5, <1>7, <1>8, <2>1
           DEF locks, Personal, PhasedBy, LockedBy, LoadedBy, SeenBy, WritingBy, Flying, Active, Planning
<1>12. /\ Changing(t)'
       /\ \A u \in Requests : /\ Active(u, "writing")' = Active(u, "writing")
                              /\ Active(u, "writing") => req'[u] = req[u]
  BY <1>1, <1>7, <1>8 DEF Active, Changing
<1>13. Told' /\ Unwritten'
  BY <1>1, <1>4, <1>5, <1>12, DraftGone DEF disk
<1>14. Disk' /\ Live'
  BY <1>5, <1>12 DEF Shared, Disk, Live, Loads, disk
<1>. QED BY <1>9, <1>10, <1>11, <1>13, <1>14 DEF Shared

\* The draft stays, though what it changes was written: it is one of those that are not
\* written again.
LEMMA KeepDraftStep ==
    ASSUME IInv, NEW t \in Requests, KeepDraft(t)
    PROVE  IInv'
<1>. USE DEF IInv, Standing
<1>1. /\ Active(t, "dropping") /\ Release(t) /\ req' = [req EXCEPT ![t] = Idle] /\ behind' = TRUE
      /\ UNCHANGED <<disk, drafts, told, written, torn, crashes>>
  BY DEF KeepDraft, Answer
<1>2. req'[t] = Idle /\ \A u \in Requests \ {t} : req'[u] = req[u]
  BY <1>1 DEF TypeOK
<1>3. TypeOK'
  BY <1>1, PublishingAssumption DEF Release, TypeOK, disk
<1>4. \A u \in Requests \ {t} : Personal(u)'
  BY <1>1, <1>2, ReleaseEffect, Elsewhere DEF disk
<1>5. Personal(t)'
  BY <1>1, <1>2, ReleaseEffect, IdlePersonal
<1>6. \A u \in Requests : /\ Active(u, "writing")' = Active(u, "writing")
                          /\ Active(u, "writing") => req'[u] = req[u]
  BY <1>1, <1>2 DEF Active, Idle
<1>7. Shared'
  BY <1>1, <1>6 DEF Shared, Told, Unwritten, Disk, Live, Loads, disk
<1>. QED BY <1>3, <1>4, <1>5, <1>7

-----------------------------------------------------------------------------
(* Reloads and crashes.                                                    *)

LEMMA ReadManifestStep ==
    ASSUME IInv, NEW t \in Requests, ReadManifest(t)
    PROVE  IInv'
<1>. USE DEF IInv, Standing
<1>1. /\ Active(t, "reload") /\ Flying(t) /\ req[t] \in Jobs /\ Personal(t) /\ reloading = Nobody
      /\ UNCHANGED <<disk, drafts, told, written, torn, crashes>>
  BY FlyingType DEF ReadManifest, Flying, Active
<1>2. CASE Loads(installed)
  <2>. DEFINE job == [req[t] EXCEPT !.pc = "swapping", !.seen = installed]
  <2>1. req' = [req EXCEPT ![t] = job] /\ reloading' = t /\ behind' = FALSE /\ UNCHANGED <<drafting, committing>>
    BY <1>2 DEF ReadManifest
  <2>2. job \in Jobs
    BY <1>1 DEF Jobs, TypeOK
  <2>3. req'[t] = job /\ \A u \in Requests \ {t} : req'[u] = req[u]
    BY <2>1 DEF TypeOK
  <2>4. /\ job.pc = "swapping" /\ job.seen = installed
        /\ job.op = req[t].op /\ job.user = req[t].user /\ job.app = req[t].app
    BY <1>1 DEF Jobs
  <2>5. TypeOK'
    BY <1>1, <2>1, <2>2 DEF TypeOK, disk
  <2>6. \A u \in Requests \ {t} : reloading # u
    BY <1>1, PublishingAssumption
  <2>7. \A u \in Requests \ {t} : Personal(u)'
    BY <1>1, <2>1, <2>3, <2>6, Elsewhere DEF disk
  <2>8. Personal(t)'
    <3>. HIDE DEF job
    <3>1. Draft(t)' = Draft(t)
      BY <2>3, <2>4 DEF Draft
    <3>2. PhasedBy(t)' /\ LockedBy(t)'
      BY <1>1, <2>1, <2>3, <2>4, <3>1 DEF Personal, PhasedBy, LockedBy, Flying, Active
    <3>3. LoadedBy(t)' /\ WritingBy(t)'
      BY <2>3, <2>4 DEF LoadedBy, WritingBy, Active, Planning
    <3>4. SeenBy(t)'
      BY <2>3, <2>4 DEF SeenBy, Active, TypeOK
    <3>. QED BY <3>2, <3>3, <3>4 DEF Personal
  <2>9. \A u \in Requests : /\ Active(u, "writing")' = Active(u, "writing")
                            /\ Active(u, "writing") => req'[u] = req[u]
    BY <1>1, <2>3, <2>4 DEF Active
  <2>10. Told' /\ Unwritten' /\ Disk'
    BY <1>1, <2>9 DEF Shared, Told, Unwritten, Disk, Loads, disk
  <2>11. Live'
    BY <1>1, <2>1, <2>3, <2>4, PublishingAssumption DEF Live, disk
  <2>. QED BY <2>3, <2>5, <2>7, <2>8, <2>10, <2>11 DEF Shared
<1>3. CASE ~Loads(installed)
  <2>1. Release(t) /\ req' = [req EXCEPT ![t] = Idle] /\ behind' = TRUE
    BY <1>3 DEF ReadManifest, Answer
  <2>2. req'[t] = Idle /\ \A u \in Requests \ {t} : req'[u] = req[u]
    BY <2>1 DEF TypeOK
  <2>3. TypeOK'
    BY <1>1, <2>1, PublishingAssumption DEF Release, TypeOK, disk
  <2>4. \A u \in Requests \ {t} : Personal(u)'
    BY <1>1, <2>1, <2>2, ReleaseEffect, Elsewhere DEF disk
  <2>5. Personal(t)'
    BY <2>1, <2>2, ReleaseEffect, IdlePersonal
  <2>6. \A u \in Requests : /\ Active(u, "writing")' = Active(u, "writing")
                            /\ Active(u, "writing") => req'[u] = req[u]
    BY <1>1, <2>2 DEF Active, Idle
  <2>7. Shared'
    BY <1>1, <2>1, <2>6 DEF Shared, Told, Unwritten, Disk, Live, Loads, disk
  <2>. QED BY <2>3, <2>4, <2>5, <2>7
<1>. QED BY <1>2, <1>3

\* What was read under the lock is served.
LEMMA SwapStep ==
    ASSUME IInv, NEW t \in Requests, Swap(t)
    PROVE  IInv'
<1>. USE DEF IInv, Standing
<1>1. /\ Active(t, "swapping") /\ live' = req[t].seen /\ Release(t) /\ req' = [req EXCEPT ![t] = Idle]
      /\ UNCHANGED <<installed, drafts, ghosts>> /\ reloading = t
  BY DEF Swap, Answer, Personal, LockedBy
<1>2. req'[t] = Idle /\ \A u \in Requests \ {t} : req'[u] = req[u]
  BY <1>1 DEF TypeOK
<1>3. TypeOK'
  <2>1. live' \in Installations
    BY <1>1 DEF Personal, SeenBy
  <2>. QED BY <1>1, <2>1, PublishingAssumption DEF Release, TypeOK, ghosts
<1>4. \A u \in Requests \ {t} : Personal(u)'
  BY <1>1, <1>2, ReleaseEffect, Elsewhere
<1>5. Personal(t)'
  BY <1>1, <1>2, ReleaseEffect, IdlePersonal
<1>6. \A u \in Requests : /\ Active(u, "writing")' = Active(u, "writing") /\ Changing(u)' = Changing(u)
                          /\ Active(u, "writing") => req'[u] = req[u]
  BY <1>1, <1>2 DEF Active, Changing, Idle
<1>7. Told' /\ Unwritten' /\ Disk'
  BY <1>1, <1>6 DEF Shared, Told, Unwritten, Disk, Loads, ghosts
<1>8. Live'
  <2>1. reloading' = Nobody
    BY <1>1 DEF Release
  <2>2. ~behind /\ (\A u \in Requests : ~Changing(u)) => live' = installed
    BY <1>1 DEF Shared, Live
  <2>. QED BY <1>1, <1>6, <2>1, <2>2, PublishingAssumption DEF Live, Serving, ghosts
<1>. QED BY <1>3, <1>4, <1>5, <1>7, <1>8 DEF Shared

\* A process that starts serves what is on disk, if it loads; where it does not, a write was
\* cut short.
LEMMA CrashStep ==
    ASSUME IInv, Crash
    PROVE  IInv'
<1>. USE DEF IInv, Standing
<1>1. /\ torn' = (torn \/ \E t \in Requests : Active(t, "writing"))
      /\ live' = IF Loads(installed) THEN installed ELSE Unavailable
      /\ behind' = FALSE /\ reloading' = Nobody /\ committing' = Nobody
      /\ req' = [t \in Requests |-> Idle]
      /\ written' = {d \in written : ~\E t \in Requests : Active(t, "writing") /\ req[t].app = d[2]}
      /\ UNCHANGED <<installed, drafts, told>>
  BY DEF Crash
<1>2. TypeOK'
  <2>1. crashes' \in 0 .. MaxCrashes
    BY PublishingAssumption DEF Crash, TypeOK
  <2>2. torn' \in BOOLEAN /\ drafting' \in [Users \X Apps -> Requests \cup {Nobody}]
    BY DEF Crash, TypeOK
  <2>3. live' \in Installations \cup {Unavailable} /\ req' \in [Requests -> Jobs \cup {Idle}]
    BY <1>1 DEF TypeOK
  <2>. QED BY <1>1, <2>1, <2>2, <2>3 DEF TypeOK
<1>3. \A t \in Requests : req'[t] = Idle /\ ~Active(t, "writing")'
  BY <1>1 DEF Active, Idle
<1>4. \A t \in Requests : Personal(t)'
  BY <1>1, <1>3, IdlePersonal, PublishingAssumption
<1>5. Told'
  BY <1>1 DEF Shared, Told
<1>6. Unwritten'
  <2>. SUFFICES ASSUME NEW e \in written' PROVE drafts[e] # NoDraft /\ drafts[e].base # installed[e[2]]
    BY <1>1, <1>3 DEF Unwritten
  <2>. QED BY <1>1 DEF Shared, Unwritten
<1>7. Disk'
  BY <1>1, <1>3 DEF Shared, Disk, Loads
<1>8. Live'
  <2>1. ~Loads(installed) => torn'
    BY <1>1 DEF Shared, Disk
  <2>2. Serving'
    BY <1>1, <2>1 DEF Serving, Loads
  <2>. QED BY <1>1, <2>2, PublishingAssumption DEF Live
<1>. QED BY <1>2, <1>4, <1>5, <1>6, <1>7, <1>8 DEF Shared

-----------------------------------------------------------------------------
(* Every step.                                                             *)

LEMMA InvStep == IInv /\ Unraced /\ [Next]_vars => IInv'
<1>. SUFFICES ASSUME IInv, Unraced, [Next]_vars PROVE IInv'
  OBVIOUS
<1>1. ASSUME NEW t \in Requests, NEW u \in Users, NEW a \in Apps,
             BeginStage(t, u, a) \/ BeginPublish(t, u, a) \/ BeginDiscard(t, u, a) \/ BeginApply(t, u, a)
      PROVE  IInv'
  <2>1. CASE BeginStage(t, u, a)
    BY <2>1, BeginStep, OneChangeType DEF BeginStage
  <2>2. CASE BeginPublish(t, u, a)
    BY <2>2, BeginStep, NoChangeType DEF BeginPublish
  <2>3. CASE BeginDiscard(t, u, a)
    BY <2>3, BeginStep, NoChangeType DEF BeginDiscard
  <2>4. CASE BeginApply(t, u, a)
    BY <2>4, BeginStep, OneChangeType DEF BeginApply
  <2>. QED BY <1>1, <2>1, <2>2, <2>3, <2>4
<1>2. ASSUME NEW t \in Requests, LockDraft(t) \/ LockCommit(t) \/ ReadManifest(t) PROVE IInv'
  BY <1>2, LockDraftStep, LockCommitStep, ReadManifestStep
<1>3. ASSUME NEW t \in Requests, Advance(t) PROVE IInv'
  BY <1>3, LoadDraftStep, SaveDraftStep, DiscardStep, CheckBaseStep, ReadVersionStep, ReviewStep,
     WriteFileStep, TakeBackStep, VerifyStep, DropDraftStep, KeepDraftStep, SwapStep DEF Advance
<1>4. ASSUME NEW t \in Requests, Fail(t) PROVE IInv'
  BY <1>4, RefuseStep DEF Fail, Flying, Active
<1>5. CASE Crash
  BY <1>5, CrashStep
<1>6. CASE UNCHANGED vars
  <2>1. UNCHANGED <<installed, live, drafts, drafting, committing, reloading, req, told, written, behind, torn, crashes>>
    BY <1>6 DEF vars, disk, locks, ghosts
  <2>2. TypeOK'
    BY <2>1 DEF TypeOK, IInv
  <2>3. \A t \in Requests : Personal(t)'
    BY <2>1 DEF IInv, Standing, Personal, PhasedBy, LockedBy, LoadedBy, SeenBy, WritingBy, Flying, Active,
                Draft, Here, Planning
  <2>4. Shared'
    BY <2>1 DEF IInv, Standing, Shared, Told, Unwritten, Disk, Live, Serving, Loads, Changing, Active
  <2>. QED BY <2>2, <2>3, <2>4 DEF IInv, Standing
<1>. QED BY <1>1, <1>2, <1>3, <1>4, <1>5, <1>6 DEF Next

-----------------------------------------------------------------------------
(* The theorems.                                                           *)

THEOREM Invariance == Spec /\ []Unraced => []IInv
BY InitInv, InvStep, PTL DEF Spec

\* However many requests on one draft overlap, what an admin was told is staged is what their
\* draft holds (internal/web/builderdraft.go lockDraft).
THEOREM DraftsKept == Spec /\ []Unraced => []DraftsAsTold
<1>1. IInv => DraftsAsTold
  BY DEF IInv, Standing, Shared, Told, DraftsAsTold
<1>. QED BY <1>1, Invariance, PTL

\* An apply writes over the installation it was reviewed against (internal/builder/builder.go Commit).
THEOREM PlansKept == Spec /\ []Unraced => []PlanStands
<1>1. IInv => PlanStands
  BY DEF IInv, Standing, Personal, WritingBy, PlanStands
<1>. QED BY <1>1, Invariance, PTL

\* A publish writes over the Application its draft began against (internal/web/builderdraft.go
\* runPublishDraft).
THEOREM BaseKept == Spec /\ []Unraced => []DraftStands
<1>1. IInv => DraftStands
  BY DEF IInv, Standing, Personal, WritingBy, DraftStands
<1>. QED BY <1>1, Invariance, PTL

\* What was published once is not published again, though its draft could not be deleted.
THEOREM NeverReplayed == Spec /\ []Unraced => []NoReplay
<1>1. IInv => NoReplay
  <2>. SUFFICES ASSUME IInv, NEW t \in Requests, Active(t, "writing"), req[t].op = "publish"
                PROVE  Draft(t) \notin written
    BY DEF NoReplay
  <2>1. Personal(t) /\ Flying(t) /\ req[t].base = drafts[Draft(t)].base /\ req[t].before = req[t].base
    BY DEF IInv, Standing, Personal, LoadedBy, WritingBy, Flying, Active, Planning
  <2>. QED BY <2>1 DEF IInv, Standing, Shared, Unwritten, Draft
<1>. QED BY <1>1, Invariance, PTL

\* The disk loads whenever nobody writes and no write was cut short, whatever failed before
\* (internal/aiassist/write.go).
THEOREM DiskKept == Spec /\ []Unraced => []DiskLoads
<1>1. IInv => DiskLoads
  BY PublishingAssumption DEF IInv, Standing, Shared, Personal, LockedBy, Disk, DiskLoads
<1>. QED BY <1>1, Invariance, PTL

\* What is served follows what is on disk, reloads overlapping writes and other reloads
\* (cmd/server/main.go ReloadWorkspace).
THEOREM Served == Spec /\ []Unraced => []LiveFollows
<1>1. IInv => LiveFollows
  <2>. SUFFICES ASSUME IInv, \A t \in Requests : ~AtWork(t), ~behind PROVE Serving
    BY DEF LiveFollows, Serving
  <2>1. \A t \in Requests : ~Changing(t) /\ reloading # t
    BY DEF AtWork, Changing, IInv, Standing, Personal, LockedBy, Active
  <2>. QED BY <2>1 DEF IInv, TypeOK, Standing, Shared, Live
<1>. QED BY <1>1, Invariance, PTL
=============================================================================
