----------------------------- MODULE Publishing -----------------------------
(***************************************************************************)
(* Editing an installed Application: the Application Builder's drafts      *)
(* (internal/web/builderdraft.go), its two ways to write                   *)
(* (internal/web/builder.go), the commit both share                        *)
(* (internal/builder/builder.go Commit, which writes by                    *)
(* internal/aiassist/write.go) and the reload that serves what was written *)
(* (cmd/server/main.go ReloadWorkspace).                                   *)
(*                                                                         *)
(* An Application's metadata is a few files, replaced one at a time in     *)
(* order.  A change says what one file should hold.  An admin's changes    *)
(* are staged in a draft, kept in the database with the state of the       *)
(* Application it began against; publishing writes all of them.  Another   *)
(* client applies a change it reviewed against a state of the whole        *)
(* installation.  Three locks, in this order: one per draft, one for       *)
(* commits, one for reloads.                                               *)
(***************************************************************************)
EXTENDS Naturals, FiniteSetsExt

CONSTANTS
    Requests,    \* concurrent requests
    Users,       \* admins who hold drafts
    Apps,        \* installed Applications
    Files,       \* the files of one Application, in the order they are written: numbers
    Texts,       \* what a file may hold
    FirstText,   \* what every file holds at first
    Unloadable,  \* what an Application's files hold together when the loader refuses them
    MaxCrashes,  \* bound: how often the process dies
    Unset,       \* a draft says nothing of a file
    NoBase,      \* a draft that has not begun
    Unavailable, \* what is served when the installation did not load at start
    Nobody

VARIABLES
    installed,   \* the files on disk
    live,        \* the metadata being served
    drafts,      \* app_drafts
    drafting,    \* the request holding each draft's lock
    committing,  \* the request holding the commit lock
    reloading,   \* the request holding the reload lock
    req,         \* each request: where it is, and what it has read
    told,        \* what each admin has been told is staged
    written,     \* drafts whose changes were written and that are still stored
    behind,      \* the last reload failed, or a write was taken back since it
    torn,        \* the process died in the middle of a write
    crashes

disk == <<installed, live>>
locks == <<drafting, committing, reloading>>
ghosts == <<told, written, behind, torn, crashes>>
vars == <<disk, drafts, locks, req, ghosts>>

Contents == [Files -> Texts]
Installations == [Apps -> Contents]
Changes == [Files -> Texts \cup {Unset}]
NoChange == [f \in Files |-> Unset]
Drafts == [ops : Changes, base : Contents \cup {NoBase}]
NoDraft == [ops |-> NoChange, base |-> NoBase]

ASSUME PublishingAssumption ==
    /\ Files \subseteq Nat /\ FirstText \in Texts /\ Unset \notin Texts
    /\ Unloadable \subseteq Contents
    /\ [f \in Files |-> FirstText] \notin Unloadable
    /\ NoBase \notin Contents \cup Installations /\ Unavailable \notin Installations
    /\ Nobody \notin Requests /\ MaxCrashes \in Nat

-----------------------------------------------------------------------------
Idle == [pc |-> "idle"]

Jobs == [pc : {"draft", "loading", "staging", "checking", "versioning", "planned", "reviewing",
               "writing", "dropping", "reload", "swapping"},
         op : {"stage", "publish", "discard", "apply"},
         user : Users, app : Apps, ask : Changes, ops : Changes, base : Contents \cup {NoBase},
         seen : Installations \cup {NoBase}, before : Contents \cup {NoBase}, todo : SUBSET Files]

Active(t, pc) == req[t].pc = pc
Go(t, pc) == req' = [req EXCEPT ![t].pc = pc]

TypeOK ==
    /\ installed \in Installations
    /\ live \in Installations \cup {Unavailable}
    /\ drafts \in [Users \X Apps -> Drafts]
    /\ drafting \in [Users \X Apps -> Requests \cup {Nobody}]
    /\ committing \in Requests \cup {Nobody}
    /\ reloading \in Requests \cup {Nobody}
    /\ req \in [Requests -> Jobs \cup {Idle}]
    /\ told \in [Users \X Apps -> Changes]
    /\ written \in SUBSET (Users \X Apps)
    /\ behind \in BOOLEAN /\ torn \in BOOLEAN /\ crashes \in 0 .. MaxCrashes

Init ==
    /\ installed = [a \in Apps |-> [f \in Files |-> FirstText]]
    /\ live = installed
    /\ drafts = [d \in Users \X Apps |-> NoDraft]
    /\ drafting = [d \in Users \X Apps |-> Nobody]
    /\ committing = Nobody /\ reloading = Nobody
    /\ req = [t \in Requests |-> Idle]
    /\ told = [d \in Users \X Apps |-> NoChange]
    /\ written = {}
    /\ behind = FALSE /\ torn = FALSE /\ crashes = 0

-----------------------------------------------------------------------------
\* builder.Apply: changes made to what an Application holds; a later change of a file wins.
Apply(content, ops) == [f \in Files |-> IF ops[f] = Unset THEN content[f] ELSE ops[f]]
Add(ops, more) == [f \in Files |-> IF more[f] = Unset THEN ops[f] ELSE more[f]]

\* metadata.LoadApplication: every Application of the Workspace loads, or none is served.
Loads(i) == \A a \in Apps : i[a] \notin Unloadable

Draft(t) == <<req[t].user, req[t].app>>
Here(t) == installed[req[t].app]

\* A request is over: every lock it holds is released, as the deferred unlocks do.
Release(t) ==
    /\ drafting' = [d \in Users \X Apps |-> IF drafting[d] = t THEN Nobody ELSE drafting[d]]
    /\ committing' = IF committing = t THEN Nobody ELSE committing
    /\ reloading' = IF reloading = t THEN Nobody ELSE reloading

Answer(t) ==
    /\ Release(t)
    /\ req' = [req EXCEPT ![t] = Idle]

Refuse(t) == Answer(t) /\ UNCHANGED <<disk, drafts, ghosts>>

-----------------------------------------------------------------------------
(* A request begins.                                                       *)

Begin(t, op, pc, u, a, ask, seen) ==
    /\ Active(t, "idle")
    /\ req' = [req EXCEPT ![t] = [pc |-> pc, op |-> op, user |-> u, app |-> a, ask |-> ask,
                                  ops |-> ask, base |-> NoBase, seen |-> seen,
                                  before |-> NoBase, todo |-> {}]]
    /\ UNCHANGED <<disk, drafts, locks, ghosts>>

OneChange == {[NoChange EXCEPT ![f] = x] : f \in Files, x \in Texts}

BeginStage(t, u, a) == \E ops \in OneChange : Begin(t, "stage", "draft", u, a, ops, NoBase)
BeginPublish(t, u, a) == Begin(t, "publish", "draft", u, a, NoChange, NoBase)
BeginDiscard(t, u, a) == Begin(t, "discard", "draft", u, a, NoChange, NoBase)

\* The change was planned and reviewed against the installation as it is now.
BeginApply(t, u, a) == \E ops \in OneChange : Begin(t, "apply", "planned", u, a, ops, installed)

-----------------------------------------------------------------------------
(* Drafts.                                                                 *)

EnterDraft(t) ==  \* mutant: nothing serialises the requests on one draft
    /\ Active(t, "draft")
    /\ Go(t, "loading")
    /\ UNCHANGED <<disk, drafts, locks, ghosts>>

LockDraft(t) ==
    /\ Active(t, "draft")
    /\ drafting[Draft(t)] = Nobody
    /\ drafting' = [drafting EXCEPT ![Draft(t)] = t]
    /\ Go(t, "loading")
    /\ UNCHANGED <<disk, drafts, committing, reloading, ghosts>>

LoadRebased(t) ==  \* mutant: the draft is taken to begin now, whenever it began
    LET d == drafts[Draft(t)]
    IN  /\ Active(t, "loading")
        /\ req[t].op # "discard"
        /\ IF req[t].op = "publish" /\ d = NoDraft THEN Refuse(t)
           ELSE /\ req' = [req EXCEPT
                      ![t].pc = IF req[t].op = "stage" THEN "staging" ELSE "checking",
                      ![t].ops = Add(d.ops, req[t].ask),
                      ![t].base = Here(t)]
                /\ UNCHANGED <<disk, drafts, locks, ghosts>>

\* loadDraft, and for a draft that begins the state of the Application it begins against.
LoadDraft(t) ==
    LET d == drafts[Draft(t)]
    IN  /\ Active(t, "loading")
        /\ req[t].op # "discard"
        /\ IF req[t].op = "publish" /\ d = NoDraft THEN Refuse(t)
           ELSE /\ req' = [req EXCEPT
                      ![t].pc = IF req[t].op = "stage" THEN "staging" ELSE "checking",
                      ![t].ops = Add(d.ops, req[t].ask),
                      ![t].base = IF d = NoDraft THEN Here(t) ELSE d.base]
                /\ UNCHANGED <<disk, drafts, locks, ghosts>>

\* stageBuilderOps: changes that undo one another leave no draft; otherwise the draft is
\* saved with the base it began with.  The admin is told what they asked for is staged.
SaveDraft(t) ==
    LET undone == Apply(Here(t), req[t].ops) = Here(t)
    IN  /\ Active(t, "staging")
        /\ Loads(installed)
        /\ drafts' = [drafts EXCEPT ![Draft(t)] =
                          IF undone THEN NoDraft ELSE [ops |-> req[t].ops, base |-> req[t].base]]
        /\ told' = [told EXCEPT ![Draft(t)] = IF undone THEN NoChange
                                                ELSE Add(told[Draft(t)], req[t].ask)]
        /\ written' = IF undone THEN written \ {Draft(t)} ELSE written
        /\ Answer(t)
        /\ UNCHANGED <<disk, behind, torn, crashes>>

Discard(t) ==
    /\ Active(t, "loading")
    /\ req[t].op = "discard"
    /\ drafts' = [drafts EXCEPT ![Draft(t)] = NoDraft]
    /\ told' = [told EXCEPT ![Draft(t)] = NoChange]
    /\ written' = written \ {Draft(t)}
    /\ Answer(t)
    /\ UNCHANGED <<disk, behind, torn, crashes>>

-----------------------------------------------------------------------------
(* Publishing a draft, up to the commit it shares with an apply.           *)

\* runPublishDraft: the Application must still be what the draft began against.
CheckBase(t) ==
    /\ Active(t, "checking")
    /\ IF Loads(installed) /\ Here(t) = req[t].base
       THEN Go(t, "versioning") /\ UNCHANGED <<disk, drafts, locks, ghosts>>
       ELSE Refuse(t)

\* commitBuilderOpsAt, given no version, reads the installation's own.
ReadVersion(t) ==
    /\ Active(t, "versioning")
    /\ req' = [req EXCEPT ![t].pc = "planned", ![t].seen = installed]
    /\ UNCHANGED <<disk, drafts, locks, ghosts>>

LockCommit(t) ==
    /\ Active(t, "planned")
    /\ committing = Nobody
    /\ committing' = t
    /\ Go(t, "reviewing")
    /\ UNCHANGED <<disk, drafts, drafting, reloading, ghosts>>

AnyVersion(t) == TRUE  \* mutant: the version is not compared

\* builder.Version is a hash over every file of the installation.
Fresh(t) == installed = req[t].seen

\* builder.Commit: the version still holds, and the plan is one the writer accepts: the
\* installation loads, and the Application would change.  Its files are noted.
Review(t) ==
    LET desired == Apply(Here(t), req[t].ops)
    IN  /\ Active(t, "reviewing")
        /\ IF Fresh(t) /\ Loads(installed) /\ desired # Here(t)
           THEN /\ req' = [req EXCEPT ![t].pc = "writing", ![t].before = Here(t),
                                      ![t].todo = {f \in Files : desired[f] # Here(t)[f]}]
                /\ UNCHANGED <<disk, drafts, locks, ghosts>>
           ELSE Refuse(t)

\* aiassist.Write: each file is written aside and renamed into place.
WriteFile(t) ==
    LET f == Min(req[t].todo)
    IN  /\ Active(t, "writing")
        /\ req[t].todo # {}
        /\ installed' = [installed EXCEPT ![req[t].app][f] = req[t].ops[f]]
        /\ req' = [req EXCEPT ![t].todo = @ \ {f}]
        /\ UNCHANGED <<live, drafts, locks, ghosts>>

LeaveWritten(t) == installed' = installed  \* mutant: a write that fails is left half done

\* WriteSet.Rollback: every file written is put back as it was noted.
PutBack(t) == installed' = [installed EXCEPT ![req[t].app] = req[t].before]

\* A file could not be written, or all are and the whole does not load.
TakeBack(t) ==
    /\ Active(t, "writing")
    /\ req[t].todo = {} => ~Loads(installed)
    /\ PutBack(t)
    /\ Answer(t)
    /\ behind' = TRUE
    /\ UNCHANGED <<live, drafts, told, written, torn, crashes>>

\* What is left to do once the change is written, whatever it was.
Written(t) == [req[t] EXCEPT !.pc = "reload", !.ask = NoChange, !.ops = NoChange,
                             !.base = NoBase, !.seen = NoBase, !.before = NoBase]

\* Every file is in place and the whole loads: the commit lock is released.  Other drafts
\* of the Application that were written and not dropped are no longer what is installed.
Verify(t) ==
    /\ Active(t, "writing")
    /\ req[t].todo = {}
    /\ Loads(installed)
    /\ committing' = Nobody
    /\ written' = {d \in written : d[2] # req[t].app} \cup
                   (IF req[t].op = "publish" THEN {Draft(t)} ELSE {})
    /\ req' = [req EXCEPT ![t] =
                   IF req[t].op = "apply" THEN Written(t)
                   ELSE [@ EXCEPT !.pc = "dropping", !.seen = NoBase, !.before = NoBase]]
    /\ UNCHANGED <<disk, drafts, drafting, reloading, told, behind, torn, crashes>>

\* The draft that was written is deleted before the reload.
DropDraft(t) ==
    /\ Active(t, "dropping")
    /\ drafts' = [drafts EXCEPT ![Draft(t)] = NoDraft]
    /\ told' = [told EXCEPT ![Draft(t)] =
                    [f \in Files |-> IF @[f] = req[t].ops[f] THEN Unset ELSE @[f]]]
    /\ written' = written \ {Draft(t)}
    /\ req' = [req EXCEPT ![t] = Written(t)]
    /\ UNCHANGED <<disk, locks, behind, torn, crashes>>

\* The draft could not be deleted: the request ends there, without a reload.
KeepDraft(t) ==
    /\ Active(t, "dropping")
    /\ Answer(t)
    /\ behind' = TRUE
    /\ UNCHANGED <<disk, drafts, told, written, torn, crashes>>

-----------------------------------------------------------------------------
(* ReloadWorkspace: read, build and swap under one lock.                   *)

ReadEarly(t) ==  \* mutant: the files are read before the lock is taken
    /\ Active(t, "reload")
    /\ Loads(installed)
    /\ req' = [req EXCEPT ![t].pc = "swapping", ![t].seen = installed]
    /\ behind' = FALSE
    /\ UNCHANGED <<disk, drafts, locks, told, written, torn, crashes>>

ReadManifest(t) ==
    /\ Active(t, "reload")
    /\ reloading = Nobody
    /\ IF Loads(installed)
       THEN /\ reloading' = t
            /\ req' = [req EXCEPT ![t].pc = "swapping", ![t].seen = installed]
            /\ behind' = FALSE
            /\ UNCHANGED <<drafting, committing>>
       ELSE Answer(t) /\ behind' = TRUE
    /\ UNCHANGED <<disk, drafts, told, written, torn, crashes>>

Swap(t) ==
    /\ Active(t, "swapping")
    /\ live' = req[t].seen
    /\ Answer(t)
    /\ UNCHANGED <<installed, drafts, ghosts>>

-----------------------------------------------------------------------------
\* Until its files are being written a request can be refused, or its client go away.
Fail(t) ==
    /\ req[t].pc \in {"draft", "loading", "staging", "checking", "versioning", "planned", "reviewing"}
    /\ Refuse(t)

\* The process dies and is started again: what it held in memory is gone, and what is on
\* disk is served if it loads.
Crash ==
    /\ crashes < MaxCrashes
    /\ crashes' = crashes + 1
    /\ torn' = (torn \/ \E t \in Requests : Active(t, "writing"))
    /\ live' = IF Loads(installed) THEN installed ELSE Unavailable
    /\ behind' = FALSE
    /\ req' = [t \in Requests |-> Idle]
    /\ drafting' = [d \in Users \X Apps |-> Nobody]
    /\ committing' = Nobody /\ reloading' = Nobody
    /\ written' = {d \in written : ~\E t \in Requests : Active(t, "writing") /\ req[t].app = d[2]}
    /\ UNCHANGED <<installed, drafts, told>>

Advance(t) ==
    \/ LoadDraft(t) \/ SaveDraft(t) \/ Discard(t) \/ CheckBase(t) \/ ReadVersion(t) \/ Review(t)
    \/ WriteFile(t) \/ TakeBack(t) \/ Verify(t) \/ DropDraft(t) \/ KeepDraft(t) \/ Swap(t)

Next ==
    \/ \E t \in Requests :
          \/ \E u \in Users, a \in Apps :
                BeginStage(t, u, a) \/ BeginPublish(t, u, a) \/ BeginDiscard(t, u, a) \/ BeginApply(t, u, a)
          \/ LockDraft(t) \/ LockCommit(t) \/ ReadManifest(t) \/ Advance(t) \/ Fail(t)
    \/ Crash

Spec == Init /\ [][Next]_vars

-----------------------------------------------------------------------------
AtWork(t) == req[t].pc \in {"writing", "dropping", "reload", "swapping"}

\* What an admin has been told is staged is what their draft holds, however many tabs stage,
\* publish and discard at once (lockDraft).
DraftsAsTold == \A d \in Users \X Apps : drafting[d] = Nobody => drafts[d].ops = told[d]

\* An apply writes over exactly the installation its plan was reviewed against, its own
\* Application and every other (Commit).
PlanStands ==
    \A t \in Requests : Active(t, "writing") /\ req[t].op = "apply" =>
        \A a \in Apps : req[t].seen[a] = IF a = req[t].app THEN req[t].before ELSE installed[a]

\* A publish writes over exactly the Application its draft began against: "a draft whose
\* installation has changed since it began is refused" (runPublishDraft).
DraftStands ==
    \A t \in Requests : Active(t, "writing") /\ req[t].op = "publish" => req[t].before = req[t].base

\* A draft whose changes were written is not written again, though it is still stored: its
\* deletion failed or the process died before it (runPublishDraft).
NoReplay ==
    \A t \in Requests : Active(t, "writing") /\ req[t].op = "publish" => Draft(t) \notin written

\* Whoever is not in the middle of a write, what is on disk loads: "nothing survives a
\* failure" (aiassist.Write).
DiskLoads == committing = Nobody /\ ~torn => Loads(installed)

\* Once every request has been answered, and none was told that its reload failed, what is
\* served is what is on disk, but for what a dead write left unfit to load (ReloadWorkspace).
LiveFollows ==
    (\A t \in Requests : ~AtWork(t)) /\ ~behind
        => live = installed \/ (torn /\ live = Unavailable /\ ~Loads(installed))

\* What the code does not keep (publishing_race): the Application stays as a draft's base says
\* from the check of that base to the reading of the version the commit compares.
Unraced == \A t \in Requests : Active(t, "versioning") => Here(t) = req[t].base
=============================================================================
