---------------------------- MODULE Installation ----------------------------
(***************************************************************************)
(* A Workspace's installation on disk: its manifest, whose lines name the  *)
(* Applications it has, and beside it the files of each.  An admin         *)
(* installs an Application from the library (internal/installer/install.go *)
(* and write.go), switches one off or on, takes one back                   *)
(* (appswitch.go), or puts everything back to a snapshot (restore.go);     *)
(* internal/web/runtimeactions.go and applicationswitch.go are the         *)
(* handlers, and each ends in a reload of what is served                   *)
(* (cmd/server/main.go).                                                   *)
(*                                                                         *)
(* One file is replaced at a time, by a rename; there is no lock between   *)
(* these writers and no journal.  What protects the installation is the    *)
(* order of the writes, a set of what was there before them, and a load of *)
(* the whole after them.                                                   *)
(***************************************************************************)
EXTENDS Naturals, Sequences, SequencesExt, Functions

CONSTANTS
    Requests,    \* concurrent requests of admins
    Apps,        \* Applications: those of the library, and those installed
    Clashes,     \* sets of Applications whose files are well-formed and do not load together
    MaxWrites,   \* bound: requests that write (installer.SnapshotKeep is more than that)
    MaxFails,    \* bound: file operations and statements that fail
    MaxCrashes,  \* bound: how often the process dies
    None,        \* no manifest; nothing aside
    Down,        \* the Workspace is not served
    Nobody

ASSUME InstallationAssumption ==
    /\ Clashes \subseteq SUBSET Apps
    /\ MaxWrites \in Nat /\ MaxFails \in Nat /\ MaxCrashes \in Nat
    /\ Nobody \notin Requests \cup Apps

VARIABLES
    disk,       \* the manifest's lines, and every file's content
    aside,      \* what a restore has moved out of the way
    snaps,      \* the snapshots kept
    live,       \* what is served: each Application with its switch
    reloading,  \* who holds the reload's mutex
    req,        \* each request: where it is, and what it has read, written and noted
    torn,       \* a stop or a failed put-back left the disk in the middle of a write
    left,       \* Applications a stop, a failed put-back or a snapshot left files of
    behind,     \* what is served was read from a write under way, or a write was never served
    writes, fails, crashes

ghosts == <<torn, left, behind>>
bounds == <<writes, fails, crashes>>
vars == <<disk, aside, snaps, live, reloading, req, ghosts, bounds>>

\* An Application has its Machines' files, and the one that declares it, written last.
Parts == <<"machine", "application">>
Files == Apps \X Range(Parts)
FilesOf(a) == [i \in DOMAIN Parts |-> <<a, Parts[i]>>]
Contents == {"none", "on", "off"}
Trees == [lines : {None} \cup SUBSET Apps, files : [Files -> Contents]]

\* None is no manifest's lines, no files, and nothing that is aside.
ASSUME NoneAssumption ==
    /\ \A lines \in SUBSET Apps : lines # None
    /\ \A files \in [Files -> Contents] : files # None
    /\ \A lines \in {None} \cup SUBSET Apps, files \in {None} \cup [Files -> Contents] :
          [lines |-> lines, files |-> files] # None

\* metadata.LoadApplication.
LoadsFrom(lines, files) ==
    /\ lines # None
    /\ \A a \in lines, i \in DOMAIN Parts : files[<<a, Parts[i]>>] # "none"
    /\ ~\E C \in Clashes : C \subseteq lines
Loads(tree) == LoadsFrom(tree.lines, tree.files)
View(lines, files) == {<<a, files[<<a, "application">>]>> : a \in lines}
Serves(a) == live # Down /\ \E v \in live : v[1] = a

Rest == [pc |-> "idle", op |-> "none", app |-> Nobody, todo |-> <<>>, read |-> None,
         noted |-> FALSE, was |-> None, saved |-> <<>>, made |-> {}, tree |-> None, before |-> None]

Phases == {"idle", "copying", "reading", "noting", "writing", "removing", "verifying", "undoing", "refused",
           "switching", "leaving", "clearing", "filling", "returning", "forgetting", "reloading", "loading"}

TypeOK ==
    /\ disk \in Trees
    /\ aside = None \/ aside.lines \in {None} \cup SUBSET Apps
    /\ snaps \subseteq Trees
    /\ live = Down \/ live \subseteq Apps \X Contents
    /\ reloading \in Requests \cup {Nobody}
    /\ \A t \in Requests :
          /\ req[t].pc \in Phases
          /\ req[t].pc = "loading" <=> reloading = t
          /\ req[t].app \in Apps \cup {Nobody}
          /\ DOMAIN req[t].saved \subseteq Files /\ req[t].made \subseteq Files
          /\ req[t].pc = "idle" => req[t] = Rest
    /\ torn \in BOOLEAN /\ left \subseteq Apps /\ behind \in BOOLEAN
    /\ writes \in 0 .. MaxWrites /\ fails \in 0 .. MaxFails /\ crashes \in 0 .. MaxCrashes

Init ==
    /\ \E lines \in SUBSET Apps :
          /\ disk = [lines |-> lines, files |-> [f \in Files |-> IF f[1] \in lines THEN "on" ELSE "none"]]
          /\ Loads(disk)
          /\ live = View(lines, disk.files)
    /\ aside = None /\ snaps = {} /\ reloading = Nobody
    /\ req = [t \in Requests |-> Rest]
    /\ torn = FALSE /\ left = {} /\ behind = FALSE
    /\ writes = 0 /\ fails = 0 /\ crashes = 0

\* Whose files a write creates or takes away.
Touches(t) == CASE req[t].op \in {"install", "remove"} -> {req[t].app}
                [] req[t].op = "restore" -> Apps
                [] OTHER -> {}

At(t, pc) == req[t].pc = pc
App(t) == req[t].app
Go(t, pc) == req' = [req EXCEPT ![t].pc = pc]
SetLines(lines) == disk' = [disk EXCEPT !.lines = lines]
SetFile(f, content) == disk' = [disk EXCEPT !.files[f] = content]

-----------------------------------------------------------------------------
(* A write begins.                                                         *)

\* SnapshotWorkspace: a manifest that is not there has nothing to keep.
Kept == IF disk.lines = None THEN snaps ELSE snaps \cup {disk}

\* snapshotBeforeWrite is best effort.
BeginWrite(t, op, a, pc, todo) ==
    /\ At(t, "idle")
    /\ writes < MaxWrites
    /\ writes' = writes + 1
    /\ snaps' \in {snaps, Kept}
    /\ req' = [req EXCEPT ![t] = [Rest EXCEPT !.pc = pc, !.op = op, !.app = a, !.todo = todo, !.before = disk]]
    /\ UNCHANGED <<disk, aside, live, reloading, ghosts, fails, crashes>>

\* runInstallApplication: PlanInstall refuses what the served Workspace has.
BeginInstall(t, a) == live # Down /\ ~Serves(a) /\ BeginWrite(t, "install", a, "copying", FilesOf(a))

\* runUndoPublish, of an Application published lately and without records.
BeginRemove(t, a) == Serves(a) /\ BeginWrite(t, "remove", a, "reading", FilesOf(a))

BeginSwitch(t, a) == Serves(a) /\ BeginWrite(t, "switch", a, "switching", <<>>)

\* RestoreSnapshot keeps the state it replaces before it touches it, or stops.
BeginRestore(t, tree) ==
    /\ live # Down
    /\ tree \in snaps
    /\ At(t, "idle")
    /\ writes < MaxWrites
    /\ writes' = writes + 1
    /\ snaps' = Kept
    /\ req' = [req EXCEPT ![t] = [Rest EXCEPT !.pc = "leaving", !.op = "restore", !.tree = tree, !.before = disk]]
    /\ UNCHANGED <<disk, aside, live, reloading, ghosts, fails, crashes>>

-----------------------------------------------------------------------------
(* Install and RemoveApplication.                                          *)

CopyOver(t) ==  \* mutant: a file that is there is written over
    LET f == Head(req[t].todo)
    IN  /\ At(t, "copying")
        /\ SetFile(f, "on")
        /\ req' = [req EXCEPT ![t].todo = Tail(@), ![t].made = @ \cup {f},
                              ![t].pc = IF Len(req[t].todo) = 1 THEN "reading" ELSE @]
        /\ UNCHANGED <<aside, snaps, live, reloading, ghosts, bounds>>

\* copyPlan: RefuseIfExists, then the file is noted and written.
CopyFile(t) ==
    LET f == Head(req[t].todo)
    IN  /\ At(t, "copying")
        /\ IF disk.files[f] # "none"
           THEN Go(t, "undoing") /\ UNCHANGED disk
           ELSE /\ SetFile(f, "on")
                /\ req' = [req EXCEPT ![t].todo = Tail(@), ![t].made = @ \cup {f},
                                      ![t].pc = IF Len(req[t].todo) = 1 THEN "reading" ELSE @]
        /\ UNCHANGED <<aside, snaps, live, reloading, ghosts, bounds>>

\* The lines to add to, or to take a line from: an Application that is not there is no more to be removed.
ReadManifest(t) ==
    /\ At(t, "reading")
    /\ IF disk.lines = None \/ (req[t].op = "remove" /\ App(t) \notin disk.lines)
       THEN Go(t, "undoing")
       ELSE req' = [req EXCEPT ![t].read = disk.lines, ![t].pc = "noting"]
    /\ UNCHANGED <<disk, aside, snaps, live, reloading, ghosts, bounds>>

\* WriteSet.Note, of the manifest and, for a removal, of the files that go.
Note(t) ==
    /\ At(t, "noting")
    /\ req' = [req EXCEPT ![t].noted = TRUE, ![t].was = disk.lines, ![t].pc = "writing",
                          ![t].saved = IF req[t].op = "remove" THEN Restrict(disk.files, Range(req[t].todo)) ELSE <<>>]
    /\ UNCHANGED <<disk, aside, snaps, live, reloading, ghosts, bounds>>

WriteManifest(t) ==
    /\ At(t, "writing")
    /\ IF req[t].op = "install"
       THEN SetLines(req[t].read \cup {App(t)}) /\ Go(t, "verifying")
       ELSE SetLines(req[t].read \ {App(t)}) /\ Go(t, "removing")
    /\ UNCHANGED <<aside, snaps, live, reloading, ghosts, bounds>>

RemoveFile(t) ==
    LET f == Head(req[t].todo)
    IN  /\ At(t, "removing")
        /\ IF disk.files[f] = "none"
           THEN Go(t, "undoing") /\ UNCHANGED disk
           ELSE /\ SetFile(f, "none")
                /\ req' = [req EXCEPT ![t].todo = Tail(@), ![t].pc = IF Len(req[t].todo) = 1 THEN "verifying" ELSE @]
        /\ UNCHANGED <<aside, snaps, live, reloading, ghosts, bounds>>

End(t) == req' = [req EXCEPT ![t] = Rest]

\* SetApplicationInactive: the file is found through the manifest, and noted before it is written.
Switch(t) ==
    LET f == <<App(t), "application">>
    IN  /\ At(t, "switching")
        /\ IF disk.lines = None \/ App(t) \notin disk.lines \/ disk.files[f] = "none"
           THEN Go(t, "undoing") /\ UNCHANGED disk
           ELSE /\ SetFile(f, IF disk.files[f] = "on" THEN "off" ELSE "on")
                /\ req' = [req EXCEPT ![t].saved = Restrict(disk.files, {f}), ![t].pc = "verifying"]
        /\ UNCHANGED <<aside, snaps, live, reloading, ghosts, bounds>>

\* Asked for the state it is in, it writes and reloads nothing.
SwitchedAlready(t) ==
    /\ At(t, "switching")
    /\ End(t)
    /\ UNCHANGED <<disk, aside, snaps, live, reloading, ghosts, bounds>>

-----------------------------------------------------------------------------
(* RestoreSnapshot, once the snapshot is read and the current state kept.  *)

\* What an earlier restore left aside goes first.
LeaveManifest(t) ==
    /\ At(t, "leaving")
    /\ aside' = [lines |-> disk.lines, files |-> None]
    /\ SetLines(None)
    /\ Go(t, "clearing")
    /\ UNCHANGED <<snaps, live, reloading, ghosts, bounds>>

NoFiles == [f \in Files |-> "none"]

LeaveFiles(t) ==
    /\ At(t, "clearing")
    /\ aside' = [aside EXCEPT !.files = disk.files]
    /\ disk' = [disk EXCEPT !.files = NoFiles]
    /\ Go(t, "filling")
    /\ UNCHANGED <<snaps, live, reloading, ghosts, bounds>>

\* The manifest is the first of the snapshot's entries.
FillManifest(t) ==
    /\ At(t, "filling")
    /\ SetLines(req[t].tree.lines)
    /\ Go(t, "returning")
    /\ UNCHANGED <<aside, snaps, live, reloading, ghosts, bounds>>

\* A snapshot a reload took while another request was writing holds files no line names.
Stray(tree) == {f[1] : f \in {f \in Files : tree.files[f] # "none" /\ f[1] \notin tree.lines}}

FillFiles(t) ==
    /\ At(t, "returning")
    /\ disk' = [disk EXCEPT !.files = req[t].tree.files]
    /\ left' = left \cup Stray(req[t].tree)
    /\ Go(t, "verifying")
    /\ UNCHANGED <<aside, snaps, live, reloading, torn, behind, bounds>>

-----------------------------------------------------------------------------
(* The load, and what is done when it or anything before it fails.         *)

VerifyNothing(t) ==  \* mutant: what was written is not loaded
    /\ At(t, "verifying")
    /\ Go(t, "reloading")
    /\ UNCHANGED <<disk, aside, snaps, live, reloading, ghosts, bounds>>

Verify(t) ==
    /\ At(t, "verifying")
    /\ Go(t, IF ~Loads(disk) THEN "undoing" ELSE IF req[t].op = "remove" THEN "forgetting" ELSE "reloading")
    /\ aside' = IF Loads(disk) /\ req[t].op = "restore" THEN None ELSE aside
    /\ UNCHANGED <<disk, snaps, live, reloading, ghosts, bounds>>

\* Any file operation can fail: the disk is full, or a name is taken away.
Fail(t) ==
    /\ req[t].pc \in {"copying", "reading", "noting", "writing", "removing", "switching", "leaving", "clearing",
                      "filling", "returning"}
    /\ fails < MaxFails
    /\ fails' = fails + 1
    /\ Go(t, "undoing")
    /\ aside' = IF At(t, "leaving") THEN None ELSE aside
    /\ UNCHANGED <<disk, snaps, live, reloading, ghosts, writes, crashes>>

PutBackKeep(t) ==  \* mutant: what was created stays
    /\ At(t, "undoing") /\ req[t].op # "restore" /\ ~req[t].noted
    /\ req[t].saved = <<>>
    /\ Go(t, "refused")
    /\ UNCHANGED <<disk, aside, snaps, live, reloading, ghosts, bounds>>

\* WriteSet.Rollback: first what was edited, in any order, and then what was created.
PutBackManifest(t) ==
    /\ At(t, "undoing")
    /\ req[t].noted
    /\ SetLines(req[t].was)
    /\ req' = [req EXCEPT ![t].noted = FALSE]
    /\ UNCHANGED <<aside, snaps, live, reloading, ghosts, bounds>>

PutBackFile(t) ==
    /\ At(t, "undoing")
    /\ \E f \in DOMAIN req[t].saved :
          /\ SetFile(f, req[t].saved[f])
          /\ req' = [req EXCEPT ![t].saved = Restrict(@, DOMAIN @ \ {f})]
    /\ UNCHANGED <<aside, snaps, live, reloading, ghosts, bounds>>

PutBackCreated(t) ==
    /\ At(t, "undoing") /\ req[t].op # "restore" /\ ~req[t].noted
    /\ req[t].saved = <<>>
    /\ disk' = [disk EXCEPT !.files = [f \in Files |-> IF f \in req[t].made THEN "none" ELSE @[f]]]
    /\ Go(t, "refused")
    /\ UNCHANGED <<aside, snaps, live, reloading, ghosts, bounds>>

\* A restore takes away what it brought and moves back what it had moved.
UndoAside(t) ==
    /\ At(t, "undoing")
    /\ req[t].op = "restore"
    /\ disk' = CASE aside = None -> disk
                 [] aside # None /\ aside.files = None -> [disk EXCEPT !.lines = aside.lines]
                 [] OTHER -> aside
    /\ aside' = None
    /\ Go(t, "refused")
    /\ UNCHANGED <<snaps, live, reloading, ghosts, bounds>>

\* A put-back that fails is logged, and the file stays as it is.
PutBackFails(t) ==
    /\ At(t, "undoing")
    /\ req[t].noted \/ req[t].saved # <<>> \/ req[t].made # {} \/ aside # None
    /\ fails < MaxFails
    /\ fails' = fails + 1
    /\ torn' = TRUE
    /\ left' = left \cup Touches(t)
    /\ behind' = TRUE
    /\ Go(t, "refused")
    /\ UNCHANGED <<disk, aside, snaps, live, reloading, writes, crashes>>

AnswerRefused(t) ==
    /\ At(t, "refused")
    /\ End(t)
    /\ UNCHANGED <<disk, aside, snaps, live, reloading, ghosts, bounds>>

-----------------------------------------------------------------------------
(* After the write.                                                        *)

\* ForgetPublishedApplication.  When it fails the request ends without a reload.
Forget(t) ==
    /\ At(t, "forgetting")
    /\ \/ Go(t, "reloading") /\ UNCHANGED <<behind, fails>>
       \/ /\ End(t)
          /\ behind' = TRUE
          /\ fails < MaxFails /\ fails' = fails + 1
    /\ UNCHANGED <<disk, aside, snaps, live, reloading, torn, left, writes, crashes>>

\* runReloadWorkspace, what an admin presses after an edit by hand.
BeginReload(t) ==
    /\ At(t, "idle")
    /\ behind \/ live = Down \/ \E u \in Requests : ~At(u, "idle")
    /\ snaps' \in {snaps, Kept}
    /\ req' = [req EXCEPT ![t] = [Rest EXCEPT !.pc = "reloading", !.op = "reload"]]
    /\ UNCHANGED <<disk, aside, live, reloading, ghosts, bounds>>

\* What is read meanwhile may be no state before or after the write: from the line's writing on,
\* and for an Application whose line an earlier put-back left, from its first file on.
Writing(t) ==
    \/ req[t].pc \in {"removing", "verifying", "undoing", "clearing", "filling", "returning"}
    \/ /\ req[t].pc \in {"copying", "reading", "noting", "writing"} /\ req[t].made # {}
       /\ disk.lines # None /\ App(t) \in disk.lines

ReadLinesAnyTime(t) ==  \* mutant: reloads do not wait for one another
    /\ At(t, "reloading")
    /\ reloading' = t
    /\ req' = [req EXCEPT ![t].read = disk.lines, ![t].pc = "loading"]
    /\ behind' = \E u \in Requests : Writing(u)
    /\ UNCHANGED <<disk, aside, snaps, live, torn, left, bounds>>

\* ReloadWorkspace holds its mutex over the load: the manifest is read, and then the files it names.
ReadLines(t) ==
    /\ At(t, "reloading")
    /\ reloading = Nobody
    /\ reloading' = t
    /\ req' = [req EXCEPT ![t].read = disk.lines, ![t].pc = "loading"]
    /\ behind' = \E u \in Requests : Writing(u)
    /\ UNCHANGED <<disk, aside, snaps, live, torn, left, bounds>>

\* What does not load leaves what is served as it was.
Swap(t) ==
    LET lines == req[t].read
    IN  /\ At(t, "loading")
        /\ IF LoadsFrom(lines, disk.files)
           THEN live' = View(lines, disk.files) /\ behind' = (behind \/ \E u \in Requests : Writing(u))
           ELSE behind' = TRUE /\ UNCHANGED live
        /\ reloading' = Nobody
        /\ End(t)
        /\ UNCHANGED <<disk, aside, snaps, torn, left, bounds>>

\* Where a stop leaves a Workspace that may not load: a restore, the put-back of a removal, and
\* an Application that turns out not to load.
Exposed(t) ==
    \/ req[t].op = "restore" /\ req[t].pc \in {"clearing", "filling", "returning", "verifying", "undoing"}
    \/ req[t].op = "remove" /\ At(t, "undoing")
    \/ req[t].op = "install" /\ req[t].pc \in {"verifying", "undoing"} /\ \E C \in Clashes : App(t) \in C

\* The process is started again over what is on disk; a Workspace that does not load is not served.
Crash ==
    /\ crashes < MaxCrashes
    /\ crashes' = crashes + 1
    /\ req' = [t \in Requests |-> Rest]
    /\ reloading' = Nobody
    /\ live' = IF Loads(disk) THEN View(disk.lines, disk.files) ELSE Down
    /\ torn' = (torn \/ \E t \in Requests : Exposed(t))
    /\ left' = left \cup UNION {Touches(t) : t \in Requests}
    /\ behind' = FALSE
    /\ UNCHANGED <<disk, aside, snaps, writes, fails>>

-----------------------------------------------------------------------------
Begin(t) ==
    \/ \E a \in Apps : BeginInstall(t, a) \/ BeginRemove(t, a) \/ BeginSwitch(t, a)
    \/ \E tree \in snaps : BeginRestore(t, tree)
    \/ BeginReload(t)

Write(t) ==
    \/ CopyFile(t) \/ ReadManifest(t) \/ Note(t) \/ WriteManifest(t) \/ RemoveFile(t) \/ Switch(t) \/ SwitchedAlready(t)
    \/ LeaveManifest(t) \/ LeaveFiles(t) \/ FillManifest(t) \/ FillFiles(t) \/ Verify(t) \/ Fail(t)

Undo(t) ==
    \/ PutBackManifest(t) \/ PutBackFile(t) \/ PutBackCreated(t) \/ UndoAside(t) \/ PutBackFails(t) \/ AnswerRefused(t)

Next ==
    \/ \E t \in Requests : Begin(t) \/ Write(t) \/ Undo(t) \/ Forget(t) \/ ReadLines(t) \/ Swap(t)
    \/ Crash

Spec == Init /\ [][Next]_vars

-----------------------------------------------------------------------------
\* Wherever the process stops, the Workspace it finds again loads: files come before the line
\* that names them and go after it.  Not so a restore, the put-back of a removal and an
\* Application that does not load, while they last (WriteSet, RestoreSnapshot).
StopSafe == Loads(disk) \/ torn \/ \E t \in Requests : Exposed(t)

\* A write that is refused leaves the disk as it found it ("nothing partial survives a failure",
\* runInstallApplication).
AsItWas == \A t \in Requests : At(t, "refused") /\ ~torn => disk = req[t].before

\* An Application that is not installed has no file in the way of installing it
\* (RefuseIfExists), but for the ones a stop left.
NothingInTheWay ==
    \A f \in Files :
        disk.files[f] # "none" =>
            \/ f[1] \in left
            \/ disk.lines # None /\ f[1] \in disk.lines
            \/ \E t \in Requests : App(t) = f[1] \/ req[t].op = "restore"

Quiet == \A t \in Requests : At(t, "idle")

\* At rest what is served is what is on disk, whichever reload came last, unless a reload failed
\* or read a write under way (ReloadWorkspace).
LiveFollows == Quiet /\ ~behind /\ live # Down => Loads(disk) /\ live = View(disk.lines, disk.files)

\* One writer at a time: what overlapping writes do to one another is a matter of its own.
Writers == {t \in Requests : req[t].pc \notin {"idle", "reloading", "loading", "forgetting"}}
OneWriter == \A t, u \in Writers : t = u
=============================================================================
