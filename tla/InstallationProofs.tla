------------------------- MODULE InstallationProofs -------------------------
(***************************************************************************)
(* Wherever the process stops the disk loads, a refused write leaves it as *)
(* it was, nothing is left in the way of an installation, and what is      *)
(* served is what is on disk: for every number of requests, Applications,  *)
(* writes, failures and crashes, while one request writes at a time.       *)
(*                                                                         *)
(* The argument: the disk is what the writer found, but for what its phase *)
(* says it did, and what it keeps is enough to go back (Undoable,          *)
(* Restoring).  What was found is in order (Sound), so what is there in    *)
(* the end is, whichever way the write goes.  A reload is right by what    *)
(* the writer found, until the writer's own reload (Served).               *)
(***************************************************************************)
EXTENDS Installation, TLAPS

-----------------------------------------------------------------------------
(* The inductive invariant.                                                *)

Machine(a) == <<a, "machine">>
Declaration(a) == <<a, "application">>
Both(a) == {Machine(a), Declaration(a)}

Lines == {None} \cup SUBSET Apps
Todos == {<<>>} \cup {FilesOf(a) : a \in Apps} \cup {<<Declaration(a)>> : a \in Apps}
Saves == UNION {[S -> Contents] : S \in SUBSET Files}
Operations == {"install", "remove", "switch", "restore"}

Records == [pc : Phases, op : Operations \cup {"none", "reload"}, app : Apps \cup {Nobody}, todo : Todos,
            read : Lines, noted : BOOLEAN, was : Lines, saved : Saves, made : SUBSET Files,
            tree : {None} \cup Trees, before : {None} \cup Trees]
Jobs == {r \in Records : r.op \in {"install", "remove"} => r.app \in Apps}

\* No file stands in the way of an installation, but for what is known to be left.
Clean(tree) ==
    \A f \in Files : tree.files[f] # "none" => f[1] \in left \/ (tree.lines # None /\ f[1] \in tree.lines)

Sound(tree) == tree \in Trees /\ Clean(tree) /\ (torn \/ Loads(tree))

\* Which operation is in which phase.
Suits(r) ==
    /\ r.op \in Operations
    /\ r.op # "restore" => r.app \in Apps
    /\ r.pc = "copying" => r.op = "install"
    /\ r.pc \in {"reading", "noting", "writing"} => r.op \in {"install", "remove"}
    /\ r.pc = "removing" => r.op = "remove"
    /\ r.pc = "switching" => r.op = "switch"
    /\ r.pc \in {"leaving", "clearing", "filling", "returning"} => r.op = "restore"

\* What a WriteSet holds is enough to go back from the disk as it is to what was there before.
Undoable(r, d) ==
    /\ IF r.noted THEN r.was = r.before.lines /\ r.was # None ELSE d.lines = r.before.lines
    /\ DOMAIN r.saved \subseteq Both(r.app) /\ r.made \subseteq Both(r.app)
    /\ \A f \in DOMAIN r.saved : r.saved[f] = r.before.files[f]
    /\ \A f \in r.made : r.before.files[f] = "none" /\ d.files[f] = "on"
    /\ \A f \in Files \ (DOMAIN r.saved \cup r.made) : d.files[f] = r.before.files[f]
    /\ r.pc \in {"reading", "noting"} => ~r.noted /\ DOMAIN r.saved = {}
    /\ r.pc \in {"noting", "writing"} => r.read = r.before.lines /\ r.read # None
    /\ r.pc \in {"reading", "noting", "writing"} => d.lines = r.before.lines
    /\ r.pc = "writing" => r.noted

Installing(r, d) ==
    /\ DOMAIN r.saved = {}
    /\ \/ d.lines = r.before.lines
       \/ r.before.lines # None /\ d.lines = r.before.lines \cup {r.app} /\ r.made = Both(r.app)
    /\ r.pc = "copying" =>
          /\ ~r.noted
          /\ \/ r.todo = FilesOf(r.app) /\ r.made = {}
             \/ r.todo = <<Declaration(r.app)>> /\ r.made = {Machine(r.app)}
    /\ r.pc \in {"reading", "noting", "writing", "verifying"} => r.made = Both(r.app)
    /\ r.pc = "verifying" => r.noted /\ d.lines = r.before.lines \cup {r.app}

Removing(r, d) ==
    /\ r.made = {}
    /\ d.lines = r.before.lines \/ (r.before.lines # None /\ d.lines = r.before.lines \ {r.app})
    /\ r.pc \in {"reading", "noting", "writing"} => r.todo = FilesOf(r.app) /\ d.files = r.before.files
    /\ r.pc \in {"writing", "removing", "verifying"} => r.noted /\ DOMAIN r.saved = Both(r.app)
    /\ r.pc \in {"removing", "verifying"} => d.lines = r.before.lines \ {r.app}
    /\ r.pc = "removing" =>
          \/ r.todo = FilesOf(r.app)
          \/ r.todo = <<Declaration(r.app)>> /\ d.files[Machine(r.app)] = "none"
    /\ r.pc = "verifying" => \A f \in Both(r.app) : d.files[f] = "none"

Switching(r, d) ==
    /\ r.made = {} /\ ~r.noted
    /\ r.pc = "switching" => DOMAIN r.saved = {}
    /\ \A f \in Files : d.files[f] = "none" <=> r.before.files[f] = "none"

\* What is aside, with what is in place, is what was there before.
Half(tree) == [lines |-> tree.lines, files |-> None]
Restoring(r, d, x) ==
    /\ ~r.noted /\ DOMAIN r.saved = {}
    /\ r.tree \in Trees /\ r.tree.lines # None
    /\ r.pc = "leaving" => d = r.before
    /\ r.pc = "clearing" => x = Half(r.before) /\ d.files = r.before.files
    /\ r.pc \in {"filling", "returning", "verifying"} => x = r.before
    /\ r.pc \in {"returning", "verifying"} => d.lines = r.tree.lines
    /\ r.pc = "undoing" =>
          \/ x = None /\ d = r.before
          \/ x = Half(r.before) /\ d.files = r.before.files
          \/ x = r.before

Midway(r, d, x) ==
    /\ r.op = "install" => Undoable(r, d) /\ Installing(r, d)
    /\ r.op = "remove" => Undoable(r, d) /\ Removing(r, d)
    /\ r.op = "switch" => Undoable(r, d) /\ Switching(r, d)
    /\ r.op = "restore" => Restoring(r, d, x)

Job(t) ==
    t \in Writers =>
        /\ Sound(req[t].before)
        /\ Suits(req[t])
        /\ IF At(t, "refused") THEN torn \/ disk = req[t].before ELSE Midway(req[t], disk, aside)
        /\ At(t, "refused") \/ (At(t, "verifying") /\ req[t].op = "restore") => Clean(disk)

\* Whoever has written is about to reload.
Pending == \E t \in Requests : req[t].pc \in {"reloading", "forgetting"}

\* What the disk is, or will be again if the write under way is refused.
Base(t) == IF At(t, "refused") THEN disk ELSE req[t].before
Grounds == IF Writers = {} THEN {disk} ELSE {Base(t) : t \in Writers}

Served ==
    \/ Pending
    \/ behind
    \/ \A tree \in Grounds :
          IF reloading # Nobody THEN req[reloading].read = tree.lines
          ELSE live = Down \/ (Loads(tree) /\ live = View(tree.lines, tree.files))

IInv ==
    /\ TypeOK
    /\ req \in [Requests -> Jobs]
    /\ \A tree \in snaps : tree.lines # None
    /\ \A t \in Requests : Job(t)
    /\ Writers = {} => Clean(disk)
    /\ StopSafe
    /\ Served

-----------------------------------------------------------------------------
(* Files, and what loads.                                                  *)

LEMMA Named ==
    /\ DOMAIN Parts = {1, 2} /\ Parts[1] = "machine" /\ Parts[2] = "application"
    /\ Files = Apps \X {"machine", "application"}
<1>1. DOMAIN Parts = 1 .. 2 /\ Parts[1] = "machine" /\ Parts[2] = "application"
  BY DEF Parts
<1>2. Range(Parts) = {"machine", "application"}
  BY <1>1 DEF Range
<1>. QED BY <1>1, <1>2 DEF Files

LEMMA FilesNamed ==
    ASSUME NEW a \in Apps
    PROVE  /\ FilesOf(a) = <<Machine(a), Declaration(a)>>
           /\ Both(a) \subseteq Files /\ Machine(a) # Declaration(a)
           /\ \A f \in Files : f \in Both(a) <=> f[1] = a
<1>1. DOMAIN Parts = 1 .. 2
  BY Named
<1>2. FilesOf(a) = <<Machine(a), Declaration(a)>>
  BY <1>1, Named DEF FilesOf, Machine, Declaration
<1>3. Both(a) \subseteq Files /\ Machine(a) # Declaration(a)
  BY Named DEF Both, Machine, Declaration
<1>4. ASSUME NEW f \in Files PROVE f \in Both(a) <=> f[1] = a
  <2>1. PICK b \in Apps, m \in {"machine", "application"} : f = <<b, m>>
    BY Named
  <2>. QED BY <2>1 DEF Both, Machine, Declaration
<1>. QED BY <1>2, <1>3, <1>4

LEMMA FileApp ==
    ASSUME NEW f \in Files
    PROVE  f[1] \in Apps
BY Named

LEMMA LoadsMeans ==
    ASSUME NEW lines, NEW files
    PROVE  LoadsFrom(lines, files) <=>
              /\ lines # None
              /\ \A a \in lines : files[Machine(a)] # "none" /\ files[Declaration(a)] # "none"
              /\ ~\E C \in Clashes : C \subseteq lines
BY Named DEF LoadsFrom, Machine, Declaration

\* Fewer lines, with no file of theirs missing, still load.
LEMMA FewerLoad ==
    ASSUME NEW lines \in SUBSET Apps, NEW files, LoadsFrom(lines, files),
           NEW some \in SUBSET lines, NEW others,
           \A f \in Files : f[1] \in some /\ files[f] # "none" => others[f] # "none"
    PROVE  LoadsFrom(some, others)
<1>1. some # None
  BY NoneAssumption
<1>2. ASSUME NEW a \in some PROVE others[Machine(a)] # "none" /\ others[Declaration(a)] # "none"
  <2>1. files[Machine(a)] # "none" /\ files[Declaration(a)] # "none"
    BY LoadsMeans
  <2>2. Machine(a) \in Files /\ Declaration(a) \in Files /\ Machine(a)[1] = a /\ Declaration(a)[1] = a
    BY Named DEF Machine, Declaration
  <2>. QED BY <2>1, <2>2
<1>3. ~\E C \in Clashes : C \subseteq some
  BY LoadsMeans
<1>. QED BY <1>1, <1>2, <1>3, LoadsMeans

\* A tree is what it consists of.
LEMMA TreeIs ==
    ASSUME NEW x \in Trees, NEW y \in Trees, x.lines = y.lines, \A f \in Files : x.files[f] = y.files[f]
    PROVE  x = y
BY DEF Trees

-----------------------------------------------------------------------------
(* Steps of the one that writes.                                           *)

Resting == {"idle", "reloading", "loading", "forgetting"}

\* A step of a request that leaves the others where they are.
Steps(t, j) == j \in Jobs /\ req' = [req EXCEPT ![t] = j]

LEMMA StepEffect ==
    ASSUME req \in [Requests -> Jobs], NEW t \in Requests, NEW j, Steps(t, j)
    PROVE  /\ req' \in [Requests -> Jobs] /\ req'[t] = j
           /\ \A u \in Requests \ {t} : req'[u] = req[u]
BY DEF Steps

\* Types, when nothing of a reload changes.
LEMMA StepTyped ==
    ASSUME IInv, NEW t \in Requests, NEW j, Steps(t, j), j.pc = "idle" => j = Rest,
           ~At(t, "loading"), j.pc # "loading", reloading' = reloading, snaps' \subseteq Trees,
           disk' \in Trees, aside' = None \/ aside'.lines \in Lines, live' = live,
           torn' \in BOOLEAN, left' \subseteq Apps, behind' \in BOOLEAN,
           writes' \in 0 .. MaxWrites, fails' \in 0 .. MaxFails, crashes' = crashes
    PROVE  TypeOK'
<1>1. req' \in [Requests -> Jobs] /\ req'[t] = j /\ \A u \in Requests \ {t} : req'[u] = req[u]
  BY StepEffect DEF IInv
<1>2. ASSUME NEW u \in Requests
      PROVE  /\ req'[u].pc \in Phases
             /\ req'[u].pc = "loading" <=> reloading' = u
             /\ req'[u].app \in Apps \cup {Nobody}
             /\ DOMAIN req'[u].saved \subseteq Files /\ req'[u].made \subseteq Files
             /\ req'[u].pc = "idle" => req'[u] = Rest
  <2>1. CASE u # t
    BY <1>1, <2>1 DEF IInv, TypeOK
  <2>2. CASE u = t
    <3>1. j \in Jobs /\ j.saved \in Saves
      BY DEF Steps, Jobs, Records
    <3>2. DOMAIN j.saved \subseteq Files
      BY <3>1 DEF Saves
    <3>3. reloading # t
      BY DEF IInv, TypeOK, At
    <3>. QED BY <1>1, <2>2, <3>1, <3>2, <3>3 DEF Jobs, Records
  <2>. QED BY <2>1, <2>2
<1>. QED BY <1>2 DEF TypeOK, IInv, Lines

\* A write goes on.
LEMMA GoesOn ==
    ASSUME IInv, OneWriter, NEW t \in Writers, ~At(t, "refused"),
           NEW j, Steps(t, j), j.pc \notin Resting \cup {"refused"}, j.before = req[t].before,
           Suits(j), Midway(j, disk', aside'),
           j.pc = "verifying" /\ j.op = "restore" => Clean(disk)', StopSafe',
           disk' \in Trees, aside' = None \/ aside'.lines \in Lines,
           left \subseteq left', left' \subseteq Apps, fails' \in 0 .. MaxFails,
           UNCHANGED <<snaps, live, reloading, torn, behind, writes, crashes>>
    PROVE  IInv'
<1>1. t \in Requests /\ At(t, "idle") = FALSE /\ ~At(t, "loading")
  BY DEF Writers, At
<1>2. req' \in [Requests -> Jobs] /\ req'[t] = j /\ \A u \in Requests \ {t} : req'[u] = req[u]
  BY <1>1, StepEffect DEF IInv
<1>3. TypeOK'
  <2>1. snaps' \subseteq Trees /\ torn' \in BOOLEAN /\ behind' \in BOOLEAN /\ writes' \in 0 .. MaxWrites
    BY DEF IInv, TypeOK
  <2>2. j.pc # "idle" /\ j.pc # "loading"
    BY DEF Resting
  <2>. QED BY <1>1, <2>1, <2>2, StepTyped
<1>4. Writers = {t} /\ Writers' = {t}
  <2>1. \A u \in Requests \ {t} : u \notin Writers
    BY DEF OneWriter
  <2>. QED BY <1>1, <1>2, <2>1 DEF Writers, Resting
<1>5. ASSUME NEW u \in Requests PROVE Job(u)'
  <2>1. CASE u # t
    BY <1>4, <2>1 DEF Job
  <2>2. CASE u = t
    <3>1. Sound(req[t].before)
      BY <1>1 DEF IInv, Job
    <3>2. Sound(j.before)'
      BY <3>1 DEF Sound, Clean, Loads
    <3>. QED BY <1>2, <2>2, <3>2 DEF Job, At
  <2>. QED BY <2>1, <2>2
<1>6. Served'
  <2>1. Grounds = {req[t].before} /\ Grounds' = {req[t].before}
    BY <1>1, <1>2, <1>4 DEF Grounds, Base, At
  <2>2. Pending => Pending'
    BY <1>1, <1>2 DEF Pending, Writers
  <2>3. ASSUME reloading # Nobody PROVE reloading \in Requests \ {t}
    BY <1>1, <2>3 DEF IInv, TypeOK, At
  <2>. QED BY <1>2, <2>1, <2>2, <2>3 DEF IInv, Served
<1>. QED BY <1>2, <1>3, <1>4, <1>5, <1>6 DEF IInv

\* A write is refused.
LEMMA GetsRefused ==
    ASSUME IInv, OneWriter, NEW t \in Writers, ~At(t, "refused"),
           NEW j, Steps(t, j), j.pc = "refused", j.before = req[t].before, Suits(j),
           Clean(disk)', torn' \/ disk' = j.before, behind' \/ disk' = j.before, StopSafe',
           disk' \in Trees, aside' = None \/ aside'.lines \in Lines,
           left \subseteq left', left' \subseteq Apps, fails' \in 0 .. MaxFails,
           torn' \in {torn, TRUE}, behind' \in {behind, TRUE},
           UNCHANGED <<snaps, live, reloading, writes, crashes>>
    PROVE  IInv'
<1>1. t \in Requests /\ ~At(t, "loading") /\ ~At(t, "idle")
  BY DEF Writers, At
<1>2. req' \in [Requests -> Jobs] /\ req'[t] = j /\ \A u \in Requests \ {t} : req'[u] = req[u]
  BY <1>1, StepEffect DEF IInv
<1>3. TypeOK'
  <2>1. snaps' \subseteq Trees /\ torn' \in BOOLEAN /\ behind' \in BOOLEAN /\ writes' \in 0 .. MaxWrites
    BY DEF IInv, TypeOK
  <2>. QED BY <1>1, <2>1, StepTyped
<1>4. Writers = {t} /\ Writers' = {t}
  <2>1. \A u \in Requests \ {t} : u \notin Writers
    BY DEF OneWriter
  <2>. QED BY <1>1, <1>2, <2>1 DEF Writers
<1>5. ASSUME NEW u \in Requests PROVE Job(u)'
  <2>1. CASE u # t
    BY <1>4, <2>1 DEF Job
  <2>2. CASE u = t
    <3>1. Sound(req[t].before)
      BY <1>1 DEF IInv, Job
    <3>2. Sound(j.before)'
      BY <3>1 DEF Sound, Clean, Loads
    <3>. QED BY <1>2, <2>2, <3>2 DEF Job, At
  <2>. QED BY <2>1, <2>2
<1>6. Served'
  <2>. SUFFICES ASSUME ~behind' PROVE Served'
    BY DEF Served
  <2>1. Grounds = {req[t].before} /\ Grounds' = {req[t].before} /\ ~behind
    <3>1. Base(t) = req[t].before /\ Base(t)' = disk'
      BY <1>1, <1>2 DEF Base, At
    <3>2. disk' = req[t].before
      OBVIOUS
    <3>3. ~behind
      <4>1. behind \in BOOLEAN
        BY DEF IInv, TypeOK
      <4>. QED BY <4>1
    <3>. QED BY <1>4, <3>1, <3>2, <3>3 DEF Grounds
  <2>2. Pending => Pending'
    BY <1>1, <1>2 DEF Pending, Writers
  <2>3. ASSUME reloading # Nobody PROVE reloading \in Requests \ {t}
    BY <1>1, <2>3 DEF IInv, TypeOK, At
  <2>. QED BY <1>2, <2>1, <2>2, <2>3 DEF IInv, Served
<1>. QED BY <1>2, <1>3, <1>4, <1>5, <1>6 DEF IInv

\* A write is over.
LEMMA Leaves ==
    ASSUME IInv, OneWriter, NEW t \in Writers, NEW j, Steps(t, j),
           j = Rest \/ j.pc \in {"reloading", "forgetting"},
           j = Rest => Base(t) = disk, Clean(disk), torn \/ Loads(disk),
           aside' \in {aside, None},
           UNCHANGED <<disk, snaps, live, reloading, ghosts, bounds>>
    PROVE  IInv'
<1>1. t \in Requests /\ ~At(t, "loading") /\ ~At(t, "idle")
  BY DEF Writers, At
<1>2. req' \in [Requests -> Jobs] /\ req'[t] = j /\ \A u \in Requests \ {t} : req'[u] = req[u]
  BY <1>1, StepEffect DEF IInv
<1>3. j.pc \in {"idle", "reloading", "forgetting"} /\ (j.pc = "idle" => j = Rest)
  BY DEF Rest
<1>4. TypeOK'
  BY <1>1, <1>3, StepTyped DEF IInv, TypeOK, Lines, ghosts, bounds
<1>5. Writers = {t} /\ Writers' = {}
  <2>1. \A u \in Requests \ {t} : u \notin Writers
    BY DEF OneWriter
  <2>. QED BY <1>1, <1>2, <1>3, <2>1 DEF Writers
<1>6. Served'
  <2>1. j # Rest => Pending'
    BY <1>1, <1>2 DEF Pending
  <2>2. Grounds = {Base(t)} /\ Grounds' = {disk}
    BY <1>5 DEF Grounds
  <2>3. Pending => Pending'
    BY <1>1, <1>2 DEF Pending, Writers
  <2>4. ASSUME reloading # Nobody PROVE reloading \in Requests \ {t}
    BY <1>1, <2>4 DEF IInv, TypeOK, At
  <2>. QED BY <1>2, <2>1, <2>2, <2>3, <2>4 DEF IInv, Served, ghosts
<1>. QED BY <1>2, <1>4, <1>5, <1>6 DEF IInv, Job, StopSafe, Clean, Loads, ghosts

LEMMA ExposedWrites ==
    ASSUME NEW t \in Requests, Exposed(t)
    PROVE  t \in Writers /\ ~At(t, "refused")
BY DEF Exposed, Writers, At

\* With nobody writing, the disk is in order.
LEMMA AtRest ==
    ASSUME IInv, Writers = {}
    PROVE  Sound(disk)
BY ExposedWrites DEF IInv, TypeOK, StopSafe, Sound

\* A write begins.
LEMMA Starts ==
    ASSUME IInv, OneWriter', NEW t \in Requests, At(t, "idle"),
           NEW j, Steps(t, j), j.pc \notin Resting \cup {"refused", "verifying"}, j.before = disk,
           Suits(j), Midway(j, disk, aside),
           snaps' \subseteq Trees, \A tree \in snaps' : tree.lines # None, writes' \in 0 .. MaxWrites,
           UNCHANGED <<disk, aside, live, reloading, ghosts, fails, crashes>>
    PROVE  IInv'
<1>1. req' \in [Requests -> Jobs] /\ req'[t] = j /\ \A u \in Requests \ {t} : req'[u] = req[u]
  BY StepEffect DEF IInv
<1>2. ~At(t, "loading") /\ j.pc # "loading" /\ j.pc # "idle"
  BY DEF At, Resting
<1>3. TypeOK'
  BY <1>2, StepTyped DEF IInv, TypeOK, Lines, ghosts
<1>4. Writers = {} /\ Writers' = {t}
  <2>1. t \in Writers' /\ t \notin Writers
    BY <1>1 DEF Writers, Resting, At
  <2>2. ASSUME NEW u \in Requests, u # t PROVE u \notin Writers' /\ u \notin Writers
    <3>1. u \notin Writers'
      BY <2>1, <2>2 DEF OneWriter
    <3>. QED BY <1>1, <2>2, <3>1 DEF Writers
  <2>. QED BY <2>1, <2>2 DEF Writers
<1>5. Sound(disk)
  BY <1>4, AtRest
<1>6. ASSUME NEW u \in Requests PROVE Job(u)'
  <2>1. CASE u # t
    BY <1>4, <2>1 DEF Job
  <2>2. CASE u = t
    <3>1. Sound(j.before)'
      BY <1>5 DEF Sound, Clean, Loads, ghosts
    <3>. QED BY <1>1, <2>2, <3>1 DEF Job, At
  <2>. QED BY <2>1, <2>2
<1>7. Served'
  <2>1. Grounds = {disk} /\ Grounds' = {disk}
    BY <1>1, <1>4 DEF Grounds, Base, At
  <2>2. Pending => Pending'
    BY <1>1 DEF Pending, At
  <2>3. ASSUME reloading # Nobody PROVE reloading \in Requests \ {t}
    BY <1>2, <2>3 DEF IInv, TypeOK, At
  <2>. QED BY <1>1, <2>1, <2>2, <2>3 DEF IInv, Served, ghosts
<1>8. StopSafe'
  BY <1>5 DEF Sound, StopSafe, Loads, ghosts
<1>. QED BY <1>1, <1>3, <1>4, <1>6, <1>7, <1>8 DEF IInv

-----------------------------------------------------------------------------
(* The writes, one file operation at a time.                               *)

\* What is known of the one that writes.
LEMMA OfWriter ==
    ASSUME IInv, NEW t \in Writers
    PROVE  /\ t \in Requests /\ req[t] \in Jobs /\ disk \in Trees
           /\ disk.lines \in Lines /\ disk.files \in [Files -> Contents]
           /\ req[t].before \in Trees /\ Sound(req[t].before)
           /\ req[t].before.lines \in Lines /\ req[t].before.files \in [Files -> Contents]
           /\ Suits(req[t])
           /\ ~At(t, "refused") => Midway(req[t], disk, aside)
           /\ aside = None \/ aside.lines \in Lines
           /\ left \in SUBSET Apps /\ fails \in 0 .. MaxFails
<1>1. t \in Requests /\ req[t] \in Jobs /\ disk \in Trees
  BY DEF Writers, IInv, TypeOK
<1>2. Sound(req[t].before) /\ Suits(req[t]) /\ (~At(t, "refused") => Midway(req[t], disk, aside))
  BY <1>1 DEF IInv, Job
<1>3. req[t].before \in Trees
  BY <1>2 DEF Sound
<1>4. aside = None \/ aside.lines \in Lines
  BY DEF IInv, TypeOK, Lines
<1>5. left \in SUBSET Apps /\ fails \in 0 .. MaxFails
  BY DEF IInv, TypeOK
<1>. QED BY <1>1, <1>2, <1>3, <1>4, <1>5 DEF Trees, Lines

\* Where it is not exposed, the disk loads.
LEMMA Unexposed ==
    ASSUME IInv, OneWriter, NEW t \in Writers, ~Exposed(t)
    PROVE  torn \/ Loads(disk)
<1>1. ASSUME NEW u \in Requests, Exposed(u) PROVE u = t
  BY <1>1, ExposedWrites DEF OneWriter
<1>. QED BY <1>1 DEF IInv, StopSafe

LEMMA Going ==
    ASSUME req \in [Requests -> Jobs], NEW t \in Requests, NEW pc \in Phases, Go(t, pc)
    PROVE  Steps(t, [req[t] EXCEPT !.pc = pc])
BY DEF Go, Steps, Jobs, Records

LEMMA FileSet ==
    ASSUME disk \in Trees, NEW f \in Files, NEW content \in Contents, SetFile(f, content)
    PROVE  /\ disk' \in Trees /\ disk'.lines = disk.lines
           /\ disk'.files[f] = content
           /\ \A g \in Files \ {f} : disk'.files[g] = disk.files[g]
BY DEF SetFile, Trees

LEMMA LinesSet ==
    ASSUME disk \in Trees, NEW lines \in Lines, SetLines(lines)
    PROVE  disk' \in Trees /\ disk'.lines = lines /\ disk'.files = disk.files
BY DEF SetLines, Trees, Lines

\* A write gives up, and is yet to put back what it did.
LEMMA GivesUp ==
    ASSUME IInv, OneWriter, NEW t \in Writers, req[t].pc \notin {"refused", "undoing"}, Go(t, "undoing"),
           aside' = IF At(t, "leaving") THEN None ELSE aside, fails' \in 0 .. MaxFails,
           UNCHANGED <<disk, snaps, live, reloading, ghosts, writes, crashes>>
    PROVE  IInv'
<1>. DEFINE r == req[t]
            j == [req[t] EXCEPT !.pc = "undoing"]
<1>1. /\ t \in Requests /\ r \in Jobs /\ disk \in Trees /\ r.before \in Trees /\ Suits(r)
      /\ Midway(r, disk, aside) /\ ~At(t, "refused")
  BY OfWriter DEF At
<1>2. Steps(t, j)
  BY <1>1, Going DEF IInv, Phases
<1>3. /\ j.pc = "undoing" /\ j.op = r.op /\ j.app = r.app /\ j.noted = r.noted /\ j.was = r.was
      /\ j.saved = r.saved /\ j.made = r.made /\ j.tree = r.tree /\ j.before = r.before
  BY <1>1 DEF Jobs, Records
<1>. HIDE DEF j
<1>4. Suits(j)
  BY <1>1, <1>3 DEF Suits
<1>5. r.op # "restore" => (Undoable(r, disk) => Undoable(j, disk))
  BY <1>3 DEF Undoable
<1>6. Installing(r, disk) => Installing(j, disk)
  BY <1>3 DEF Installing
<1>7. Removing(r, disk) => Removing(j, disk)
  BY <1>3 DEF Removing
<1>8. Switching(r, disk) => Switching(j, disk)
  BY <1>3 DEF Switching
<1>9. ASSUME r.op = "restore", Restoring(r, disk, aside) PROVE Restoring(j, disk, aside')
  <2>1. r.pc \in {"leaving", "clearing", "filling", "returning", "verifying"}
    BY <1>1, <1>9 DEF Suits, Jobs, Records, Phases, Writers
  <2>. QED BY <1>3, <1>9, <2>1 DEF Restoring, At
<1>10. Midway(j, disk', aside')
  BY <1>1, <1>3, <1>5, <1>6, <1>7, <1>8, <1>9 DEF Midway
<1>11. StopSafe'
  <2>1. req'[t] = j
    BY <1>1, <1>2, StepEffect DEF IInv
  <2>2. CASE Exposed(t)
    <3>1. Exposed(t)'
      BY <1>3, <2>1, <2>2 DEF Exposed, At, App
    <3>. QED BY <1>1, <3>1 DEF StopSafe
  <2>3. CASE ~Exposed(t)
    BY <2>3, Unexposed DEF StopSafe, Loads, ghosts
  <2>. QED BY <2>2, <2>3
<1>12. aside' = None \/ aside'.lines \in Lines
  BY OfWriter
<1>13. left \subseteq left' /\ left' \subseteq Apps /\ torn' = torn /\ behind' = behind
  BY OfWriter DEF ghosts
<1>. QED BY <1>1, <1>2, <1>3, <1>4, <1>10, <1>11, <1>12, <1>13, GoesOn DEF Resting

\* A writer's record with what its steps may change.
Changed(r, pc, todo, read, noted, was, saved, made) ==
    [pc |-> pc, op |-> r.op, app |-> r.app, todo |-> todo, read |-> read, noted |-> noted,
     was |-> was, saved |-> saved, made |-> made, tree |-> r.tree, before |-> r.before]

LEMMA ChangedJob ==
    ASSUME NEW r \in Jobs, NEW pc \in Phases, NEW todo \in Todos, NEW read \in Lines, NEW noted \in BOOLEAN,
           NEW was \in Lines, NEW saved \in Saves, NEW made \in SUBSET Files
    PROVE  Changed(r, pc, todo, read, noted, was, saved, made) \in Jobs
BY DEF Jobs, Records, Changed

LEMMA JobFields ==
    ASSUME NEW r \in Jobs
    PROVE  /\ r.pc \in Phases /\ r.todo \in Todos /\ r.read \in Lines /\ r.noted \in BOOLEAN
           /\ r.was \in Lines /\ r.saved \in Saves /\ r.made \in SUBSET Files
BY DEF Jobs, Records

\* What the steps' updates of a writer's record come to.
LEMMA SavedGoes ==
    ASSUME NEW r \in Jobs
    PROVE  \A saved, pc :
              [r EXCEPT !.saved = saved, !.pc = pc]
                 = Changed(r, pc, r.todo, r.read, r.noted, r.was, saved, r.made)
<1>. TAKE saved, pc
<1>1. [r EXCEPT !.saved = saved] = Changed(r, r.pc, r.todo, r.read, r.noted, r.was, saved, r.made)
  BY DEF Jobs, Records, Changed
<1>2. [Changed(r, r.pc, r.todo, r.read, r.noted, r.was, saved, r.made) EXCEPT !.pc = pc]
        = Changed(r, pc, r.todo, r.read, r.noted, r.was, saved, r.made)
  BY DEF Changed
<1>. QED BY <1>1, <1>2

LEMMA ReadGoes ==
    ASSUME NEW r \in Jobs
    PROVE  \A read, pc :
              [r EXCEPT !.read = read, !.pc = pc]
                 = Changed(r, pc, r.todo, read, r.noted, r.was, r.saved, r.made)
<1>. TAKE read, pc
<1>1. [r EXCEPT !.read = read] = Changed(r, r.pc, r.todo, read, r.noted, r.was, r.saved, r.made)
  BY DEF Jobs, Records, Changed
<1>2. [Changed(r, r.pc, r.todo, read, r.noted, r.was, r.saved, r.made) EXCEPT !.pc = pc]
        = Changed(r, pc, r.todo, read, r.noted, r.was, r.saved, r.made)
  BY DEF Changed
<1>. QED BY <1>1, <1>2

LEMMA TodoGoes ==
    ASSUME NEW r \in Jobs
    PROVE  \A todo, pc :
              [r EXCEPT !.todo = todo, !.pc = pc]
                 = Changed(r, pc, todo, r.read, r.noted, r.was, r.saved, r.made)
<1>. TAKE todo, pc
<1>1. [r EXCEPT !.todo = todo] = Changed(r, r.pc, todo, r.read, r.noted, r.was, r.saved, r.made)
  BY DEF Jobs, Records, Changed
<1>2. [Changed(r, r.pc, todo, r.read, r.noted, r.was, r.saved, r.made) EXCEPT !.pc = pc]
        = Changed(r, pc, todo, r.read, r.noted, r.was, r.saved, r.made)
  BY DEF Changed
<1>. QED BY <1>1, <1>2

LEMMA CopiedGoes ==
    ASSUME NEW r \in Jobs
    PROVE  \A todo, made, pc :
              [r EXCEPT !.todo = todo, !.made = made, !.pc = pc]
                 = Changed(r, pc, todo, r.read, r.noted, r.was, r.saved, made)
<1>. TAKE todo, made, pc
<1>1. [r EXCEPT !.todo = todo] = Changed(r, r.pc, todo, r.read, r.noted, r.was, r.saved, r.made)
  BY DEF Jobs, Records, Changed
<1>2. [Changed(r, r.pc, todo, r.read, r.noted, r.was, r.saved, r.made) EXCEPT !.made = made]
        = Changed(r, r.pc, todo, r.read, r.noted, r.was, r.saved, made)
  BY DEF Changed
<1>3. [Changed(r, r.pc, todo, r.read, r.noted, r.was, r.saved, made) EXCEPT !.pc = pc]
        = Changed(r, pc, todo, r.read, r.noted, r.was, r.saved, made)
  BY DEF Changed
<1>. QED BY <1>1, <1>2, <1>3

LEMMA NotedGoes ==
    ASSUME NEW r \in Jobs
    PROVE  \A noted, was, pc, saved :
              [r EXCEPT !.noted = noted, !.was = was, !.pc = pc, !.saved = saved]
                 = Changed(r, pc, r.todo, r.read, noted, was, saved, r.made)
<1>. TAKE noted, was, pc, saved
<1>1. [r EXCEPT !.noted = noted] = Changed(r, r.pc, r.todo, r.read, noted, r.was, r.saved, r.made)
  BY DEF Jobs, Records, Changed
<1>2. [Changed(r, r.pc, r.todo, r.read, noted, r.was, r.saved, r.made) EXCEPT !.was = was]
        = Changed(r, r.pc, r.todo, r.read, noted, was, r.saved, r.made)
  BY DEF Changed
<1>3. [Changed(r, r.pc, r.todo, r.read, noted, was, r.saved, r.made) EXCEPT !.pc = pc]
        = Changed(r, pc, r.todo, r.read, noted, was, r.saved, r.made)
  BY DEF Changed
<1>4. [Changed(r, pc, r.todo, r.read, noted, was, r.saved, r.made) EXCEPT !.saved = saved]
        = Changed(r, pc, r.todo, r.read, noted, was, saved, r.made)
  BY DEF Changed
<1>. QED BY <1>1, <1>2, <1>3, <1>4

\* Two files in turn.
LEMMA Pair ==
    ASSUME NEW x, NEW y
    PROVE  /\ Head(<<x, y>>) = x /\ Tail(<<x, y>>) = <<y>> /\ Len(<<x, y>>) = 2
           /\ Head(<<x>>) = x /\ Tail(<<x>>) = <<>> /\ Len(<<x>>) = 1
OBVIOUS

LEMMA CopyFileStep ==
    ASSUME IInv, OneWriter, NEW t \in Requests, CopyFile(t)
    PROVE  IInv'
<1>. DEFINE r == req[t]
            a == r.app
            f == Head(r.todo)
            pc == IF Len(r.todo) = 1 THEN "reading" ELSE "copying"
            j == Changed(r, pc, Tail(r.todo), r.read, r.noted, r.was, r.saved, r.made \cup {f})
<1>1. t \in Writers /\ r.pc = "copying"
  BY DEF CopyFile, Writers, At
<1>2. /\ r \in Jobs /\ disk \in Trees /\ Suits(r) /\ r.op = "install" /\ a \in Apps
      /\ Undoable(r, disk) /\ Installing(r, disk) /\ left \in SUBSET Apps /\ fails \in 0 .. MaxFails
      /\ (aside = None \/ aside.lines \in Lines) /\ disk.lines \in Lines
  BY <1>1, OfWriter DEF Midway, Suits, At
<1>3. CASE disk.files[f] # "none"
  <2>1. Go(t, "undoing") /\ UNCHANGED <<disk, aside, snaps, live, reloading, ghosts, bounds>>
    BY <1>3 DEF CopyFile
  <2>. QED BY <1>1, <1>2, <2>1, GivesUp DEF bounds, At
<1>4. CASE disk.files[f] = "none"
  <2>1. /\ SetFile(f, "on") /\ UNCHANGED <<aside, snaps, live, reloading, ghosts, bounds>>
        /\ req' = [req EXCEPT ![t].todo = Tail(@), ![t].made = @ \cup {f},
                              ![t].pc = IF Len(req[t].todo) = 1 THEN "reading" ELSE @]
    BY <1>4 DEF CopyFile
  <2>2. req' = [req EXCEPT ![t] = j]
    <3>1. req' = [req EXCEPT ![t] = [r EXCEPT !.todo = Tail(r.todo), !.made = r.made \cup {f}, !.pc = pc]]
      BY <2>1, <1>1, <1>2 DEF Jobs, Records, IInv
    <3>. HIDE DEF f, pc
    <3>2. \A todo, made, next :
             [r EXCEPT !.todo = todo, !.made = made, !.pc = next]
                = Changed(r, next, todo, r.read, r.noted, r.was, r.saved, made)
      BY <1>2, CopiedGoes, Zenon
    <3>3. [r EXCEPT !.todo = Tail(r.todo), !.made = r.made \cup {f}, !.pc = pc] = j
      BY <3>2, Zenon
    <3>. QED BY <3>1, <3>3
  <2>3. /\ FilesOf(a) = <<Machine(a), Declaration(a)>>
        /\ Both(a) \subseteq Files /\ Machine(a) # Declaration(a)
    BY <1>2, FilesNamed
  <2>4. \/ /\ f = Machine(a) /\ r.made = {}
           /\ Tail(r.todo) = <<Declaration(a)>> /\ r.made \cup {f} = {Machine(a)} /\ pc = "copying"
        \/ /\ f = Declaration(a) /\ r.made = {Machine(a)}
           /\ Tail(r.todo) = <<>> /\ r.made \cup {f} = Both(a) /\ pc = "reading"
    <3>1. \/ r.todo = <<Machine(a), Declaration(a)>> /\ r.made = {}
          \/ r.todo = <<Declaration(a)>> /\ r.made = {Machine(a)}
      BY <1>1, <1>2, <2>3 DEF Installing
    <3>2. CASE r.todo = <<Machine(a), Declaration(a)>> /\ r.made = {}
      <4>1. f = Machine(a) /\ Tail(r.todo) = <<Declaration(a)>> /\ Len(r.todo) = 2
        BY <3>2, Pair
      <4>. QED BY <3>2, <4>1
    <3>3. CASE r.todo = <<Declaration(a)>> /\ r.made = {Machine(a)}
      <4>1. f = Declaration(a) /\ Tail(r.todo) = <<>> /\ Len(r.todo) = 1
        BY <3>3, Pair
      <4>. QED BY <3>3, <4>1 DEF Both
    <3>. QED BY <3>1, <3>2, <3>3
  <2>5. /\ j.op = r.op /\ j.app = r.app /\ j.noted = r.noted /\ j.was = r.was /\ j.read = r.read
        /\ j.saved = r.saved /\ j.tree = r.tree /\ j.before = r.before
        /\ j.pc = pc /\ j.todo = Tail(r.todo) /\ j.made = r.made \cup {f}
    BY DEF Changed
  <2>6. j \in Jobs
    <3>1. Tail(r.todo) \in Todos /\ r.made \cup {f} \subseteq Files /\ pc \in Phases
      BY <1>2, <2>3, <2>4 DEF Todos, Both, Phases
    <3>. QED BY <1>2, <3>1, JobFields, ChangedJob
  <2>. HIDE DEF j, f, pc
  <2>7. f \in Both(a) /\ f \in Files
    BY <2>3, <2>4 DEF Both
  <2>8. /\ disk' \in Trees /\ disk'.lines = disk.lines /\ disk'.files[f] = "on"
        /\ \A g \in Files \ {f} : disk'.files[g] = disk.files[g]
    BY <1>2, <2>1, <2>7, FileSet DEF Contents
  <2>9. Suits(j)
    BY <1>2, <2>4, <2>5 DEF Suits
  <2>10. Undoable(j, disk')
    <3>1. DOMAIN r.saved = {} /\ ~r.noted /\ f \notin r.made
      <4>1. f \notin r.made
        BY <2>3, <2>4
      <4>. QED BY <1>1, <1>2, <4>1 DEF Installing
    <3>2. r.before.files[f] = "none"
      BY <1>2, <1>4, <2>7, <3>1 DEF Undoable
    <3>. QED BY <1>2, <2>3, <2>4, <2>5, <2>7, <2>8, <3>1, <3>2 DEF Undoable, Both
  <2>11. Installing(j, disk')
    <3>1. ~r.noted /\ disk.lines = r.before.lines
      BY <1>1, <1>2 DEF Installing, Undoable
    <3>. QED BY <1>2, <2>4, <2>5, <2>8, <3>1 DEF Installing
  <2>12. StopSafe'
    <3>1. torn \/ Loads(disk)
      BY <1>1, Unexposed, <1>2 DEF Exposed, At
    <3>2. ASSUME Loads(disk) PROVE Loads(disk')
      <4>1. disk.lines \in SUBSET Apps
        BY <1>2, <3>2 DEF Loads, LoadsFrom, Lines
      <4>2. \A g \in Files : g[1] \in disk.lines /\ disk.files[g] # "none" => disk'.files[g] # "none"
        BY <2>8
      <4>3. disk.lines \in SUBSET disk.lines
        OBVIOUS
      <4>. QED BY <2>8, <3>2, <4>1, <4>2, <4>3, FewerLoad DEF Loads
    <3>. QED BY <2>1, <3>1, <3>2 DEF StopSafe, Loads, ghosts
  <2>. QED
    BY <1>1, <1>2, <2>1, <2>2, <2>4, <2>5, <2>6, <2>8, <2>9, <2>10, <2>11, <2>12, GoesOn
    DEF Resting, Midway, Steps, ghosts, bounds, At
<1>. QED BY <1>3, <1>4

LEMMA ReadManifestStep ==
    ASSUME IInv, OneWriter, NEW t \in Requests, ReadManifest(t)
    PROVE  IInv'
<1>. DEFINE r == req[t]
            j == Changed(r, "noting", r.todo, disk.lines, r.noted, r.was, r.saved, r.made)
<1>1. t \in Writers /\ r.pc = "reading" /\ ~At(t, "refused") /\ ~Exposed(t)
  BY DEF ReadManifest, Writers, At, Exposed
<1>2. /\ r \in Jobs /\ disk \in Trees /\ Suits(r) /\ Midway(r, disk, aside)
      /\ left \in SUBSET Apps /\ fails \in 0 .. MaxFails
      /\ (aside = None \/ aside.lines \in Lines) /\ disk.lines \in Lines
  BY <1>1, OfWriter
<1>3. UNCHANGED <<disk, aside, snaps, live, reloading, ghosts, bounds>>
  BY DEF ReadManifest
<1>4. CASE disk.lines = None \/ (r.op = "remove" /\ App(t) \notin disk.lines)
  <2>1. Go(t, "undoing")
    BY <1>4 DEF ReadManifest
  <2>. QED BY <1>1, <1>2, <1>3, <2>1, GivesUp DEF bounds, At
<1>5. CASE ~(disk.lines = None \/ (r.op = "remove" /\ App(t) \notin disk.lines))
  <2>1. req' = [req EXCEPT ![t].read = disk.lines, ![t].pc = "noting"]
    BY <1>5 DEF ReadManifest
  <2>2. req' = [req EXCEPT ![t] = j]
    <3>1. req' = [req EXCEPT ![t] = [r EXCEPT !.read = disk.lines, !.pc = "noting"]]
      BY <2>1 DEF IInv
    <3>2. \A read, pc : [r EXCEPT !.read = read, !.pc = pc]
                          = Changed(r, pc, r.todo, read, r.noted, r.was, r.saved, r.made)
      BY <1>2, ReadGoes, Zenon
    <3>3. [r EXCEPT !.read = disk.lines, !.pc = "noting"] = j
      BY <3>2, Zenon
    <3>. QED BY <3>1, <3>3
  <2>3. /\ j.op = r.op /\ j.app = r.app /\ j.noted = r.noted /\ j.was = r.was /\ j.read = disk.lines
        /\ j.saved = r.saved /\ j.tree = r.tree /\ j.before = r.before
        /\ j.pc = "noting" /\ j.todo = r.todo /\ j.made = r.made
    BY DEF Changed
  <2>4. j \in Jobs
    <3>1. "noting" \in Phases
      BY DEF Phases
    <3>. QED BY <1>2, <3>1, JobFields, ChangedJob
  <2>. HIDE DEF j
  <2>5. Suits(j)
    BY <1>1, <1>2, <2>3 DEF Suits
  <2>6. Undoable(r, disk) => Undoable(j, disk)
    BY <1>1, <1>5, <2>3 DEF Undoable
  <2>7. Undoable(r, disk) /\ Installing(r, disk) => Installing(j, disk)
    BY <1>1, <2>3 DEF Installing, Undoable
  <2>8. Undoable(r, disk) /\ Removing(r, disk) => Removing(j, disk)
    BY <1>1, <2>3 DEF Removing, Undoable
  <2>9. r.op \in {"install", "remove"}
    BY <1>1, <1>2 DEF Suits
  <2>10. Midway(j, disk', aside')
    BY <1>2, <1>3, <2>3, <2>6, <2>7, <2>8, <2>9 DEF Midway
  <2>11. StopSafe'
    BY <1>1, <1>3, Unexposed DEF StopSafe, Loads, ghosts
  <2>. QED
    BY <1>1, <1>2, <1>3, <2>2, <2>3, <2>4, <2>5, <2>10, <2>11, GoesOn DEF Resting, Steps, ghosts, bounds
<1>. QED BY <1>4, <1>5

LEMMA NoteStep ==
    ASSUME IInv, OneWriter, NEW t \in Requests, Note(t)
    PROVE  IInv'
<1>. DEFINE r == req[t]
            saved == IF r.op = "remove" THEN Restrict(disk.files, Range(r.todo)) ELSE <<>>
            j == Changed(r, "writing", r.todo, r.read, TRUE, disk.lines, saved, r.made)
<1>1. t \in Writers /\ r.pc = "noting" /\ ~At(t, "refused") /\ ~Exposed(t)
  BY DEF Note, Writers, At, Exposed
<1>2. /\ r \in Jobs /\ disk \in Trees /\ Suits(r) /\ Midway(r, disk, aside)
      /\ left \in SUBSET Apps /\ fails \in 0 .. MaxFails
      /\ (aside = None \/ aside.lines \in Lines) /\ disk.lines \in Lines
      /\ disk.files \in [Files -> Contents] /\ r.before.files \in [Files -> Contents]
  BY <1>1, OfWriter
<1>3. UNCHANGED <<disk, aside, snaps, live, reloading, ghosts, bounds>>
  BY DEF Note
<1>4. req' = [req EXCEPT ![t] = j]
  <2>1. req' = [req EXCEPT ![t] = [r EXCEPT !.noted = TRUE, !.was = disk.lines, !.pc = "writing", !.saved = saved]]
    BY DEF Note, IInv
  <2>2. \A noted, was, pc, new : [r EXCEPT !.noted = noted, !.was = was, !.pc = pc, !.saved = new]
                                   = Changed(r, pc, r.todo, r.read, noted, was, new, r.made)
    BY <1>2, NotedGoes, Zenon
  <2>. HIDE DEF saved
  <2>3. [r EXCEPT !.noted = TRUE, !.was = disk.lines, !.pc = "writing", !.saved = saved] = j
    BY <2>2, Zenon
  <2>. QED BY <2>1, <2>3
<1>5. /\ j.op = r.op /\ j.app = r.app /\ j.noted = TRUE /\ j.was = disk.lines /\ j.read = r.read
      /\ j.saved = saved /\ j.tree = r.tree /\ j.before = r.before
      /\ j.pc = "writing" /\ j.todo = r.todo /\ j.made = r.made
  BY DEF Changed
<1>6. r.op \in {"install", "remove"} /\ r.app \in Apps /\ Undoable(r, disk)
  BY <1>1, <1>2 DEF Suits, Midway
<1>7. r.op = "install" => DOMAIN saved = {} /\ saved \in Saves
  <2>1. DOMAIN <<>> = {} /\ <<>> \in [{} -> Contents]
    OBVIOUS
  <2>. QED BY <2>1 DEF Saves
<1>8. ASSUME r.op = "remove"
      PROVE  DOMAIN saved = Both(r.app) /\ saved \in Saves /\ \A f \in Both(r.app) : saved[f] = r.before.files[f]
  <2>1. r.todo = FilesOf(r.app) /\ disk.files = r.before.files
    BY <1>1, <1>2, <1>8 DEF Midway, Removing
  <2>2. Range(r.todo) = Both(r.app) /\ Both(r.app) \subseteq Files
    <3>1. DOMAIN <<Machine(r.app), Declaration(r.app)>> = {1, 2}
      OBVIOUS
    <3>. QED BY <1>6, <2>1, <3>1, FilesNamed DEF Range, Both
  <2>3. saved = [f \in Both(r.app) |-> disk.files[f]]
    BY <1>8, <2>2 DEF Restrict
  <2>4. saved \in [Both(r.app) -> Contents]
    BY <1>2, <2>2, <2>3
  <2>. QED BY <2>1, <2>2, <2>3, <2>4 DEF Saves
<1>. HIDE DEF saved
<1>9. j \in Jobs
  <2>1. "writing" \in Phases /\ saved \in Saves
    BY <1>6, <1>7, <1>8 DEF Phases
  <2>. QED BY <1>2, <2>1, JobFields, ChangedJob
<1>. HIDE DEF j
<1>10. Suits(j)
  BY <1>1, <1>2, <1>5, <1>6 DEF Suits
<1>11. Undoable(j, disk)
  <2>1. /\ ~r.noted /\ DOMAIN r.saved = {} /\ r.read = r.before.lines /\ r.read # None
        /\ disk.lines = r.before.lines /\ r.made \subseteq Both(r.app)
    BY <1>1, <1>6 DEF Undoable
  <2>2. \A f \in Files \ r.made : disk.files[f] = r.before.files[f]
    BY <2>1, <1>6 DEF Undoable
  <2>3. DOMAIN saved \subseteq Both(r.app) /\ \A f \in DOMAIN saved : saved[f] = r.before.files[f]
    BY <1>6, <1>7, <1>8
  <2>4. \A f \in r.made : r.before.files[f] = "none" /\ disk.files[f] = "on"
    BY <1>6 DEF Undoable
  <2>. QED BY <1>5, <2>1, <2>2, <2>3, <2>4 DEF Undoable
<1>12. r.op = "install" => Installing(j, disk)
  BY <1>1, <1>2, <1>5, <1>6, <1>7 DEF Midway, Installing, Undoable
<1>13. r.op = "remove" => Removing(j, disk)
  BY <1>1, <1>2, <1>5, <1>6, <1>8 DEF Midway, Removing, Undoable
<1>14. Midway(j, disk', aside')
  BY <1>3, <1>5, <1>6, <1>11, <1>12, <1>13 DEF Midway
<1>15. StopSafe'
  BY <1>1, <1>3, Unexposed DEF StopSafe, Loads, ghosts
<1>. QED
  BY <1>1, <1>2, <1>3, <1>4, <1>5, <1>9, <1>10, <1>14, <1>15, GoesOn DEF Resting, Steps, ghosts, bounds

\* A record that only moves to another phase.
LEMMA Moved ==
    ASSUME NEW r \in Jobs, NEW pc
    PROVE  LET j == [r EXCEPT !.pc = pc]
           IN  /\ j.pc = pc /\ j.op = r.op /\ j.app = r.app /\ j.todo = r.todo /\ j.read = r.read
               /\ j.noted = r.noted /\ j.was = r.was /\ j.saved = r.saved /\ j.made = r.made
               /\ j.tree = r.tree /\ j.before = r.before
BY DEF Jobs, Records

LEMMA WriteManifestStep ==
    ASSUME IInv, OneWriter, NEW t \in Requests, WriteManifest(t)
    PROVE  IInv'
<1>. DEFINE r == req[t]
            a == r.app
            pc == IF r.op = "install" THEN "verifying" ELSE "removing"
            lines == IF r.op = "install" THEN r.before.lines \cup {a} ELSE r.before.lines \ {a}
            j == [req[t] EXCEPT !.pc = pc]
<1>1. t \in Writers /\ r.pc = "writing" /\ ~At(t, "refused") /\ ~Exposed(t)
  BY DEF WriteManifest, Writers, At, Exposed
<1>2. /\ r \in Jobs /\ disk \in Trees /\ Suits(r) /\ Midway(r, disk, aside) /\ Sound(r.before)
      /\ left \in SUBSET Apps /\ fails \in 0 .. MaxFails
      /\ (aside = None \/ aside.lines \in Lines) /\ disk.lines \in Lines /\ r.before.lines \in Lines
  BY <1>1, OfWriter
<1>3. UNCHANGED <<aside, snaps, live, reloading, ghosts, bounds>>
  BY DEF WriteManifest
<1>4. r.op \in {"install", "remove"} /\ a \in Apps /\ Undoable(r, disk)
  BY <1>1, <1>2 DEF Suits, Midway
<1>5. r.noted /\ r.read = r.before.lines /\ r.read # None /\ disk.lines = r.before.lines
  BY <1>1, <1>4 DEF Undoable
<1>6. SetLines(lines) /\ Go(t, pc) /\ pc \in Phases /\ lines \in Lines
  BY <1>2, <1>4, <1>5 DEF WriteManifest, App, Phases, Lines
<1>7. Steps(t, j)
  BY <1>6, Going DEF IInv
<1>8. /\ j.op = r.op /\ j.app = r.app /\ j.noted = r.noted /\ j.was = r.was /\ j.read = r.read
      /\ j.saved = r.saved /\ j.tree = r.tree /\ j.before = r.before
      /\ j.pc = pc /\ j.todo = r.todo /\ j.made = r.made
  BY <1>2, Moved
<1>. HIDE DEF j
<1>9. disk' \in Trees /\ disk'.lines = lines /\ disk'.files = disk.files
  BY <1>2, <1>6, LinesSet
<1>10. Suits(j)
  BY <1>2, <1>4, <1>8 DEF Suits
<1>11. Undoable(j, disk')
  BY <1>4, <1>5, <1>8, <1>9 DEF Undoable
<1>12. r.op = "install" => Installing(j, disk') /\ r.made = Both(a)
  BY <1>1, <1>2, <1>5, <1>8, <1>9 DEF Midway, Installing
<1>13. r.op = "remove" => Removing(j, disk')
  BY <1>1, <1>2, <1>5, <1>8, <1>9 DEF Midway, Removing
<1>14. Midway(j, disk', aside')
  BY <1>4, <1>8, <1>11, <1>12, <1>13 DEF Midway
<1>15. StopSafe'
  <2>1. torn \/ Loads(disk)
    BY <1>1, Unexposed
  <2>2. req'[t] = j
    BY <1>7, StepEffect DEF IInv
  <2>3. CASE r.op = "install"
    <3>1. CASE \E C \in Clashes : a \in C
      <4>1. Exposed(t)'
        BY <1>8, <2>2, <2>3, <3>1 DEF Exposed, At, App
      <4>. QED BY <4>1 DEF StopSafe
    <3>2. ASSUME Loads(disk), ~\E C \in Clashes : a \in C PROVE Loads(disk')
      <4>1. lines # None
        BY <1>2, <1>4, <1>5, <2>3, NoneAssumption DEF Lines
      <4>2. ASSUME NEW b \in lines PROVE disk'.files[Machine(b)] # "none" /\ disk'.files[Declaration(b)] # "none"
        <5>1. CASE b \in disk.lines
          BY <1>9, <3>2, <5>1, LoadsMeans DEF Loads
        <5>2. CASE b = a
          BY <1>4, <1>9, <1>12, <2>3, <5>2 DEF Undoable, Both
        <5>. QED BY <1>5, <2>3, <5>1, <5>2
      <4>3. ~\E C \in Clashes : C \subseteq lines
        BY <1>5, <2>3, <3>2, LoadsMeans DEF Loads
      <4>. QED BY <1>9, <4>1, <4>2, <4>3, LoadsMeans DEF Loads
    <3>. QED BY <1>3, <2>1, <3>1, <3>2 DEF StopSafe, Loads, ghosts
  <2>4. CASE r.op = "remove"
    <3>1. ASSUME Loads(disk) PROVE Loads(disk')
      <4>1. disk.lines \in SUBSET Apps /\ lines \in SUBSET disk.lines
        BY <1>2, <1>5, <2>4 DEF Lines
      <4>2. \A f \in Files : f[1] \in lines /\ disk.files[f] # "none" => disk'.files[f] # "none"
        BY <1>9
      <4>. HIDE DEF lines
      <4>. QED BY <1>9, <3>1, <4>1, <4>2, FewerLoad DEF Loads
    <3>. QED BY <1>3, <2>1, <3>1 DEF StopSafe, Loads, ghosts
  <2>. QED BY <1>4, <2>3, <2>4
<1>16. pc \notin Resting \cup {"refused"} /\ ~(pc = "verifying" /\ j.op = "restore")
  BY <1>4, <1>8 DEF Resting
<1>. HIDE DEF pc, lines
<1>. QED BY <1>1, <1>2, <1>3, <1>7, <1>8, <1>9, <1>10, <1>14, <1>15, <1>16, GoesOn DEF ghosts, bounds

LEMMA RemoveFileStep ==
    ASSUME IInv, OneWriter, NEW t \in Requests, RemoveFile(t)
    PROVE  IInv'
<1>. DEFINE r == req[t]
            a == r.app
            f == Head(r.todo)
            pc == IF Len(r.todo) = 1 THEN "verifying" ELSE "removing"
            j == Changed(r, pc, Tail(r.todo), r.read, r.noted, r.was, r.saved, r.made)
<1>1. t \in Writers /\ r.pc = "removing" /\ ~At(t, "refused") /\ ~Exposed(t)
  BY DEF RemoveFile, Writers, At, Exposed
<1>2. /\ r \in Jobs /\ disk \in Trees /\ Suits(r) /\ r.op = "remove" /\ a \in Apps
      /\ Undoable(r, disk) /\ Removing(r, disk) /\ left \in SUBSET Apps /\ fails \in 0 .. MaxFails
      /\ (aside = None \/ aside.lines \in Lines) /\ disk.lines \in Lines
  BY <1>1, OfWriter DEF Midway, Suits, At
<1>3. CASE disk.files[f] = "none"
  <2>1. Go(t, "undoing") /\ UNCHANGED <<disk, aside, snaps, live, reloading, ghosts, bounds>>
    BY <1>3 DEF RemoveFile
  <2>. QED BY <1>1, <1>2, <2>1, GivesUp DEF bounds, At
<1>4. CASE disk.files[f] # "none"
  <2>1. /\ SetFile(f, "none") /\ UNCHANGED <<aside, snaps, live, reloading, ghosts, bounds>>
        /\ req' = [req EXCEPT ![t].todo = Tail(@),
                              ![t].pc = IF Len(req[t].todo) = 1 THEN "verifying" ELSE @]
    BY <1>4 DEF RemoveFile
  <2>2. req' = [req EXCEPT ![t] = j]
    <3>1. req' = [req EXCEPT ![t] = [r EXCEPT !.todo = Tail(r.todo), !.pc = pc]]
      BY <2>1, <1>1, <1>2 DEF Jobs, Records, IInv
    <3>. HIDE DEF f, pc
    <3>2. \A todo, next : [r EXCEPT !.todo = todo, !.pc = next]
                            = Changed(r, next, todo, r.read, r.noted, r.was, r.saved, r.made)
      BY <1>2, TodoGoes, Zenon
    <3>3. [r EXCEPT !.todo = Tail(r.todo), !.pc = pc] = j
      BY <3>2, Zenon
    <3>. QED BY <3>1, <3>3
  <2>3. /\ FilesOf(a) = <<Machine(a), Declaration(a)>>
        /\ Both(a) \subseteq Files /\ Machine(a) # Declaration(a)
        /\ \A g \in Files : g \in Both(a) <=> g[1] = a
    BY <1>2, FilesNamed
  <2>4. \/ /\ f = Machine(a) /\ Tail(r.todo) = <<Declaration(a)>> /\ pc = "removing"
        \/ /\ f = Declaration(a) /\ disk.files[Machine(a)] = "none"
           /\ Tail(r.todo) = <<>> /\ pc = "verifying"
    <3>1. \/ r.todo = <<Machine(a), Declaration(a)>>
          \/ r.todo = <<Declaration(a)>> /\ disk.files[Machine(a)] = "none"
      BY <1>1, <1>2, <2>3 DEF Removing
    <3>2. CASE r.todo = <<Machine(a), Declaration(a)>>
      <4>1. f = Machine(a) /\ Tail(r.todo) = <<Declaration(a)>> /\ Len(r.todo) = 2
        BY <3>2, Pair
      <4>. QED BY <4>1
    <3>3. CASE r.todo = <<Declaration(a)>> /\ disk.files[Machine(a)] = "none"
      <4>1. f = Declaration(a) /\ Tail(r.todo) = <<>> /\ Len(r.todo) = 1
        BY <3>3, Pair
      <4>. QED BY <3>3, <4>1
    <3>. QED BY <3>1, <3>2, <3>3
  <2>5. /\ j.op = r.op /\ j.app = r.app /\ j.noted = r.noted /\ j.was = r.was /\ j.read = r.read
        /\ j.saved = r.saved /\ j.tree = r.tree /\ j.before = r.before
        /\ j.pc = pc /\ j.todo = Tail(r.todo) /\ j.made = r.made
    BY DEF Changed
  <2>6. j \in Jobs
    <3>1. Tail(r.todo) \in Todos /\ pc \in Phases
      BY <1>2, <2>4 DEF Todos, Phases
    <3>. QED BY <1>2, <3>1, JobFields, ChangedJob
  <2>. HIDE DEF j, f, pc
  <2>7. f \in Both(a) /\ f \in Files
    BY <2>3, <2>4 DEF Both
  <2>8. /\ disk' \in Trees /\ disk'.lines = disk.lines /\ disk'.files[f] = "none"
        /\ \A g \in Files \ {f} : disk'.files[g] = disk.files[g]
    BY <1>2, <2>1, <2>7, FileSet DEF Contents
  <2>9. Suits(j)
    BY <1>2, <2>4, <2>5 DEF Suits
  <2>10. r.noted /\ DOMAIN r.saved = Both(a) /\ r.made = {} /\ disk.lines = r.before.lines \ {a}
    BY <1>1, <1>2 DEF Removing
  <2>11. Undoable(j, disk')
    BY <1>2, <2>4, <2>5, <2>7, <2>8, <2>10 DEF Undoable
  <2>12. Removing(j, disk')
    <3>1. r.before.lines # None \/ disk.lines = r.before.lines
      BY <1>2 DEF Removing
    <3>2. pc = "removing" => disk'.files[Machine(a)] = "none"
      BY <2>4, <2>8
    <3>3. pc = "verifying" => \A g \in Both(a) : disk'.files[g] = "none"
      BY <2>3, <2>4, <2>8 DEF Both
    <3>. QED BY <2>4, <2>5, <2>8, <2>10, <3>1, <3>2, <3>3 DEF Removing
  <2>13. StopSafe'
    <3>1. torn \/ Loads(disk)
      BY <1>1, Unexposed
    <3>2. ASSUME Loads(disk) PROVE Loads(disk')
      <4>1. disk.lines \in SUBSET Apps /\ disk.lines \in SUBSET disk.lines
        BY <1>2, <3>2 DEF Loads, LoadsFrom, Lines
      <4>2. \A g \in Files : g[1] \in disk.lines /\ disk.files[g] # "none" => disk'.files[g] # "none"
        BY <2>3, <2>7, <2>8, <2>10
      <4>. QED BY <2>8, <3>2, <4>1, <4>2, FewerLoad DEF Loads
    <3>. QED BY <2>1, <3>1, <3>2 DEF StopSafe, Loads, ghosts
  <2>. QED
    BY <1>1, <1>2, <2>1, <2>2, <2>4, <2>5, <2>6, <2>8, <2>9, <2>11, <2>12, <2>13, GoesOn
    DEF Resting, Midway, Steps, ghosts, bounds
<1>. QED BY <1>3, <1>4

\* Nothing noted, saved or made: nothing was done.
LEMMA Undone ==
    ASSUME NEW r, r.before \in Trees, NEW d \in Trees, Undoable(r, d), ~r.noted, DOMAIN r.saved = {}, r.made = {}
    PROVE  d = r.before
<1>1. d.lines = r.before.lines /\ \A f \in Files : d.files[f] = r.before.files[f]
  BY DEF Undoable
<1>. QED BY <1>1, TreeIs

LEMMA RestJob == Rest \in Jobs
<1>1. <<>> \in [{} -> Contents]
  OBVIOUS
<1>2. <<>> \in Saves /\ <<>> \in Todos /\ "idle" \in Phases /\ None \in Lines
  BY <1>1 DEF Saves, Todos, Phases, Lines
<1>. QED BY <1>2 DEF Rest, Jobs, Records

LEMMA SwitchStep ==
    ASSUME IInv, OneWriter, NEW t \in Requests, Switch(t)
    PROVE  IInv'
<1>. DEFINE r == req[t]
            a == r.app
            f == Declaration(a)
            saved == Restrict(disk.files, {f})
            content == IF disk.files[f] = "on" THEN "off" ELSE "on"
            j == Changed(r, "verifying", r.todo, r.read, r.noted, r.was, saved, r.made)
<1>1. t \in Writers /\ r.pc = "switching" /\ ~At(t, "refused") /\ ~Exposed(t)
  BY DEF Switch, Writers, At, Exposed
<1>2. /\ r \in Jobs /\ disk \in Trees /\ Suits(r) /\ r.op = "switch" /\ a \in Apps
      /\ Undoable(r, disk) /\ Switching(r, disk) /\ left \in SUBSET Apps /\ fails \in 0 .. MaxFails
      /\ (aside = None \/ aside.lines \in Lines) /\ disk.lines \in Lines
      /\ disk.files \in [Files -> Contents] /\ r.before \in Trees
  BY <1>1, OfWriter DEF Midway, Suits, At
<1>3. UNCHANGED <<aside, snaps, live, reloading, ghosts, bounds>> /\ App(t) = a /\ f = <<App(t), "application">>
  BY DEF Switch, App, Declaration
<1>4. CASE disk.lines = None \/ App(t) \notin disk.lines \/ disk.files[f] = "none"
  <2>1. Go(t, "undoing") /\ UNCHANGED disk
    BY <1>3, <1>4 DEF Switch
  <2>. QED BY <1>1, <1>2, <1>3, <2>1, GivesUp DEF bounds, At
<1>5. CASE ~(disk.lines = None \/ App(t) \notin disk.lines \/ disk.files[f] = "none")
  <2>1. SetFile(f, content) /\ req' = [req EXCEPT ![t].saved = saved, ![t].pc = "verifying"]
    BY <1>3, <1>5 DEF Switch
  <2>2. req' = [req EXCEPT ![t] = j]
    <3>1. req' = [req EXCEPT ![t] = [r EXCEPT !.saved = saved, !.pc = "verifying"]]
      BY <2>1 DEF IInv
    <3>. HIDE DEF saved
    <3>2. \A new, pc : [r EXCEPT !.saved = new, !.pc = pc]
                          = Changed(r, pc, r.todo, r.read, r.noted, r.was, new, r.made)
      BY <1>2, SavedGoes, Zenon
    <3>3. [r EXCEPT !.saved = saved, !.pc = "verifying"] = j
      BY <3>2, Zenon
    <3>. QED BY <3>1, <3>3
  <2>3. /\ j.op = r.op /\ j.app = r.app /\ j.noted = r.noted /\ j.was = r.was /\ j.read = r.read
        /\ j.saved = saved /\ j.tree = r.tree /\ j.before = r.before
        /\ j.pc = "verifying" /\ j.todo = r.todo /\ j.made = r.made
    BY DEF Changed
  <2>4. f \in Files /\ f \in Both(a)
    BY <1>2, FilesNamed DEF Both
  <2>5. DOMAIN saved = {f} /\ saved[f] = disk.files[f] /\ saved \in Saves
    <3>1. saved = [g \in {f} |-> disk.files[g]]
      BY <1>2, <2>4 DEF Restrict
    <3>2. saved \in [{f} -> Contents]
      BY <1>2, <2>4, <3>1
    <3>. QED BY <2>4, <3>1, <3>2 DEF Saves
  <2>6. j \in Jobs
    <3>1. "verifying" \in Phases
      BY DEF Phases
    <3>. HIDE DEF saved
    <3>. QED BY <1>2, <2>5, <3>1, JobFields, ChangedJob
  <2>7. disk.files[f] # "none" /\ content \in Contents /\ content # "none"
    BY <1>5 DEF Contents
  <2>. HIDE DEF j, f, saved, content
  <2>8. /\ disk' \in Trees /\ disk'.lines = disk.lines /\ disk'.files[f] = content
        /\ \A g \in Files \ {f} : disk'.files[g] = disk.files[g]
    BY <1>2, <2>1, <2>4, <2>7, FileSet
  <2>9. disk = r.before
    BY <1>1, <1>2, Undone DEF Switching
  <2>10. Suits(j)
    BY <1>2, <2>3 DEF Suits
  <2>11. Undoable(j, disk')
    BY <1>1, <1>2, <2>3, <2>4, <2>5, <2>8, <2>9 DEF Undoable, Switching
  <2>12. Switching(j, disk')
    BY <1>1, <1>2, <2>3, <2>4, <2>7, <2>8, <2>9 DEF Switching
  <2>13. StopSafe'
    <3>1. torn \/ Loads(disk)
      BY <1>1, Unexposed
    <3>2. ASSUME Loads(disk) PROVE Loads(disk')
      <4>1. disk.lines \in SUBSET Apps /\ disk.lines \in SUBSET disk.lines
        BY <1>2, <3>2 DEF Loads, LoadsFrom, Lines
      <4>2. \A g \in Files : g[1] \in disk.lines /\ disk.files[g] # "none" => disk'.files[g] # "none"
        BY <2>7, <2>8
      <4>. QED BY <2>8, <3>2, <4>1, <4>2, FewerLoad DEF Loads
    <3>. QED BY <1>3, <3>1, <3>2 DEF StopSafe, Loads, ghosts
  <2>. QED
    BY <1>1, <1>2, <1>3, <2>2, <2>3, <2>6, <2>8, <2>10, <2>11, <2>12, <2>13, GoesOn
    DEF Resting, Midway, Steps, ghosts, bounds
<1>. QED BY <1>4, <1>5

LEMMA SwitchedAlreadyStep ==
    ASSUME IInv, OneWriter, NEW t \in Requests, SwitchedAlready(t)
    PROVE  IInv'
<1>. DEFINE r == req[t]
<1>1. t \in Writers /\ r.pc = "switching" /\ ~At(t, "refused")
  BY DEF SwitchedAlready, Writers, At
<1>2. disk \in Trees /\ Undoable(r, disk) /\ Switching(r, disk) /\ r.before \in Trees /\ Sound(r.before)
  BY <1>1, OfWriter DEF Midway, Suits
<1>3. disk = r.before
  BY <1>1, <1>2, Undone DEF Switching
<1>4. Steps(t, Rest) /\ UNCHANGED <<disk, aside, snaps, live, reloading, ghosts, bounds>>
  BY RestJob DEF SwitchedAlready, End, Steps
<1>5. Base(t) = disk
  BY <1>3 DEF Base
<1>6. Clean(disk) /\ (torn \/ Loads(disk))
  BY <1>2, <1>3 DEF Sound
<1>. QED BY <1>1, <1>4, <1>5, <1>6, Leaves

-----------------------------------------------------------------------------
(* A restore.                                                              *)

\* While it writes, a stop does not find the Workspace in order.
LEMMA RestoreExposed ==
    ASSUME NEW t \in Requests, NEW j, req'[t] = j, j.op = "restore",
           j.pc \in {"clearing", "filling", "returning", "verifying", "undoing"}
    PROVE  StopSafe'
<1>1. Exposed(t)'
  BY DEF Exposed, At
<1>. QED BY <1>1 DEF StopSafe

\* A restore goes on.
LEMMA RestoreGoesOn ==
    ASSUME IInv, OneWriter, NEW t \in Writers, req[t].op = "restore", ~At(t, "refused"),
           NEW pc, pc \in {"clearing", "filling", "returning", "verifying"}, Go(t, pc),
           \A j : j.pc = pc /\ j.noted = req[t].noted /\ j.saved = req[t].saved /\ j.tree = req[t].tree
                    /\ j.before = req[t].before
                    => Restoring(j, disk', aside'),
           pc = "verifying" => Clean(disk)',
           disk' \in Trees, aside' = None \/ aside'.lines \in Lines,
           left \subseteq left', left' \subseteq Apps,
           UNCHANGED <<snaps, live, reloading, torn, behind, bounds>>
    PROVE  IInv'
<1>. DEFINE r == req[t]
            j == [req[t] EXCEPT !.pc = pc]
<1>1. t \in Requests /\ r \in Jobs /\ Suits(r) /\ fails \in 0 .. MaxFails
  BY OfWriter
<1>2. Steps(t, j)
  BY <1>1, Going DEF IInv, Phases
<1>3. /\ j.pc = pc /\ j.op = r.op /\ j.noted = r.noted /\ j.saved = r.saved
      /\ j.tree = r.tree /\ j.before = r.before
  BY <1>1, Moved
<1>. HIDE DEF j
<1>4. Suits(j) /\ Midway(j, disk', aside')
  BY <1>3 DEF Suits, Midway, Operations
<1>5. StopSafe'
  BY <1>1, <1>2, <1>3, StepEffect, RestoreExposed DEF IInv
<1>. QED BY <1>1, <1>2, <1>3, <1>4, <1>5, GoesOn DEF Resting, bounds

LEMMA LeaveManifestStep ==
    ASSUME IInv, OneWriter, NEW t \in Requests, LeaveManifest(t)
    PROVE  IInv'
<1>. DEFINE r == req[t]
<1>1. t \in Writers /\ r.pc = "leaving" /\ ~At(t, "refused")
  BY DEF LeaveManifest, Writers, At
<1>2. /\ disk \in Trees /\ disk.lines \in Lines /\ r.op = "restore" /\ Restoring(r, disk, aside)
      /\ left \in SUBSET Apps
  BY <1>1, OfWriter DEF Midway, Suits
<1>3. /\ aside' = [lines |-> disk.lines, files |-> None] /\ SetLines(None) /\ Go(t, "clearing")
      /\ UNCHANGED <<snaps, live, reloading, ghosts, bounds>>
  BY DEF LeaveManifest
<1>4. disk' \in Trees /\ disk'.files = disk.files
  BY <1>2, <1>3, LinesSet DEF Lines
<1>5. disk = r.before /\ aside' = Half(r.before) /\ aside'.lines = disk.lines
  BY <1>1, <1>2, <1>3 DEF Restoring, Half
<1>6. ASSUME NEW j, j.pc = "clearing", j.noted = r.noted, j.saved = r.saved, j.tree = r.tree, j.before = r.before
      PROVE  Restoring(j, disk', aside')
  BY <1>2, <1>4, <1>5, <1>6 DEF Restoring
<1>. QED BY <1>1, <1>2, <1>3, <1>4, <1>5, <1>6, RestoreGoesOn DEF ghosts

LEMMA LeaveFilesStep ==
    ASSUME IInv, OneWriter, NEW t \in Requests, LeaveFiles(t)
    PROVE  IInv'
<1>. DEFINE r == req[t]
<1>1. t \in Writers /\ r.pc = "clearing" /\ ~At(t, "refused")
  BY DEF LeaveFiles, Writers, At
<1>2. /\ disk \in Trees /\ r.before \in Trees /\ r.before.lines \in Lines
      /\ r.op = "restore" /\ Restoring(r, disk, aside) /\ left \in SUBSET Apps
  BY <1>1, OfWriter DEF Midway, Suits
<1>3. /\ aside' = [aside EXCEPT !.files = disk.files] /\ disk' = [disk EXCEPT !.files = NoFiles]
      /\ Go(t, "filling") /\ UNCHANGED <<snaps, live, reloading, ghosts, bounds>>
  BY DEF LeaveFiles
<1>4. disk' \in Trees
  <2>1. NoFiles \in [Files -> Contents]
    BY DEF NoFiles, Contents
  <2>. QED BY <1>2, <1>3, <2>1 DEF Trees
<1>5. aside' = r.before
  <2>1. aside = Half(r.before) /\ disk.files = r.before.files
    BY <1>1, <1>2 DEF Restoring
  <2>. QED BY <1>2, <1>3, <2>1 DEF Half, Trees
<1>6. ASSUME NEW j, j.pc = "filling", j.noted = r.noted, j.saved = r.saved, j.tree = r.tree, j.before = r.before
      PROVE  Restoring(j, disk', aside')
  BY <1>2, <1>5, <1>6 DEF Restoring
<1>. QED BY <1>1, <1>2, <1>3, <1>4, <1>5, <1>6, RestoreGoesOn DEF ghosts

LEMMA FillManifestStep ==
    ASSUME IInv, OneWriter, NEW t \in Requests, FillManifest(t)
    PROVE  IInv'
<1>. DEFINE r == req[t]
<1>1. t \in Writers /\ r.pc = "filling" /\ ~At(t, "refused")
  BY DEF FillManifest, Writers, At
<1>2. /\ disk \in Trees /\ r.before.lines \in Lines /\ r.op = "restore" /\ Restoring(r, disk, aside)
      /\ left \in SUBSET Apps
  BY <1>1, OfWriter DEF Midway, Suits
<1>3. SetLines(r.tree.lines) /\ Go(t, "returning") /\ UNCHANGED <<aside, snaps, live, reloading, ghosts, bounds>>
  BY DEF FillManifest
<1>4. disk' \in Trees /\ disk'.lines = r.tree.lines
  BY <1>2, <1>3, LinesSet DEF Restoring, Trees, Lines
<1>5. aside' = r.before
  BY <1>1, <1>2, <1>3 DEF Restoring
<1>6. ASSUME NEW j, j.pc = "returning", j.noted = r.noted, j.saved = r.saved, j.tree = r.tree, j.before = r.before
      PROVE  Restoring(j, disk', aside')
  BY <1>2, <1>4, <1>5, <1>6 DEF Restoring
<1>. QED BY <1>1, <1>2, <1>3, <1>4, <1>5, <1>6, RestoreGoesOn DEF ghosts

LEMMA FillFilesStep ==
    ASSUME IInv, OneWriter, NEW t \in Requests, FillFiles(t)
    PROVE  IInv'
<1>. DEFINE r == req[t]
<1>1. t \in Writers /\ r.pc = "returning" /\ ~At(t, "refused")
  BY DEF FillFiles, Writers, At
<1>2. /\ disk \in Trees /\ r.before.lines \in Lines /\ r.op = "restore" /\ Restoring(r, disk, aside)
      /\ left \in SUBSET Apps
  BY <1>1, OfWriter DEF Midway, Suits
<1>3. /\ disk' = [disk EXCEPT !.files = r.tree.files] /\ left' = left \cup Stray(r.tree) /\ Go(t, "verifying")
      /\ UNCHANGED <<aside, snaps, live, reloading, torn, behind, bounds>>
  BY DEF FillFiles
<1>4. r.tree \in Trees /\ disk.lines = r.tree.lines /\ r.tree.lines # None /\ aside' = r.before
  BY <1>1, <1>2, <1>3 DEF Restoring
<1>5. disk' \in Trees /\ disk'.lines = r.tree.lines /\ disk'.files = r.tree.files
  BY <1>2, <1>3, <1>4 DEF Trees
<1>6. left' \subseteq Apps
  BY <1>2, <1>3, FileApp DEF Stray
<1>7. Clean(disk)'
  BY <1>3, <1>4, <1>5 DEF Clean, Stray
<1>8. ASSUME NEW j, j.pc = "verifying", j.noted = r.noted, j.saved = r.saved, j.tree = r.tree, j.before = r.before
      PROVE  Restoring(j, disk', aside')
  BY <1>2, <1>4, <1>5, <1>8 DEF Restoring
<1>. QED BY <1>1, <1>2, <1>3, <1>4, <1>5, <1>6, <1>7, <1>8, RestoreGoesOn

-----------------------------------------------------------------------------
(* The load, and the put-back.                                             *)

\* What a write leaves behind it, once it is done.
LEMMA CleanAfter ==
    ASSUME IInv, NEW t \in Writers, At(t, "verifying"), req[t].op # "restore"
    PROVE  Clean(disk)
<1>. DEFINE r == req[t]
            a == r.app
<1>1. /\ r \in Jobs /\ disk \in Trees /\ Sound(r.before) /\ Suits(r) /\ Undoable(r, disk)
      /\ r.op \in {"install", "remove", "switch"} /\ a \in Apps /\ r.before.lines \in Lines
      /\ Midway(r, disk, aside)
  BY OfWriter DEF Suits, Midway, At, Operations
<1>2. \A f \in Files : f \in Both(a) <=> f[1] = a
  BY <1>1, FilesNamed
<1>. SUFFICES ASSUME NEW f \in Files, disk.files[f] # "none"
              PROVE  f[1] \in left \/ (disk.lines # None /\ f[1] \in disk.lines)
  BY DEF Clean
<1>3. r.before.files[f] # "none" => f[1] \in left \/ (r.before.lines # None /\ f[1] \in r.before.lines)
  BY <1>1 DEF Sound, Clean
<1>4. CASE r.op = "install"
  <2>1. /\ r.made = Both(a) /\ r.noted /\ disk.lines = r.before.lines \cup {a} /\ DOMAIN r.saved = {}
        /\ r.before.lines # None
    BY <1>1, <1>4 DEF Midway, Installing, Undoable, At
  <2>2. disk.lines # None
    BY <1>1, <2>1, NoneAssumption DEF Lines
  <2>3. f \notin Both(a) => disk.files[f] = r.before.files[f]
    BY <1>1, <2>1 DEF Undoable
  <2>. QED BY <1>2, <1>3, <2>1, <2>2, <2>3
<1>5. CASE r.op = "remove"
  <2>1. /\ r.made = {} /\ r.noted /\ disk.lines = r.before.lines \ {a} /\ DOMAIN r.saved = Both(a)
        /\ r.before.lines # None /\ \A g \in Both(a) : disk.files[g] = "none"
    BY <1>1, <1>5 DEF Midway, Removing, Undoable, At
  <2>2. disk.lines # None
    BY <1>1, <2>1, NoneAssumption DEF Lines
  <2>3. f \notin Both(a) => disk.files[f] = r.before.files[f]
    BY <1>1, <2>1 DEF Undoable
  <2>. QED BY <1>2, <1>3, <2>1, <2>2, <2>3
<1>6. CASE r.op = "switch"
  <2>1. disk.lines = r.before.lines /\ r.before.files[f] # "none"
    BY <1>1, <1>6 DEF Midway, Switching, Undoable
  <2>. QED BY <1>3, <2>1
<1>. QED BY <1>1, <1>4, <1>5, <1>6

LEMMA VerifyStep ==
    ASSUME IInv, OneWriter, NEW t \in Requests, Verify(t)
    PROVE  IInv'
<1>. DEFINE r == req[t]
<1>1. /\ t \in Writers /\ r.pc = "verifying" /\ At(t, "verifying")
      /\ UNCHANGED <<disk, snaps, live, reloading, ghosts, bounds>>
  BY DEF Verify, Writers, At
<1>2. r \in Jobs /\ fails \in 0 .. MaxFails /\ (aside = None \/ aside.lines \in Lines)
  BY <1>1, OfWriter
<1>3. CASE ~Loads(disk)
  <2>1. Go(t, "undoing") /\ aside' = aside
    BY <1>3 DEF Verify
  <2>. QED BY <1>1, <1>2, <2>1, GivesUp DEF At, bounds
<1>4. CASE Loads(disk)
  <2>1. PICK pc \in {"forgetting", "reloading"} : Go(t, pc)
    BY <1>4 DEF Verify
  <2>2. aside' \in {aside, None}
    BY <1>4 DEF Verify
  <2>. DEFINE j == [req[t] EXCEPT !.pc = pc]
  <2>3. Steps(t, j)
    BY <2>1, Going DEF IInv, Phases
  <2>4. j.pc = pc
    BY <1>2, Moved
  <2>. HIDE DEF j
  <2>5. j # Rest
    BY <2>4 DEF Rest
  <2>6. Clean(disk)
    <3>1. CASE r.op = "restore"
      BY <1>1, <3>1 DEF IInv, Job
    <3>. QED BY <1>1, <3>1, CleanAfter
  <2>. QED BY <1>1, <1>4, <2>2, <2>3, <2>4, <2>5, <2>6, Leaves
<1>. QED BY <1>3, <1>4

LEMMA FailStep ==
    ASSUME IInv, OneWriter, NEW t \in Requests, Fail(t)
    PROVE  IInv'
<1>1. /\ t \in Writers /\ req[t].pc \notin {"refused", "undoing"} /\ Go(t, "undoing")
      /\ aside' = (IF At(t, "leaving") THEN None ELSE aside)
      /\ UNCHANGED <<disk, snaps, live, reloading, ghosts, writes, crashes>>
      /\ fails' = fails + 1 /\ fails < MaxFails
  BY DEF Fail, Writers
<1>2. fails' \in 0 .. MaxFails
  <2>1. fails \in 0 .. MaxFails
    BY <1>1, OfWriter
  <2>. QED BY <1>1, <2>1, InstallationAssumption
<1>. QED BY <1>1, <1>2, GivesUp

LEMMA PutBackManifestStep ==
    ASSUME IInv, OneWriter, NEW t \in Requests, PutBackManifest(t)
    PROVE  IInv'
<1>. DEFINE r == req[t]
            a == r.app
            j == Changed(r, r.pc, r.todo, r.read, FALSE, r.was, r.saved, r.made)
<1>1. t \in Writers /\ r.pc = "undoing" /\ ~At(t, "refused") /\ r.noted
  BY DEF PutBackManifest, Writers, At
<1>2. /\ r \in Jobs /\ disk \in Trees /\ Suits(r) /\ Midway(r, disk, aside)
      /\ left \in SUBSET Apps /\ fails \in 0 .. MaxFails /\ r.before.lines \in Lines
      /\ (aside = None \/ aside.lines \in Lines) /\ disk.lines \in Lines
  BY <1>1, OfWriter
<1>3. SetLines(r.was) /\ UNCHANGED <<aside, snaps, live, reloading, ghosts, bounds>>
  BY DEF PutBackManifest
<1>4. r.op \in {"install", "remove"} /\ a \in Apps /\ Undoable(r, disk) /\ r.was = r.before.lines /\ r.was # None
  BY <1>1, <1>2 DEF Suits, Midway, Switching, Restoring, Undoable, Operations
<1>5. req' = [req EXCEPT ![t] = j]
  <2>1. ASSUME NEW q \in Jobs, NEW noted
        PROVE  [q EXCEPT !.noted = noted] = Changed(q, q.pc, q.todo, q.read, noted, q.was, q.saved, q.made)
    BY DEF Jobs, Records, Changed
  <2>2. [r EXCEPT !.noted = FALSE] = j
    BY <1>2, <2>1
  <2>3. req' = [req EXCEPT ![t] = [r EXCEPT !.noted = FALSE]]
    BY DEF PutBackManifest, IInv
  <2>. QED BY <2>2, <2>3
<1>6. /\ j.op = r.op /\ j.app = r.app /\ j.noted = FALSE /\ j.was = r.was /\ j.read = r.read
      /\ j.saved = r.saved /\ j.tree = r.tree /\ j.before = r.before
      /\ j.pc = "undoing" /\ j.todo = r.todo /\ j.made = r.made
  BY <1>1 DEF Changed
<1>7. j \in Jobs
  BY <1>2, JobFields, ChangedJob
<1>. HIDE DEF j
<1>8. disk' \in Trees /\ disk'.lines = r.before.lines /\ disk'.files = disk.files
  BY <1>2, <1>3, <1>4, LinesSet
<1>9. Suits(j)
  BY <1>2, <1>4, <1>6 DEF Suits
<1>10. Undoable(j, disk')
  BY <1>4, <1>6, <1>8 DEF Undoable
<1>11. r.op = "install" => Installing(j, disk')
  BY <1>2, <1>6, <1>8 DEF Midway, Installing
<1>12. r.op = "remove" => Removing(j, disk')
  BY <1>2, <1>6, <1>8 DEF Midway, Removing
<1>13. StopSafe'
  <2>1. req'[t] = j
    BY <1>2, <1>5, <1>7, StepEffect DEF IInv, Steps
  <2>2. CASE r.op = "remove" \/ \E C \in Clashes : a \in C
    <3>1. Exposed(t)'
      BY <1>4, <1>6, <2>1, <2>2 DEF Exposed, At, App
    <3>. QED BY <3>1 DEF StopSafe
  <2>3. CASE r.op = "install" /\ ~\E C \in Clashes : a \in C
    <3>1. torn \/ Loads(disk)
      BY <1>1, <2>3, Unexposed DEF Exposed, App
    <3>2. ASSUME Loads(disk) PROVE Loads(disk')
      <4>1. disk.lines = r.before.lines \/ disk.lines = r.before.lines \cup {a}
        BY <1>2, <2>3 DEF Midway, Installing
      <4>2. disk.lines \in SUBSET Apps /\ r.before.lines \in SUBSET disk.lines
        BY <1>2, <1>4, <4>1 DEF Lines
      <4>3. \A g \in Files : g[1] \in r.before.lines /\ disk.files[g] # "none" => disk'.files[g] # "none"
        BY <1>8
      <4>. QED BY <1>8, <3>2, <4>2, <4>3, FewerLoad DEF Loads
    <3>. QED BY <1>3, <3>1, <3>2 DEF StopSafe, Loads, ghosts
  <2>. QED BY <1>4, <2>2, <2>3
<1>. QED
  BY <1>1, <1>2, <1>3, <1>4, <1>5, <1>6, <1>7, <1>8, <1>9, <1>10, <1>11, <1>12, <1>13, GoesOn
  DEF Resting, Midway, Steps, ghosts, bounds

LEMMA PutBackFileStep ==
    ASSUME IInv, OneWriter, NEW t \in Requests, PutBackFile(t)
    PROVE  IInv'
<1>. DEFINE r == req[t]
            a == r.app
<1>1. t \in Writers /\ r.pc = "undoing" /\ ~At(t, "refused")
  BY DEF PutBackFile, Writers, At
<1>2. /\ r \in Jobs /\ disk \in Trees /\ Suits(r) /\ Midway(r, disk, aside)
      /\ left \in SUBSET Apps /\ fails \in 0 .. MaxFails /\ r.before.files \in [Files -> Contents]
      /\ (aside = None \/ aside.lines \in Lines) /\ disk.lines \in Lines
  BY <1>1, OfWriter
<1>3. UNCHANGED <<aside, snaps, live, reloading, ghosts, bounds>>
  BY DEF PutBackFile
<1>4. PICK f \in DOMAIN r.saved : /\ SetFile(f, r.saved[f])
                                  /\ req' = [req EXCEPT ![t].saved = Restrict(@, DOMAIN @ \ {f})]
  BY DEF PutBackFile
<1>. DEFINE saved == Restrict(r.saved, DOMAIN r.saved \ {f})
            j == Changed(r, r.pc, r.todo, r.read, r.noted, r.was, saved, r.made)
<1>5. req' = [req EXCEPT ![t] = j]
  <2>1. [r EXCEPT !.saved = saved] = j
    BY <1>2 DEF Jobs, Records, Changed
  <2>2. req' = [req EXCEPT ![t] = [r EXCEPT !.saved = saved]]
    BY <1>4 DEF IInv
  <2>. QED BY <2>1, <2>2
<1>6. /\ j.op = r.op /\ j.app = r.app /\ j.noted = r.noted /\ j.was = r.was /\ j.read = r.read
      /\ j.saved = saved /\ j.tree = r.tree /\ j.before = r.before
      /\ j.pc = "undoing" /\ j.todo = r.todo /\ j.made = r.made
  BY <1>1 DEF Changed
<1>7. r.op \in {"remove", "switch"} /\ a \in Apps /\ Undoable(r, disk) /\ r.made = {}
  BY <1>2 DEF Suits, Midway, Installing, Removing, Switching, Restoring, Operations
<1>8. /\ DOMAIN saved = DOMAIN r.saved \ {f} /\ \A g \in DOMAIN saved : saved[g] = r.saved[g]
      /\ saved \in Saves
  <2>1. saved = [g \in DOMAIN r.saved \ {f} |-> r.saved[g]]
    BY DEF Restrict
  <2>2. PICK S \in SUBSET Files : r.saved \in [S -> Contents]
    BY <1>2, JobFields DEF Saves
  <2>3. saved \in [S \ {f} -> Contents] /\ S \ {f} \in SUBSET Files
    BY <2>1, <2>2
  <2>. QED BY <2>1, <2>3 DEF Saves
<1>. HIDE DEF saved
<1>9. j \in Jobs
  BY <1>2, <1>8, JobFields, ChangedJob
<1>. HIDE DEF j
<1>10. f \in Files /\ f \in Both(a) /\ r.saved[f] = r.before.files[f] /\ r.saved[f] \in Contents
  <2>1. f \in Both(a) /\ r.saved[f] = r.before.files[f]
    BY <1>7 DEF Undoable
  <2>2. f \in Files
    BY <1>7, <2>1, FilesNamed
  <2>. QED BY <1>2, <2>1, <2>2
<1>11. /\ disk' \in Trees /\ disk'.lines = disk.lines /\ disk'.files[f] = r.before.files[f]
       /\ \A g \in Files \ {f} : disk'.files[g] = disk.files[g]
  BY <1>2, <1>4, <1>10, FileSet
<1>12. Suits(j)
  BY <1>2, <1>6, <1>7 DEF Suits
<1>13. Undoable(j, disk')
  <2>1. DOMAIN r.saved \subseteq Both(a) /\ \A g \in DOMAIN r.saved : r.saved[g] = r.before.files[g]
    BY <1>7 DEF Undoable
  <2>2. \A g \in Files \ DOMAIN r.saved : disk.files[g] = r.before.files[g]
    BY <1>7 DEF Undoable
  <2>3. IF r.noted THEN r.was = r.before.lines /\ r.was # None ELSE disk.lines = r.before.lines
    BY <1>7 DEF Undoable
  <2>. QED BY <1>6, <1>7, <1>8, <1>10, <1>11, <2>1, <2>2, <2>3 DEF Undoable
<1>14. r.op = "remove" => Removing(j, disk')
  BY <1>2, <1>6, <1>11 DEF Midway, Removing
<1>15. r.op = "switch" => Switching(j, disk')
  BY <1>2, <1>6, <1>11 DEF Midway, Switching
<1>16. StopSafe'
  <2>1. req'[t] = j
    BY <1>1, <1>2, <1>5, <1>9, StepEffect DEF IInv, Steps
  <2>2. CASE r.op = "remove"
    <3>1. Exposed(t)'
      BY <1>6, <2>1, <2>2 DEF Exposed, At, App
    <3>. QED BY <3>1 DEF StopSafe
  <2>3. CASE r.op = "switch"
    <3>1. torn \/ Loads(disk)
      BY <1>1, <2>3, Unexposed DEF Exposed
    <3>2. ASSUME Loads(disk) PROVE Loads(disk')
      <4>1. disk.lines \in SUBSET Apps /\ disk.lines \in SUBSET disk.lines
        BY <1>2, <3>2 DEF Loads, LoadsFrom, Lines
      <4>2. disk.files[f] # "none" => r.before.files[f] # "none"
        BY <1>2, <1>10, <2>3 DEF Midway, Switching
      <4>3. \A g \in Files : g[1] \in disk.lines /\ disk.files[g] # "none" => disk'.files[g] # "none"
        BY <1>11, <4>2
      <4>. QED BY <1>11, <3>2, <4>1, <4>3, FewerLoad DEF Loads
    <3>. QED BY <1>3, <3>1, <3>2 DEF StopSafe, Loads, ghosts
  <2>. QED BY <1>7, <2>2, <2>3
<1>. QED
  BY <1>1, <1>2, <1>3, <1>5, <1>6, <1>7, <1>9, <1>11, <1>12, <1>13, <1>14, <1>15, <1>16, GoesOn
  DEF Resting, Midway, Steps, ghosts, bounds

LEMMA PutBackCreatedStep ==
    ASSUME IInv, OneWriter, NEW t \in Requests, PutBackCreated(t)
    PROVE  IInv'
<1>. DEFINE r == req[t]
            j == [req[t] EXCEPT !.pc = "refused"]
            files == [f \in Files |-> IF f \in r.made THEN "none" ELSE disk.files[f]]
<1>1. t \in Writers /\ r.pc = "undoing" /\ ~At(t, "refused") /\ r.op # "restore" /\ ~r.noted /\ r.saved = <<>>
  BY DEF PutBackCreated, Writers, At
<1>2. /\ r \in Jobs /\ disk \in Trees /\ Suits(r) /\ Midway(r, disk, aside) /\ Sound(r.before)
      /\ left \in SUBSET Apps /\ fails \in 0 .. MaxFails /\ r.before \in Trees
      /\ (aside = None \/ aside.lines \in Lines) /\ disk.files \in [Files -> Contents]
  BY <1>1, OfWriter
<1>3. /\ disk' = [disk EXCEPT !.files = files] /\ Go(t, "refused")
      /\ UNCHANGED <<aside, snaps, live, reloading, ghosts, bounds>>
  BY DEF PutBackCreated
<1>4. Steps(t, j)
  BY <1>3, <1>2, Going DEF IInv, Phases, Writers
<1>5. j.pc = "refused" /\ j.op = r.op /\ j.app = r.app /\ j.before = r.before
  BY <1>2, Moved
<1>. HIDE DEF j
<1>6. Suits(j)
  BY <1>2, <1>5 DEF Suits
<1>7. disk' = r.before
  <2>1. Undoable(r, disk) /\ DOMAIN r.saved = {}
    BY <1>1, <1>2 DEF Suits, Midway, Operations
  <2>2. \A f \in Files : files[f] = r.before.files[f]
    BY <2>1 DEF Undoable
  <2>3. disk.lines = r.before.lines
    BY <1>1, <2>1 DEF Undoable
  <2>4. files \in [Files -> Contents]
    BY <1>2 DEF Contents
  <2>. HIDE DEF files
  <2>5. disk' \in Trees /\ disk'.files = files /\ disk'.lines = disk.lines
    BY <1>2, <1>3, <2>4 DEF Trees
  <2>. QED BY <1>2, <2>2, <2>3, <2>5, TreeIs
<1>8. Clean(disk)' /\ StopSafe'
  BY <1>2, <1>3, <1>7 DEF Sound, Clean, StopSafe, Loads, ghosts
<1>. QED BY <1>1, <1>2, <1>3, <1>4, <1>5, <1>6, <1>7, <1>8, GetsRefused DEF ghosts, bounds

LEMMA UndoAsideStep ==
    ASSUME IInv, OneWriter, NEW t \in Requests, UndoAside(t)
    PROVE  IInv'
<1>. DEFINE r == req[t]
            j == [req[t] EXCEPT !.pc = "refused"]
<1>1. t \in Writers /\ r.pc = "undoing" /\ ~At(t, "refused") /\ r.op = "restore"
  BY DEF UndoAside, Writers, At
<1>2. /\ r \in Jobs /\ disk \in Trees /\ Suits(r) /\ Restoring(r, disk, aside) /\ Sound(r.before)
      /\ left \in SUBSET Apps /\ fails \in 0 .. MaxFails /\ r.before \in Trees
      /\ r.before.lines \in Lines /\ r.before.files \in [Files -> Contents]
  BY <1>1, OfWriter DEF Midway
<1>3. /\ disk' = CASE aside = None -> disk
                   [] aside # None /\ aside.files = None -> [disk EXCEPT !.lines = aside.lines]
                   [] OTHER -> aside
      /\ aside' = None /\ Go(t, "refused") /\ UNCHANGED <<snaps, live, reloading, ghosts, bounds>>
  BY DEF UndoAside
<1>4. Steps(t, j)
  BY <1>3, <1>2, Going DEF IInv, Phases, Writers
<1>5. j.pc = "refused" /\ j.op = r.op /\ j.app = r.app /\ j.before = r.before
  BY <1>2, Moved
<1>. HIDE DEF j
<1>6. Suits(j)
  BY <1>2, <1>5 DEF Suits
<1>7. disk' = r.before
  <2>1. r.before = [lines |-> r.before.lines, files |-> r.before.files]
    BY <1>2 DEF Trees
  <2>2. Half(r.before) # None /\ r.before # None /\ r.before.files # None /\ Half(r.before).files = None
    BY <1>2, <2>1, NoneAssumption DEF Half, Lines
  <2>3. CASE aside = None /\ disk = r.before
    BY <1>3, <2>3
  <2>4. CASE aside = Half(r.before) /\ disk.files = r.before.files
    <3>1. disk' = [disk EXCEPT !.lines = r.before.lines]
      BY <1>3, <2>2, <2>4 DEF Half
    <3>. QED BY <1>2, <2>4, <3>1 DEF Trees
  <2>5. CASE aside = r.before
    BY <1>3, <2>2, <2>5
  <2>. QED BY <1>1, <1>2, <2>3, <2>4, <2>5 DEF Restoring
<1>8. Clean(disk)' /\ StopSafe'
  BY <1>2, <1>3, <1>7 DEF Sound, Clean, StopSafe, Loads, ghosts
<1>. QED BY <1>1, <1>2, <1>3, <1>4, <1>5, <1>6, <1>7, <1>8, GetsRefused DEF ghosts, bounds

\* What a write can leave behind it, however it ends.
LEMMA Traces ==
    ASSUME IInv, NEW t \in Writers, NEW f \in Files, disk.files[f] # "none"
    PROVE  f[1] \in left \cup Touches(t) \/ (disk.lines # None /\ f[1] \in disk.lines)
<1>. DEFINE r == req[t]
            a == r.app
<1>1. /\ Suits(r) /\ Sound(r.before) /\ r.before.lines \in Lines /\ r.op \in Operations
      /\ (r.op # "restore" => a \in Apps)
  BY OfWriter DEF Suits
<1>2. CASE At(t, "refused")
  <2>1. Clean(disk)
    BY <1>2 DEF IInv, Job, Writers
  <2>. QED BY <2>1 DEF Clean
<1>. SUFFICES ASSUME Midway(r, disk, aside)
              PROVE  f[1] \in left \cup Touches(t) \/ (disk.lines # None /\ f[1] \in disk.lines)
  BY <1>2, OfWriter
<1>3. r.before.files[f] # "none" => f[1] \in left \/ (r.before.lines # None /\ f[1] \in r.before.lines)
  BY <1>1 DEF Sound, Clean
<1>4. CASE r.op = "restore"
  BY <1>4, FileApp DEF Touches
<1>5. CASE r.op = "switch"
  <2>1. disk.lines = r.before.lines /\ r.before.files[f] # "none"
    BY <1>5 DEF Midway, Switching, Undoable
  <2>. QED BY <1>3, <2>1
<1>6. CASE r.op \in {"install", "remove"}
  <2>1. Touches(t) = {a}
    BY <1>6 DEF Touches
  <2>2. CASE f[1] = a
    BY <2>1, <2>2
  <2>3. CASE f[1] # a
    <3>1. f \notin Both(a) /\ Undoable(r, disk)
      BY <1>1, <1>6, <2>3, FilesNamed DEF Midway
    <3>2. disk.files[f] = r.before.files[f]
      BY <3>1 DEF Undoable
    <3>3. /\ r.before.lines # None => disk.lines \in {r.before.lines, r.before.lines \cup {a}, r.before.lines \ {a}}
          /\ r.before.lines = None => disk.lines = None
      BY <1>6 DEF Midway, Installing, Removing
    <3>4. r.before.lines # None => disk.lines # None
      BY <1>1, <1>6, <3>3, NoneAssumption DEF Lines
    <3>. QED BY <1>3, <2>3, <3>2, <3>3, <3>4
  <2>. QED BY <2>2, <2>3
<1>. QED BY <1>1, <1>4, <1>5, <1>6 DEF Operations

LEMMA PutBackFailsStep ==
    ASSUME IInv, OneWriter, NEW t \in Requests, PutBackFails(t)
    PROVE  IInv'
<1>. DEFINE r == req[t]
            a == r.app
            j == [req[t] EXCEPT !.pc = "refused"]
<1>1. t \in Writers /\ r.pc = "undoing" /\ ~At(t, "refused")
  BY DEF PutBackFails, Writers, At
<1>2. /\ r \in Jobs /\ disk \in Trees /\ Suits(r) /\ Midway(r, disk, aside) /\ Sound(r.before)
      /\ left \in SUBSET Apps /\ fails \in 0 .. MaxFails
      /\ r.before.lines \in Lines /\ (aside = None \/ aside.lines \in Lines)
  BY <1>1, OfWriter
<1>3. /\ torn' = TRUE /\ behind' = TRUE /\ left' = left \cup Touches(t) /\ Go(t, "refused")
      /\ fails < MaxFails /\ fails' = fails + 1
      /\ UNCHANGED <<disk, aside, snaps, live, reloading, writes, crashes>>
  BY DEF PutBackFails
<1>4. Steps(t, j)
  BY <1>3, <1>2, Going DEF IInv, Phases, Writers
<1>5. j.pc = "refused" /\ j.op = r.op /\ j.app = r.app /\ j.before = r.before
  BY <1>2, Moved
<1>. HIDE DEF j
<1>6. Suits(j) /\ r.op \in Operations /\ (r.op # "restore" => a \in Apps)
  BY <1>2, <1>5 DEF Suits
<1>7. left' \subseteq Apps
  BY <1>2, <1>3, <1>6 DEF Touches
<1>8. ASSUME NEW f \in Files, disk.files[f] # "none"
      PROVE  f[1] \in left' \/ (disk.lines # None /\ f[1] \in disk.lines)
  BY <1>1, <1>3, <1>8, Traces
<1>9. Clean(disk)' /\ StopSafe'
  BY <1>3, <1>8 DEF Clean, StopSafe
<1>10. fails' \in 0 .. MaxFails
  BY <1>2, <1>3, InstallationAssumption
<1>. QED BY <1>1, <1>2, <1>3, <1>4, <1>5, <1>6, <1>7, <1>9, <1>10, GetsRefused, OfWriter

LEMMA AnswerRefusedStep ==
    ASSUME IInv, OneWriter, NEW t \in Requests, AnswerRefused(t)
    PROVE  IInv'
<1>1. t \in Writers /\ At(t, "refused")
  BY DEF AnswerRefused, Writers, At
<1>2. Clean(disk) /\ (torn \/ Loads(disk))
  BY <1>1 DEF IInv, Job, Sound
<1>3. Base(t) = disk
  BY <1>1 DEF Base
<1>4. Steps(t, Rest) /\ UNCHANGED <<disk, aside, snaps, live, reloading, ghosts, bounds>>
  BY RestJob DEF AnswerRefused, End, Steps
<1>. QED BY <1>1, <1>2, <1>3, <1>4, Leaves

-----------------------------------------------------------------------------
(* A write begins.                                                         *)

LEMMA AsRest == Rest \in Jobs /\ Rest.noted = FALSE /\ DOMAIN Rest.saved = {} /\ Rest.made = {}
BY RestJob DEF Rest

LEMMA FreshRestore ==
    ASSUME NEW tree \in Trees, NEW before \in Trees
    PROVE  LET j == [Rest EXCEPT !.pc = "leaving", !.op = "restore", !.tree = tree, !.before = before]
           IN  /\ j \in Jobs
               /\ j.pc = "leaving" /\ j.op = "restore" /\ j.tree = tree /\ j.before = before
               /\ ~j.noted /\ DOMAIN j.saved = {}
BY AsRest DEF Jobs, Records, Phases, Operations

LEMMA Keeping ==
    ASSUME IInv, snaps' \in {snaps, Kept}
    PROVE  snaps' \subseteq Trees /\ \A tree \in snaps' : tree.lines # None
BY DEF IInv, TypeOK, Kept

LEMMA BeginWriteStep ==
    ASSUME IInv, OneWriter', NEW t \in Requests, NEW op \in {"install", "remove", "switch"}, NEW a \in Apps,
           NEW pc, NEW todo, BeginWrite(t, op, a, pc, todo),
           \/ op = "install" /\ pc = "copying" /\ todo = FilesOf(a)
           \/ op = "remove" /\ pc = "reading" /\ todo = FilesOf(a)
           \/ op = "switch" /\ pc = "switching" /\ todo = <<>>
    PROVE  IInv'
<1>. DEFINE j == [Rest EXCEPT !.pc = pc, !.op = op, !.app = a, !.todo = todo, !.before = disk]
<1>1. /\ At(t, "idle") /\ writes < MaxWrites /\ writes' = writes + 1 /\ snaps' \in {snaps, Kept}
      /\ req' = [req EXCEPT ![t] = j] /\ UNCHANGED <<disk, aside, live, reloading, ghosts, fails, crashes>>
  BY DEF BeginWrite
<1>2. disk \in Trees /\ writes \in 0 .. MaxWrites
  BY DEF IInv, TypeOK
<1>4. todo \in Todos /\ pc \in Phases /\ op \in Operations
  BY DEF Todos, Phases, Operations
<1>5. /\ j \in Jobs
      /\ j.pc = pc /\ j.op = op /\ j.app = a /\ j.todo = todo /\ j.before = disk
      /\ ~j.noted /\ DOMAIN j.saved = {} /\ j.made = {}
  BY <1>2, <1>4, AsRest DEF Jobs, Records
<1>. HIDE DEF j
<1>7. Suits(j)
  BY <1>4, <1>5 DEF Suits
<1>8. Undoable(j, disk) /\ Midway(j, disk, aside)
  BY <1>5 DEF Midway, Undoable, Installing, Removing, Switching
<1>9. writes' \in 0 .. MaxWrites
  BY <1>1, <1>2, InstallationAssumption
<1>10. snaps' \subseteq Trees /\ \A tree \in snaps' : tree.lines # None
  BY <1>1, Keeping
<1>. QED BY <1>1, <1>5, <1>7, <1>8, <1>9, <1>10, Starts DEF Resting, Steps

LEMMA BeginRestoreStep ==
    ASSUME IInv, OneWriter', NEW t \in Requests, NEW tree \in snaps, BeginRestore(t, tree)
    PROVE  IInv'
<1>. DEFINE j == [Rest EXCEPT !.pc = "leaving", !.op = "restore", !.tree = tree, !.before = disk]
<1>1. /\ At(t, "idle") /\ writes < MaxWrites /\ writes' = writes + 1 /\ snaps' = Kept
      /\ req' = [req EXCEPT ![t] = j]
      /\ UNCHANGED <<disk, aside, live, reloading, ghosts, fails, crashes>>
  BY DEF BeginRestore
<1>2. disk \in Trees /\ writes \in 0 .. MaxWrites /\ tree \in Trees /\ tree.lines # None
  BY DEF IInv, TypeOK
<1>3. /\ j \in Jobs
      /\ j.pc = "leaving" /\ j.op = "restore" /\ j.tree = tree /\ j.before = disk
      /\ ~j.noted /\ DOMAIN j.saved = {}
  BY <1>2, FreshRestore
<1>. HIDE DEF j
<1>6. Suits(j) /\ Midway(j, disk, aside)
  BY <1>2, <1>3 DEF Suits, Operations, Midway, Restoring
<1>7. writes' \in 0 .. MaxWrites
  BY <1>1, <1>2, InstallationAssumption
<1>8. snaps' \subseteq Trees /\ \A s \in snaps' : s.lines # None
  BY <1>1, Keeping
<1>. QED BY <1>1, <1>3, <1>6, <1>7, <1>8, Starts DEF Resting, Steps

-----------------------------------------------------------------------------
(* Requests that do not write: what is served.                             *)

\* Nothing of the one that writes changes.
LEMMA Bystander ==
    ASSUME IInv, NEW t \in Requests, t \notin Writers, NEW j, Steps(t, j), j.pc \in Resting,
           UNCHANGED <<disk, aside, torn, left>>,
           snaps' \subseteq Trees, \A tree \in snaps' : tree.lines # None,
           TypeOK', Served'
    PROVE  IInv'
<1>1. req' \in [Requests -> Jobs] /\ req'[t] = j /\ \A u \in Requests \ {t} : req'[u] = req[u]
  BY StepEffect DEF IInv
<1>2. Writers' = Writers
  BY <1>1 DEF Writers, Resting
<1>3. ASSUME NEW u \in Requests PROVE Job(u)'
  <2>1. CASE u = t
    BY <1>2, <2>1 DEF Job
  <2>2. CASE u # t
    <3>1. Job(u) /\ req'[u] = req[u]
      BY <1>1, <2>2 DEF IInv
    <3>. QED BY <1>2, <3>1 DEF Job, Sound, Clean, Loads, At
  <2>. QED BY <2>1, <2>2
<1>4. StopSafe'
  <2>1. ASSUME NEW u \in Requests, Exposed(u) PROVE Exposed(u)'
    <3>1. u # t
      BY <2>1, ExposedWrites
    <3>2. req'[u] = req[u]
      BY <1>1, <3>1
    <3>. QED BY <2>1, <3>2 DEF Exposed, At, App
  <2>. QED BY <2>1 DEF IInv, StopSafe, Loads
<1>5. Writers' = {} => Clean(disk)'
  BY <1>2 DEF IInv, Clean
<1>. QED BY <1>1, <1>3, <1>4, <1>5 DEF IInv

LEMMA SameGrounds ==
    ASSUME IInv, NEW t \in Requests, t \notin Writers, NEW j, Steps(t, j), j.pc \in Resting, disk' = disk
    PROVE  Grounds' = Grounds
<1>1. req' \in [Requests -> Jobs] /\ req'[t] = j /\ \A u \in Requests \ {t} : req'[u] = req[u]
  BY StepEffect DEF IInv
<1>2. Writers' = Writers
  BY <1>1 DEF Writers, Resting
<1>3. ASSUME NEW u \in Writers PROVE Base(u)' = Base(u)
  <2>1. req'[u] = req[u]
    BY <1>1 DEF Writers
  <2>. QED BY <2>1 DEF Base, At
<1>. QED BY <1>2, <1>3 DEF Grounds

LEMMA BeginReloadStep ==
    ASSUME IInv, NEW t \in Requests, BeginReload(t)
    PROVE  IInv'
<1>. DEFINE j == [Rest EXCEPT !.pc = "reloading", !.op = "reload"]
<1>1. /\ At(t, "idle") /\ snaps' \in {snaps, Kept} /\ req' = [req EXCEPT ![t] = j]
      /\ UNCHANGED <<disk, aside, live, reloading, ghosts, bounds>>
  BY DEF BeginReload
<1>2. j \in Jobs
  <2>1. Rest.read \in Lines /\ Rest.was \in Lines /\ Rest.saved \in Saves /\ Rest.todo \in Todos
    BY RestJob, JobFields
  <2>. QED BY <2>1 DEF Rest, Jobs, Records, Phases
<1>3. j.pc = "reloading"
  BY DEF Rest
<1>. HIDE DEF j
<1>4. Steps(t, j) /\ t \notin Writers
  BY <1>1, <1>2 DEF Steps, Writers, At
<1>5. snaps' \subseteq Trees /\ \A tree \in snaps' : tree.lines # None
  BY <1>1, Keeping
<1>6. TypeOK'
  BY <1>1, <1>3, <1>4, <1>5, StepTyped DEF IInv, TypeOK, Lines, At, ghosts, bounds
<1>7. Served'
  <2>1. req'[t] = j
    BY <1>4, StepEffect DEF IInv
  <2>. QED BY <1>3, <2>1 DEF Served, Pending
<1>. QED BY <1>1, <1>3, <1>4, <1>5, <1>6, <1>7, Bystander DEF Resting, ghosts

LEMMA ForgetStep ==
    ASSUME IInv, NEW t \in Requests, Forget(t)
    PROVE  IInv'
<1>1. /\ At(t, "forgetting") /\ t \notin Writers /\ ~At(t, "loading")
      /\ UNCHANGED <<disk, aside, snaps, live, reloading, torn, left, writes, crashes>>
  BY DEF Forget, Writers, At
<1>2. /\ req[t] \in Jobs /\ snaps \subseteq Trees /\ \A tree \in snaps : tree.lines # None
  BY DEF IInv, TypeOK
<1>3. CASE Go(t, "reloading") /\ UNCHANGED <<behind, fails>>
  <2>. DEFINE j == [req[t] EXCEPT !.pc = "reloading"]
  <2>1. Steps(t, j)
    BY <1>3, Going DEF IInv, Phases
  <2>2. j.pc = "reloading"
    BY <1>2, Moved
  <2>. HIDE DEF j
  <2>3. TypeOK'
    BY <1>1, <1>3, <2>1, <2>2, StepTyped DEF IInv, TypeOK, Lines
  <2>4. Served'
    <3>1. req'[t] = j
      BY <2>1, StepEffect DEF IInv
    <3>. QED BY <2>2, <3>1 DEF Served, Pending
  <2>. QED BY <1>1, <1>2, <2>1, <2>2, <2>3, <2>4, Bystander DEF Resting
<1>4. CASE End(t) /\ behind' = TRUE /\ fails < MaxFails /\ fails' = fails + 1
  <2>1. Steps(t, Rest) /\ Rest.pc = "idle"
    BY <1>4, RestJob DEF End, Steps, Rest
  <2>2. fails' \in 0 .. MaxFails
    <3>1. fails \in 0 .. MaxFails
      BY DEF IInv, TypeOK
    <3>. QED BY <1>4, <3>1, InstallationAssumption
  <2>3. TypeOK'
    BY <1>1, <1>4, <2>1, <2>2, StepTyped DEF IInv, TypeOK, Lines
  <2>4. Served'
    BY <1>4 DEF Served
  <2>. QED BY <1>1, <1>2, <2>1, <2>3, <2>4, Bystander DEF Resting
<1>. QED BY <1>3, <1>4 DEF Forget

\* While nothing that a reload would misread is being written, the disk reads as what it is, or will be again.
LEMMA ReadsRight ==
    ASSUME IInv, \A u \in Requests : ~Writing(u), NEW tree \in Grounds
    PROVE  /\ disk.lines = tree.lines
           /\ disk.lines # None =>
                 \A b \in disk.lines : /\ disk.files[Machine(b)] = tree.files[Machine(b)]
                                       /\ disk.files[Declaration(b)] = tree.files[Declaration(b)]
<1>1. CASE tree = disk
  BY <1>1
<1>2. CASE tree # disk
  <2>1. PICK t \in Writers : tree = Base(t)
    BY <1>2 DEF Grounds
  <2>. DEFINE r == req[t]
              a == r.app
  <2>2. tree = r.before /\ ~At(t, "refused")
    BY <1>2, <2>1 DEF Base
  <2>3. /\ t \in Requests /\ r \in Jobs /\ disk \in Trees /\ r.before \in Trees /\ Suits(r)
        /\ Midway(r, disk, aside) /\ disk.lines \in Lines /\ ~Writing(t)
    BY <2>2, OfWriter
  <2>4. r.pc \in {"copying", "reading", "noting", "writing", "switching", "leaving"}
    <3>1. r.pc \in Phases /\ r.pc \notin {"idle", "reloading", "loading", "forgetting", "refused"}
      BY <2>2, <2>3, JobFields DEF Writers, At
    <3>2. r.pc \notin {"removing", "verifying", "undoing", "clearing", "filling", "returning"}
      BY <2>3 DEF Writing
    <3>. QED BY <3>1, <3>2 DEF Phases
  <2>5. CASE r.pc = "leaving"
    BY <1>2, <2>2, <2>3, <2>5 DEF Suits, Midway, Restoring
  <2>6. CASE r.pc = "switching"
    BY <1>2, <2>2, <2>3, <2>6, Undone DEF Suits, Midway, Switching
  <2>7. CASE r.pc \in {"copying", "reading", "noting", "writing"} /\ r.op = "install"
    <3>1. Undoable(r, disk) /\ Installing(r, disk) /\ a \in Apps
      BY <2>3, <2>7 DEF Suits, Midway
    <3>2. disk.lines = r.before.lines
      BY <2>7, <3>1 DEF Undoable, Installing
    <3>3. ASSUME disk.lines # None, NEW b \in disk.lines, NEW f \in Both(b)
          PROVE  disk.files[f] = r.before.files[f]
      <4>1. b \in Apps /\ f \in Files
        BY <2>3, <3>3, FilesNamed DEF Lines
      <4>2. f \notin r.made
        <5>1. CASE r.made = {}
          BY <5>1
        <5>2. CASE r.made # {}
          <6>1. a # b
            BY <2>3, <2>7, <3>3, <5>2 DEF Writing, App
          <6>2. f \notin Both(a)
            BY <3>1, <3>3, <4>1, <6>1, FilesNamed
          <6>. QED BY <3>1, <6>2 DEF Undoable
        <5>. QED BY <5>1, <5>2
      <4>3. DOMAIN r.saved = {}
        BY <3>1 DEF Installing
      <4>. QED BY <3>1, <4>1, <4>2, <4>3 DEF Undoable
    <3>. QED BY <2>2, <3>2, <3>3 DEF Both
  <2>8. CASE r.pc \in {"reading", "noting", "writing"} /\ r.op = "remove"
    BY <2>2, <2>3, <2>8 DEF Midway, Undoable, Removing
  <2>. QED BY <2>3, <2>4, <2>5, <2>6, <2>7, <2>8 DEF Suits
<1>. QED BY <1>1, <1>2

LEMMA ReadLinesStep ==
    ASSUME IInv, NEW t \in Requests, ReadLines(t)
    PROVE  IInv'
<1>. DEFINE r == req[t]
            j == [req[t] EXCEPT !.read = disk.lines, !.pc = "loading"]
<1>1. /\ At(t, "reloading") /\ t \notin Writers /\ reloading = Nobody /\ reloading' = t
      /\ behind' = \E u \in Requests : Writing(u)
      /\ UNCHANGED <<disk, aside, snaps, live, torn, left, bounds>>
  BY DEF ReadLines, Writers, At
<1>2. r \in Jobs /\ disk.lines \in Lines /\ snaps \subseteq Trees /\ \A tree \in snaps : tree.lines # None
  BY DEF IInv, TypeOK, Trees, Lines
<1>3. j \in Jobs /\ j.pc = "loading" /\ j.read = disk.lines
  BY <1>2 DEF Jobs, Records, Phases
<1>4. req' = [req EXCEPT ![t] = j]
  BY DEF ReadLines, IInv
<1>. HIDE DEF j
<1>5. Steps(t, j)
  BY <1>3, <1>4 DEF Steps
<1>6. req' \in [Requests -> Jobs] /\ req'[t] = j /\ \A u \in Requests \ {t} : req'[u] = req[u]
  BY <1>5, StepEffect DEF IInv
<1>7. TypeOK'
  <2>1. ASSUME NEW u \in Requests
        PROVE  /\ req'[u].pc \in Phases
               /\ req'[u].pc = "loading" <=> reloading' = u
               /\ req'[u].app \in Apps \cup {Nobody}
               /\ DOMAIN req'[u].saved \subseteq Files /\ req'[u].made \subseteq Files
               /\ req'[u].pc = "idle" => req'[u] = Rest
    <3>1. CASE u # t
      <4>1. req[u].pc # "loading"
        BY <1>1, InstallationAssumption DEF IInv, TypeOK
      <4>. QED BY <1>1, <1>6, <3>1, <4>1 DEF IInv, TypeOK
    <3>2. CASE u = t
      <4>1. DOMAIN j.saved \subseteq Files
        BY <1>3, JobFields DEF Saves
      <4>. QED BY <1>1, <1>3, <1>6, <3>2, <4>1 DEF Jobs, Records
    <3>. QED BY <3>1, <3>2
  <2>2. behind' \in BOOLEAN
    BY <1>1
  <2>. QED BY <1>1, <2>1, <2>2 DEF TypeOK, IInv, bounds
<1>8. Served'
  <2>. SUFFICES ASSUME ~behind' PROVE Served'
    BY DEF Served
  <2>1. \A u \in Requests : ~Writing(u)
    BY <1>1
  <2>2. Grounds' = Grounds
    BY <1>1, <1>3, <1>5, SameGrounds DEF Resting
  <2>3. \A tree \in Grounds : req'[reloading'].read = tree.lines
    BY <1>1, <1>3, <1>6, <2>1, ReadsRight
  <2>4. reloading' # Nobody
    BY <1>1, InstallationAssumption
  <2>. QED BY <2>2, <2>3, <2>4 DEF Served
<1>. QED BY <1>1, <1>2, <1>3, <1>5, <1>7, <1>8, Bystander DEF Resting

LEMMA ViewTyped ==
    ASSUME NEW tree \in Trees, NEW lines \in SUBSET Apps
    PROVE  View(lines, tree.files) \subseteq Apps \X Contents
<1>1. tree.files \in [Files -> Contents]
  BY DEF Trees
<1>2. ASSUME NEW a \in lines PROVE <<a, tree.files[<<a, "application">>]>> \in Apps \X Contents
  <2>1. <<a, "application">> \in Files
    BY Named
  <2>2. tree.files[<<a, "application">>] \in Contents
    BY <1>1, <2>1
  <2>. QED BY <2>2
<1>. QED BY <1>2 DEF View

LEMMA SwapStep ==
    ASSUME IInv, NEW t \in Requests, Swap(t)
    PROVE  IInv'
<1>. DEFINE lines == req[t].read
            settled == \A u \in Requests : ~Writing(u)
<1>1. /\ At(t, "loading") /\ t \notin Writers /\ reloading' = Nobody /\ End(t)
      /\ UNCHANGED <<disk, aside, snaps, torn, left, bounds>>
  BY DEF Swap, Writers, At
<1>2. \/ /\ LoadsFrom(lines, disk.files) /\ live' = View(lines, disk.files)
         /\ behind' = (behind \/ \E u \in Requests : Writing(u))
      \/ behind' = TRUE /\ live' = live
  BY DEF Swap
<1>3. req[t] \in Jobs /\ disk \in Trees /\ snaps \subseteq Trees /\ \A tree \in snaps : tree.lines # None
  BY DEF IInv, TypeOK
<1>4. Steps(t, Rest) /\ Rest.pc = "idle"
  BY <1>1, RestJob DEF End, Steps, Rest
<1>5. req' \in [Requests -> Jobs] /\ req'[t] = Rest /\ \A u \in Requests \ {t} : req'[u] = req[u]
  BY <1>4, StepEffect DEF IInv
<1>6. reloading = t
  BY <1>1 DEF IInv, TypeOK, At
<1>7. live' = Down \/ live' \subseteq Apps \X Contents
  <2>1. ASSUME LoadsFrom(lines, disk.files) PROVE View(lines, disk.files) \subseteq Apps \X Contents
    <3>1. lines \in SUBSET Apps
      BY <1>3, <2>1, JobFields DEF LoadsFrom, Lines
    <3>. QED BY <1>3, <3>1, ViewTyped
  <2>. QED BY <1>2, <2>1 DEF IInv, TypeOK
<1>8. TypeOK'
  <2>1. ASSUME NEW u \in Requests
        PROVE  /\ req'[u].pc \in Phases
               /\ req'[u].pc = "loading" <=> reloading' = u
               /\ req'[u].app \in Apps \cup {Nobody}
               /\ DOMAIN req'[u].saved \subseteq Files /\ req'[u].made \subseteq Files
               /\ req'[u].pc = "idle" => req'[u] = Rest
    <3>1. CASE u # t
      <4>1. req[u].pc # "loading"
        BY <1>6, <3>1 DEF IInv, TypeOK
      <4>2. reloading' # u
        BY <1>1, InstallationAssumption
      <4>. QED BY <1>5, <3>1, <4>1, <4>2 DEF IInv, TypeOK
    <3>2. CASE u = t
      <4>1. DOMAIN Rest.saved \subseteq Files
        BY AsRest
      <4>2. reloading' # u
        BY <1>1, InstallationAssumption
      <4>. QED BY <1>4, <1>5, <3>2, <4>1, <4>2, RestJob DEF Jobs, Records
    <3>. QED BY <3>1, <3>2
  <2>2. behind' \in BOOLEAN
    BY <1>2 DEF IInv, TypeOK
  <2>. QED BY <1>1, <1>7, <2>1, <2>2 DEF TypeOK, IInv, bounds
<1>9. Served'
  <2>. SUFFICES ASSUME ~behind', ~Pending' PROVE Served'
    BY DEF Served
  <2>1. ~behind /\ settled /\ LoadsFrom(lines, disk.files) /\ live' = View(lines, disk.files)
    BY <1>2 DEF IInv, TypeOK
  <2>2. ~Pending
    <3>1. ASSUME NEW u \in Requests, req[u].pc \in {"reloading", "forgetting"} PROVE FALSE
      <4>1. req'[u] = req[u]
        BY <1>1, <1>5, <3>1 DEF At
      <4>. QED BY <3>1, <4>1 DEF Pending
    <3>. QED BY <3>1 DEF Pending
  <2>3. Grounds' = Grounds
    BY <1>1, <1>4, SameGrounds DEF Resting
  <2>4. ASSUME NEW tree \in Grounds PROVE Loads(tree) /\ live' = View(tree.lines, tree.files)
    <3>1. lines = tree.lines
      BY <1>6, <2>1, <2>2, <2>4, InstallationAssumption DEF IInv, Served
    <3>2. disk.lines = tree.lines /\ disk.lines # None
      BY <2>1, <2>4, <3>1, ReadsRight DEF LoadsFrom
    <3>3. \A b \in lines : /\ disk.files[Machine(b)] = tree.files[Machine(b)]
                           /\ disk.files[Declaration(b)] = tree.files[Declaration(b)]
      BY <2>1, <2>4, <3>1, <3>2, ReadsRight
    <3>4. Loads(tree)
      BY <2>1, <3>1, <3>3, LoadsMeans DEF Loads
    <3>5. View(lines, disk.files) = View(lines, tree.files)
      BY <3>3 DEF View, Declaration
    <3>. QED BY <2>1, <3>1, <3>4, <3>5
  <2>. QED BY <1>1, <2>3, <2>4 DEF Served
<1>. QED BY <1>1, <1>3, <1>4, <1>8, <1>9, Bystander DEF Resting

\* The process stops, and starts again over what is on disk.
LEMMA CrashStep ==
    ASSUME IInv, OneWriter, Crash
    PROVE  IInv'
<1>1. /\ crashes < MaxCrashes /\ crashes' = crashes + 1 /\ reloading' = Nobody
      /\ req' = [t \in Requests |-> Rest] /\ behind' = FALSE
      /\ live' = (IF Loads(disk) THEN View(disk.lines, disk.files) ELSE Down)
      /\ torn' = (torn \/ \E t \in Requests : Exposed(t))
      /\ left' = left \cup UNION {Touches(t) : t \in Requests}
      /\ UNCHANGED <<disk, aside, snaps, writes, fails>>
  BY DEF Crash
<1>2. req' \in [Requests -> Jobs] /\ \A t \in Requests : req'[t] = Rest /\ req'[t].pc = "idle"
  BY <1>1, RestJob DEF Rest
<1>3. Writers' = {}
  BY <1>2 DEF Writers
<1>4. live' = Down \/ live' \subseteq Apps \X Contents
  <2>1. ASSUME Loads(disk) PROVE View(disk.lines, disk.files) \subseteq Apps \X Contents
    <3>1. disk \in Trees
      BY DEF IInv, TypeOK
    <3>2. disk.lines \in SUBSET Apps
      BY <2>1, <3>1 DEF Trees, Loads, LoadsFrom
    <3>. QED BY <3>1, <3>2, ViewTyped
  <2>. QED BY <1>1, <2>1
<1>5. left' \subseteq Apps
  <2>1. ASSUME NEW t \in Requests PROVE Touches(t) \subseteq Apps
    <3>1. req[t] \in Jobs
      BY DEF IInv
    <3>. QED BY <3>1 DEF Touches, Jobs
  <2>. QED BY <1>1, <2>1 DEF IInv, TypeOK
<1>6. TypeOK'
  <2>1. crashes' \in 0 .. MaxCrashes
    <3>1. crashes \in 0 .. MaxCrashes
      BY DEF IInv, TypeOK
    <3>. QED BY <1>1, <3>1, InstallationAssumption
  <2>2. ASSUME NEW t \in Requests
        PROVE  /\ req'[t].pc \in Phases
               /\ req'[t].pc = "loading" <=> reloading' = t
               /\ req'[t].app \in Apps \cup {Nobody}
               /\ DOMAIN req'[t].saved \subseteq Files /\ req'[t].made \subseteq Files
               /\ req'[t].pc = "idle" => req'[t] = Rest
    <3>1. reloading' # t
      BY <1>1, InstallationAssumption
    <3>. QED BY <1>2, <3>1, AsRest DEF Jobs, Records
  <2>. QED BY <1>1, <1>4, <1>5, <2>1, <2>2 DEF TypeOK, IInv
<1>7. Clean(disk)'
  <2>1. ASSUME NEW f \in Files, disk.files[f] # "none"
        PROVE  f[1] \in left' \/ (disk.lines # None /\ f[1] \in disk.lines)
    <3>1. CASE Writers = {}
      BY <1>1, <2>1, <3>1 DEF IInv, Clean
    <3>2. CASE Writers # {}
      <4>1. PICK t \in Writers : TRUE
        BY <3>2
      <4>2. f[1] \in left \cup Touches(t) \/ (disk.lines # None /\ f[1] \in disk.lines)
        BY <2>1, Traces
      <4>. QED BY <1>1, <4>2 DEF Writers
    <3>. QED BY <3>1, <3>2
  <2>. QED BY <1>1, <2>1 DEF Clean
<1>8. StopSafe'
  BY <1>1 DEF IInv, StopSafe, Loads
<1>9. Served'
  <2>1. Grounds' = {disk}
    BY <1>1, <1>3 DEF Grounds
  <2>. QED BY <1>1, <2>1 DEF Served, Loads
<1>. QED BY <1>1, <1>2, <1>3, <1>6, <1>7, <1>8, <1>9 DEF IInv, Job

-----------------------------------------------------------------------------
(* The invariant, and what follows from it.                                *)

LEMMA InitIInv ==
    ASSUME Init
    PROVE  IInv
<1>1. PICK lines \in SUBSET Apps :
          /\ disk = [lines |-> lines, files |-> [f \in Files |-> IF f[1] \in lines THEN "on" ELSE "none"]]
          /\ Loads(disk) /\ live = View(lines, disk.files)
  BY DEF Init
<1>2. /\ aside = None /\ snaps = {} /\ reloading = Nobody /\ req = [t \in Requests |-> Rest]
      /\ torn = FALSE /\ left = {} /\ behind = FALSE /\ writes = 0 /\ fails = 0 /\ crashes = 0
  BY DEF Init
<1>3. disk \in Trees /\ disk.lines = lines /\ \A f \in Files : disk.files[f] # "none" => f[1] \in lines
  BY <1>1 DEF Trees, Contents
<1>4. req \in [Requests -> Jobs] /\ \A t \in Requests : req[t] = Rest /\ req[t].pc = "idle"
  BY <1>2, RestJob DEF Rest
<1>5. Writers = {} /\ Grounds = {disk}
  <2>1. Writers = {}
    BY <1>4 DEF Writers
  <2>. QED BY <2>1 DEF Grounds
<1>6. TypeOK
  <2>1. ASSUME NEW t \in Requests
        PROVE  /\ req[t].pc \in Phases
               /\ req[t].pc = "loading" <=> reloading = t
               /\ req[t].app \in Apps \cup {Nobody}
               /\ DOMAIN req[t].saved \subseteq Files /\ req[t].made \subseteq Files
               /\ req[t].pc = "idle" => req[t] = Rest
    <3>1. reloading # t
      BY <1>2, InstallationAssumption
    <3>. QED BY <1>4, <3>1, AsRest DEF Jobs, Records
  <2>2. live \subseteq Apps \X Contents
    BY <1>1, <1>3, ViewTyped
  <2>3. 0 \in 0 .. MaxWrites /\ 0 \in 0 .. MaxFails /\ 0 \in 0 .. MaxCrashes
    BY InstallationAssumption
  <2>. QED BY <1>2, <1>3, <2>1, <2>2, <2>3 DEF TypeOK
<1>7. Clean(disk)
  <2>1. disk.lines # None
    BY <1>1 DEF Loads, LoadsFrom
  <2>. QED BY <1>3, <2>1 DEF Clean
<1>8. Served
  BY <1>1, <1>2, <1>3, <1>5 DEF Served
<1>. QED BY <1>1, <1>2, <1>4, <1>5, <1>6, <1>7, <1>8 DEF IInv, Job, StopSafe

LEMMA StutterIInv ==
    ASSUME IInv, UNCHANGED vars
    PROVE  IInv'
<1>1. /\ disk' = disk /\ aside' = aside /\ snaps' = snaps /\ live' = live /\ reloading' = reloading /\ req' = req
      /\ torn' = torn /\ left' = left /\ behind' = behind /\ writes' = writes /\ fails' = fails /\ crashes' = crashes
  BY DEF vars, ghosts, bounds
<1>2. TypeOK'
  BY <1>1 DEF IInv, TypeOK
<1>3. Writers' = Writers /\ Grounds' = Grounds
  BY <1>1 DEF Writers, Grounds, Base, At
<1>4. ASSUME NEW t \in Requests PROVE Job(t)'
  BY <1>1, <1>3 DEF IInv, Job, Sound, Clean, Loads, At
<1>5. StopSafe' /\ (Writers' = {} => Clean(disk)')
  BY <1>1, <1>3 DEF IInv, StopSafe, Clean, Loads, Exposed, At, App
<1>6. Served'
  BY <1>1, <1>3 DEF IInv, Served, Pending
<1>. QED BY <1>1, <1>2, <1>4, <1>5, <1>6 DEF IInv

LEMMA NextIInv ==
    ASSUME IInv, OneWriter, OneWriter', [Next]_vars
    PROVE  IInv'
<1>1. ASSUME NEW t \in Requests, Begin(t) PROVE IInv'
  <2>1. ASSUME NEW a \in Apps, BeginInstall(t, a) PROVE IInv'
    BY <2>1, BeginWriteStep DEF BeginInstall
  <2>2. ASSUME NEW a \in Apps, BeginRemove(t, a) PROVE IInv'
    BY <2>2, BeginWriteStep DEF BeginRemove
  <2>3. ASSUME NEW a \in Apps, BeginSwitch(t, a) PROVE IInv'
    BY <2>3, BeginWriteStep DEF BeginSwitch
  <2>. QED BY <1>1, <2>1, <2>2, <2>3, BeginRestoreStep, BeginReloadStep DEF Begin
<1>2. ASSUME NEW t \in Requests, Write(t) PROVE IInv'
  BY <1>2, CopyFileStep, ReadManifestStep, NoteStep, WriteManifestStep, RemoveFileStep, SwitchStep,
     SwitchedAlreadyStep, LeaveManifestStep, LeaveFilesStep, FillManifestStep, FillFilesStep, VerifyStep, FailStep
  DEF Write
<1>3. ASSUME NEW t \in Requests, Undo(t) PROVE IInv'
  BY <1>3, PutBackManifestStep, PutBackFileStep, PutBackCreatedStep, UndoAsideStep, PutBackFailsStep,
     AnswerRefusedStep
  DEF Undo
<1>. QED BY <1>1, <1>2, <1>3, ForgetStep, ReadLinesStep, SwapStep, CrashStep, StutterIInv DEF Next

THEOREM Inductive == Spec /\ []OneWriter => []IInv
<1>1. Init => IInv
  BY InitIInv
<1>2. IInv /\ OneWriter /\ OneWriter' /\ [Next]_vars => IInv'
  BY NextIInv
<1>. QED BY <1>1, <1>2, PTL DEF Spec

\* While one request writes at a time, each request is in a phase of its operation, and what it has
\* saved and made are files of the Workspace (InstallApplication, RestoreSnapshot).
THEOREM Typed == Spec /\ []OneWriter => []TypeOK
<1>1. IInv => TypeOK
  BY DEF IInv
<1>. QED BY <1>1, Inductive, PTL

\* Whenever the process stops, the Workspace it finds again loads, but for a restore, the put-back of a
\* removal and an Application that does not load (the order of the writes in Install and RemoveApplication).
THEOREM Stops == Spec /\ []OneWriter => []StopSafe
<1>1. IInv => StopSafe
  BY DEF IInv
<1>. QED BY <1>1, Inductive, PTL

\* A refused write leaves every line and file as it found it (WriteSet.Rollback, RestoreSnapshot's undo).
THEOREM Refused == Spec /\ []OneWriter => []AsItWas
<1>1. ASSUME IInv PROVE AsItWas
  <2>1. ASSUME NEW t \in Requests, At(t, "refused") PROVE t \in Writers
    BY <2>1 DEF Writers, At
  <2>. QED BY <1>1, <2>1 DEF IInv, Job, AsItWas
<1>. QED BY <1>1, Inductive, PTL

\* No file stands in the way of installing an Application that is not there, but for the ones a stop,
\* a failed put-back or a snapshot left (RefuseIfExists).
THEOREM Unhindered == Spec /\ []OneWriter => []NothingInTheWay
<1>1. ASSUME IInv PROVE NothingInTheWay
  <2>. SUFFICES ASSUME NEW f \in Files, disk.files[f] # "none"
                PROVE  \/ f[1] \in left
                       \/ disk.lines # None /\ f[1] \in disk.lines
                       \/ \E t \in Requests : App(t) = f[1] \/ req[t].op = "restore"
    BY DEF NothingInTheWay
  <2>1. CASE Writers = {}
    BY <1>1, <2>1 DEF IInv, Clean
  <2>2. CASE Writers # {}
    <3>1. PICK t \in Writers : TRUE
      BY <2>2
    <3>2. f[1] \in left \cup Touches(t) \/ (disk.lines # None /\ f[1] \in disk.lines)
      BY <1>1, Traces
    <3>. QED BY <3>2 DEF Touches, App, Writers
  <2>. QED BY <2>1, <2>2
<1>. QED BY <1>1, Inductive, PTL

\* With no request under way, what is served is what is on disk, whichever reload came last, unless one
\* failed or read a write under way (ReloadWorkspace).
THEOREM Follows == Spec /\ []OneWriter => []LiveFollows
<1>1. ASSUME IInv PROVE LiveFollows
  <2>. SUFFICES ASSUME Quiet, ~behind, live # Down
                PROVE  Loads(disk) /\ live = View(disk.lines, disk.files)
    BY DEF LiveFollows
  <2>1. \A t \in Requests : req[t].pc = "idle"
    BY DEF Quiet, At
  <2>2. Writers = {} /\ ~Pending
    BY <2>1 DEF Writers, Pending
  <2>3. reloading = Nobody
    BY <1>1, <2>1 DEF IInv, TypeOK
  <2>. QED BY <1>1, <2>2, <2>3 DEF IInv, Served, Grounds
<1>. QED BY <1>1, Inductive, PTL
=============================================================================
