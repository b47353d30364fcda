--------------------------- MODULE EventsProofs ---------------------------
(***************************************************************************)
(* What the Events engine does of itself (internal/execution): decide,     *)
(* roll up and stamp a document's steps, and run the rules that fire on    *)
(* the passage of time.                                                    *)
(*                                                                         *)
(* A document is approved by all of its steps and rejected by one of them, *)
(* its file bears the stamps of approved steps, and steps are decided in   *)
(* turn and once: for every number of requests, steps and approvers and    *)
(* any number of cuts, while the requests that the code does not keep      *)
(* apart stay apart (Undisturbed).  What a request has read and will write *)
(* would be right if it were written now (Sound).  A step under decision   *)
(* is pending until it is decided, and what an approved or a rejected      *)
(* document says of its steps does not look at pending ones (DecidedKept); *)
(* steps come and go otherwise only while nobody decides.                  *)
(*                                                                         *)
(* A scheduled rule leaves one mark per text and tells nobody twice,       *)
(* however its ticks are cut short, for every number of records and edits. *)
(* The ticker alone writes marks, and takes up only records whose mark it  *)
(* has not found (Queued).  Whatever it tells of a record comes after its  *)
(* attempt to mark it, so that tellings never outnumber the attempts, the  *)
(* one under way included (Counted, Running).                              *)
(***************************************************************************)
EXTENDS Approval, Reminders, Sequences, FiniteSetTheorems, TLAPS

-----------------------------------------------------------------------------
(* The inductive invariant of Approval.                                    *)

\* What a status says of the steps that are there.
Judged(status) ==
    /\ status = "approved" => Live # {} /\ \A i \in Live : steps[i].decision = "approved"
    /\ status = "rejected" => \E i \in Live : steps[i].decision = "rejected"

\* Steps that were approved, those of an earlier cycle included.
Stamped(stamps) ==
    /\ \A i \in stamps : i <= created
    /\ \A i \in stamps \cap Live : steps[i].decision = "approved"

\* The open siblings ahead of the step a request decides, as they are now.
Ahead(job) ==
    {i \in Live \ {job.step} : steps[i].order < job.row.order /\ steps[i].decision = "pending"}

\* A step in hand is as it was read, or gone.
InHand(job) ==
    /\ job.pc \in {"mode", "turn", "decide", "place"} =>
          /\ job.row # Gone /\ job.step \in Ids /\ job.step <= created
          /\ steps[job.step] \in {Gone, job.row}
    /\ job.pc = "withdraw" =>
          /\ job.step \in Ids /\ job.step <= created
          /\ steps[job.step] = Gone \/ steps[job.step].decision = "pending"

\* A decision may be taken: it is a move, and in turn.
Entitled(job) ==
    /\ job.pc \in {"mode", "turn", "decide"} =>
          job.verdict \in Verdicts /\ Declared(job.row.decision, job.verdict)
    /\ job.pc \in {"turn", "decide"} => (job.sequential <=> document.mode = "sequential")
    /\ job.pc = "decide" /\ job.sequential => Ahead(job) = {}

\* The document as it will be written is right.
Carried(job) ==
    /\ job.pc \in {"parent", "status"} => Judged(job.value)
    /\ job.pc = "sign" => Judged(job.doc.status) /\ job.doc.status # "none"
    /\ job.pc \in {"status", "sign"} => job.doc.mode = document.mode
    /\ job.pc \in {"status", "sign", "redraft", "send"} => Stamped(job.doc.signed)
    /\ job.pc \in {"source", "sign"} => Stamped(job.marked)

\* Steps are created for a document in review, and removed under a draft.
Phased(job) ==
    /\ job.pc = "create" => document.status = "in_review" /\ Cardinality(job.marked) < job.rows
    /\ job.pc = "send" => job.rows > 0
    /\ job.pc \in {"rows", "clear"} => document.status = "draft"

Sound(job) == InHand(job) /\ Entitled(job) /\ Carried(job) /\ Phased(job)

\* The rows agree with one another.
Agreed ==
    /\ Judged(document.status)
    /\ Stamped(document.signed)
    /\ \A i \in Ids : i > created => steps[i] = Gone
    /\ document.status = "none" => created = 0 /\ \A t \in Requests : req[t] = Idle

IInv == TypeOK /\ Agreed /\ \A t \in Requests : Sound(req[t])

-----------------------------------------------------------------------------
(* Lemmas.                                                                 *)

LEMMA JobType ==
    ASSUME TypeOK, NEW t \in Requests, ~Active(t, "idle")
    PROVE  req[t] \in Jobs
BY DEF TypeOK, Active, Idle

LEMMA BlankType ==
    ASSUME NEW pc \in {"mode", "place", "withdraw", "add", "rollup", "stamps", "redraft", "rows",
                       "send", "create"}
    PROVE  At(pc) \in Jobs
<1>1. NoDocument \in Documents
  BY ApprovalAssumption DEF NoDocument, Documents
<1>2. Gone \in Steps
  BY ApprovalAssumption DEF Gone, Steps
<1>3. 0 \in 0 .. MaxApprovers
  BY ApprovalAssumption
<1>. QED BY <1>1, <1>2, <1>3 DEF At, Jobs, Decisions, Statuses

\* A job that has nothing in hand is sound as long as its phase is.
LEMMA BlankSound ==
    ASSUME NEW job, job.pc \in {"idle", "rollup", "stamps", "add", "rows"},
           job.pc = "rows" => document.status = "draft"
    PROVE  Sound(job)
BY DEF Sound, InHand, Entitled, Carried, Phased

LEMMA InitInv == Init => IInv
<1>. SUFFICES ASSUME Init PROVE IInv
  OBVIOUS
<1>1. TypeOK
  BY ApprovalAssumption DEF Init, TypeOK, Documents, Steps, Gone, Idle
<1>2. Agreed
  BY DEF Init, Agreed, Judged, Stamped
<1>3. ASSUME NEW t \in Requests PROVE Sound(req[t])
  <2>1. req[t].pc = "idle"
    BY DEF Init, Idle
  <2>. QED BY <2>1, BlankSound
<1>. QED BY <1>1, <1>2, <1>3 DEF IInv

-----------------------------------------------------------------------------
(* What each kind of write leaves of what others hold.                     *)

\* Nothing was written: everything stays sound.
LEMMA SoundSame ==
    ASSUME UNCHANGED <<document, steps, created>>, NEW job, Sound(job)
    PROVE  Sound(job)'
BY DEF Sound, InHand, Entitled, Carried, Phased, Judged, Stamped, Ahead, Live

\* The document was written, and the steps were not.
LEMMA SoundWritten ==
    ASSUME UNCHANGED <<steps, created>>, NEW job, Sound(job),
           job.pc \in {"turn", "decide", "status", "sign"} => document'.mode = document.mode,
           job.pc \in {"create", "rows", "clear"} => document'.status = document.status
    PROVE  Sound(job)'
<1>1. InHand(job)'
  BY DEF Sound, InHand
<1>2. Entitled(job)'
  BY DEF Sound, Entitled, Ahead, Live
<1>3. Carried(job)'
  BY DEF Sound, Carried, Judged, Stamped, Live
<1>4. Phased(job)'
  BY DEF Sound, Phased
<1>. QED BY <1>1, <1>2, <1>3, <1>4 DEF Sound

\* An open step is decided or withdrawn.
Decided(s, row) ==
    /\ s \in Ids /\ steps \in [Ids -> Steps]
    /\ steps[s].decision = "pending"
    /\ row = Gone \/ (row.order = steps[s].order /\ row.decision \in Verdicts)
    /\ steps' = [steps EXCEPT ![s] = row]
    /\ UNCHANGED <<document, created>>

\* What was said of the steps did not look at the open one.
LEMMA DecidedKept ==
    ASSUME NEW s, NEW row, Decided(s, row)
    PROVE  /\ \A status : Judged(status) => Judged(status)'
           /\ \A stamps : Stamped(stamps) => Stamped(stamps)'
<1>1. \A i \in Ids : i # s => steps'[i] = steps[i]
  BY DEF Decided
<1>2. steps'[s] = row /\ steps[s] # Gone
  BY DEF Decided, Gone
<1>3. \A i \in Ids : steps[i] # Gone /\ steps[i].decision # "pending" => steps'[i] = steps[i]
  BY <1>1 DEF Decided
<1>4. ASSUME NEW status, Judged(status) PROVE Judged(status)'
  <2>1. status # "approved"
    BY <1>2, <1>4 DEF Judged, Decided, Live
  <2>2. ASSUME status = "rejected" PROVE \E i \in Live' : steps'[i].decision = "rejected"
    <3>1. PICK i \in Live : steps[i].decision = "rejected"
      BY <1>4, <2>2 DEF Judged
    <3>. QED BY <1>3, <3>1 DEF Live
  <2>. QED BY <2>1, <2>2 DEF Judged
<1>5. ASSUME NEW stamps, Stamped(stamps) PROVE Stamped(stamps)'
  <2>1. s \notin stamps
    BY <1>2, <1>5 DEF Stamped, Decided, Live
  <2>2. \A i \in stamps \cap Live' : i \in Live /\ steps'[i] = steps[i]
    BY <1>1, <2>1 DEF Live
  <2>. QED BY <1>5, <2>2 DEF Stamped, Decided
<1>. QED BY <1>4, <1>5

LEMMA SoundDecided ==
    ASSUME NEW s, NEW row, Decided(s, row), NEW job, Sound(job),
           job.pc \in {"mode", "turn", "decide", "place", "withdraw"} => job.step # s
    PROVE  Sound(job)'
<1>1. \A i \in Ids : i # s => steps'[i] = steps[i]
  BY DEF Decided
<1>2. steps'[s] = row /\ row.decision # "pending"
  BY DEF Decided, Gone, Verdicts
<1>3. InHand(job)'
  BY <1>1 DEF Sound, InHand, Decided
<1>4. Ahead(job)' \subseteq Ahead(job)
  BY <1>1, <1>2 DEF Ahead, Live
<1>5. Entitled(job)'
  BY <1>4 DEF Sound, Entitled, Decided
<1>6. Carried(job)'
  BY DecidedKept, Zenon DEF Sound, Carried, Decided
<1>7. Phased(job)'
  BY DEF Sound, Phased, Decided
<1>. QED BY <1>3, <1>5, <1>6, <1>7 DEF Sound

\* What a step that comes or goes finds under way.
Resting(job) == job.pc \in {"idle", "place", "withdraw"}

LEMMA SoundCleared ==
    ASSUME NEW i, steps \in [Ids -> Steps], steps' = [steps EXCEPT ![i] = Gone], UNCHANGED created,
           NEW job, Resting(job), Sound(job)
    PROVE  Sound(job)'
<1>1. \A k \in Ids : steps'[k] \in {steps[k], Gone}
  OBVIOUS
<1>2. InHand(job)'
  BY <1>1 DEF Sound, InHand
<1>. QED BY <1>2 DEF Sound, Resting, Entitled, Carried, Phased

\* A row of its own is inserted under a new id.
Inserted(row) ==
    /\ steps \in [Ids -> Steps] /\ created \in 0 .. MaxSteps /\ created < MaxSteps
    /\ created' = created + 1
    /\ steps' = [steps EXCEPT ![created + 1] = row]

LEMMA SoundInserted ==
    ASSUME NEW row, Inserted(row), NEW job, Resting(job), Sound(job)
    PROVE  Sound(job)'
<1>1. \A k \in Ids : k <= created => steps'[k] = steps[k] /\ k <= created'
  BY ApprovalAssumption DEF Inserted, Ids
<1>2. InHand(job)'
  BY <1>1 DEF Sound, InHand
<1>. QED BY <1>2 DEF Sound, Resting, Entitled, Carried, Phased

LEMMA InsertedKept ==
    ASSUME NEW row, Inserted(row), \A i \in Ids : i > created => steps[i] = Gone
    PROVE  /\ \A i \in Ids : i <= created => steps'[i] = steps[i]
           /\ steps[created + 1] = Gone
           /\ \A i \in Ids : i > created' => steps'[i] = Gone
           /\ Judged("rejected") => Judged("rejected")'
           /\ \A stamps \in SUBSET Ids : Stamped(stamps) => Stamped(stamps)'
<1>1. created \in Nat /\ created + 1 \in Ids
  BY ApprovalAssumption DEF Inserted, Ids
<1>2. \A i \in Ids : i # created + 1 => steps'[i] = steps[i]
  BY DEF Inserted
<1>3. steps[created + 1] = Gone
  BY <1>1
<1>4. ASSUME Judged("rejected") PROVE Judged("rejected")'
  <2>1. PICK i \in Live : steps[i].decision = "rejected"
    BY <1>4 DEF Judged
  <2>2. steps'[i] = steps[i]
    BY <1>2, <1>3, <2>1 DEF Live
  <2>. QED BY <2>1, <2>2 DEF Judged, Live
<1>5. ASSUME NEW stamps \in SUBSET Ids, Stamped(stamps) PROVE Stamped(stamps)'
  <2>1. \A i \in stamps : i <= created /\ i # created + 1
    BY <1>1, <1>5 DEF Stamped
  <2>. QED BY <1>2, <2>1, <1>1, <1>5 DEF Stamped, Live, Inserted, Ids
<1>. QED BY <1>1, <1>2, <1>3, <1>4, <1>5 DEF Inserted, Ids

-----------------------------------------------------------------------------
(* What a step needs to show.                                              *)

LEMMA StillSound ==
    ASSUME NEW u, NEW job, req'[u] = job, Sound(job)'
    PROVE  Sound(req[u])'
<1>1. InHand(req[u])'
  BY DEF Sound, InHand
<1>2. Entitled(req[u])'
  BY DEF Sound, Entitled, Ahead
<1>3. Carried(req[u])'
  BY DEF Sound, Carried
<1>4. Phased(req[u])'
  BY DEF Sound, Phased
<1>. QED BY <1>1, <1>2, <1>3, <1>4 DEF Sound

LEMMA Conclude ==
    ASSUME IInv, NEW t \in Requests, NEW job \in Jobs \cup {Idle}, req' = [req EXCEPT ![t] = job],
           document' \in Documents, steps' \in [Ids -> Steps], created' \in 0 .. MaxSteps,
           cuts' \in 0 .. MaxCuts, Agreed', Sound(job)',
           \A u \in Requests \ {t} : Sound(req[u])'
    PROVE  IInv'
<1>1. req \in [Requests -> Jobs \cup {Idle}]
  BY DEF IInv, TypeOK
<1>2. TypeOK'
  BY <1>1 DEF TypeOK
<1>3. Sound(req[t])'
  BY <1>1, StillSound
<1>. QED BY <1>2, <1>3 DEF IInv

\* A step that writes no row.
LEMMA QuietStep ==
    ASSUME IInv, NEW t \in Requests, NEW job \in Jobs \cup {Idle}, req' = [req EXCEPT ![t] = job],
           UNCHANGED <<document, steps, created>>, cuts' \in 0 .. MaxCuts,
           Sound(job), job = Idle \/ document.status # "none"
    PROVE  IInv'
<1>1. Sound(job)'
  BY SoundSame
<1>2. ASSUME NEW u \in Requests \ {t} PROVE Sound(req[u])'
  <2>1. PICK other : other = req[u]
    OBVIOUS
  <2>2. Sound(other) /\ req'[u] = other
    BY <1>2, <2>1 DEF IInv, TypeOK
  <2>3. Sound(other)'
    BY <2>2, SoundSame
  <2>. QED BY <2>2, <2>3, StillSound
<1>3. Agreed'
  <2>1. document.status = "none" => \A u \in Requests : req'[u] = Idle
    BY DEF IInv, Agreed, TypeOK
  <2>. QED BY <2>1 DEF IInv, Agreed, Judged, Stamped, Live
<1>. QED BY <1>1, <1>2, <1>3, Conclude DEF IInv, TypeOK

\* A step that writes the document.
LEMMA WrittenStep ==
    ASSUME IInv, NEW t \in Requests, NEW job \in Jobs \cup {Idle}, req' = [req EXCEPT ![t] = job],
           UNCHANGED <<steps, created, cuts>>, document' \in Documents, document'.status # "none",
           Judged(document'.status), Stamped(document'.signed), Sound(job)',
           \A u \in Requests \ {t} :
              /\ req[u].pc \in {"turn", "decide", "status", "sign"} => document'.mode = document.mode
              /\ req[u].pc \in {"create", "rows", "clear"} => document'.status = document.status
    PROVE  IInv'
<1>1. ASSUME NEW u \in Requests \ {t} PROVE Sound(req[u])'
  <2>1. PICK other : other = req[u]
    OBVIOUS
  <2>2. Sound(other) /\ req'[u] = other
    BY <1>1, <2>1 DEF IInv, TypeOK
  <2>3. Sound(other)'
    BY <2>1, <2>2, SoundWritten
  <2>. QED BY <2>2, <2>3, StillSound
<1>2. Agreed'
  BY DEF IInv, Agreed, Judged, Stamped, Live
<1>. QED BY <1>1, <1>2, Conclude DEF IInv, TypeOK

\* A step that decides or withdraws an open step.
LEMMA DecidedStep ==
    ASSUME IInv, NEW t \in Requests, NEW job \in Jobs \cup {Idle}, req' = [req EXCEPT ![t] = job],
           NEW s, NEW row \in Steps, Decided(s, row), UNCHANGED cuts, document.status # "none",
           \A u \in Requests \ {t} : OnStep(u) => Mine(u) # s,
           Sound(job)'
    PROVE  IInv'
<1>1. ASSUME NEW u \in Requests \ {t} PROVE Sound(req[u])'
  <2>1. PICK other : other = req[u]
    OBVIOUS
  <2>2. Sound(other) /\ req'[u] = other
    BY <1>1, <2>1 DEF IInv, TypeOK
  <2>3. other.pc \in {"mode", "turn", "decide", "place", "withdraw"} => other.step # s
    BY <1>1, <2>1 DEF OnStep, Mine
  <2>4. Sound(other)'
    BY <2>2, <2>3, SoundDecided
  <2>. QED BY <2>2, <2>4, StillSound
<1>2. Agreed'
  <2>1. Judged(document.status)' /\ Stamped(document.signed)'
    <3>1. PICK status, stamps : status = document.status /\ stamps = document.signed
      OBVIOUS
    <3>2. Judged(status)' /\ Stamped(stamps)'
      BY <3>1, DecidedKept DEF IInv, Agreed
    <3>. QED BY <3>1, <3>2 DEF Decided, Judged, Stamped
  <2>2. \A i \in Ids : i > created => steps'[i] = Gone
    <3>1. s <= created
      BY ApprovalAssumption DEF Decided, IInv, Agreed, TypeOK, Gone, Ids
    <3>. QED BY <3>1 DEF Decided, IInv, Agreed, TypeOK, Ids
  <2>. QED BY <2>1, <2>2 DEF Agreed, Decided
<1>3. steps' \in [Ids -> Steps]
  BY DEF Decided
<1>. QED BY <1>1, <1>2, <1>3, Conclude DEF IInv, TypeOK, Decided

\* A step that adds one, while nobody decides.
LEMMA InsertedStep ==
    ASSUME IInv, NEW t \in Requests, NEW job \in Jobs \cup {Idle}, req' = [req EXCEPT ![t] = job],
           NEW row \in Steps, Inserted(row), UNCHANGED <<document, cuts>>,
           document.status \notin {"none", "approved"},
           \A u \in Requests \ {t} : Resting(req[u]),
           Sound(job)'
    PROVE  IInv'
<1>1. ASSUME NEW u \in Requests \ {t} PROVE Sound(req[u])'
  <2>1. PICK other : other = req[u]
    OBVIOUS
  <2>2. Sound(other) /\ req'[u] = other /\ Resting(other)
    BY <1>1, <2>1 DEF IInv, TypeOK
  <2>3. Sound(other)'
    BY <2>2, SoundInserted
  <2>. QED BY <2>2, <2>3, StillSound
<1>2. \A i \in Ids : i > created => steps[i] = Gone
  BY DEF IInv, Agreed
<1>3. Agreed'
  <2>1. PICK stamps : stamps = document.signed
    OBVIOUS
  <2>2. stamps \in SUBSET Ids /\ Stamped(stamps) /\ (document.status = "rejected" => Judged("rejected"))
    BY <2>1 DEF IInv, Agreed, TypeOK, Documents
  <2>3. Stamped(stamps)' /\ (document.status = "rejected" => Judged("rejected")')
    BY <1>2, <2>2, InsertedKept
  <2>4. Stamped(document.signed)'
    BY <2>1, <2>3 DEF Stamped
  <2>5. Judged(document.status)'
    BY <2>3 DEF Judged
  <2>. QED BY <1>2, <2>4, <2>5, InsertedKept DEF Agreed
<1>4. steps' \in [Ids -> Steps] /\ created' \in 0 .. MaxSteps
  BY ApprovalAssumption DEF Inserted, Ids
<1>. QED BY <1>1, <1>3, <1>4, Conclude DEF IInv, TypeOK

\* A step that removes one under a draft.
LEMMA ClearedStep ==
    ASSUME IInv, NEW t \in Requests, NEW job \in Jobs \cup {Idle}, req' = [req EXCEPT ![t] = job],
           NEW i, steps' = [steps EXCEPT ![i] = Gone], UNCHANGED <<document, created, cuts>>,
           document.status = "draft",
           \A u \in Requests \ {t} : Resting(req[u]),
           Sound(job)'
    PROVE  IInv'
<1>1. ASSUME NEW u \in Requests \ {t} PROVE Sound(req[u])'
  <2>1. PICK other : other = req[u]
    OBVIOUS
  <2>2. Sound(other) /\ req'[u] = other /\ Resting(other)
    BY <1>1, <2>1 DEF IInv, TypeOK
  <2>3. Sound(other)'
    BY <2>2, SoundCleared DEF IInv, TypeOK
  <2>. QED BY <2>2, <2>3, StillSound
<1>2. \A k \in Ids : steps'[k] \in {steps[k], Gone}
  BY DEF IInv, TypeOK
<1>3. Agreed'
  <2>1. Judged(document.status)'
    BY DEF Judged
  <2>2. Stamped(document.signed)'
    BY <1>2 DEF IInv, Agreed, Stamped, Live
  <2>. QED BY <1>2, <2>1, <2>2 DEF IInv, Agreed
<1>4. Gone \in Steps
  BY ApprovalAssumption DEF Gone, Steps
<1>5. steps' \in [Ids -> Steps]
  BY <1>4 DEF IInv, TypeOK
<1>. QED BY <1>1, <1>3, <1>5, Conclude DEF IInv, TypeOK

-----------------------------------------------------------------------------
(* Deciding a step.                                                        *)

\* Whoever finds a step there finds a document.
LEMMA StepThere ==
    ASSUME IInv, NEW s \in Ids, steps[s] # Gone
    PROVE  s <= created /\ document.status # "none"
BY ApprovalAssumption DEF IInv, TypeOK, Agreed, Ids

LEMMA Underway ==
    ASSUME IInv, NEW t \in Requests, ~Active(t, "idle")
    PROVE  req[t] \in Jobs /\ Sound(req[t]) /\ document.status # "none"
BY JobType DEF IInv, Agreed, Active, Idle

LEMMA IdleStep ==
    ASSUME IInv, NEW t \in Requests, Answer(t), UNCHANGED <<document, steps, created>>,
           cuts' \in 0 .. MaxCuts
    PROVE  IInv'
<1>1. Sound(Idle)
  BY BlankSound DEF Idle
<1>. QED BY <1>1, QuietStep DEF Answer

LEMMA BeginDecideStep ==
    ASSUME IInv, NEW t \in Requests, NEW s \in Ids, NEW d \in Verdicts, BeginDecide(t, s, d)
    PROVE  IInv'
<1>1. PICK job : job = [At("mode") EXCEPT !.step = s, !.row = steps[s], !.verdict = d]
  OBVIOUS
<1>2. job.pc = "mode" /\ job.step = s /\ job.row = steps[s] /\ job.verdict = d
  BY <1>1 DEF At
<1>3. job \in Jobs
  BY <1>1, BlankType DEF IInv, TypeOK, Jobs, Decisions
<1>4. s <= created /\ document.status # "none"
  BY StepThere DEF BeginDecide
<1>5. Sound(job)
  BY <1>2, <1>4 DEF Sound, InHand, Entitled, Carried, Phased, BeginDecide
<1>6. req' = [req EXCEPT ![t] = job]
  BY <1>1 DEF BeginDecide, Begin
<1>. QED BY <1>3, <1>4, <1>5, <1>6, QuietStep DEF BeginDecide, IInv, TypeOK

LEMMA ReadModeStep ==
    ASSUME IInv, NEW t \in Requests, ReadMode(t)
    PROVE  IInv'
<1>1. req[t] \in Jobs /\ Sound(req[t]) /\ document.status # "none"
  BY Underway DEF ReadMode, Active
<1>2. PICK job : job = [req[t] EXCEPT !.pc = "turn", !.sequential = (document.mode = "sequential")]
  OBVIOUS
<1>3. /\ job.pc = "turn" /\ job.step = req[t].step /\ job.row = req[t].row
      /\ job.verdict = req[t].verdict /\ job.sequential = (document.mode = "sequential")
  BY <1>1, <1>2 DEF Jobs
<1>4. job \in Jobs
  BY <1>1, <1>2 DEF Jobs
<1>5. Sound(job)
  BY <1>1, <1>3 DEF Sound, InHand, Entitled, Carried, Phased, ReadMode, Active
<1>6. req' = [req EXCEPT ![t] = job]
  BY <1>2 DEF ReadMode, IInv, TypeOK
<1>. QED BY <1>1, <1>4, <1>5, <1>6, QuietStep DEF ReadMode, IInv, TypeOK

LEMMA TakeTurnStep ==
    ASSUME IInv, NEW t \in Requests, TakeTurn(t)
    PROVE  IInv'
<1>1. req[t] \in Jobs /\ Sound(req[t]) /\ document.status # "none"
  BY Underway DEF TakeTurn, Active
<1>2. CASE Answer(t)
  BY <1>2, IdleStep DEF TakeTurn, IInv, TypeOK
<1>3. CASE Go(t, "decide") /\ ~(req[t].sequential /\ EarlierOpen(t) # {})
  <2>1. PICK job : job = [req[t] EXCEPT !.pc = "decide"]
    OBVIOUS
  <2>2. /\ job.pc = "decide" /\ job.step = req[t].step /\ job.row = req[t].row
        /\ job.verdict = req[t].verdict /\ job.sequential = req[t].sequential
    BY <1>1, <2>1 DEF Jobs
  <2>3. job \in Jobs
    BY <1>1, <2>1 DEF Jobs
  <2>4. Ahead(job) = EarlierOpen(t)
    BY <2>2 DEF Ahead, EarlierOpen, Mine
  <2>5. Sound(job)
    BY <1>1, <1>3, <2>2, <2>4 DEF Sound, InHand, Entitled, Carried, Phased, TakeTurn, Active
  <2>6. req' = [req EXCEPT ![t] = job]
    BY <1>3, <2>1 DEF Go
  <2>. QED BY <1>1, <2>3, <2>5, <2>6, QuietStep DEF TakeTurn, IInv, TypeOK
<1>. QED BY <1>2, <1>3 DEF TakeTurn

\* What is written over a step that is there: its decision if it was open, nothing new if not.
LEMMA DecisionWritten ==
    ASSUME IInv, NEW t \in Requests, WriteDecision(t), Present(t)
    PROVE  /\ Mine(t) \in Ids /\ steps[Mine(t)] = req[t].row /\ req[t].verdict \in Verdicts
           /\ IF req[t].row.decision = req[t].verdict
              THEN Answer(t) /\ UNCHANGED <<document, steps, created, cuts>>
              ELSE /\ req[t].row.decision = "pending"
                   /\ Decided(Mine(t), [req[t].row EXCEPT !.decision = req[t].verdict])
<1>1. req[t] \in Jobs /\ InHand(req[t]) /\ Entitled(req[t]) /\ Active(t, "decide")
  BY Underway DEF WriteDecision, Active, Sound
<1>2. Mine(t) \in Ids /\ steps[Mine(t)] = req[t].row /\ req[t].verdict \in Verdicts
      /\ Declared(req[t].row.decision, req[t].verdict)
  BY <1>1 DEF InHand, Entitled, Active, Present, Mine
<1>3. req[t].row \in Steps /\ steps \in [Ids -> Steps]
  BY <1>1 DEF Jobs, IInv, TypeOK
<1>4. CASE req[t].row.decision = req[t].verdict
  <2>1. [req[t].row EXCEPT !.decision = req[t].verdict] = req[t].row
    BY <1>3, <1>4 DEF Steps
  <2>2. steps' = steps
    BY <1>2, <1>3, <2>1 DEF WriteDecision
  <2>. QED BY <1>2, <1>4, <2>2 DEF WriteDecision
<1>5. CASE req[t].row.decision # req[t].verdict
  <2>1. req[t].row.decision = "pending"
    BY <1>2, <1>5 DEF Declared
  <2>2. Decided(Mine(t), [req[t].row EXCEPT !.decision = req[t].verdict])
    BY <1>2, <1>3, <2>1 DEF Decided, WriteDecision, Steps
  <2>. QED BY <1>2, <1>5, <2>1, <2>2
<1>. QED BY <1>4, <1>5

LEMMA WriteDecisionStep ==
    ASSUME IInv, Undisturbed, NEW t \in Requests, WriteDecision(t)
    PROVE  IInv'
<1>1. req[t] \in Jobs /\ Sound(req[t]) /\ document.status # "none"
  BY Underway DEF WriteDecision, Active
<1>2. CASE ~Present(t)
  BY <1>2, IdleStep DEF WriteDecision, IInv, TypeOK
<1>3. CASE Present(t) /\ req[t].row.decision = req[t].verdict
  BY <1>3, DecisionWritten, IdleStep DEF IInv, TypeOK
<1>4. CASE Present(t) /\ req[t].row.decision # req[t].verdict
  <2>1. PICK s, row : s = Mine(t) /\ row = [req[t].row EXCEPT !.decision = req[t].verdict]
    OBVIOUS
  <2>2. Decided(s, row)
    BY <1>4, <2>1, DecisionWritten
  <2>3. row \in Steps
    BY <1>1, <2>1 DEF Jobs, Steps, Decisions
  <2>4. PICK job : job = [At("rollup") EXCEPT !.verdict = req[t].verdict]
    OBVIOUS
  <2>5. job \in Jobs /\ job.pc = "rollup"
    <3>1. At("rollup") \in Jobs
      BY BlankType
    <3>. QED BY <1>1, <2>4, <3>1 DEF Jobs, At
  <2>6. Sound(job)'
    BY <2>5 DEF Sound, InHand, Entitled, Carried, Phased
  <2>7. \A u \in Requests \ {t} : OnStep(u) => Mine(u) # s
    BY <2>1 DEF Undisturbed, OneHand, OnStep, WriteDecision, Active
  <2>8. req' = [req EXCEPT ![t] = job]
    BY <1>4, <2>4 DEF WriteDecision
  <2>. QED BY <1>1, <2>2, <2>3, <2>5, <2>6, <2>7, <2>8, DecidedStep DEF WriteDecision
<1>. QED BY <1>2, <1>3, <1>4

-----------------------------------------------------------------------------
(* The services of a decision.                                             *)

\* RollupValue is what the steps it is given amount to.
LEMMA RolledUp == Judged(RollupValue(StepDecisions)) /\ RollupValue(StepDecisions) \in Statuses \ {"draft"}
<1>1. ASSUME RollupValue(StepDecisions) = "approved"
      PROVE  Live # {} /\ \A i \in Live : steps[i].decision = "approved"
  BY <1>1 DEF RollupValue, StepDecisions
<1>2. ASSUME RollupValue(StepDecisions) = "rejected"
      PROVE  \E i \in Live : steps[i].decision = "rejected"
  BY <1>2 DEF RollupValue, StepDecisions
<1>3. RollupValue(StepDecisions) \in Statuses \ {"draft"}
  BY DEF RollupValue, Statuses, Verdicts
<1>. QED BY <1>1, <1>2, <1>3 DEF Judged

LEMMA ListSiblingsStep ==
    ASSUME IInv, NEW t \in Requests, ListSiblings(t)
    PROVE  IInv'
<1>1. req[t] \in Jobs /\ document.status # "none"
  BY Underway DEF ListSiblings, Active
<1>2. PICK job : job = [req[t] EXCEPT !.pc = "parent", !.value = RollupValue(StepDecisions)]
  OBVIOUS
<1>3. job.pc = "parent" /\ Judged(job.value) /\ job \in Jobs
  BY <1>1, <1>2, RolledUp DEF Jobs
<1>4. Sound(job)
  BY <1>3 DEF Sound, InHand, Entitled, Carried, Phased
<1>5. req' = [req EXCEPT ![t] = job]
  BY <1>2 DEF ListSiblings, IInv, TypeOK
<1>. QED BY <1>1, <1>3, <1>4, <1>5, QuietStep DEF ListSiblings, IInv, TypeOK

LEMMA ReadParentStep ==
    ASSUME IInv, NEW t \in Requests, ReadParent(t)
    PROVE  IInv'
<1>1. req[t] \in Jobs /\ Sound(req[t]) /\ document.status # "none"
  BY Underway DEF ReadParent, Active
<1>2. PICK job : job = [req[t] EXCEPT !.pc = "status", !.doc = document]
  OBVIOUS
<1>3. job.pc = "status" /\ job.value = req[t].value /\ job.doc = document /\ job \in Jobs
  BY <1>1, <1>2 DEF Jobs, IInv, TypeOK
<1>4. Sound(job)
  BY <1>1, <1>3 DEF Sound, InHand, Entitled, Carried, Phased, ReadParent, Active, IInv, Agreed
<1>5. req' = [req EXCEPT ![t] = job]
  BY <1>2 DEF ReadParent, IInv, TypeOK
<1>. QED BY <1>1, <1>3, <1>4, <1>5, QuietStep DEF ReadParent, IInv, TypeOK

\* The service after the roll-up has nothing in hand yet.
LEMMA NextServiceJob ==
    ASSUME NEW t \in Requests, NextService(t)
    PROVE  \E job \in Jobs \cup {Idle} :
              /\ req' = [req EXCEPT ![t] = job]
              /\ job.pc \in {"idle", "stamps"}
<1>1. At("stamps") \in Jobs /\ At("stamps").pc = "stamps"
  BY BlankType DEF At
<1>2. Idle.pc = "idle"
  BY DEF Idle
<1>. QED BY <1>1, <1>2 DEF NextService

LEMMA WriteStatusStep ==
    ASSUME IInv, Undisturbed, NEW t \in Requests, WriteStatus(t)
    PROVE  IInv'
<1>1. req[t] \in Jobs /\ Sound(req[t])
  BY Underway DEF WriteStatus, Active
<1>2. PICK job \in Jobs \cup {Idle} : req' = [req EXCEPT ![t] = job] /\ job.pc \in {"idle", "stamps"}
  BY NextServiceJob DEF WriteStatus
<1>3. Sound(job)'
  BY <1>2 DEF Sound, InHand, Entitled, Carried, Phased
<1>4. /\ document' \in Documents /\ document'.status = req[t].value /\ document'.mode = document.mode
      /\ document'.signed = req[t].doc.signed
  BY <1>1 DEF WriteStatus, Active, Sound, Carried, Jobs, Documents
<1>5. Judged(document'.status) /\ Stamped(document'.signed)
  BY <1>1, <1>4 DEF WriteStatus, Active, Sound, Carried
<1>6. document'.status # "none"
  BY <1>1, <1>4 DEF Jobs, Statuses, Verdicts
<1>7. \A u \in Requests \ {t} : req[u].pc \notin {"create", "rows", "clear"}
  BY DEF Undisturbed, Settled, Changing, Deciding, WriteStatus, Active
<1>. QED BY <1>2, <1>3, <1>4, <1>5, <1>6, <1>7, WrittenStep DEF WriteStatus

LEMMA SkipRollupStep ==
    ASSUME IInv, NEW t \in Requests, SkipRollup(t)
    PROVE  IInv'
<1>1. document.status # "none"
  BY Underway DEF SkipRollup, Active
<1>2. PICK job \in Jobs \cup {Idle} : req' = [req EXCEPT ![t] = job] /\ job.pc \in {"idle", "stamps"}
  BY NextServiceJob DEF SkipRollup
<1>3. Sound(job)
  BY <1>2, BlankSound
<1>4. cuts' \in 0 .. MaxCuts
  BY ApprovalAssumption DEF SkipRollup, IInv, TypeOK
<1>. QED BY <1>1, <1>2, <1>3, <1>4, QuietStep DEF SkipRollup

LEMMA ListStampsStep ==
    ASSUME IInv, NEW t \in Requests, ListStamps(t)
    PROVE  IInv'
<1>1. req[t] \in Jobs /\ document.status # "none"
  BY Underway DEF ListStamps, Active
<1>2. PICK approved : approved = {i \in Live : steps[i].decision = "approved"}
  OBVIOUS
<1>3. CASE Answer(t)
  BY <1>3, IdleStep DEF ListStamps, IInv, TypeOK
<1>4. CASE req' = [req EXCEPT ![t].pc = "source", ![t].marked = approved]
  <2>1. PICK job : job = [req[t] EXCEPT !.pc = "source", !.marked = approved]
    OBVIOUS
  <2>2. approved \in SUBSET Ids
    BY <1>2 DEF Live
  <2>3. job.pc = "source" /\ job.marked = approved /\ job \in Jobs
    BY <1>1, <2>1, <2>2 DEF Jobs
  <2>4. Stamped(approved)
    <3>1. \A i \in Live : i <= created
      BY StepThere DEF Live
    <3>. QED BY <1>2, <3>1 DEF Stamped
  <2>5. Sound(job)
    BY <2>3, <2>4 DEF Sound, InHand, Entitled, Carried, Phased
  <2>6. req' = [req EXCEPT ![t] = job]
    BY <1>4, <2>1 DEF IInv, TypeOK
  <2>. QED BY <1>1, <2>3, <2>5, <2>6, QuietStep DEF ListStamps, IInv, TypeOK
<1>. QED BY <1>2, <1>3, <1>4 DEF ListStamps

LEMMA ReadSourceStep ==
    ASSUME IInv, NEW t \in Requests, ReadSource(t)
    PROVE  IInv'
<1>1. req[t] \in Jobs /\ Sound(req[t]) /\ document.status # "none"
  BY Underway DEF ReadSource, Active
<1>2. PICK job : job = [req[t] EXCEPT !.pc = "sign", !.doc = document]
  OBVIOUS
<1>3. job.pc = "sign" /\ job.marked = req[t].marked /\ job.doc = document /\ job \in Jobs
  BY <1>1, <1>2 DEF Jobs, IInv, TypeOK
<1>4. Sound(job)
  BY <1>1, <1>3 DEF Sound, InHand, Entitled, Carried, Phased, ReadSource, Active, IInv, Agreed
<1>5. req' = [req EXCEPT ![t] = job]
  BY <1>2 DEF ReadSource, IInv, TypeOK
<1>. QED BY <1>1, <1>3, <1>4, <1>5, QuietStep DEF ReadSource, IInv, TypeOK

LEMMA WriteSignedStep ==
    ASSUME IInv, Undisturbed, NEW t \in Requests, WriteSigned(t)
    PROVE  IInv'
<1>1. req[t] \in Jobs /\ Sound(req[t])
  BY Underway DEF WriteSigned, Active
<1>2. Sound(Idle)'
  BY DEF Idle, Sound, InHand, Entitled, Carried, Phased
<1>3. /\ document' \in Documents /\ document'.status = req[t].doc.status
      /\ document'.mode = document.mode /\ document'.signed = req[t].marked
  BY <1>1 DEF WriteSigned, Active, Sound, Carried, Jobs, Documents
<1>4. Judged(document'.status) /\ Stamped(document'.signed) /\ document'.status # "none"
  BY <1>1, <1>3 DEF WriteSigned, Active, Sound, Carried
<1>5. \A u \in Requests \ {t} : req[u].pc \notin {"create", "rows", "clear"}
  BY DEF Undisturbed, Settled, Changing, Deciding, WriteSigned, Active
<1>. QED BY <1>2, <1>3, <1>4, <1>5, WrittenStep DEF WriteSigned, Answer

-----------------------------------------------------------------------------
(* Placing a signature, withdrawing a step, adding one.                    *)

LEMMA BeginPlaceStep ==
    ASSUME IInv, NEW t \in Requests, NEW s \in Ids, BeginPlace(t, s)
    PROVE  IInv'
<1>1. PICK job : job = [At("place") EXCEPT !.step = s, !.row = steps[s]]
  OBVIOUS
<1>2. job.pc = "place" /\ job.step = s /\ job.row = steps[s]
  BY <1>1 DEF At
<1>3. job \in Jobs
  BY <1>1, BlankType DEF IInv, TypeOK, Jobs
<1>4. s <= created /\ document.status # "none"
  BY StepThere DEF BeginPlace
<1>5. Sound(job)
  BY <1>2, <1>4 DEF Sound, InHand, Entitled, Carried, Phased, BeginPlace
<1>6. req' = [req EXCEPT ![t] = job]
  BY <1>1 DEF BeginPlace, Begin
<1>. QED BY <1>3, <1>4, <1>5, <1>6, QuietStep DEF BeginPlace, IInv, TypeOK

\* The row is written as it was read, and is still that.
LEMMA PlacementWritten ==
    ASSUME IInv, NEW t \in Requests, WritePlacement(t)
    PROVE  UNCHANGED <<document, steps, created, cuts>>
<1>1. InHand(req[t]) /\ req[t].pc = "place"
  BY Underway DEF WritePlacement, Active, Sound
<1>2. CASE Present(t)
  <2>1. steps[Mine(t)] = req[t].row
    BY <1>1, <1>2 DEF InHand, Present, Mine
  <2>. QED BY <1>2, <2>1 DEF WritePlacement, IInv, TypeOK
<1>3. CASE ~Present(t)
  BY <1>3 DEF WritePlacement
<1>. QED BY <1>2, <1>3

LEMMA WritePlacementStep ==
    ASSUME IInv, NEW t \in Requests, WritePlacement(t)
    PROVE  IInv'
BY PlacementWritten, IdleStep DEF WritePlacement, IInv, TypeOK

LEMMA BeginWithdrawStep ==
    ASSUME IInv, NEW t \in Requests, NEW s \in Ids, BeginWithdraw(t, s)
    PROVE  IInv'
<1>1. PICK job : job = [At("withdraw") EXCEPT !.step = s]
  OBVIOUS
<1>2. job.pc = "withdraw" /\ job.step = s
  BY <1>1 DEF At
<1>3. job \in Jobs
  BY <1>1, BlankType DEF Jobs
<1>4. s <= created /\ document.status # "none"
  BY StepThere DEF BeginWithdraw, Gone
<1>5. Sound(job)
  BY <1>2, <1>4 DEF Sound, InHand, Entitled, Carried, Phased, BeginWithdraw
<1>6. req' = [req EXCEPT ![t] = job]
  BY <1>1 DEF BeginWithdraw, Begin
<1>. QED BY <1>3, <1>4, <1>5, <1>6, QuietStep DEF BeginWithdraw, IInv, TypeOK

LEMMA WithdrawStep ==
    ASSUME IInv, Undisturbed, NEW t \in Requests, Withdraw(t)
    PROVE  IInv'
<1>1. InHand(req[t]) /\ document.status # "none" /\ req[t].pc = "withdraw"
  BY Underway DEF Withdraw, Active, Sound
<1>2. PICK s : s = Mine(t)
  OBVIOUS
<1>3. s \in Ids /\ (steps[s] = Gone \/ steps[s].decision = "pending") /\ steps' = [steps EXCEPT ![s] = Gone]
  BY <1>1, <1>2 DEF InHand, Mine, Withdraw
<1>4. CASE steps[s] = Gone
  <2>1. steps' = steps
    BY <1>3, <1>4 DEF IInv, TypeOK
  <2>. QED BY <2>1, IdleStep DEF Withdraw, IInv, TypeOK
<1>5. CASE steps[s].decision = "pending"
  <2>1. Decided(s, Gone)
    BY <1>3, <1>5 DEF Decided, Withdraw, IInv, TypeOK
  <2>2. \A u \in Requests \ {t} : OnStep(u) => Mine(u) # s
    BY <1>2 DEF Undisturbed, OneHand, OnStep, Withdraw, Active
  <2>3. Sound(Idle)'
    BY DEF Idle, Sound, InHand, Entitled, Carried, Phased
  <2>4. Gone \in Steps
    BY ApprovalAssumption DEF Gone, Steps
  <2>. QED BY <1>1, <2>1, <2>2, <2>3, <2>4, DecidedStep DEF Withdraw, Answer
<1>. QED BY <1>3, <1>4, <1>5

LEMMA BeginAddStep ==
    ASSUME IInv, NEW t \in Requests, NEW d \in Decisions, NEW n \in 1 .. MaxApprovers, BeginAdd(t, d, n)
    PROVE  IInv'
<1>1. PICK job : job = [At("add") EXCEPT !.verdict = d, !.rows = n]
  OBVIOUS
<1>2. job.pc = "add"
  BY <1>1 DEF At
<1>3. job \in Jobs
  <2>1. At("add") \in Jobs
    BY BlankType
  <2>2. n \in 0 .. MaxApprovers
    BY ApprovalAssumption
  <2>. QED BY <1>1, <2>1, <2>2 DEF Jobs
<1>4. Sound(job)
  BY <1>2, BlankSound
<1>5. req' = [req EXCEPT ![t] = job]
  BY <1>1 DEF BeginAdd, Begin
<1>. QED BY <1>3, <1>4, <1>5, QuietStep DEF BeginAdd, IInv, TypeOK

\* While one request changes what steps there are, the others rest.
LEMMA OthersRest ==
    ASSUME IInv, Undisturbed, NEW t \in Requests, Changing(t)
    PROVE  \A u \in Requests \ {t} : Resting(req[u])
<1>. SUFFICES ASSUME NEW u \in Requests \ {t} PROVE Resting(req[u])
  OBVIOUS
<1>1. ~Deciding(u) /\ ~Changing(u)
  BY DEF Undisturbed, Settled
<1>2. req[u] \in Jobs \cup {Idle}
  BY DEF IInv, TypeOK
<1>. QED BY <1>1, <1>2 DEF Deciding, Changing, Resting, Jobs, Idle

LEMMA AddStepStep ==
    ASSUME IInv, Undisturbed, NEW t \in Requests, AddStep(t)
    PROVE  IInv'
<1>1. req[t] \in Jobs /\ document.status # "none"
  BY Underway DEF AddStep, Active
<1>2. PICK row : row = [order |-> req[t].rows, decision |-> req[t].verdict]
  OBVIOUS
<1>3. row \in Steps
  BY <1>1, <1>2 DEF Jobs, Steps
<1>4. Inserted(row)
  BY <1>2 DEF AddStep, Insert, Inserted, IInv, TypeOK
<1>5. document.status # "approved"
  BY DEF Undisturbed, NotAddedToApproved, AddStep
<1>6. \A u \in Requests \ {t} : Resting(req[u])
  BY OthersRest DEF AddStep, Active, Changing
<1>7. Sound(Idle)'
  BY DEF Idle, Sound, InHand, Entitled, Carried, Phased
<1>. QED BY <1>1, <1>3, <1>4, <1>5, <1>6, <1>7, InsertedStep DEF AddStep, Answer

-----------------------------------------------------------------------------
(* Submitting, taking back and sending out again.                          *)

LEMMA CardinalityAdded ==
    ASSUME NEW stamps \in SUBSET Ids, NEW i
    PROVE  Cardinality(stamps) \in Nat /\ Cardinality(stamps \cup {i}) <= Cardinality(stamps) + 1
<1>1. IsFiniteSet(Ids)
  BY FS_Interval, ApprovalAssumption DEF Ids
<1>2. IsFiniteSet(stamps)
  BY <1>1, FS_Subset
<1>3. Cardinality(stamps) \in Nat
  BY <1>2, FS_CardinalityType
<1>4. Cardinality(stamps \cup {i}) \in {Cardinality(stamps), Cardinality(stamps) + 1}
  BY <1>2, FS_AddElement, Zenon
<1>. QED BY <1>3, <1>4

LEMMA SubmitStep ==
    ASSUME IInv, NEW t \in Requests, NEW mode \in Modes, NEW n \in 0 .. MaxApprovers, Submit(t, mode, n)
    PROVE  IInv'
<1>1. created = 0 /\ \A u \in Requests : req[u] = Idle
  BY DEF Submit, IInv, Agreed
<1>2. document' \in Documents
  BY DEF Submit, IInv, TypeOK, Documents, Statuses
<1>3. document'.status \in {"draft", "in_review"} /\ document'.signed = document.signed
      /\ (n # 0 => document'.status = "in_review")
  BY DEF Submit, IInv, TypeOK, Documents
<1>4. Judged(document'.status) /\ Stamped(document'.signed)
  BY <1>3 DEF Judged, IInv, Agreed
<1>5. PICK job : job = IF n = 0 THEN Idle ELSE [At("create") EXCEPT !.rows = n]
  OBVIOUS
<1>6. job \in Jobs \cup {Idle}
  BY <1>5, BlankType DEF Jobs
<1>7. req' = [req EXCEPT ![t] = job]
  <2>1. CASE n = 0
    BY <1>1, <1>5, <2>1 DEF Submit, IInv, TypeOK
  <2>2. CASE n # 0
    BY <1>5, <2>2 DEF Submit, Begin
  <2>. QED BY <2>1, <2>2
<1>8. Sound(job)'
  <2>1. CASE n = 0
    BY <1>5, <2>1 DEF Idle, Sound, InHand, Entitled, Carried, Phased
  <2>2. CASE n # 0
    <3>1. job.pc = "create" /\ job.marked = {} /\ job.rows = n
      BY <1>5, <2>2 DEF At
    <3>2. Cardinality(job.marked) < job.rows
      BY <2>2, <3>1, FS_EmptySet, ApprovalAssumption
    <3>. QED BY <1>3, <2>2, <3>1, <3>2 DEF Sound, InHand, Entitled, Carried, Phased
  <2>. QED BY <2>1, <2>2
<1>9. \A u \in Requests \ {t} : req[u].pc = "idle"
  BY <1>1 DEF Idle
<1>. QED BY <1>2, <1>3, <1>4, <1>6, <1>7, <1>8, <1>9, WrittenStep DEF Submit

LEMMA CreateStepStep ==
    ASSUME IInv, Undisturbed, NEW t \in Requests, CreateStep(t)
    PROVE  IInv'
<1>1. req[t] \in Jobs /\ Phased(req[t]) /\ document.status = "in_review"
  BY Underway DEF CreateStep, Active, Sound, Phased
<1>2. PICK n : n = Cardinality(req[t].marked)
  OBVIOUS
<1>3. n \in Nat /\ n < req[t].rows /\ req[t].rows \in 0 .. MaxApprovers
  BY <1>1, <1>2, CardinalityAdded DEF Jobs, Phased, CreateStep, Active
<1>4. PICK row : row = [order |-> n + 1, decision |-> "pending"]
  OBVIOUS
<1>5. row \in Steps
  BY <1>3, <1>4, ApprovalAssumption DEF Steps, Decisions
<1>6. Inserted(row)
  BY <1>2, <1>4 DEF CreateStep, Insert, Inserted, IInv, TypeOK
<1>7. \A u \in Requests \ {t} : Resting(req[u])
  BY OthersRest DEF CreateStep, Active, Changing
<1>8. CASE n + 1 = req[t].rows
  <2>1. Sound(Idle)'
    BY DEF Idle, Sound, InHand, Entitled, Carried, Phased
  <2>2. req' = [req EXCEPT ![t] = Idle]
    BY <1>2, <1>8 DEF CreateStep, Answer
  <2>. QED BY <1>1, <1>5, <1>6, <1>7, <2>1, <2>2, InsertedStep DEF CreateStep
<1>9. CASE n + 1 # req[t].rows
  <2>1. PICK job : job = [req[t] EXCEPT !.marked = @ \cup {created'}]
    OBVIOUS
  <2>2. created' \in Ids
    BY <1>6, ApprovalAssumption DEF Inserted, Ids
  <2>3. job \in Jobs /\ job.pc = "create" /\ job.rows = req[t].rows
        /\ job.marked = req[t].marked \cup {created'}
    BY <1>1, <2>1, <2>2 DEF Jobs, CreateStep, Active
  <2>4. Cardinality(job.marked) \in Nat /\ Cardinality(job.marked) <= n + 1
    <3>1. PICK stamps, i : stamps = req[t].marked /\ i = created'
      OBVIOUS
    <3>2. stamps \in SUBSET Ids /\ job.marked = stamps \cup {i} /\ job.marked \in SUBSET Ids
      BY <1>1, <2>3, <3>1 DEF Jobs
    <3>. QED BY <1>2, <3>1, <3>2, CardinalityAdded
  <2>5. Cardinality(job.marked) < job.rows
    BY <1>3, <1>9, <2>3, <2>4
  <2>6. Sound(job)'
    BY <1>1, <2>3, <2>5 DEF Sound, InHand, Entitled, Carried, Phased, CreateStep
  <2>7. req' = [req EXCEPT ![t] = job]
    BY <1>2, <1>9, <2>1 DEF CreateStep, IInv, TypeOK
  <2>. QED BY <1>1, <1>5, <1>6, <1>7, <2>3, <2>6, <2>7, InsertedStep DEF CreateStep
<1>. QED BY <1>8, <1>9

LEMMA BeginReviseStep ==
    ASSUME IInv, NEW t \in Requests, BeginRevise(t)
    PROVE  IInv'
<1>1. PICK job : job = [At("redraft") EXCEPT !.doc = document]
  OBVIOUS
<1>2. job.pc = "redraft" /\ job.doc = document
  BY <1>1 DEF At
<1>3. job \in Jobs
  BY <1>1, BlankType DEF Jobs, IInv, TypeOK
<1>4. Sound(job)
  BY <1>2 DEF Sound, InHand, Entitled, Carried, Phased, IInv, Agreed
<1>5. req' = [req EXCEPT ![t] = job]
  BY <1>1 DEF BeginRevise, Begin
<1>. QED BY <1>3, <1>4, <1>5, QuietStep DEF BeginRevise, IInv, TypeOK

LEMMA WriteDraftStep ==
    ASSUME IInv, Undisturbed, NEW t \in Requests, WriteDraft(t)
    PROVE  IInv'
<1>1. req[t] \in Jobs /\ Sound(req[t])
  BY Underway DEF WriteDraft, Active
<1>2. document' \in Documents /\ document'.status = "draft" /\ document'.signed = req[t].doc.signed
  BY <1>1 DEF WriteDraft, Jobs, Documents, Statuses
<1>3. Judged(document'.status) /\ Stamped(document'.signed)
  BY <1>1, <1>2 DEF WriteDraft, Active, Sound, Carried, Judged
<1>4. \A u \in Requests \ {t} : Resting(req[u])
  BY OthersRest DEF WriteDraft, Active, Changing
<1>5. PICK job : job = At("rows")
  OBVIOUS
<1>6. job \in Jobs /\ job.pc = "rows"
  BY <1>5, BlankType DEF At
<1>7. Sound(job)'
  BY <1>2, <1>6 DEF Sound, InHand, Entitled, Carried, Phased
<1>. QED BY <1>2, <1>3, <1>4, <1>5, <1>6, <1>7, WrittenStep DEF WriteDraft, Resting

LEMMA ListStepsStep ==
    ASSUME IInv, NEW t \in Requests, ListSteps(t)
    PROVE  IInv'
<1>1. req[t] \in Jobs /\ Sound(req[t]) /\ document.status # "none"
  BY Underway DEF ListSteps, Active
<1>2. PICK job : job = [req[t] EXCEPT !.pc = "clear", !.marked = Live]
  OBVIOUS
<1>3. job.pc = "clear" /\ job \in Jobs
  BY <1>1, <1>2 DEF Jobs, Live
<1>4. Sound(job)
  BY <1>1, <1>3 DEF Sound, InHand, Entitled, Carried, Phased, ListSteps, Active
<1>5. req' = [req EXCEPT ![t] = job]
  BY <1>2 DEF ListSteps, IInv, TypeOK
<1>. QED BY <1>1, <1>3, <1>4, <1>5, QuietStep DEF ListSteps, IInv, TypeOK

LEMMA ClearStepStep ==
    ASSUME IInv, Undisturbed, NEW t \in Requests, ClearStep(t)
    PROVE  IInv'
<1>1. req[t] \in Jobs /\ document.status = "draft"
  BY Underway DEF ClearStep, Active, Sound, Phased
<1>2. CASE req[t].marked = {}
  BY <1>2, IdleStep DEF ClearStep, IInv, TypeOK
<1>3. CASE req[t].marked # {}
  <2>1. PICK i : i = Min(req[t].marked)
    OBVIOUS
  <2>2. PICK job : job = [req[t] EXCEPT !.marked = @ \ {i}]
    OBVIOUS
  <2>3. job \in Jobs /\ job.pc = "clear"
    BY <1>1, <2>2 DEF Jobs, ClearStep, Active
  <2>4. steps' = [steps EXCEPT ![i] = Gone] /\ req' = [req EXCEPT ![t] = job]
    BY <1>3, <2>1, <2>2 DEF ClearStep, IInv, TypeOK
  <2>5. Sound(job)'
    BY <1>1, <2>3 DEF Sound, InHand, Entitled, Carried, Phased, ClearStep
  <2>6. \A u \in Requests \ {t} : Resting(req[u])
    BY OthersRest DEF ClearStep, Active, Changing
  <2>. QED BY <1>1, <2>3, <2>4, <2>5, <2>6, ClearedStep DEF ClearStep
<1>. QED BY <1>2, <1>3

LEMMA BeginContinueStep ==
    ASSUME IInv, NEW t \in Requests, NEW n \in 1 .. MaxApprovers, BeginContinue(t, n)
    PROVE  IInv'
<1>1. PICK job : job = [At("send") EXCEPT !.doc = document, !.rows = n]
  OBVIOUS
<1>2. job.pc = "send" /\ job.doc = document /\ job.rows = n
  BY <1>1 DEF At
<1>3. job \in Jobs
  <2>1. At("send") \in Jobs
    BY BlankType
  <2>2. n \in 0 .. MaxApprovers
    BY ApprovalAssumption
  <2>. QED BY <1>1, <2>1, <2>2 DEF Jobs, IInv, TypeOK
<1>4. Sound(job)
  BY <1>2 DEF Sound, InHand, Entitled, Carried, Phased, IInv, Agreed
<1>5. req' = [req EXCEPT ![t] = job]
  BY <1>1 DEF BeginContinue, Begin
<1>. QED BY <1>3, <1>4, <1>5, QuietStep DEF BeginContinue, IInv, TypeOK

LEMMA SendOutStep ==
    ASSUME IInv, Undisturbed, NEW t \in Requests, NEW mode \in Modes, SendOut(t, mode)
    PROVE  IInv'
<1>1. req[t] \in Jobs /\ Sound(req[t])
  BY Underway DEF SendOut, Active
<1>2. document' \in Documents /\ document'.status = "in_review" /\ document'.signed = req[t].doc.signed
  BY <1>1 DEF SendOut, Jobs, Documents, Statuses
<1>3. Judged(document'.status) /\ Stamped(document'.signed)
  BY <1>1, <1>2 DEF SendOut, Active, Sound, Carried, Judged
<1>4. \A u \in Requests \ {t} : Resting(req[u])
  BY OthersRest DEF SendOut, Active, Changing
<1>5. PICK job : job = [At("create") EXCEPT !.rows = req[t].rows]
  OBVIOUS
<1>6. job \in Jobs /\ job.pc = "create" /\ job.marked = {} /\ job.rows = req[t].rows
  <2>1. At("create") \in Jobs
    BY BlankType
  <2>. QED BY <1>1, <1>5, <2>1 DEF Jobs, At
<1>7. Sound(job)'
  <2>1. Cardinality(job.marked) < job.rows
    BY <1>1, <1>6, FS_EmptySet DEF SendOut, Active, Sound, Phased
  <2>. QED BY <1>2, <1>6, <2>1 DEF Sound, InHand, Entitled, Carried, Phased
<1>8. req' = [req EXCEPT ![t] = job]
  BY <1>5 DEF SendOut
<1>. QED BY <1>2, <1>3, <1>4, <1>6, <1>7, <1>8, WrittenStep DEF SendOut, Resting

LEMMA AbandonStep ==
    ASSUME IInv, NEW t \in Requests, Abandon(t)
    PROVE  IInv'
<1>1. cuts' \in 0 .. MaxCuts
  BY ApprovalAssumption DEF Abandon, IInv, TypeOK
<1>. QED BY <1>1, IdleStep DEF Abandon

-----------------------------------------------------------------------------
(* The theorems.                                                           *)

LEMMA InvStep == IInv /\ Undisturbed /\ [Next]_vars => IInv'
<1>. SUFFICES ASSUME IInv, Undisturbed, [Next]_vars PROVE IInv'
  OBVIOUS
<1>1. CASE UNCHANGED vars
  <2>1. ASSUME NEW u \in Requests PROVE Sound(req[u])'
    <3>1. PICK job : job = req[u]
      OBVIOUS
    <3>2. Sound(job) /\ req'[u] = job
      BY <1>1, <2>1, <3>1 DEF IInv, vars
    <3>3. Sound(job)'
      BY <1>1, <3>2, SoundSame DEF vars
    <3>. QED BY <3>2, <3>3, StillSound
  <2>2. TypeOK' /\ Agreed'
    BY <1>1 DEF IInv, TypeOK, Agreed, Judged, Stamped, Live, vars
  <2>. QED BY <2>1, <2>2 DEF IInv
<1>2. CASE Next
  <2>. PICK t \in Requests :
          \/ \E s \in Ids : \/ \E d \in Verdicts : BeginDecide(t, s, d)
                            \/ BeginPlace(t, s) \/ BeginWithdraw(t, s)
          \/ ReadMode(t) \/ TakeTurn(t) \/ WriteDecision(t)
          \/ ListSiblings(t) \/ ReadParent(t) \/ WriteStatus(t) \/ SkipRollup(t)
          \/ ListStamps(t) \/ ReadSource(t) \/ WriteSigned(t)
          \/ WritePlacement(t) \/ Withdraw(t)
          \/ \E d \in Decisions, n \in 1 .. MaxApprovers : BeginAdd(t, d, n)
          \/ AddStep(t)
          \/ \E mode \in Modes :
                \/ \E n \in 0 .. MaxApprovers : Submit(t, mode, n)
                \/ SendOut(t, mode)
          \/ \E n \in 1 .. MaxApprovers : BeginContinue(t, n)
          \/ CreateStep(t) \/ BeginRevise(t) \/ WriteDraft(t) \/ ListSteps(t) \/ ClearStep(t)
          \/ Abandon(t)
    BY <1>2, Zenon DEF Next
  <2>1. CASE \E s \in Ids : \/ \E d \in Verdicts : BeginDecide(t, s, d)
                            \/ BeginPlace(t, s) \/ BeginWithdraw(t, s)
    BY <2>1, BeginDecideStep, BeginPlaceStep, BeginWithdrawStep
  <2>2. CASE ReadMode(t) \/ TakeTurn(t) \/ WriteDecision(t)
    BY <2>2, ReadModeStep, TakeTurnStep, WriteDecisionStep
  <2>3. CASE ListSiblings(t) \/ ReadParent(t) \/ WriteStatus(t) \/ SkipRollup(t)
    BY <2>3, ListSiblingsStep, ReadParentStep, WriteStatusStep, SkipRollupStep
  <2>4. CASE ListStamps(t) \/ ReadSource(t) \/ WriteSigned(t)
    BY <2>4, ListStampsStep, ReadSourceStep, WriteSignedStep
  <2>5. CASE WritePlacement(t) \/ Withdraw(t)
    BY <2>5, WritePlacementStep, WithdrawStep
  <2>6. CASE (\E d \in Decisions, n \in 1 .. MaxApprovers : BeginAdd(t, d, n)) \/ AddStep(t)
    BY <2>6, BeginAddStep, AddStepStep
  <2>7. CASE \E mode \in Modes :
                \/ \E n \in 0 .. MaxApprovers : Submit(t, mode, n)
                \/ SendOut(t, mode)
    BY <2>7, SubmitStep, SendOutStep
  <2>8. CASE \E n \in 1 .. MaxApprovers : BeginContinue(t, n)
    BY <2>8, BeginContinueStep
  <2>9. CASE CreateStep(t) \/ BeginRevise(t) \/ WriteDraft(t) \/ ListSteps(t) \/ ClearStep(t)
    BY <2>9, CreateStepStep, BeginReviseStep, WriteDraftStep, ListStepsStep, ClearStepStep
  <2>10. CASE Abandon(t)
    BY <2>10, AbandonStep
  <2>. QED BY <2>1, <2>2, <2>3, <2>4, <2>5, <2>6, <2>7, <2>8, <2>9, <2>10, Zenon
<1>. QED BY <1>1, <1>2

\* What a request has read and will write would be right if it were written now, and so is what
\* is written, while the requests that the code does not keep apart stay apart.
THEOREM Invariance == Spec /\ []Undisturbed => []IInv
BY InitInv, InvStep, PTL DEF Spec

\* Every row and every request is of its type.
THEOREM Typed == Spec /\ []Undisturbed => []TypeOK
<1>1. IInv => TypeOK
  BY DEF IInv
<1>. QED BY <1>1, Invariance, PTL

\* A document that RollupValue has made approved has steps, and each of them approved it, while
\* updates of the document write back whole rows read earlier (ApprovedByAll).
THEOREM ByAll == Spec /\ []Undisturbed => []ApprovedByAll
<1>1. IInv => ApprovedByAll
  BY DEF IInv, Agreed, Judged, ApprovedByAll
<1>. QED BY <1>1, Invariance, PTL

\* The step that rejected a document is there as long as the document is rejected, which is
\* what reviseDocument takes back (RejectedByOne).
THEOREM ByOne == Spec /\ []Undisturbed => []RejectedByOne
<1>1. IInv => RejectedByOne
  BY DEF IInv, Agreed, Judged, RejectedByOne
<1>. QED BY <1>1, Invariance, PTL

\* The file compositeSignedDocument makes bears no stamp of a step that is open or rejected by
\* the time it is written (SignedAsApproved).
THEOREM StampsApproved == Spec /\ []Undisturbed => []SignedAsApproved
<1>1. IInv => SignedAsApproved
  BY DEF IInv, Agreed, Stamped, SignedAsApproved
<1>. QED BY <1>1, Invariance, PTL


\* An open step is decided, with none open ahead of it where the order counts.
DecidedInTurn(s) ==
    /\ \E row : Decided(s, row)
    /\ document.mode = "sequential" =>
          \A j \in Live \ {s} : steps[j].order < steps[s].order => steps[j].decision # "pending"

\* A step goes: any under a draft, an open one otherwise.
Removed(s) ==
    /\ steps' = [steps EXCEPT ![s] = Gone]
    /\ document.status = "draft" \/ steps[s].decision \notin Verdicts

LEMMA TurnTaken ==
    ASSUME IInv, NEW t \in Requests, WriteDecision(t), steps' # steps
    PROVE  DecidedInTurn(Mine(t))
<1>1. Present(t)
  BY DEF WriteDecision
<1>2. /\ steps[Mine(t)] = req[t].row
      /\ Decided(Mine(t), [req[t].row EXCEPT !.decision = req[t].verdict])
  BY <1>1, DecisionWritten
<1>3. Entitled(req[t]) /\ req[t].pc = "decide"
  BY Underway DEF WriteDecision, Active, Sound
<1>4. document.mode = "sequential" => Ahead(req[t]) = {}
  BY <1>3 DEF Entitled
<1>. QED BY <1>2, <1>4 DEF DecidedInTurn, Ahead, Mine

LEMMA StepsWritten ==
    ASSUME IInv, Undisturbed, [Next]_vars
    PROVE  \/ UNCHANGED steps
           \/ \E s : DecidedInTurn(s)
           \/ \E s : Removed(s)
           \/ \E row : Inserted(row)
<1>1. CASE UNCHANGED vars
  BY <1>1 DEF vars
<1>2. ASSUME NEW t \in Requests, WriteDecision(t) \/ WritePlacement(t)
      PROVE  UNCHANGED steps \/ \E s : DecidedInTurn(s)
  BY <1>2, TurnTaken, PlacementWritten
<1>3. ASSUME NEW t \in Requests, Withdraw(t) PROVE \E s : Removed(s)
  <2>1. steps[Mine(t)].decision \notin Verdicts
    BY <1>3, Underway DEF Withdraw, Active, Sound, InHand, Mine, Gone, Verdicts
  <2>. QED BY <1>3, <2>1 DEF Withdraw, Removed
<1>4. ASSUME NEW t \in Requests, ClearStep(t) PROVE UNCHANGED steps \/ \E s : Removed(s)
  <2>1. document.status = "draft"
    BY <1>4, Underway DEF ClearStep, Active, Sound, Phased
  <2>. QED BY <1>4, <2>1 DEF ClearStep, Removed
<1>5. ASSUME NEW t \in Requests, AddStep(t) \/ CreateStep(t) PROVE \E row : Inserted(row)
  BY <1>5 DEF AddStep, CreateStep, Insert, Inserted, IInv, TypeOK
<1>6. CASE Next
  BY <1>2, <1>3, <1>4, <1>5, <1>6
     DEF Next, BeginDecide, BeginPlace, BeginWithdraw, ReadMode, TakeTurn, ListSiblings, ReadParent,
         WriteStatus, SkipRollup, ListStamps, ReadSource, WriteSigned, BeginAdd, Submit, SendOut,
         BeginContinue, BeginRevise, WriteDraft, ListSteps, Abandon
<1>. QED BY <1>1, <1>6

\* Where the order counts, decideStep writes a decision only when no step ahead of it is open,
\* though CanAct looked at the siblings in an earlier statement (InTurn).
THEOREM Turns == Spec /\ []Undisturbed => InTurn
<1>1. ASSUME IInv, Undisturbed, [Next]_vars
      PROVE  \A i, j \in Ids :
                /\ steps[i].decision = "pending" /\ steps'[i].decision \in Verdicts
                /\ document.mode = "sequential"
                /\ steps[j].order < steps[i].order
                => steps[j].decision # "pending"
  <2>. SUFFICES ASSUME NEW i \in Ids, NEW j \in Ids,
                       steps[i].decision = "pending", steps'[i].decision \in Verdicts,
                       document.mode = "sequential", steps[j].order < steps[i].order
                PROVE  steps[j].decision # "pending"
    OBVIOUS
  <2>1. steps' # steps
    BY DEF Verdicts
  <2>2. ~\E s : Removed(s)
    BY <1>1 DEF Removed, Gone, Verdicts, IInv, TypeOK
  <2>3. ~\E row : Inserted(row)
    <3>. SUFFICES ASSUME NEW row, Inserted(row) PROVE FALSE
      OBVIOUS
    <3>1. steps[created + 1] = Gone /\ i # created + 1
      BY <1>1, InsertedKept DEF IInv, Agreed, Gone
    <3>. QED BY <3>1 DEF Inserted, Verdicts
  <2>4. PICK s : DecidedInTurn(s)
    BY <1>1, <2>1, <2>2, <2>3, StepsWritten
  <2>5. i = s
    BY <2>4 DEF DecidedInTurn, Decided, Verdicts
  <2>6. j # s /\ (steps[j] # Gone => j \in Live)
    <3>1. steps[i].order \in Nat
      BY <1>1, ApprovalAssumption DEF IInv, TypeOK, Steps
    <3>. QED BY <2>5, <3>1 DEF Live
  <2>. QED BY <2>4, <2>5, <2>6 DEF DecidedInTurn, Gone
<1>. QED BY <1>1, Invariance, PTL DEF Spec, InTurn

\* A decided step keeps its row until reviseDocument, under a draft, deletes it: no placement,
\* second decision or withdrawal that began earlier is written over it (DecisionsFinal).
THEOREM Final == Spec /\ []Undisturbed => DecisionsFinal
<1>1. ASSUME IInv, Undisturbed, [Next]_vars
      PROVE  \A i \in Ids : steps[i].decision \in Verdicts =>
                \/ steps'[i] = steps[i]
                \/ steps'[i] = Gone /\ document.status = "draft"
  <2>. SUFFICES ASSUME NEW i \in Ids, steps[i].decision \in Verdicts
                PROVE  \/ steps'[i] = steps[i]
                       \/ steps'[i] = Gone /\ document.status = "draft"
    OBVIOUS
  <2>1. ASSUME NEW s, DecidedInTurn(s) PROVE steps'[i] = steps[i]
    BY <2>1 DEF DecidedInTurn, Decided, Verdicts
  <2>2. ASSUME NEW s, Removed(s)
        PROVE  steps'[i] = steps[i] \/ (steps'[i] = Gone /\ document.status = "draft")
    BY <2>2 DEF Removed, IInv, TypeOK
  <2>3. ASSUME NEW row, Inserted(row) PROVE steps'[i] = steps[i]
    <3>1. steps[created + 1] = Gone
      BY <1>1, <2>3, InsertedKept DEF IInv, Agreed
    <3>. QED BY <2>3, <3>1 DEF Inserted, Gone, Verdicts
  <2>. QED BY <1>1, <2>1, <2>2, <2>3, StepsWritten
<1>. QED BY <1>1, Invariance, PTL DEF Spec, DecisionsFinal

-----------------------------------------------------------------------------
(* The rules that fire on the passage of time.                             *)

CONSTANTS Users, Rules, MaxEdits, MaxFails, MaxCrashes, NoRow, NoRec

VARIABLES row, born, today, ticker, editing, cut, spent, edits, fails, crashes

S == INSTANCE Schedules WITH req <- editing

-----------------------------------------------------------------------------
(* Their inductive invariant.                                              *)

TextOf(r) == <<r, S!Marker(ticker.listed[r])>>

\* The records still to be taken up in this tick are not marked under the text listed.
Queued ==
    /\ ticker.rec \notin ticker.todo
    /\ ticker.pc \in {"idle", "listed"} => ticker.todo = {}
    /\ \A r \in ticker.todo : ticker.listed[r] \in S!Rows /\ marks[TextOf(r)] = 0

Past(service) == \E i \in 1 .. (ticker.next - 1) : Rules[i] = service

\* The record in hand is not marked before its turn to log, and from then on one more attempt
\* has been made to mark it than it was told of, until its turn to tell.
Running ==
    ticker.pc = "rules" =>
        /\ ticker.listed[ticker.rec] \in S!Rows
        /\ ~Past("log") => marks[S!Text] = 0
        /\ Past("log") /\ ~Past("tell") => told[S!Text] < marks[S!Text] + missed[S!Text]

Counted == \A x \in S!Texts : marks[x] <= 1 /\ told[x] <= marks[x] + missed[x]

MarkInv == S!Declared /\ S!Orderly /\ S!TypeOK /\ Queued /\ Running /\ Counted

-----------------------------------------------------------------------------
(* Lemmas on them.                                                         *)

\* What the Machine's metadata is taken to declare.
LEMMA ConstantsDeclared ==
    ASSUME MarkInv
    PROVE  /\ Rules \in Seq({"log", "set", "tell"}) /\ Rules # <<>>
           /\ MarkerFields \subseteq {"title", "due"}
           /\ MaxDay \in Nat /\ MaxEdits \in Nat /\ MaxFails \in Nat /\ MaxCrashes \in Nat
           /\ NoRec \notin Recs
BY DEF MarkInv, S!Declared

LEMMA TextTyped ==
    ASSUME NEW r \in Recs, NEW v \in S!Rows
    PROVE  <<r, S!Marker(v)>> \in S!Texts
BY DEF S!Texts, S!Markers

\* What people do to records, and the passing of days, is nothing to the ticker.
LEMMA TickerApart ==
    ASSUME MarkInv, S!TypeOK', UNCHANGED <<ticker, marks, told, missed>>
    PROVE  MarkInv'
BY DEF MarkInv, Queued, Running, Counted, TextOf, S!Text, S!Listed, Past

\* A tick that ends, or has just listed, has nothing in hand.
LEMMA TickerEmpty ==
    ASSUME MarkInv, S!TypeOK', ticker'.todo = {}, ticker'.rec = NoRec, UNCHANGED <<marks, told, missed>>
    PROVE  MarkInv'
<1>1. ticker'.pc # "rules"
  BY ConstantsDeclared DEF S!TypeOK
<1>. QED BY <1>1 DEF MarkInv, Queued, Running, Counted

\* What TypeOK says of the ticker.
LEMMA TickerTyped ==
    ASSUME MarkInv
    PROVE  /\ ticker.pc \in {"idle", "listed", "records", "rules"}
           /\ ticker.now \in 0 .. today /\ ticker.listed \in [Recs -> S!Rows \cup {NoRow}]
           /\ ticker.todo \subseteq Recs /\ ticker.rec \in Recs \cup {NoRec}
           /\ ticker.next \in 1 .. Len(Rules) /\ Len(Rules) \in Nat /\ NoRec \notin Recs
           /\ ticker.pc = "rules" <=> ticker.rec \in Recs
BY ConstantsDeclared DEF MarkInv, S!TypeOK

\* To the next rule, or to the next record.
LEMMA NextRuleEffect ==
    ASSUME MarkInv, ticker.pc = "rules", S!NextRule
    PROVE  /\ ticker' \in [pc : {"idle", "listed", "records", "rules"}, now : 0 .. today,
                           listed : [Recs -> S!Rows \cup {NoRow}],
                           todo : SUBSET Recs, rec : Recs \cup {NoRec}, next : 1 .. Len(Rules)]
           /\ ticker'.pc \in {"records", "rules"}
           /\ ticker'.todo = ticker.todo /\ ticker'.listed = ticker.listed
           /\ ticker'.pc = "rules" <=> ticker'.rec \in Recs
           /\ ticker'.pc = "rules" => ticker'.rec = ticker.rec /\ ticker'.next = ticker.next + 1
           /\ ticker'.pc = "records" => ticker'.rec = NoRec
<1>1. CASE ticker.next < Len(Rules)
  <2>1. ticker' = [ticker EXCEPT !.next = @ + 1]
    BY <1>1 DEF S!NextRule
  <2>2. ticker.next + 1 \in 1 .. Len(Rules)
    BY <1>1, TickerTyped
  <2>. QED BY <2>1, <2>2, TickerTyped DEF MarkInv, S!TypeOK
<1>2. CASE ~(ticker.next < Len(Rules))
  <2>1. ticker' = [ticker EXCEPT !.pc = "records", !.rec = NoRec, !.next = 1]
    BY <1>2 DEF S!NextRule
  <2>2. 1 \in 1 .. Len(Rules)
    BY TickerTyped
  <2>. QED BY <2>1, <2>2, TickerTyped DEF MarkInv, S!TypeOK
<1>. QED BY <1>1, <1>2

\* One rule further, what has been run is what was, and the rule just run.
LEMMA PastNext ==
    ASSUME MarkInv, ticker.pc = "rules", ticker'.next = ticker.next + 1, NEW service
    PROVE  Past(service)' <=> Past(service) \/ S!At(service)
<1>1. ticker.next \in Nat \ {0}
  BY ConstantsDeclared DEF MarkInv, S!TypeOK
<1>2. \A i : i \in 1 .. (ticker'.next - 1) <=> i \in 1 .. (ticker.next - 1) \/ i = ticker.next
  BY <1>1
<1>. QED BY <1>2 DEF Past, S!At

\* A service is run once, and the one that tells after the one that logs.
LEMMA RulesInTurn ==
    ASSUME MarkInv, ticker.pc = "rules"
    PROVE  /\ \A service : S!At(service) => ~Past(service)
           /\ S!At("tell") => Past("log")
<1>1. ticker.next \in 1 .. Len(Rules) /\ Len(Rules) \in Nat
  BY ConstantsDeclared DEF MarkInv, S!TypeOK
<1>. QED BY <1>1 DEF MarkInv, S!Orderly, S!At, Past

-----------------------------------------------------------------------------
(* The steps.                                                              *)

LEMMA MarkInit == S!Declared /\ S!Orderly /\ S!Init => MarkInv
<1>1. SUFFICES ASSUME S!Declared, S!Orderly, S!Init PROVE MarkInv
  OBVIOUS
<1>2. S!TypeOK
  BY <1>1 DEF S!Declared, S!Init, S!TypeOK, S!Idle, S!Rest
<1>3. Queued /\ Running /\ Counted
  BY <1>1 DEF S!Declared, S!Init, Queued, Running, Counted, S!Idle
<1>. QED BY <1>1, <1>2, <1>3 DEF MarkInv

LEMMA NewRecordStep == ASSUME MarkInv, NEW r \in Recs, S!Create(r) PROVE MarkInv'
<1>1. S!TypeOK'
  BY DEF S!Create, MarkInv, S!TypeOK, S!ghosts, S!bounds
<1>. QED BY <1>1, TickerApart DEF S!Create, S!ghosts

LEMMA DeleteStep == ASSUME MarkInv, NEW r \in Recs, S!Delete(r) PROVE MarkInv'
<1>1. S!TypeOK'
  BY ConstantsDeclared DEF S!Delete, MarkInv, S!TypeOK, S!ghosts
<1>. QED BY <1>1, TickerApart DEF S!Delete, S!ghosts

LEMMA BeginEditStep == ASSUME MarkInv, NEW u \in Users, NEW r \in Recs, S!BeginEdit(u, r) PROVE MarkInv'
<1>0. MaxEdits \in Nat
  BY ConstantsDeclared
<1>1. PICK v \in S!Changes(row[r]) : editing' = [editing EXCEPT ![u] = [pc |-> "writing", rec |-> r, new |-> v]]
  BY DEF S!BeginEdit
<1>2. v \in S!Rows
  BY <1>1 DEF S!Changes
<1>3. S!TypeOK'
  BY <1>1, <1>2, <1>0 DEF S!BeginEdit, MarkInv, S!TypeOK, S!ghosts
<1>. QED BY <1>3, TickerApart DEF S!BeginEdit, S!ghosts

LEMMA WriteEditStep == ASSUME MarkInv, NEW u \in Users, S!WriteEdit(u) PROVE MarkInv'
<1>1. S!TypeOK'
  <2>1. editing' \in [Users -> {S!Rest} \cup [pc : {"writing"}, rec : Recs, new : S!Rows]]
    BY DEF S!WriteEdit, MarkInv, S!TypeOK
  <2>. DEFINE r == editing[u].rec
              text == <<r, S!Marker(editing[u].new)>>
  <2>2. CASE row[r] = NoRow
    <3>1. UNCHANGED <<row, spent>>
      BY <2>2 DEF S!WriteEdit
    <3>. QED BY <2>1, <3>1 DEF S!WriteEdit, MarkInv, S!TypeOK, S!bounds
  <2>3. CASE row[r] # NoRow
    <3>1. r \in Recs /\ editing[u].new \in S!Rows
      BY DEF MarkInv, S!TypeOK, S!WriteEdit, S!Rest
    <3>2. row' = [row EXCEPT ![r] = editing[u].new] /\ spent' \subseteq spent \cup {text}
      BY <2>3 DEF S!WriteEdit
    <3>3. text \in S!Texts
      BY <3>1, TextTyped
    <3>4. row' \in [Recs -> S!Rows \cup {NoRow}] /\ spent' \subseteq S!Texts
      BY <3>1, <3>2, <3>3 DEF MarkInv, S!TypeOK
    <3>5. \A x \in Recs \ born : row'[x] = NoRow
      BY <2>3, <3>1, <3>2 DEF MarkInv, S!TypeOK
    <3>. QED BY <2>1, <3>4, <3>5 DEF S!WriteEdit, MarkInv, S!TypeOK, S!bounds
  <2>. QED BY <2>2, <2>3
<1>. QED BY <1>1, TickerApart DEF S!WriteEdit

LEMMA TomorrowStep == ASSUME MarkInv, S!Tomorrow PROVE MarkInv'
<1>0. MaxDay \in Nat
  BY ConstantsDeclared
<1>1. S!TypeOK'
  BY <1>0 DEF S!Tomorrow, MarkInv, S!TypeOK, S!ghosts, S!bounds
<1>. QED BY <1>1, TickerApart DEF S!Tomorrow, S!ghosts

LEMMA ListStep == ASSUME MarkInv, S!List PROVE MarkInv'
<1>1. ticker' = [pc |-> "listed", now |-> today, listed |-> row, todo |-> {}, rec |-> NoRec, next |-> 1]
  BY DEF S!List, S!Idle
<1>2. today \in 0 .. today /\ 1 \in 1 .. Len(Rules) /\ row \in [Recs -> S!Rows \cup {NoRow}]
  BY ConstantsDeclared DEF MarkInv, S!TypeOK
<1>3. ticker' \in [pc : {"idle", "listed", "records", "rules"}, now : 0 .. today,
                   listed : [Recs -> S!Rows \cup {NoRow}],
                   todo : SUBSET Recs, rec : Recs \cup {NoRec}, next : 1 .. Len(Rules)]
  BY <1>1, <1>2
<1>4. ticker'.pc # "rules" /\ ticker'.rec \notin Recs
  BY <1>1, ConstantsDeclared
<1>5. S!TypeOK'
  BY <1>3, <1>4 DEF S!List, MarkInv, S!TypeOK, S!ghosts, S!bounds
<1>6. ticker'.todo = {} /\ ticker'.rec = NoRec
  BY <1>1
<1>. QED BY <1>5, <1>6, TickerEmpty DEF S!List, S!ghosts

LEMMA TickEndsStep ==
    ASSUME MarkInv, ticker' = S!Idle, S!TypeOK', UNCHANGED <<marks, told, missed>>
    PROVE  MarkInv'
BY TickerEmpty DEF S!Idle

LEMMA IdleTyped ==
    ASSUME MarkInv
    PROVE  /\ S!Idle \in [pc : {"idle", "listed", "records", "rules"}, now : 0 .. today,
                          listed : [Recs -> S!Rows \cup {NoRow}],
                        todo : SUBSET Recs, rec : Recs \cup {NoRec}, next : 1 .. Len(Rules)]
           /\ S!Idle.pc # "rules" /\ S!Idle.rec \notin Recs
BY ConstantsDeclared DEF S!Idle, MarkInv, S!TypeOK

LEMMA EndTickStep == ASSUME MarkInv, S!EndTick PROVE MarkInv'
<1>1. S!TypeOK'
  BY IdleTyped DEF S!EndTick, MarkInv, S!TypeOK, S!ghosts, S!bounds
<1>. QED BY <1>1, TickEndsStep DEF S!EndTick, S!ghosts

LEMMA ListingFailsStep == ASSUME MarkInv, S!ListingFails PROVE MarkInv'
<1>0. MaxFails \in Nat
  BY ConstantsDeclared
<1>1. S!TypeOK'
  BY IdleTyped, <1>0 DEF S!ListingFails, MarkInv, S!TypeOK, S!ghosts
<1>. QED BY <1>1, TickEndsStep DEF S!ListingFails, S!ghosts

LEMMA RulesCrashStep == ASSUME MarkInv, S!Crash PROVE MarkInv'
<1>1. ticker.pc = "rules" => S!Text \in S!Texts
  BY TextTyped DEF MarkInv, S!TypeOK, Running, S!Text, S!Listed
<1>2. cut' \subseteq S!Texts
  BY <1>1 DEF S!Crash, MarkInv, S!TypeOK
<1>3. crashes' \in 0 .. MaxCrashes
  BY ConstantsDeclared DEF S!Crash, MarkInv, S!TypeOK
<1>4. S!TypeOK'
  BY <1>2, <1>3, IdleTyped DEF S!Crash, MarkInv, S!TypeOK
<1>. QED BY <1>4, TickEndsStep DEF S!Crash

LEMMA ListActivitiesStep == ASSUME MarkInv, S!ListActivities PROVE MarkInv'
<1>. DEFINE todo == {r \in Recs : S!Matched(ticker.listed[r], ticker.now) /\ S!HasMarker /\ S!Unmarked(r)}
<1>1. ticker' = [ticker EXCEPT !.pc = "records", !.todo = todo]
  BY DEF S!ListActivities
<1>2. ticker.pc = "listed" /\ ticker.rec = NoRec
  BY DEF S!ListActivities, MarkInv, S!TypeOK
<1>3. todo \subseteq Recs
  OBVIOUS
<1>. HIDE DEF todo
<1>4. S!TypeOK'
  BY <1>1, <1>2, <1>3, TickerTyped DEF S!ListActivities, MarkInv, S!TypeOK, S!ghosts, S!bounds
<1>5. ticker'.pc = "records" /\ ticker'.rec = NoRec /\ ticker'.todo = todo /\ ticker'.listed = ticker.listed
  BY <1>1, <1>2 DEF MarkInv, S!TypeOK
<1>6. Queued'
  BY <1>5, TickerTyped DEF todo, S!ListActivities, Queued, TextOf, S!Unmarked, S!Matched
<1>. QED BY <1>4, <1>5, <1>6 DEF S!ListActivities, S!ghosts, MarkInv, Running, Counted

LEMMA NextRecordStep == ASSUME MarkInv, NEW r \in Recs, S!NextRecord(r) PROVE MarkInv'
<1>1. /\ ticker'.pc = "rules" /\ ticker'.todo = ticker.todo \ {r} /\ ticker'.rec = r /\ ticker'.next = 1
      /\ ticker'.listed = ticker.listed /\ ticker'.now = ticker.now
  BY DEF S!NextRecord, MarkInv, S!TypeOK
<1>2. 1 \in 1 .. Len(Rules)
  BY ConstantsDeclared
<1>3. S!TypeOK'
  BY <1>2 DEF S!NextRecord, MarkInv, S!TypeOK, S!ghosts, S!bounds
<1>4. Queued'
  BY <1>1 DEF S!NextRecord, MarkInv, Queued, TextOf
<1>5. Running'
  BY <1>1 DEF S!NextRecord, MarkInv, Queued, Running, TextOf, S!Text, S!Listed, Past
<1>. QED BY <1>3, <1>4, <1>5 DEF S!NextRecord, S!ghosts, MarkInv, Counted

\* The text of the record in hand is one of Texts.
LEMMA TextInHand ==
    ASSUME MarkInv, ticker.pc = "rules"
    PROVE  S!Text \in S!Texts /\ S!Listed \in S!Rows /\ ticker.rec \in Recs
BY TextTyped, TickerTyped DEF MarkInv, Running, S!Text, S!Listed

\* A service has run, whether or not it did anything: the next rule, or the next record.
LEMMA RuleStep ==
    ASSUME MarkInv, ticker.pc = "rules", S!NextRule, S!TypeOK', Counted',
           \A x \in S!Texts \ {S!Text} : marks'[x] = marks[x],
           ~S!At("log") => marks'[S!Text] = marks[S!Text] /\ missed'[S!Text] = missed[S!Text],
           S!At("log") => marks'[S!Text] + missed'[S!Text] = marks[S!Text] + missed[S!Text] + 1,
           ~S!At("tell") => told'[S!Text] = told[S!Text]
    PROVE  MarkInv'
<1>1. Queued'
  <2>1. ASSUME NEW r \in ticker.todo
        PROVE  ticker'.listed[r] \in S!Rows /\ marks'[TextOf(r)] = 0
    <3>1. r \in Recs /\ r # ticker.rec /\ ticker.listed[r] \in S!Rows
      BY <2>1, TickerTyped DEF MarkInv, Queued
    <3>2. TextOf(r) \in S!Texts \ {S!Text}
      BY <3>1, TextTyped DEF TextOf, S!Text
    <3>. QED BY <3>1, <3>2, NextRuleEffect DEF MarkInv, Queued
  <2>. QED BY <2>1, NextRuleEffect, TickerTyped DEF MarkInv, Queued, TextOf
<1>2. Running'
  <2>1. SUFFICES ASSUME ticker'.pc = "rules" PROVE Running'
    BY DEF Running
  <2>2. ticker'.rec = ticker.rec /\ ticker'.listed = ticker.listed /\ ticker'.next = ticker.next + 1
    BY <2>1, NextRuleEffect
  <2>3. S!Text' = S!Text
    BY <2>2 DEF S!Text, S!Listed
  <2>4. /\ Past("log")' <=> Past("log") \/ S!At("log")
        /\ Past("tell")' <=> Past("tell") \/ S!At("tell")
    BY <2>2, PastNext DEF MarkInv
  <2>5. /\ S!Text \in S!Texts
        /\ marks[S!Text] \in Nat /\ missed[S!Text] \in Nat /\ told[S!Text] \in Nat
        /\ marks'[S!Text] \in Nat /\ missed'[S!Text] \in Nat /\ told'[S!Text] \in Nat
    BY TextInHand DEF MarkInv, S!TypeOK
  <2>6. /\ ticker.listed[ticker.rec] \in S!Rows
        /\ ~Past("log") => marks[S!Text] = 0
        /\ Past("log") /\ ~Past("tell") => told[S!Text] < marks[S!Text] + missed[S!Text]
        /\ told[S!Text] <= marks[S!Text] + missed[S!Text]
    BY <2>5 DEF MarkInv, Running, Counted
  <2>7. ~Past("log")' => marks'[S!Text] = 0
    BY <2>4, <2>6
  <2>8. Past("log")' /\ ~Past("tell")' => told'[S!Text] < marks'[S!Text] + missed'[S!Text]
    BY <2>4, <2>5, <2>6
  <2>9. S!Text' \in S!Texts
    BY <2>3, <2>5
  <2>. QED BY <2>2, <2>3, <2>6, <2>7, <2>8 DEF Running
<1>. QED BY <1>1, <1>2 DEF MarkInv

LEMMA LogActivityStep == ASSUME MarkInv, S!LogActivity PROVE MarkInv'
<1>1. ticker.pc = "rules" /\ S!NextRule /\ S!At("log") /\ ~S!At("tell") /\ marks' = [marks EXCEPT ![S!Text] = @ + 1]
  BY DEF S!LogActivity, S!At
<1>2. ~Past("log") /\ S!Text \in S!Texts
  BY <1>1, RulesInTurn, TextInHand DEF MarkInv
<1>3. marks[S!Text] = 0
  BY <1>1, <1>2 DEF MarkInv, Running
<1>4. /\ S!Text \in S!Texts /\ marks[S!Text] = 0
      /\ marks' = [marks EXCEPT ![S!Text] = 1]
  BY <1>1, <1>2, <1>3, 0 + 1 = 1
<1>5. marks' \in [S!Texts -> Nat]
  BY <1>4 DEF MarkInv, S!TypeOK
<1>6. S!TypeOK'
  BY <1>1, <1>5, NextRuleEffect DEF S!LogActivity, MarkInv, S!TypeOK, S!ghosts, S!bounds
<1>7. Counted'
  <2>1. ASSUME NEW x \in S!Texts PROVE marks'[x] <= 1 /\ told'[x] <= marks'[x] + missed'[x]
    BY <1>4, <2>1 DEF S!LogActivity, MarkInv, S!TypeOK, Counted, S!ghosts
  <2>. QED BY <2>1 DEF Counted
<1>8. \A x \in S!Texts \ {S!Text} : marks'[x] = marks[x]
  BY <1>4 DEF MarkInv, S!TypeOK
<1>9. marks'[S!Text] + missed'[S!Text] = marks[S!Text] + missed[S!Text] + 1 /\ told'[S!Text] = told[S!Text]
  BY <1>4 DEF S!LogActivity, MarkInv, S!TypeOK, S!ghosts
<1>. QED BY <1>1, <1>6, <1>7, <1>8, <1>9, RuleStep

LEMMA SetFieldStep == ASSUME MarkInv, S!SetField PROVE MarkInv'
<1>1. ticker.pc = "rules" /\ S!NextRule /\ ~S!At("log") /\ ~S!At("tell")
  BY DEF S!SetField, S!At
<1>2. row' \in [Recs -> S!Rows \cup {NoRow}] /\ \A r \in Recs \ born : row'[r] = NoRow
  <2>1. [S!Listed EXCEPT !.status = "late"] \in S!Rows
    BY <1>1, TextInHand DEF S!Rows
  <2>2. CASE S!Listed.status = "late" \/ row[ticker.rec] = NoRow
    BY <2>2 DEF S!SetField, MarkInv, S!TypeOK
  <2>3. CASE ~(S!Listed.status = "late" \/ row[ticker.rec] = NoRow)
    <3>1. row' = [row EXCEPT ![ticker.rec] = [S!Listed EXCEPT !.status = "late"]] /\ row[ticker.rec] # NoRow
      BY <2>3 DEF S!SetField
    <3>. QED BY <2>1, <3>1, <1>1, TextInHand DEF MarkInv, S!TypeOK
  <2>. QED BY <2>2, <2>3
<1>3. S!TypeOK'
  BY <1>1, <1>2, NextRuleEffect DEF S!SetField, MarkInv, S!TypeOK, S!ghosts, S!bounds
<1>4. Counted'
  BY DEF S!SetField, MarkInv, Counted, S!ghosts
<1>5. UNCHANGED <<marks, missed, told>>
  BY DEF S!SetField, S!ghosts
<1>. QED BY <1>1, <1>3, <1>4, <1>5, RuleStep

LEMMA SendNotificationStep == ASSUME MarkInv, S!SendNotification PROVE MarkInv'
<1>1. ticker.pc = "rules" /\ S!NextRule /\ ~S!At("log") /\ S!At("tell") /\ told' = [told EXCEPT ![S!Text] = @ + 1]
  BY DEF S!SendNotification, S!At
<1>2. told[S!Text] < marks[S!Text] + missed[S!Text] /\ S!Text \in S!Texts
  BY <1>1, RulesInTurn, TextInHand DEF MarkInv, Running
<1>3. told' \in [S!Texts -> Nat]
  BY <1>1, <1>2 DEF MarkInv, S!TypeOK
<1>4. S!TypeOK'
  BY <1>1, <1>3, NextRuleEffect DEF S!SendNotification, MarkInv, S!TypeOK, S!bounds
<1>5. Counted'
  <2>1. ASSUME NEW x \in S!Texts PROVE marks'[x] <= 1 /\ told'[x] <= marks'[x] + missed'[x]
    <3>1. marks'[x] = marks[x] /\ missed'[x] = missed[x] /\ marks[x] <= 1 /\ told[x] <= marks[x] + missed[x]
      BY DEF S!SendNotification, MarkInv, Counted
    <3>2. told'[x] = IF x = S!Text THEN told[x] + 1 ELSE told[x]
      BY <1>1 DEF MarkInv, S!TypeOK
    <3>3. told[x] \in Nat /\ marks[x] \in Nat /\ missed[x] \in Nat
      BY DEF MarkInv, S!TypeOK
    <3>. QED BY <1>2, <3>1, <3>2, <3>3
  <2>. QED BY <2>1 DEF Counted
<1>6. UNCHANGED <<marks, missed>>
  BY DEF S!SendNotification
<1>. QED BY <1>1, <1>4, <1>5, <1>6, RuleStep

LEMMA ServiceFailsStep == ASSUME MarkInv, S!ServiceFails PROVE MarkInv'
<1>0. MaxFails \in Nat
  BY ConstantsDeclared
<1>1. /\ ticker.pc = "rules" /\ S!NextRule
      /\ missed' = IF S!At("log") THEN [missed EXCEPT ![S!Text] = @ + 1] ELSE missed
      /\ UNCHANGED <<marks, told>>
  BY DEF S!ServiceFails
<1>2. S!Text \in S!Texts
  BY <1>1, TextInHand
<1>3. missed' \in [S!Texts -> Nat] /\ cut' \subseteq S!Texts /\ fails' \in 0 .. MaxFails
  BY <1>1, <1>2, <1>0 DEF S!ServiceFails, MarkInv, S!TypeOK
<1>4. S!TypeOK'
  BY <1>1, <1>3, NextRuleEffect DEF S!ServiceFails, MarkInv, S!TypeOK
<1>5. \A x \in S!Texts : missed[x] <= missed'[x]
  BY <1>1, <1>2 DEF MarkInv, S!TypeOK
<1>6. Counted'
  <2>1. ASSUME NEW x \in S!Texts PROVE marks'[x] <= 1 /\ told'[x] <= marks'[x] + missed'[x]
    <3>1. marks[x] \in Nat /\ told[x] \in Nat /\ missed[x] \in Nat /\ missed'[x] \in Nat
      BY <1>3 DEF MarkInv, S!TypeOK
    <3>2. marks[x] <= 1 /\ told[x] <= marks[x] + missed[x]
      BY DEF MarkInv, Counted
    <3>. QED BY <1>1, <1>5, <3>1, <3>2
  <2>. QED BY <2>1 DEF Counted
<1>7. S!At("log") => marks'[S!Text] + missed'[S!Text] = marks[S!Text] + missed[S!Text] + 1
  BY <1>1, <1>2 DEF MarkInv, S!TypeOK
<1>. QED BY <1>1, <1>4, <1>6, <1>7, RuleStep

-----------------------------------------------------------------------------
(* The theorems on them.                                                   *)

LEMMA MarkStep == MarkInv /\ [S!Next]_(S!vars) => MarkInv'
<1>1. SUFFICES ASSUME MarkInv, [S!Next]_(S!vars) PROVE MarkInv'
  OBVIOUS
<1>2. ASSUME NEW r \in Recs, S!Create(r) \/ S!Delete(r) \/ (\E u \in Users : S!BeginEdit(u, r)) PROVE MarkInv'
  BY <1>1, <1>2, NewRecordStep, DeleteStep, BeginEditStep
<1>3. ASSUME NEW u \in Users, S!WriteEdit(u) PROVE MarkInv'
  BY <1>1, <1>3, WriteEditStep
<1>4. CASE S!Tick
  BY <1>1, <1>4, ListStep, ListActivitiesStep, NextRecordStep, LogActivityStep, SetFieldStep, SendNotificationStep,
     EndTickStep DEF S!Tick, S!Service
<1>5. CASE UNCHANGED S!vars
  <2>1. S!TypeOK'
    BY <1>1, <1>5 DEF S!vars, S!ghosts, S!bounds, MarkInv, S!TypeOK
  <2>. QED BY <1>1, <1>5, <2>1, TickerApart DEF S!vars, S!ghosts
<1>. QED BY <1>1, <1>2, <1>3, <1>4, <1>5, TomorrowStep, ServiceFailsStep, ListingFailsStep, RulesCrashStep DEF S!Next

\* The inductive invariant holds of every behaviour of the scheduler.
THEOREM MarkInvariance ==
    ASSUME S!Declared, S!Orderly
    PROVE  S!Spec => []MarkInv
<1>1. S!Init => MarkInv
  BY MarkInit
<1>. QED BY <1>1, MarkStep, PTL DEF S!Spec

\* Every variable keeps its type: the ticker has a record in hand exactly while it runs its
\* rules (RunScheduledEvents), and a request the row it is to write (patchRecordForm).
THEOREM MarksTyped ==
    ASSUME S!Declared, S!Orderly
    PROVE  S!Spec => []S!TypeOK
<1>1. MarkInv => S!TypeOK
  BY DEF MarkInv
<1>. QED BY <1>1, MarkInvariance, PTL

\* A record's activity under one text is written once, and nobody is told of it twice unless the
\* mark could not be written, for any number of records, edits, failures and crashes
\* (activityExists), where each service is declared once and the one that logs before the one
\* that tells.
THEOREM Once ==
    ASSUME S!Declared, S!Orderly
    PROVE  S!Spec => []OncePerText
<1>1. Texts = S!Texts
  BY DEF Texts, Markers, Marker, Rows, Days, S!Texts, S!Markers, S!Marker, S!Rows, S!Days
<1>2. MarkInv => OncePerText
  <2>1. ASSUME MarkInv, NEW x \in S!Texts PROVE marks[x] <= 1 /\ told[x] <= 1 + missed[x]
    BY <2>1 DEF MarkInv, S!TypeOK, Counted
  <2>. QED BY <1>1, <2>1 DEF OncePerText
<1>. QED BY <1>2, MarkInvariance, PTL
=============================================================================
