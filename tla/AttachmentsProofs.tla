------------------------- MODULE AttachmentsProofs -------------------------
(***************************************************************************)
(* A proposal is saved once, a record's document is kept and no file is    *)
(* forgotten, for every number of requests and of files.                   *)
(*                                                                         *)
(* The argument: a file belongs to the request that stored it until the    *)
(* client is told of it or the request ends (OneOwner, ToldApart); its row *)
(* then is what the phase of that request says (PhaseOK).  Once it is told *)
(* of, only the holder of its row's lock can save or expire it, and only   *)
(* while it is proposed, when its file is there and no record has it       *)
(* (KeyOK).                                                                *)
(***************************************************************************)
EXTENDS Attachments, FiniteSetTheorems, TLAPS

\* The request that stored the file, and still has it in hand.
Owner(t) ==
    req[t].pc \in {"starting", "reading", "finishing", "removing", "failing", "uploaded", "answering", "discarding"}

OneOwner == \A t, u \in Requests : t # u /\ Owner(t) /\ Owner(u) => Key(t) # Key(u)

ToldApart == \A t \in Requests : Owner(t) => Key(t) \notin told

\* What a request's phase says of its file and of its row.
PhaseOK(t) ==
    /\ Key(t) # NoKey => Key(t) \in used
    /\ req[t].pc \in {"starting", "uploaded"} =>
          /\ Key(t) \in disk /\ Key(t) \notin sweep
          /\ row[Key(t)] = "none" /\ age[Key(t)] = "new" /\ made[Key(t)] = 0
    /\ req[t].pc \in {"reading", "finishing"} => Key(t) \in disk /\ row[Key(t)] = "reading"
    /\ At(t, "removing") => row[Key(t)] \in Open
    /\ req[t].pc \in {"reading", "finishing", "removing", "failing"} => age[Key(t)] = "new" /\ made[Key(t)] = 0
    /\ At(t, "failing") => Key(t) \notin disk \ left
    /\ req[t].pc \in {"marking", "committing"} => Key(t) \in told
    /\ At(t, "committing") => row[Key(t)] = "proposed" /\ holder[Key(t)] = t
    /\ req[t].pc \in {"answering", "discarding"} => row[Key(t)] = "none"
    /\ At(t, "answering") => made[Key(t)] > 0
    /\ At(t, "discarding") => made[Key(t)] = 0 \/ Key(t) \in cut

\* What a file's row says of the file and of the records that name it.
KeyOK(k) ==
    /\ k \notin used => /\ k \notin disk \cup told \cup sweep
                        /\ row[k] = "none" /\ age[k] = "new" /\ made[k] = 0
    /\ row[k] \in Open \cup {"failed"} => made[k] = 0
    /\ row[k] = "proposed" /\ k \in told => k \in disk
    /\ k \in sweep => row[k] = "none" /\ made[k] = 0

\* The sweep removes the files of one DELETE before it begins another.
OneSweep == sweep # {} => \A k \in Keys : holder[k] # Sweeper

\* Accounted, without the requests that only read a proposal.
Owned ==
    \A k \in disk : row[k] \in Open \/ made[k] > 0 \/ k \in sweep \cup left
                        \/ \E t \in Requests : Key(t) = k /\ Owner(t)

Phased == \A t \in Requests : PhaseOK(t)
Keyed == \A k \in Keys : KeyOK(k)

IInv == TypeOK /\ OneOwner /\ ToldApart /\ Phased /\ Keyed /\ OneSweep /\ Owned /\ SavedOnce /\ DocumentKept

-----------------------------------------------------------------------------
(* Lemmas.                                                                 *)

\* A request that goes on keeps its file; the others are where they were.
LEMMA GoEffect ==
    ASSUME TypeOK, NEW t \in Requests, NEW pc \in Phases, Go(t, pc)
    PROVE  /\ req'[t].pc = pc /\ req'[t].key = Key(t)
           /\ \A u \in Requests \ {t} : req'[u] = req[u]
           /\ req' \in [Requests -> [pc : Phases, key : Keys \cup {NoKey}]]
BY DEF TypeOK, Go, Key

LEMMA EndEffect ==
    ASSUME TypeOK, NEW t \in Requests, End(t)
    PROVE  /\ req'[t].pc = "idle" /\ req'[t].key = NoKey
           /\ \A u \in Requests \ {t} : req'[u] = req[u]
           /\ req' \in [Requests -> [pc : Phases, key : Keys \cup {NoKey}]]
BY DEF TypeOK, End, Idle, Phases

\* A file is removed, or stays and is known to have been left.
LEMMA RemoveEffect ==
    ASSUME TypeOK, NEW k \in Keys, Remove(k)
    PROVE  /\ disk' \subseteq disk /\ disk \ {k} \subseteq disk'
           /\ left \subseteq left' /\ left' \subseteq left \cup {k}
           /\ k \notin disk' \ left'
           /\ disk' \subseteq Keys /\ left' \subseteq Keys
BY DEF TypeOK, Remove

\* The requests keep their types when one that is not about to commit moves on.
LEMMA RequestsTyped ==
    ASSUME TypeOK, NEW t \in Requests, ~At(t, "committing"), UNCHANGED holder,
           \A u \in Requests \ {t} : req'[u] = req[u],
           req'[t].key = NoKey <=> req'[t].pc \in {"idle", "storing", "uploading"}
    PROVE  /\ \A u \in Requests : req'[u].key = NoKey <=> req'[u].pc \in {"idle", "storing", "uploading"}
           /\ \A k \in Keys, u \in Requests : holder'[k] = u => req'[u] = [pc |-> "committing", key |-> k]
BY DEF TypeOK, At

-----------------------------------------------------------------------------
(* The steps.                                                              *)

LEMMA AdmitStep == ASSUME IInv, NEW t \in Requests, Admit(t) PROVE IInv'
<1>1. /\ At(t, "idle")
      /\ UNCHANGED <<disk, row, age, holder, told, sweep, used, made, gone, cut, left, crashes>>
  BY DEF Admit, database, ghosts
<1>2. /\ req'[t].pc = "storing" /\ req'[t].key = Key(t)
      /\ \A u \in Requests \ {t} : req'[u] = req[u]
      /\ req' \in [Requests -> [pc : Phases, key : Keys \cup {NoKey}]]
  BY GoEffect DEF IInv, Admit, Phases
<1>3. TypeOK'
  BY <1>1, <1>2, AttachmentsAssumption DEF IInv, TypeOK, Phases, Statuses, Open, At, Key
<1>4. OneOwner' /\ ToldApart'
  BY <1>1, <1>2 DEF IInv, OneOwner, ToldApart, Owner, Key, At
<1>5. Phased'
  BY <1>1, <1>2 DEF IInv, TypeOK, Phased, PhaseOK, OneOwner, ToldApart, Owner, Keyed, KeyOK, Key, At, Open
<1>6. Keyed' /\ OneSweep'
  BY <1>1, <1>2 DEF IInv, TypeOK, Keyed, KeyOK, OneSweep, Phased, PhaseOK, OneOwner, ToldApart, Owner, Key, At, Open
<1>7. Owned'
  BY <1>1, <1>2 DEF IInv, TypeOK, Owned, Owner, Phased, PhaseOK, Keyed, KeyOK, Key, At, Open
<1>8. SavedOnce' /\ DocumentKept'
  BY <1>1, <1>2 DEF IInv, TypeOK, SavedOnce, DocumentKept, Phased, PhaseOK, Keyed, KeyOK, Key, At, Open
<1>. QED BY <1>3, <1>4, <1>5, <1>6, <1>7, <1>8 DEF IInv

LEMMA BeginUploadStep == ASSUME IInv, NEW t \in Requests, BeginUpload(t) PROVE IInv'
<1>1. /\ At(t, "idle")
      /\ UNCHANGED <<disk, row, age, holder, told, sweep, used, made, gone, cut, left, crashes>>
  BY DEF BeginUpload, database, ghosts
<1>2. /\ req'[t].pc = "uploading" /\ req'[t].key = Key(t)
      /\ \A u \in Requests \ {t} : req'[u] = req[u]
      /\ req' \in [Requests -> [pc : Phases, key : Keys \cup {NoKey}]]
  BY GoEffect DEF IInv, BeginUpload, Phases
<1>3. TypeOK'
  BY <1>1, <1>2, AttachmentsAssumption DEF IInv, TypeOK, Phases, Statuses, Open, At, Key
<1>4. OneOwner' /\ ToldApart'
  BY <1>1, <1>2 DEF IInv, OneOwner, ToldApart, Owner, Key, At
<1>5. Phased'
  BY <1>1, <1>2 DEF IInv, TypeOK, Phased, PhaseOK, OneOwner, ToldApart, Owner, Keyed, KeyOK, Key, At, Open
<1>6. Keyed' /\ OneSweep'
  BY <1>1, <1>2 DEF IInv, TypeOK, Keyed, KeyOK, OneSweep, Phased, PhaseOK, OneOwner, ToldApart, Owner, Key, At, Open
<1>7. Owned'
  BY <1>1, <1>2 DEF IInv, TypeOK, Owned, Owner, Phased, PhaseOK, Keyed, KeyOK, Key, At, Open
<1>8. SavedOnce' /\ DocumentKept'
  BY <1>1, <1>2 DEF IInv, TypeOK, SavedOnce, DocumentKept, Phased, PhaseOK, Keyed, KeyOK, Key, At, Open
<1>. QED BY <1>3, <1>4, <1>5, <1>6, <1>7, <1>8 DEF IInv

LEMMA StoreStep == ASSUME IInv, NEW t \in Requests, NEW next \in {"starting", "uploaded"}, req[t].pc \in {"storing", "uploading"}, Store(t, next) PROVE IInv'
<1>1. PICK k \in Keys \ used :
        /\ used' = used \cup {k} /\ disk' = disk \cup {k}
        /\ \/ req' = [req EXCEPT ![t] = [pc |-> next, key |-> k]] /\ UNCHANGED left
           \/ End(t) /\ left' = left \cup {k}
        /\ UNCHANGED <<row, age, holder, told, sweep, made, gone, cut, crashes>>
  BY DEF Store, database
<1>2. /\ \A u \in Requests \ {t} : req'[u] = req[u]
      /\ req' \in [Requests -> [pc : Phases, key : Keys \cup {NoKey}]]
      /\ \/ req'[t] = [pc |-> next, key |-> k] /\ UNCHANGED left
         \/ req'[t].pc = "idle" /\ req'[t].key = NoKey /\ left' = left \cup {k}
  BY <1>1, EndEffect DEF IInv, TypeOK, Phases
<1>3. TypeOK'
  BY <1>1, <1>2, AttachmentsAssumption DEF IInv, TypeOK, Phases, Statuses, Open, At, Key, Phased, PhaseOK
<1>4. OneOwner' /\ ToldApart'
  <2>1. k \notin told /\ \A u \in Requests : Key(u) # k
    BY <1>1, AttachmentsAssumption DEF IInv, TypeOK, Keyed, KeyOK, Phased, PhaseOK
  <2>. QED BY <1>1, <1>2, <2>1 DEF IInv, OneOwner, ToldApart, Owner, Key
<1>5. Phased'
  BY <1>1, <1>2 DEF IInv, TypeOK, Phased, PhaseOK, OneOwner, ToldApart, Owner, Keyed, KeyOK, Key, At, Open
<1>6. Keyed' /\ OneSweep'
  BY <1>1, <1>2 DEF IInv, TypeOK, Keyed, KeyOK, OneSweep, Phased, PhaseOK, OneOwner, ToldApart, Owner, Key, At, Open
<1>7. Owned'
  BY <1>1, <1>2 DEF IInv, TypeOK, Owned, Owner, Phased, PhaseOK, Keyed, KeyOK, Key, At, Open
<1>8. SavedOnce' /\ DocumentKept'
  BY <1>1, <1>2 DEF IInv, TypeOK, SavedOnce, DocumentKept, Phased, PhaseOK, Keyed, KeyOK, Key, At, Open
<1>. QED BY <1>3, <1>4, <1>5, <1>6, <1>7, <1>8 DEF IInv

LEMMA StartExtractionStep == ASSUME IInv, NEW t \in Requests, StartExtraction(t) PROVE IInv'
<1>1. /\ At(t, "starting")
      /\ row' = [row EXCEPT ![Key(t)] = "reading"]
      /\ UNCHANGED <<disk, age, holder, told, sweep, used, made, gone, cut, left, crashes>>
  BY DEF StartExtraction, database, ghosts
<1>2. /\ req'[t].pc = "reading" /\ req'[t].key = Key(t)
      /\ \A u \in Requests \ {t} : req'[u] = req[u]
      /\ req' \in [Requests -> [pc : Phases, key : Keys \cup {NoKey}]]
  BY GoEffect DEF IInv, StartExtraction, Phases
<1>3. TypeOK'
  <2>1. row' \in [Keys -> Statuses] /\ \A k \in Keys : row[k] \in Open => row'[k] \in Open
    BY <1>1 DEF IInv, TypeOK, Statuses, Open
  <2>2. req'[t].key = NoKey <=> req'[t].pc \in {"idle", "storing", "uploading"}
    BY <1>1, <1>2 DEF IInv, TypeOK, At, Key
  <2>3. ~At(t, "committing")
    BY <1>1 DEF At
  <2>. QED BY <1>1, <1>2, <2>1, <2>2, <2>3, RequestsTyped DEF IInv, TypeOK
<1>4. OneOwner' /\ ToldApart'
  BY <1>1, <1>2 DEF IInv, OneOwner, ToldApart, Owner, Key, At
<1>5. Phased'
  BY <1>1, <1>2 DEF IInv, TypeOK, Phased, PhaseOK, OneOwner, ToldApart, Owner, Keyed, KeyOK, Key, At, Open
<1>6. Keyed' /\ OneSweep'
  BY <1>1, <1>2 DEF IInv, TypeOK, Keyed, KeyOK, OneSweep, Phased, PhaseOK, OneOwner, ToldApart, Owner, Key, At, Open
<1>7. Owned'
  BY <1>1, <1>2 DEF IInv, TypeOK, Owned, Owner, Phased, PhaseOK, Keyed, KeyOK, Key, At, Open
<1>8. SavedOnce' /\ DocumentKept'
  BY <1>1, <1>2 DEF IInv, TypeOK, SavedOnce, DocumentKept, Phased, PhaseOK, Keyed, KeyOK, Key, At, Open
<1>. QED BY <1>3, <1>4, <1>5, <1>6, <1>7, <1>8 DEF IInv

LEMMA StartFailsStep == ASSUME IInv, NEW t \in Requests, StartFails(t) PROVE IInv'
<1>1. /\ At(t, "starting") /\ Key(t) \in Keys
      /\ Remove(Key(t))
      /\ UNCHANGED row \/ row' = [row EXCEPT ![Key(t)] = "reading"]
      /\ UNCHANGED <<age, holder, told, sweep, used, made, gone, cut, crashes>>
  BY DEF IInv, TypeOK, StartFails, Key, At
<1>2. /\ req'[t].pc = "idle" /\ req'[t].key = NoKey
      /\ \A u \in Requests \ {t} : req'[u] = req[u]
      /\ req' \in [Requests -> [pc : Phases, key : Keys \cup {NoKey}]]
  BY EndEffect DEF IInv, StartFails
<1>3. TypeOK'
  <2>1. row' \in [Keys -> Statuses] /\ \A k \in Keys : row[k] \in Open => row'[k] \in Open
    BY <1>1 DEF IInv, TypeOK, Statuses, Open
  <2>2. disk' \subseteq Keys /\ left' \subseteq Keys
    BY <1>1, RemoveEffect DEF IInv, TypeOK
  <2>3. ~At(t, "committing")
    BY <1>1 DEF At
  <2>. QED BY <1>1, <1>2, <2>1, <2>2, <2>3, RequestsTyped DEF IInv, TypeOK
<1>4. OneOwner' /\ ToldApart'
  BY <1>1, <1>2, RemoveEffect DEF IInv, OneOwner, ToldApart, Owner, Key, At
<1>5. Phased'
  BY <1>1, <1>2, RemoveEffect DEF IInv, TypeOK, Phased, PhaseOK, OneOwner, ToldApart, Owner, Keyed, KeyOK, Key, At, Open
<1>6. Keyed' /\ OneSweep'
  BY <1>1, <1>2, RemoveEffect DEF IInv, TypeOK, Keyed, KeyOK, OneSweep, Phased, PhaseOK, OneOwner, ToldApart, Owner, Key, At, Open
<1>7. Owned'
  BY <1>1, <1>2, RemoveEffect DEF IInv, TypeOK, Owned, Owner, Phased, PhaseOK, Keyed, KeyOK, Key, At, Open
<1>8. SavedOnce' /\ DocumentKept'
  BY <1>1, <1>2, RemoveEffect DEF IInv, TypeOK, SavedOnce, DocumentKept, Phased, PhaseOK, Keyed, KeyOK, Key, At, Open
<1>. QED BY <1>3, <1>4, <1>5, <1>6, <1>7, <1>8 DEF IInv

LEMMA ReaderAnswersStep == ASSUME IInv, NEW t \in Requests, ReaderAnswers(t) PROVE IInv'
<1>1. /\ At(t, "reading")
      /\ UNCHANGED <<disk, row, age, holder, told, sweep, used, made, gone, cut, left, crashes>>
  BY DEF ReaderAnswers, database, ghosts
<1>2. /\ req'[t].pc \in {"finishing", "removing"} /\ req'[t].key = Key(t)
      /\ \A u \in Requests \ {t} : req'[u] = req[u]
      /\ req' \in [Requests -> [pc : Phases, key : Keys \cup {NoKey}]]
  BY GoEffect DEF IInv, ReaderAnswers, Phases
<1>3. TypeOK'
  BY <1>1, <1>2, AttachmentsAssumption DEF IInv, TypeOK, Phases, Statuses, Open, At, Key
<1>4. OneOwner' /\ ToldApart'
  BY <1>1, <1>2 DEF IInv, OneOwner, ToldApart, Owner, Key, At
<1>5. Phased'
  BY <1>1, <1>2 DEF IInv, TypeOK, Phased, PhaseOK, OneOwner, ToldApart, Owner, Keyed, KeyOK, Key, At, Open
<1>6. Keyed' /\ OneSweep'
  BY <1>1, <1>2 DEF IInv, TypeOK, Keyed, KeyOK, OneSweep, Phased, PhaseOK, OneOwner, ToldApart, Owner, Key, At, Open
<1>7. Owned'
  BY <1>1, <1>2 DEF IInv, TypeOK, Owned, Owner, Phased, PhaseOK, Keyed, KeyOK, Key, At, Open
<1>8. SavedOnce' /\ DocumentKept'
  BY <1>1, <1>2 DEF IInv, TypeOK, SavedOnce, DocumentKept, Phased, PhaseOK, Keyed, KeyOK, Key, At, Open
<1>. QED BY <1>3, <1>4, <1>5, <1>6, <1>7, <1>8 DEF IInv

LEMMA FinishExtractionStep == ASSUME IInv, NEW t \in Requests, FinishExtraction(t) PROVE IInv'
<1>1. /\ At(t, "finishing") /\ row[Key(t)] = "reading" /\ Key(t) \in Keys
      /\ UNCHANGED <<disk, age, holder, sweep, used, made, gone, cut, left, crashes>>
  BY DEF IInv, TypeOK, Phased, PhaseOK, FinishExtraction, Key, At, ghosts
<1>2. row' = [row EXCEPT ![Key(t)] = "proposed"]
  BY <1>1 DEF IInv, TypeOK, FinishExtraction
<1>3. /\ \A u \in Requests \ {t} : req'[u] = req[u]
      /\ req' \in [Requests -> [pc : Phases, key : Keys \cup {NoKey}]]
      /\ \/ req'[t].pc = "idle" /\ req'[t].key = NoKey /\ told' = told \cup {Key(t)}
         \/ req'[t].pc = "removing" /\ req'[t].key = Key(t) /\ UNCHANGED told
  BY GoEffect, EndEffect DEF IInv, FinishExtraction, Phases
<1>4. TypeOK'
  <2>1. \A u \in Requests : req'[u].key = NoKey <=> req'[u].pc \in {"idle", "storing", "uploading"}
    BY <1>1, <1>3, AttachmentsAssumption DEF IInv, TypeOK, At, Key
  <2>. QED BY <1>1, <1>2, <1>3, <2>1 DEF IInv, TypeOK, Statuses, Open, At, Key
<1>5. OneOwner' /\ ToldApart'
  BY <1>1, <1>2, <1>3 DEF IInv, OneOwner, ToldApart, Owner, Key, At
<1>6. Phased'
  BY <1>1, <1>2, <1>3 DEF IInv, TypeOK, Phased, PhaseOK, OneOwner, ToldApart, Owner, Keyed, KeyOK, Key, At, Open
<1>7. Keyed' /\ OneSweep'
  BY <1>1, <1>2, <1>3 DEF IInv, TypeOK, Keyed, KeyOK, OneSweep, Phased, PhaseOK, OneOwner, ToldApart, Owner, Key, At, Open
<1>8. Owned'
  BY <1>1, <1>2, <1>3 DEF IInv, TypeOK, Owned, Owner, Phased, PhaseOK, Keyed, KeyOK, Key, At, Open
<1>9. SavedOnce' /\ DocumentKept'
  BY <1>1, <1>2, <1>3 DEF IInv, TypeOK, SavedOnce, DocumentKept, Phased, PhaseOK, Keyed, KeyOK, Key, At, Open
<1>. QED BY <1>4, <1>5, <1>6, <1>7, <1>8, <1>9 DEF IInv

LEMMA FinishFailsStep == ASSUME IInv, NEW t \in Requests, FinishFails(t) PROVE IInv'
<1>1. /\ At(t, "finishing")
      /\ UNCHANGED <<disk, row, age, holder, told, sweep, used, made, gone, cut, left, crashes>>
  BY DEF FinishFails, database, ghosts
<1>2. /\ req'[t].pc = "removing" /\ req'[t].key = Key(t)
      /\ \A u \in Requests \ {t} : req'[u] = req[u]
      /\ req' \in [Requests -> [pc : Phases, key : Keys \cup {NoKey}]]
  BY GoEffect DEF IInv, FinishFails, Phases
<1>3. TypeOK'
  BY <1>1, <1>2, AttachmentsAssumption DEF IInv, TypeOK, Phases, Statuses, Open, At, Key
<1>4. OneOwner' /\ ToldApart'
  BY <1>1, <1>2 DEF IInv, OneOwner, ToldApart, Owner, Key, At
<1>5. Phased'
  BY <1>1, <1>2 DEF IInv, TypeOK, Phased, PhaseOK, OneOwner, ToldApart, Owner, Keyed, KeyOK, Key, At, Open
<1>6. Keyed' /\ OneSweep'
  BY <1>1, <1>2 DEF IInv, TypeOK, Keyed, KeyOK, OneSweep, Phased, PhaseOK, OneOwner, ToldApart, Owner, Key, At, Open
<1>7. Owned'
  BY <1>1, <1>2 DEF IInv, TypeOK, Owned, Owner, Phased, PhaseOK, Keyed, KeyOK, Key, At, Open
<1>8. SavedOnce' /\ DocumentKept'
  BY <1>1, <1>2 DEF IInv, TypeOK, SavedOnce, DocumentKept, Phased, PhaseOK, Keyed, KeyOK, Key, At, Open
<1>. QED BY <1>3, <1>4, <1>5, <1>6, <1>7, <1>8 DEF IInv

LEMMA RemoveDocumentStep == ASSUME IInv, NEW t \in Requests, RemoveDocument(t) PROVE IInv'
<1>1. /\ At(t, "removing") /\ Key(t) \in Keys
      /\ Remove(Key(t))
      /\ UNCHANGED <<row, age, holder, told, sweep, used, made, gone, cut, crashes>>
  BY DEF IInv, TypeOK, RemoveDocument, Key, At, database
<1>2. /\ req'[t].pc = "failing" /\ req'[t].key = Key(t)
      /\ \A u \in Requests \ {t} : req'[u] = req[u]
      /\ req' \in [Requests -> [pc : Phases, key : Keys \cup {NoKey}]]
  BY GoEffect DEF IInv, RemoveDocument, Phases
<1>3. TypeOK'
  BY <1>1, <1>2, RemoveEffect, AttachmentsAssumption DEF IInv, TypeOK, Phases, Statuses, Open, At, Key
<1>4. OneOwner' /\ ToldApart'
  BY <1>1, <1>2, RemoveEffect DEF IInv, OneOwner, ToldApart, Owner, Key, At
<1>5. Phased'
  BY <1>1, <1>2, RemoveEffect DEF IInv, TypeOK, Phased, PhaseOK, OneOwner, ToldApart, Owner, Keyed, KeyOK, Key, At, Open
<1>6. Keyed' /\ OneSweep'
  BY <1>1, <1>2, RemoveEffect DEF IInv, TypeOK, Keyed, KeyOK, OneSweep, Phased, PhaseOK, OneOwner, ToldApart, Owner, Key, At, Open
<1>7. Owned'
  BY <1>1, <1>2, RemoveEffect DEF IInv, TypeOK, Owned, Owner, Phased, PhaseOK, Keyed, KeyOK, Key, At, Open
<1>8. SavedOnce' /\ DocumentKept'
  BY <1>1, <1>2, RemoveEffect DEF IInv, TypeOK, SavedOnce, DocumentKept, Phased, PhaseOK, Keyed, KeyOK, Key, At, Open
<1>. QED BY <1>3, <1>4, <1>5, <1>6, <1>7, <1>8 DEF IInv

LEMMA FailExtractionStep == ASSUME IInv, NEW t \in Requests, FailExtraction(t) PROVE IInv'
<1>1. /\ At(t, "failing") /\ Key(t) \in Keys
      /\ \/ UNCHANGED row
         \/ row' = [row EXCEPT ![Key(t)] = IF @ = "reading" THEN "failed" ELSE @]
      /\ UNCHANGED <<disk, age, holder, told, sweep, used, made, gone, cut, left, crashes>>
  BY DEF IInv, TypeOK, FailExtraction, Key, At, ghosts
<1>2. /\ req'[t].pc = "idle" /\ req'[t].key = NoKey
      /\ \A u \in Requests \ {t} : req'[u] = req[u]
      /\ req' \in [Requests -> [pc : Phases, key : Keys \cup {NoKey}]]
  BY EndEffect DEF IInv, FailExtraction
<1>3. TypeOK'
  <2>1. ~At(t, "committing")
    BY <1>1 DEF At
  <2>2. age[Key(t)] = "new"
    BY <1>1 DEF IInv, Phased, PhaseOK, At
  <2>3. \A k \in Keys : holder[k] = Sweeper => k # Key(t)
    BY <2>2 DEF IInv, TypeOK
  <2>4. row' \in [Keys -> Statuses] /\ \A k \in Keys \ {Key(t)} : row'[k] = row[k]
    BY <1>1 DEF IInv, TypeOK, Statuses
  <2>5. \A k \in Keys : holder'[k] = Sweeper => row'[k] \in Open /\ age'[k] = "kept"
    BY <1>1, <2>3, <2>4 DEF IInv, TypeOK
  <2>. QED BY <1>1, <1>2, <2>1, <2>4, <2>5, RequestsTyped DEF IInv, TypeOK
<1>4. OneOwner' /\ ToldApart'
  BY <1>1, <1>2 DEF IInv, OneOwner, ToldApart, Owner, Key, At
<1>5. Phased'
  BY <1>1, <1>2 DEF IInv, TypeOK, Phased, PhaseOK, OneOwner, ToldApart, Owner, Keyed, KeyOK, Key, At, Open
<1>6. Keyed' /\ OneSweep'
  BY <1>1, <1>2 DEF IInv, TypeOK, Keyed, KeyOK, OneSweep, Phased, PhaseOK, OneOwner, ToldApart, Owner, Key, At, Open
<1>7. Owned'
  <2>1. Key(t) \notin disk \ left
    BY <1>1 DEF IInv, Phased, PhaseOK
  <2>2. \A k \in Keys \ {Key(t)} : row'[k] = row[k]
    BY <1>1 DEF IInv, TypeOK
  <2>3. \A u \in Requests : Owner(u) /\ Key(u) # Key(t) => Owner(u)' /\ Key(u)' = Key(u)
    BY <1>2 DEF Owner, Key
  <2>. QED BY <1>1, <2>1, <2>2, <2>3 DEF IInv, TypeOK, Owned
<1>8. SavedOnce' /\ DocumentKept'
  BY <1>1, <1>2 DEF IInv, TypeOK, SavedOnce, DocumentKept, Phased, PhaseOK, Keyed, KeyOK, Key, At, Open
<1>. QED BY <1>3, <1>4, <1>5, <1>6, <1>7, <1>8 DEF IInv

LEMMA BeginSaveStep == ASSUME IInv, NEW t \in Requests, NEW k \in Keys, BeginSave(t, k) PROVE IInv'
<1>1. /\ At(t, "idle") /\ k \in told /\ row[k] = "proposed"
      /\ UNCHANGED <<disk, row, age, holder, told, sweep, used, made, gone, cut, left, crashes>>
  BY DEF BeginSave, database, ghosts
<1>2. /\ req'[t] = [pc |-> "marking", key |-> k]
      /\ \A u \in Requests \ {t} : req'[u] = req[u]
      /\ req' \in [Requests -> [pc : Phases, key : Keys \cup {NoKey}]]
  BY DEF IInv, TypeOK, BeginSave, Phases
<1>3. TypeOK'
  BY <1>1, <1>2, AttachmentsAssumption DEF IInv, TypeOK, Phases, Statuses, Open, At, Key, Phased, PhaseOK
<1>4. OneOwner' /\ ToldApart'
  BY <1>1, <1>2, AttachmentsAssumption DEF IInv, OneOwner, ToldApart, Owner, Key, At, TypeOK
<1>5. Phased'
  BY <1>1, <1>2 DEF IInv, TypeOK, Phased, PhaseOK, OneOwner, ToldApart, Owner, Keyed, KeyOK, Key, At, Open
<1>6. Keyed' /\ OneSweep'
  BY <1>1, <1>2 DEF IInv, TypeOK, Keyed, KeyOK, OneSweep, Phased, PhaseOK, OneOwner, ToldApart, Owner, Key, At, Open
<1>7. Owned'
  BY <1>1, <1>2 DEF IInv, TypeOK, Owned, Owner, Phased, PhaseOK, Keyed, KeyOK, Key, At, Open
<1>8. SavedOnce' /\ DocumentKept'
  BY <1>1, <1>2 DEF IInv, TypeOK, SavedOnce, DocumentKept, Phased, PhaseOK, Keyed, KeyOK, Key, At, Open
<1>. QED BY <1>3, <1>4, <1>5, <1>6, <1>7, <1>8 DEF IInv

LEMMA MarkExtractionSavedStep == ASSUME IInv, NEW t \in Requests, MarkExtractionSaved(t) PROVE IInv'
<1>1. /\ At(t, "marking") /\ Key(t) \in Keys /\ holder[Key(t)] = Nobody
      /\ UNCHANGED <<disk, row, age, told, sweep, used, made, gone, cut, left, crashes>>
  BY DEF IInv, TypeOK, MarkExtractionSaved, Key, At, ghosts
<1>2. /\ \A u \in Requests \ {t} : req'[u] = req[u]
      /\ req' \in [Requests -> [pc : Phases, key : Keys \cup {NoKey}]]
      /\ \/ /\ row[Key(t)] = "proposed" /\ holder' = [holder EXCEPT ![Key(t)] = t]
            /\ req'[t].pc = "committing" /\ req'[t].key = Key(t)
         \/ req'[t].pc = "idle" /\ req'[t].key = NoKey /\ UNCHANGED holder
  BY GoEffect, EndEffect DEF IInv, MarkExtractionSaved, Phases
<1>3. TypeOK'
  <2>1. \A u \in Requests : req'[u].key = NoKey <=> req'[u].pc \in {"idle", "storing", "uploading"}
    BY <1>1, <1>2, AttachmentsAssumption DEF IInv, TypeOK, Key
  <2>2. \A k \in Keys : holder[k] # t
    BY <1>1 DEF IInv, TypeOK, At
  <2>3. holder' \in [Keys -> Requests \cup {Sweeper, Nobody}]
    BY <1>1, <1>2 DEF IInv, TypeOK
  <2>4. \A k \in Keys, u \in Requests : holder'[k] = u => req'[u] = [pc |-> "committing", key |-> k]
    BY <1>1, <1>2, <2>2 DEF IInv, TypeOK
  <2>5. \A k \in Keys : holder'[k] = Sweeper => holder[k] = Sweeper
    BY <1>1, <1>2, AttachmentsAssumption DEF IInv, TypeOK
  <2>. QED BY <1>1, <1>2, <2>1, <2>3, <2>4, <2>5 DEF IInv, TypeOK
<1>4. OneOwner' /\ ToldApart'
  BY <1>1, <1>2 DEF IInv, OneOwner, ToldApart, Owner, Key, At
<1>5. Phased'
  BY <1>1, <1>2, AttachmentsAssumption DEF IInv, TypeOK, Phased, PhaseOK, OneOwner, ToldApart, Owner, Keyed, KeyOK, Key, At, Open
<1>6. Keyed' /\ OneSweep'
  BY <1>1, <1>2, AttachmentsAssumption DEF IInv, TypeOK, Keyed, KeyOK, OneSweep, Phased, PhaseOK, OneOwner, ToldApart, Owner, Key, At, Open
<1>7. Owned'
  BY <1>1, <1>2 DEF IInv, TypeOK, Owned, Owner, Phased, PhaseOK, Keyed, KeyOK, Key, At, Open
<1>8. SavedOnce' /\ DocumentKept'
  BY <1>1, <1>2 DEF IInv, TypeOK, SavedOnce, DocumentKept, Phased, PhaseOK, Keyed, KeyOK, Key, At, Open
<1>. QED BY <1>3, <1>4, <1>5, <1>6, <1>7, <1>8 DEF IInv

LEMMA CommitSaveStep == ASSUME IInv, NEW t \in Requests, CommitSave(t) PROVE IInv'
<1>1. /\ At(t, "committing") /\ Key(t) \in Keys
      /\ row' = [row EXCEPT ![Key(t)] = "saved"]
      /\ made' = [made EXCEPT ![Key(t)] = @ + 1]
      /\ holder' = [holder EXCEPT ![Key(t)] = Nobody]
      /\ UNCHANGED <<disk, age, told, sweep, used, gone, cut, left, crashes>>
  BY DEF IInv, TypeOK, CommitSave, Key, At, ghosts
<1>2. /\ req'[t].pc = "idle" /\ req'[t].key = NoKey
      /\ \A u \in Requests \ {t} : req'[u] = req[u]
      /\ req' \in [Requests -> [pc : Phases, key : Keys \cup {NoKey}]]
  BY EndEffect DEF IInv, CommitSave
<1>3. TypeOK'
  BY <1>1, <1>2, AttachmentsAssumption DEF IInv, TypeOK, Phases, Statuses, Open, At, Key, Phased, PhaseOK
<1>4. OneOwner' /\ ToldApart'
  BY <1>1, <1>2 DEF IInv, OneOwner, ToldApart, Owner, Key, At
<1>5. Phased'
  BY <1>1, <1>2, AttachmentsAssumption DEF IInv, TypeOK, Phased, PhaseOK, OneOwner, ToldApart, Owner, Keyed, KeyOK, Key, At, Open
<1>6. Keyed' /\ OneSweep'
  <2>1. row[Key(t)] = "proposed" /\ Key(t) \in told /\ holder[Key(t)] = t
    BY <1>1 DEF IInv, Phased, PhaseOK, At
  <2>2. Key(t) \in used /\ Key(t) \notin sweep
    BY <1>1, <2>1 DEF IInv, Keyed, KeyOK
  <2>3. \A k \in Keys \ {Key(t)} : row'[k] = row[k] /\ made'[k] = made[k] /\ holder'[k] = holder[k]
    BY <1>1 DEF IInv, TypeOK
  <2>4. row'[Key(t)] = "saved" /\ holder'[Key(t)] = Nobody
    BY <1>1 DEF IInv, TypeOK
  <2>5. Keyed'
    BY <1>1, <2>2, <2>3, <2>4 DEF IInv, Keyed, KeyOK, Open
  <2>6. OneSweep'
    BY <1>1, <2>3, <2>4, AttachmentsAssumption DEF IInv, OneSweep
  <2>. QED BY <2>5, <2>6
<1>7. Owned'
  <2>1. made'[Key(t)] > 0 /\ \A k \in Keys \ {Key(t)} : row'[k] = row[k] /\ made'[k] = made[k]
    BY <1>1 DEF IInv, TypeOK
  <2>2. \A u \in Requests : Owner(u) /\ Key(u) # Key(t) => Owner(u)' /\ Key(u)' = Key(u)
    BY <1>2 DEF Owner, Key
  <2>. QED BY <1>1, <2>1, <2>2 DEF IInv, TypeOK, Owned
<1>8. SavedOnce' /\ DocumentKept'
  BY <1>1, <1>2 DEF IInv, TypeOK, SavedOnce, DocumentKept, Phased, PhaseOK, Keyed, KeyOK, Key, At, Open
<1>. QED BY <1>3, <1>4, <1>5, <1>6, <1>7, <1>8 DEF IInv

LEMMA RollBackSaveStep == ASSUME IInv, NEW t \in Requests, RollBackSave(t) PROVE IInv'
<1>1. /\ req[t].pc \in {"marking", "committing"}
      /\ holder' = [k \in Keys |-> IF holder[k] = t THEN Nobody ELSE holder[k]]
      /\ UNCHANGED <<disk, row, age, told, sweep, used, made, gone, cut, left, crashes>>
  BY DEF RollBackSave, ghosts
<1>2. /\ req'[t].pc = "idle" /\ req'[t].key = NoKey
      /\ \A u \in Requests \ {t} : req'[u] = req[u]
      /\ req' \in [Requests -> [pc : Phases, key : Keys \cup {NoKey}]]
  BY EndEffect DEF IInv, RollBackSave
<1>3. TypeOK'
  BY <1>1, <1>2, AttachmentsAssumption DEF IInv, TypeOK, Phases, Statuses, Open, At, Key
<1>4. OneOwner' /\ ToldApart'
  BY <1>1, <1>2 DEF IInv, OneOwner, ToldApart, Owner, Key, At
<1>5. Phased'
  BY <1>1, <1>2, AttachmentsAssumption DEF IInv, TypeOK, Phased, PhaseOK, OneOwner, ToldApart, Owner, Keyed, KeyOK, Key, At, Open
<1>6. Keyed' /\ OneSweep'
  BY <1>1, <1>2, AttachmentsAssumption DEF IInv, TypeOK, Keyed, KeyOK, OneSweep, Phased, PhaseOK, OneOwner, ToldApart, Owner, Key, At, Open
<1>7. Owned'
  BY <1>1, <1>2 DEF IInv, TypeOK, Owned, Owner, Phased, PhaseOK, Keyed, KeyOK, Key, At, Open
<1>8. SavedOnce' /\ DocumentKept'
  BY <1>1, <1>2 DEF IInv, TypeOK, SavedOnce, DocumentKept, Phased, PhaseOK, Keyed, KeyOK, Key, At, Open
<1>. QED BY <1>3, <1>4, <1>5, <1>6, <1>7, <1>8 DEF IInv

LEMMA WriteRecordStep == ASSUME IInv, NEW t \in Requests, WriteRecord(t) PROVE IInv'
<1>1. /\ At(t, "uploaded") /\ Key(t) \in Keys
      /\ made' = [made EXCEPT ![Key(t)] = @ + 1]
      /\ UNCHANGED <<disk, row, age, holder, told, sweep, used, gone, left, crashes>>
  BY DEF IInv, TypeOK, WriteRecord, Key, At
<1>2. /\ \A u \in Requests \ {t} : req'[u] = req[u]
      /\ req' \in [Requests -> [pc : Phases, key : Keys \cup {NoKey}]]
      /\ req'[t].key = Key(t)
      /\ \/ req'[t].pc = "answering" /\ UNCHANGED cut
         \/ req'[t].pc = "discarding" /\ cut' = cut \cup {Key(t)}
  BY GoEffect DEF IInv, WriteRecord, Phases
<1>3. TypeOK'
  <2>1. made' \in [Keys -> Nat] /\ cut' \subseteq Keys
    BY <1>1, <1>2 DEF IInv, TypeOK
  <2>2. ~At(t, "committing")
    BY <1>1 DEF At
  <2>3. req'[t].key = NoKey <=> req'[t].pc \in {"idle", "storing", "uploading"}
    BY <1>1, <1>2, AttachmentsAssumption DEF At
  <2>. QED BY <1>1, <1>2, <2>1, <2>2, <2>3, RequestsTyped DEF IInv, TypeOK
<1>4. OneOwner' /\ ToldApart'
  BY <1>1, <1>2 DEF IInv, OneOwner, ToldApart, Owner, Key, At
<1>5. Phased'
  BY <1>1, <1>2 DEF IInv, TypeOK, Phased, PhaseOK, OneOwner, ToldApart, Owner, Keyed, KeyOK, Key, At, Open
<1>6. Keyed' /\ OneSweep'
  BY <1>1, <1>2 DEF IInv, TypeOK, Keyed, KeyOK, OneSweep, Phased, PhaseOK, OneOwner, ToldApart, Owner, Key, At, Open
<1>7. Owned'
  BY <1>1, <1>2 DEF IInv, TypeOK, Owned, Owner, Phased, PhaseOK, Keyed, KeyOK, Key, At, Open
<1>8. SavedOnce' /\ DocumentKept'
  BY <1>1, <1>2 DEF IInv, TypeOK, SavedOnce, DocumentKept, Phased, PhaseOK, Keyed, KeyOK, Key, At, Open
<1>. QED BY <1>3, <1>4, <1>5, <1>6, <1>7, <1>8 DEF IInv

LEMMA RefuseRecordStep == ASSUME IInv, NEW t \in Requests, RefuseRecord(t) PROVE IInv'
<1>1. /\ At(t, "uploaded")
      /\ UNCHANGED <<disk, row, age, holder, told, sweep, used, made, gone, cut, left, crashes>>
  BY DEF RefuseRecord, database, ghosts
<1>2. /\ req'[t].pc = "discarding" /\ req'[t].key = Key(t)
      /\ \A u \in Requests \ {t} : req'[u] = req[u]
      /\ req' \in [Requests -> [pc : Phases, key : Keys \cup {NoKey}]]
  BY GoEffect DEF IInv, RefuseRecord, Phases
<1>3. TypeOK'
  BY <1>1, <1>2, AttachmentsAssumption DEF IInv, TypeOK, Phases, Statuses, Open, At, Key
<1>4. OneOwner' /\ ToldApart'
  BY <1>1, <1>2 DEF IInv, OneOwner, ToldApart, Owner, Key, At
<1>5. Phased'
  BY <1>1, <1>2 DEF IInv, TypeOK, Phased, PhaseOK, OneOwner, ToldApart, Owner, Keyed, KeyOK, Key, At, Open
<1>6. Keyed' /\ OneSweep'
  BY <1>1, <1>2 DEF IInv, TypeOK, Keyed, KeyOK, OneSweep, Phased, PhaseOK, OneOwner, ToldApart, Owner, Key, At, Open
<1>7. Owned'
  BY <1>1, <1>2 DEF IInv, TypeOK, Owned, Owner, Phased, PhaseOK, Keyed, KeyOK, Key, At, Open
<1>8. SavedOnce' /\ DocumentKept'
  BY <1>1, <1>2 DEF IInv, TypeOK, SavedOnce, DocumentKept, Phased, PhaseOK, Keyed, KeyOK, Key, At, Open
<1>. QED BY <1>3, <1>4, <1>5, <1>6, <1>7, <1>8 DEF IInv

LEMMA AnswerUploadStep == ASSUME IInv, NEW t \in Requests, AnswerUpload(t) PROVE IInv'
<1>1. /\ At(t, "answering") /\ Key(t) \in Keys
      /\ UNCHANGED <<disk, row, age, holder, told, sweep, used, made, gone, left, crashes>>
  BY DEF IInv, TypeOK, AnswerUpload, Key, At, database
<1>2. /\ \A u \in Requests \ {t} : req'[u] = req[u]
      /\ req' \in [Requests -> [pc : Phases, key : Keys \cup {NoKey}]]
      /\ \/ req'[t].pc = "idle" /\ req'[t].key = NoKey /\ UNCHANGED cut
         \/ req'[t].pc = "discarding" /\ req'[t].key = Key(t) /\ cut' = cut \cup {Key(t)}
  BY GoEffect, EndEffect DEF IInv, AnswerUpload, Phases
<1>3. TypeOK'
  <2>1. \A u \in Requests : req'[u].key = NoKey <=> req'[u].pc \in {"idle", "storing", "uploading"}
    BY <1>1, <1>2, AttachmentsAssumption DEF IInv, TypeOK, Key
  <2>. QED BY <1>1, <1>2, <2>1 DEF IInv, TypeOK, At
<1>4. OneOwner' /\ ToldApart'
  BY <1>1, <1>2 DEF IInv, OneOwner, ToldApart, Owner, Key, At
<1>5. Phased'
  BY <1>1, <1>2 DEF IInv, TypeOK, Phased, PhaseOK, OneOwner, ToldApart, Owner, Keyed, KeyOK, Key, At, Open
<1>6. Keyed' /\ OneSweep'
  BY <1>1, <1>2 DEF IInv, TypeOK, Keyed, KeyOK, OneSweep, Phased, PhaseOK, OneOwner, ToldApart, Owner, Key, At, Open
<1>7. Owned'
  BY <1>1, <1>2 DEF IInv, TypeOK, Owned, Owner, Phased, PhaseOK, Keyed, KeyOK, Key, At, Open
<1>8. SavedOnce' /\ DocumentKept'
  BY <1>1, <1>2 DEF IInv, TypeOK, SavedOnce, DocumentKept, Phased, PhaseOK, Keyed, KeyOK, Key, At, Open
<1>. QED BY <1>3, <1>4, <1>5, <1>6, <1>7, <1>8 DEF IInv

LEMMA DiscardUploadStep == ASSUME IInv, NEW t \in Requests, DiscardUpload(t) PROVE IInv'
<1>1. /\ At(t, "discarding") /\ Key(t) \in Keys
      /\ Remove(Key(t))
      /\ UNCHANGED <<row, age, holder, told, sweep, used, made, gone, cut, crashes>>
  BY DEF IInv, TypeOK, DiscardUpload, Key, At, database
<1>2. /\ req'[t].pc = "idle" /\ req'[t].key = NoKey
      /\ \A u \in Requests \ {t} : req'[u] = req[u]
      /\ req' \in [Requests -> [pc : Phases, key : Keys \cup {NoKey}]]
  BY EndEffect DEF IInv, DiscardUpload
<1>3. TypeOK'
  <2>1. disk' \subseteq Keys /\ left' \subseteq Keys
    BY <1>1, RemoveEffect DEF IInv, TypeOK
  <2>2. ~At(t, "committing")
    BY <1>1 DEF At
  <2>. QED BY <1>1, <1>2, <2>1, <2>2, RequestsTyped DEF IInv, TypeOK
<1>4. OneOwner' /\ ToldApart'
  BY <1>1, <1>2, RemoveEffect DEF IInv, OneOwner, ToldApart, Owner, Key, At
<1>5. Phased'
  BY <1>1, <1>2, RemoveEffect DEF IInv, TypeOK, Phased, PhaseOK, OneOwner, ToldApart, Owner, Keyed, KeyOK, Key, At, Open
<1>6. Keyed' /\ OneSweep'
  BY <1>1, <1>2, RemoveEffect DEF IInv, TypeOK, Keyed, KeyOK, OneSweep, Phased, PhaseOK, OneOwner, ToldApart, Owner, Key, At, Open
<1>7. Owned'
  BY <1>1, <1>2, RemoveEffect DEF IInv, TypeOK, Owned, Owner, Phased, PhaseOK, Keyed, KeyOK, Key, At, Open
<1>8. SavedOnce' /\ DocumentKept'
  BY <1>1, <1>2, RemoveEffect DEF IInv, TypeOK, SavedOnce, DocumentKept, Phased, PhaseOK, Keyed, KeyOK, Key, At, Open
<1>. QED BY <1>3, <1>4, <1>5, <1>6, <1>7, <1>8 DEF IInv

LEMMA ForgetStep == ASSUME IInv, NEW k \in Keys, Forget(k) PROVE IInv'
<1>1. /\ made[k] > 0
      /\ gone' = gone \cup {k}
      /\ UNCHANGED <<disk, row, age, holder, told, req, sweep, used, made, cut, left, crashes>>
  BY DEF Forget, ghosts
<1>2. TypeOK'
  BY <1>1, AttachmentsAssumption DEF IInv, TypeOK, Phases, Statuses, Open, At, Key
<1>3. OneOwner' /\ ToldApart'
  BY <1>1 DEF IInv, OneOwner, ToldApart, Owner, Key, At
<1>4. Phased'
  BY <1>1 DEF IInv, TypeOK, Phased, PhaseOK, OneOwner, ToldApart, Owner, Keyed, KeyOK, Key, At, Open
<1>5. Keyed' /\ OneSweep'
  BY <1>1 DEF IInv, TypeOK, Keyed, KeyOK, OneSweep, Phased, PhaseOK, OneOwner, ToldApart, Owner, Key, At, Open
<1>6. Owned'
  BY <1>1 DEF IInv, TypeOK, Owned, Owner, Phased, PhaseOK, Keyed, KeyOK, Key, At, Open
<1>7. SavedOnce' /\ DocumentKept'
  BY <1>1 DEF IInv, TypeOK, SavedOnce, DocumentKept, Phased, PhaseOK, Keyed, KeyOK, Key, At, Open
<1>. QED BY <1>2, <1>3, <1>4, <1>5, <1>6, <1>7 DEF IInv

LEMMA AgeStep == ASSUME IInv, NEW k \in Keys, Age(k) PROVE IInv'
<1>1. /\ row[k] # "none" /\ age[k] # "kept"
      /\ \A t \in Requests : Key(t) = k => req[t].pc \notin {"reading", "finishing", "removing", "failing"}
      /\ age' = [age EXCEPT ![k] = IF @ = "new" THEN "hour" ELSE "kept"]
      /\ UNCHANGED <<disk, row, holder, told, req, sweep, used, made, gone, cut, left, crashes>>
  BY DEF Age, UnderWay, ghosts
<1>2. TypeOK'
  BY <1>1, AttachmentsAssumption DEF IInv, TypeOK, Phases, Statuses, Open, At, Key
<1>3. OneOwner' /\ ToldApart'
  BY <1>1 DEF IInv, OneOwner, ToldApart, Owner, Key, At
<1>4. Phased'
  BY <1>1 DEF IInv, TypeOK, Phased, PhaseOK, OneOwner, ToldApart, Owner, Keyed, KeyOK, Key, At, Open
<1>5. Keyed' /\ OneSweep'
  BY <1>1 DEF IInv, TypeOK, Keyed, KeyOK, OneSweep, Phased, PhaseOK, OneOwner, ToldApart, Owner, Key, At, Open
<1>6. Owned'
  BY <1>1 DEF IInv, TypeOK, Owned, Owner, Phased, PhaseOK, Keyed, KeyOK, Key, At, Open
<1>7. SavedOnce' /\ DocumentKept'
  BY <1>1 DEF IInv, TypeOK, SavedOnce, DocumentKept, Phased, PhaseOK, Keyed, KeyOK, Key, At, Open
<1>. QED BY <1>2, <1>3, <1>4, <1>5, <1>6, <1>7 DEF IInv

LEMMA LockDueStep == ASSUME IInv, NEW k \in Keys, LockDue(k) PROVE IInv'
<1>1. /\ sweep = {} /\ row[k] \in Open /\ age[k] = "kept" /\ holder[k] = Nobody
      /\ holder' = [holder EXCEPT ![k] = Sweeper]
      /\ UNCHANGED <<disk, row, age, told, req, sweep, used, made, gone, cut, left, crashes>>
  BY DEF LockDue, Due, ghosts
<1>2. TypeOK'
  BY <1>1, AttachmentsAssumption DEF IInv, TypeOK, Phases, Statuses, Open, At, Key
<1>3. OneOwner' /\ ToldApart'
  BY <1>1, AttachmentsAssumption DEF IInv, OneOwner, ToldApart, Owner, Key, At
<1>4. Phased'
  BY <1>1, AttachmentsAssumption DEF IInv, TypeOK, Phased, PhaseOK, OneOwner, ToldApart, Owner, Keyed, KeyOK, Key, At, Open
<1>5. Keyed' /\ OneSweep'
  BY <1>1, AttachmentsAssumption DEF IInv, TypeOK, Keyed, KeyOK, OneSweep, Phased, PhaseOK, OneOwner, ToldApart, Owner, Key, At, Open
<1>6. Owned'
  BY <1>1, AttachmentsAssumption DEF IInv, TypeOK, Owned, Owner, Phased, PhaseOK, Keyed, KeyOK, Key, At, Open
<1>7. SavedOnce' /\ DocumentKept'
  BY <1>1, AttachmentsAssumption DEF IInv, TypeOK, SavedOnce, DocumentKept, Phased, PhaseOK, Keyed, KeyOK, Key, At, Open
<1>. QED BY <1>2, <1>3, <1>4, <1>5, <1>6, <1>7 DEF IInv

LEMMA ExpireStep == ASSUME IInv, Expire PROVE IInv'
<1>1. PICK taken \in SUBSET Keys :
        /\ taken = {k \in Keys : holder[k] = Sweeper} /\ taken # {}
        /\ row' = [k \in Keys |-> IF k \in taken THEN "none" ELSE row[k]]
        /\ holder' = [k \in Keys |-> IF k \in taken THEN Nobody ELSE holder[k]]
        /\ (sweep' = taken /\ UNCHANGED left) \/ (left' = left \cup taken /\ UNCHANGED sweep)
        /\ UNCHANGED <<disk, age, told, req, used, made, gone, cut, crashes>>
  BY DEF Expire
<1>2. sweep = {}
  BY <1>1 DEF IInv, OneSweep
<1>3. \A k \in taken : row[k] \in Open /\ age[k] = "kept"
  BY <1>1 DEF IInv, TypeOK
<1>4. TypeOK'
  BY <1>1, <1>2, <1>3, AttachmentsAssumption DEF IInv, TypeOK, Phases, Statuses, Open, At, Key
<1>5. OneOwner' /\ ToldApart'
  BY <1>1, <1>2, <1>3, AttachmentsAssumption DEF IInv, OneOwner, ToldApart, Owner, Key, At
<1>6. Phased'
  BY <1>1, <1>2, <1>3, AttachmentsAssumption DEF IInv, TypeOK, Phased, PhaseOK, OneOwner, ToldApart, Owner, Keyed, KeyOK, Key, At, Open
<1>7. Keyed' /\ OneSweep'
  BY <1>1, <1>2, <1>3, AttachmentsAssumption DEF IInv, TypeOK, Keyed, KeyOK, OneSweep, Phased, PhaseOK, OneOwner, ToldApart, Owner, Key, At, Open
<1>8. Owned'
  BY <1>1, <1>2, <1>3, AttachmentsAssumption DEF IInv, TypeOK, Owned, Owner, Phased, PhaseOK, Keyed, KeyOK, Key, At, Open
<1>9. SavedOnce' /\ DocumentKept'
  BY <1>1, <1>2, <1>3, AttachmentsAssumption DEF IInv, TypeOK, SavedOnce, DocumentKept, Phased, PhaseOK, Keyed, KeyOK, Key, At, Open
<1>. QED BY <1>4, <1>5, <1>6, <1>7, <1>8, <1>9 DEF IInv

LEMMA RemoveExpiredStep == ASSUME IInv, NEW k \in Keys, RemoveExpired(k) PROVE IInv'
<1>1. /\ k \in sweep
      /\ sweep' = sweep \ {k}
      /\ Remove(k)
      /\ UNCHANGED <<row, age, holder, told, req, used, made, gone, cut, crashes>>
  BY DEF RemoveExpired, database
<1>2. TypeOK'
  BY <1>1, RemoveEffect, AttachmentsAssumption DEF IInv, TypeOK, Phases, Statuses, Open, At, Key
<1>3. OneOwner' /\ ToldApart'
  BY <1>1, RemoveEffect DEF IInv, OneOwner, ToldApart, Owner, Key, At
<1>4. Phased'
  BY <1>1, RemoveEffect DEF IInv, TypeOK, Phased, PhaseOK, OneOwner, ToldApart, Owner, Keyed, KeyOK, Key, At, Open
<1>5. Keyed' /\ OneSweep'
  BY <1>1, RemoveEffect DEF IInv, TypeOK, Keyed, KeyOK, OneSweep, Phased, PhaseOK, OneOwner, ToldApart, Owner, Key, At, Open
<1>6. Owned'
  BY <1>1, RemoveEffect DEF IInv, TypeOK, Owned, Owner, Phased, PhaseOK, Keyed, KeyOK, Key, At, Open
<1>7. SavedOnce' /\ DocumentKept'
  BY <1>1, RemoveEffect DEF IInv, TypeOK, SavedOnce, DocumentKept, Phased, PhaseOK, Keyed, KeyOK, Key, At, Open
<1>. QED BY <1>2, <1>3, <1>4, <1>5, <1>6, <1>7 DEF IInv

LEMMA CrashStep == ASSUME IInv, Crash PROVE IInv'
<1>1. /\ crashes < MaxCrashes /\ crashes' = crashes + 1
      /\ req' = [t \in Requests |-> Idle]
      /\ holder' = [k \in Keys |-> Nobody]
      /\ sweep' = {} /\ left' = left \cup sweep \cup Alone
      /\ UNCHANGED <<disk, row, age, told, used, made, gone, cut>>
  BY DEF Crash
<1>2. TypeOK'
  BY <1>1, AttachmentsAssumption DEF IInv, TypeOK, Phases, Statuses, Open, At, Key, Idle, Alone
<1>3. OneOwner' /\ ToldApart'
  BY <1>1, AttachmentsAssumption DEF IInv, OneOwner, ToldApart, Owner, Key, At, Idle, Alone
<1>4. Phased'
  BY <1>1, AttachmentsAssumption DEF IInv, TypeOK, Phased, PhaseOK, OneOwner, ToldApart, Owner, Keyed, KeyOK, Key, At, Open, Idle, Alone
<1>5. Keyed' /\ OneSweep'
  BY <1>1, AttachmentsAssumption DEF IInv, TypeOK, Keyed, KeyOK, OneSweep, Phased, PhaseOK, OneOwner, ToldApart, Owner, Key, At, Open, Idle, Alone
<1>6. Owned'
  BY <1>1, AttachmentsAssumption DEF IInv, TypeOK, Owned, Owner, Phased, PhaseOK, Keyed, KeyOK, Key, At, Open, Idle, Alone
<1>7. SavedOnce' /\ DocumentKept'
  BY <1>1, AttachmentsAssumption DEF IInv, TypeOK, SavedOnce, DocumentKept, Phased, PhaseOK, Keyed, KeyOK, Key, At, Open, Idle, Alone
<1>. QED BY <1>2, <1>3, <1>4, <1>5, <1>6, <1>7 DEF IInv

LEMMA InitInv == Init => IInv
<1>. SUFFICES ASSUME Init PROVE IInv
  OBVIOUS
<1>1. \A t \in Requests : req[t] = Idle /\ ~Owner(t)
  BY DEF Init, Idle, Owner
<1>2. TypeOK
  BY <1>1, AttachmentsAssumption DEF Init, TypeOK, Idle, Phases, Statuses
<1>3. OneOwner /\ ToldApart /\ Phased
  BY <1>1 DEF Init, OneOwner, ToldApart, Phased, PhaseOK, Key, At, Idle
<1>4. Keyed /\ OneSweep
  BY DEF Init, Keyed, KeyOK, OneSweep, Open
<1>5. Owned /\ SavedOnce /\ DocumentKept
  BY DEF Init, Owned, SavedOnce, DocumentKept
<1>. QED BY <1>2, <1>3, <1>4, <1>5 DEF IInv

LEMMA InvStep == IInv /\ [Next]_vars => IInv'
<1>. SUFFICES ASSUME IInv, [Next]_vars PROVE IInv'
  OBVIOUS
<1>1. CASE UNCHANGED vars
  <2>1. UNCHANGED <<disk, row, age, holder, told, req, sweep, used, made, gone, cut, left, crashes>>
    BY <1>1 DEF vars, database, ghosts
  <2>2. TypeOK' /\ OneOwner' /\ ToldApart'
    BY <2>1 DEF IInv, TypeOK, OneOwner, ToldApart, Owner, Key
  <2>3. Phased' /\ Keyed' /\ OneSweep'
    BY <2>1 DEF IInv, Phased, PhaseOK, Keyed, KeyOK, OneSweep, Key, At
  <2>4. Owned' /\ SavedOnce' /\ DocumentKept'
    BY <2>1 DEF IInv, Owned, Owner, SavedOnce, DocumentKept, Key
  <2>. QED BY <2>2, <2>3, <2>4 DEF IInv
<1>2. CASE Expire \/ Crash
  BY <1>2, ExpireStep, CrashStep
<1>3. ASSUME NEW k \in Keys, Age(k) \/ LockDue(k) \/ RemoveExpired(k) \/ Forget(k) PROVE IInv'
  BY <1>3, AgeStep, LockDueStep, RemoveExpiredStep, ForgetStep
<1>4. ASSUME NEW t \in Requests, Admit(t) \/ BeginUpload(t) \/ \E k \in Keys : BeginSave(t, k) PROVE IInv'
  BY <1>4, AdmitStep, BeginUploadStep, BeginSaveStep
<1>5. ASSUME NEW t \in Requests, Read(t) PROVE IInv'
  <2>1. CASE StoreDocument(t)
    BY <2>1, StoreStep DEF StoreDocument, At
  <2>2. CASE ~StoreDocument(t)
    BY <1>5, <2>2, StartExtractionStep, StartFailsStep, ReaderAnswersStep, FinishExtractionStep,
       FinishFailsStep, RemoveDocumentStep, FailExtractionStep DEF Read
  <2>. QED BY <2>1, <2>2
<1>6. ASSUME NEW t \in Requests, Save(t) PROVE IInv'
  BY <1>6, MarkExtractionSavedStep, CommitSaveStep, RollBackSaveStep DEF Save
<1>7. ASSUME NEW t \in Requests, Upload(t) PROVE IInv'
  <2>1. CASE StoreUpload(t)
    BY <2>1, StoreStep DEF StoreUpload, At
  <2>2. CASE ~StoreUpload(t)
    BY <1>7, <2>2, WriteRecordStep, RefuseRecordStep, AnswerUploadStep, DiscardUploadStep DEF Upload
  <2>. QED BY <2>1, <2>2
<1>. QED BY <1>1, <1>2, <1>3, <1>4, <1>5, <1>6, <1>7 DEF Next

-----------------------------------------------------------------------------
(* The theorems.                                                           *)

THEOREM Invariance == Spec => []IInv
BY InitInv, InvStep, PTL DEF Spec

\* Every variable keeps its type, and a row's lock is held by who is about to commit.
THEOREM Typed == Spec => []TypeOK
<1>1. IInv => TypeOK BY DEF IInv
<1>. QED BY <1>1, Invariance, PTL

\* Two submissions of one proposal cannot both win (data.Store.MarkExtractionSaved).
THEOREM OneRecord == Spec => []SavedOnce
<1>1. IInv => SavedOnce BY DEF IInv
<1>. QED BY <1>1, Invariance, PTL

\* The sweep, a failed reading and a refused write never take the file of a record, but for a
\* write that was committed and answered with an error.
THEOREM FileKept == Spec => []DocumentKept
<1>1. IInv => DocumentKept BY DEF IInv
<1>. QED BY <1>1, Invariance, PTL

\* No file of the store is forgotten, unless a stop or a failure left it.
THEOREM NoneForgotten == Spec => []Accounted
<1>1. IInv => Accounted
  BY DEF IInv, Owned, Owner, Accounted
<1>. QED BY <1>1, Invariance, PTL

-----------------------------------------------------------------------------
(* The cap.                                                                *)

\* No attempt is counted anew, and nobody else is admitted.
Spared == Recent' \subseteq Recent /\ Admitted' \subseteq Admitted

\* An admitted request's attempt is counted, or given up.
Counted(t) ==
    /\ t \in Admitted
    /\ Admitted' \subseteq Admitted \ {t}
    /\ Recent' \subseteq Recent \cup {Key(t)}

CInv == IsFiniteSet(Recent) /\ CapAlmostHolds

LEMMA OneMore ==
    ASSUME NEW S, IsFiniteSet(S), NEW x
    PROVE  IsFiniteSet(S \cup {x}) /\ Cardinality(S \cup {x}) <= Cardinality(S) + 1
<1>1. Cardinality(S) \in Nat
  BY FS_CardinalityType
<1>2. IsFiniteSet(S \cup {x}) /\ Cardinality(S \cup {x}) \in {Cardinality(S), Cardinality(S) + 1}
  BY FS_AddElement, Zenon
<1>. QED BY <1>1, <1>2

\* Of the requests that look at the cap at once, fewer than all are admitted before it.
LEMMA AdmitCap ==
    ASSUME TypeOK, CInv, IsFiniteSet(Requests), NEW t \in Requests, Admit(t)
    PROVE  CInv'
<1>1. Recent' = Recent /\ Cardinality(Recent) < Cap
  BY DEF Admit, Recent, database
<1>2. Admitted' = Admitted \cup {t} /\ t \notin Admitted
  BY GoEffect DEF Admit, At, Admitted, Phases
<1>3. IsFiniteSet(Admitted) /\ Admitted' \subseteq Requests
  BY FS_Subset DEF Admitted
<1>4. PICK before, after, rest : before = Admitted /\ after = Admitted' /\ rest = Recent
  OBVIOUS
<1>5. Cardinality(after) <= Cardinality(Requests) /\ Cardinality(after) \in Nat
      /\ Cardinality(Requests) \in Nat
  BY <1>3, <1>4, FS_Subset, FS_CardinalityType
<1>6. Cardinality(rest) \in Nat /\ IsFiniteSet(rest)
  BY <1>4, FS_CardinalityType DEF CInv
<1>7. Cardinality(rest) + Cardinality(after) < Cap + Cardinality(Requests)
  BY <1>1, <1>4, <1>5, <1>6, AttachmentsAssumption
<1>. QED BY <1>1, <1>4, <1>6, <1>7 DEF CInv, CapAlmostHolds

LEMMA SparedCap ==
    ASSUME CInv, IsFiniteSet(Requests), Spared
    PROVE  CInv'
<1>1. PICK rest, admitted, rests, admits :
         rest = Recent /\ admitted = Admitted /\ rests = Recent' /\ admits = Admitted'
  OBVIOUS
<1>2. IsFiniteSet(rest) /\ IsFiniteSet(admitted) /\ rests \subseteq rest /\ admits \subseteq admitted
  BY <1>1, FS_Subset DEF CInv, Spared, Admitted
<1>3. /\ IsFiniteSet(rests)
      /\ Cardinality(rests) <= Cardinality(rest) /\ Cardinality(admits) <= Cardinality(admitted)
  BY <1>2, FS_Subset
<1>4. /\ Cardinality(rests) \in Nat /\ Cardinality(rest) \in Nat /\ Cardinality(admits) \in Nat
      /\ Cardinality(admitted) \in Nat /\ Cardinality(Requests) \in Nat
  BY <1>2, <1>3, FS_Subset, FS_CardinalityType
<1>5. Cardinality(rests) + Cardinality(admits) < Cap + Cardinality(Requests)
  BY <1>1, <1>3, <1>4, AttachmentsAssumption DEF CInv, CapAlmostHolds
<1>. QED BY <1>1, <1>3, <1>5 DEF CInv, CapAlmostHolds

LEMMA CountedCap ==
    ASSUME CInv, IsFiniteSet(Requests), NEW t, Counted(t)
    PROVE  CInv'
<1>1. PICK rest, admitted, rests, admits, k :
         rest = Recent /\ admitted = Admitted /\ rests = Recent' /\ admits = Admitted' /\ k = Key(t)
  OBVIOUS
<1>2. /\ IsFiniteSet(rest) /\ IsFiniteSet(admitted)
      /\ t \in admitted /\ rests \subseteq rest \cup {k} /\ admits \subseteq admitted \ {t}
  BY <1>1, FS_Subset DEF CInv, Counted, Admitted
<1>3. IsFiniteSet(rest \cup {k}) /\ Cardinality(rest \cup {k}) <= Cardinality(rest) + 1
  BY <1>2, OneMore
<1>4. IsFiniteSet(admitted \ {t}) /\ Cardinality(admitted \ {t}) = Cardinality(admitted) - 1
  BY <1>2, FS_RemoveElement
<1>5. /\ IsFiniteSet(rests)
      /\ Cardinality(rests) <= Cardinality(rest \cup {k})
      /\ Cardinality(admits) <= Cardinality(admitted \ {t})
  BY <1>2, <1>3, <1>4, FS_Subset
<1>6. /\ Cardinality(rests) \in Nat /\ Cardinality(rest) \in Nat /\ Cardinality(rest \cup {k}) \in Nat
      /\ Cardinality(admits) \in Nat /\ Cardinality(admitted) \in Nat /\ Cardinality(Requests) \in Nat
  BY <1>2, <1>3, <1>4, <1>5, FS_Subset, FS_CardinalityType
<1>7. Cardinality(rests) + Cardinality(admits) < Cap + Cardinality(Requests)
  BY <1>1, <1>3, <1>4, <1>5, <1>6, AttachmentsAssumption DEF CInv, CapAlmostHolds
<1>. QED BY <1>1, <1>5, <1>7 DEF CInv, CapAlmostHolds

\* Every other step counts no attempt but that of a request it lets go.
LEMMA OtherSteps ==
    ASSUME IInv, [Next]_vars, \A t \in Requests : ~Admit(t)
    PROVE  Spared \/ \E t \in Requests : Counted(t)
<1>. USE DEF database, ghosts
<1>1. CASE UNCHANGED vars
  BY <1>1 DEF vars, Spared, Recent, Admitted
<1>2. CASE Expire
  BY <1>2 DEF Expire, Spared, Recent, Admitted
<1>3. CASE Crash
  BY <1>3 DEF Crash, Idle, Spared, Recent, Admitted
<1>4. ASSUME NEW k \in Keys, Age(k) \/ LockDue(k) \/ RemoveExpired(k) \/ Forget(k) PROVE Spared
  BY <1>4 DEF Age, LockDue, RemoveExpired, Forget, Spared, Recent, Admitted, IInv, TypeOK
<1>5. ASSUME NEW t \in Requests, UNCHANGED <<row, age>>, \A u \in Requests \ {t} : req'[u] = req[u],
             t \in Admitted \/ req'[t].pc \notin {"storing", "starting"}
      PROVE  Spared
  BY <1>5 DEF Spared, Recent, Admitted
<1>6. ASSUME NEW t \in Requests, BeginUpload(t) \/ \E k \in Keys : BeginSave(t, k) PROVE Spared
  BY <1>5, <1>6 DEF BeginUpload, BeginSave, Go, IInv, TypeOK
<1>7. ASSUME NEW t \in Requests, StoreDocument(t) \/ StoreUpload(t) PROVE Spared
  BY <1>5, <1>7 DEF StoreDocument, StoreUpload, Store, End, Idle, At, Admitted, IInv, TypeOK
<1>8. ASSUME NEW t \in Requests, StartExtraction(t) \/ StartFails(t) PROVE Counted(t)
  <2>1. /\ \A u \in Requests \ {t} : req'[u] = req[u]
        /\ req'[t].pc \in {"reading", "idle"}
        /\ t \in Admitted
    BY <1>8 DEF StartExtraction, StartFails, Go, End, Idle, At, Admitted, IInv, TypeOK
  <2>2. age' = age /\ \A k \in Keys \ {Key(t)} : row'[k] = row[k]
    BY <1>8 DEF StartExtraction, StartFails, IInv, TypeOK
  <2>. QED BY <2>1, <2>2 DEF Counted, Recent, Admitted
<1>9. ASSUME NEW t \in Requests, ReaderAnswers(t) \/ FinishFails(t) \/ RemoveDocument(t) PROVE Spared
  BY <1>5, <1>9 DEF ReaderAnswers, FinishFails, RemoveDocument, Go, IInv, TypeOK
<1>10. ASSUME NEW t \in Requests, FinishExtraction(t) \/ FailExtraction(t) \/ CommitSave(t) PROVE Spared
  <2>1. /\ \A u \in Requests \ {t} : req'[u] = req[u]
        /\ req'[t].pc \notin {"storing", "starting"}
    BY <1>10 DEF FinishExtraction, FailExtraction, CommitSave, Go, End, Idle, IInv, TypeOK
  <2>2. CommitSave(t) => row[Key(t)] # "none"
    BY DEF CommitSave, IInv, Phased, PhaseOK, At
  <2>3. age' = age /\ \A k \in Keys : row[k] = "none" => row'[k] = "none"
    BY <1>10, <2>2 DEF FinishExtraction, FailExtraction, CommitSave, IInv, TypeOK
  <2>. QED BY <2>1, <2>3 DEF Spared, Recent, Admitted
<1>11. ASSUME NEW t \in Requests, MarkExtractionSaved(t) \/ RollBackSave(t) PROVE Spared
  BY <1>5, <1>11 DEF MarkExtractionSaved, RollBackSave, Go, End, Idle, IInv, TypeOK
<1>12. ASSUME NEW t \in Requests, WriteRecord(t) \/ RefuseRecord(t) \/ AnswerUpload(t) \/ DiscardUpload(t)
       PROVE  Spared
  BY <1>5, <1>12 DEF WriteRecord, RefuseRecord, AnswerUpload, DiscardUpload, Go, End, Idle, IInv, TypeOK
<1>. QED
  BY <1>1, <1>2, <1>3, <1>4, <1>6, <1>7, <1>8, <1>9, <1>10, <1>11, <1>12 DEF Next, Read, Save, Upload

\* The attempts counted within the hour pass the cap by less than the number of requests that may
\* look at it at once, since extractDocument counts before it stores and records.
THEOREM CapKept ==
    ASSUME IsFiniteSet(Requests), Requests # {}
    PROVE  Spec => []CapAlmostHolds
<1>1. ASSUME Init PROVE CInv
  <2>1. Recent = {} /\ Admitted = {}
    BY <1>1 DEF Init, Recent, Admitted, Idle
  <2>2. Cardinality({}) = 0 /\ IsFiniteSet({})
    BY FS_EmptySet
  <2>3. Cardinality(Requests) \in Nat /\ Cardinality(Requests) # 0
    BY FS_EmptySet, FS_CardinalityType
  <2>4. 0 + 0 < Cap + Cardinality(Requests)
    BY <2>3, AttachmentsAssumption
  <2>. QED BY <2>1, <2>2, <2>4 DEF CInv, CapAlmostHolds
<1>2. ASSUME IInv, CInv, [Next]_vars PROVE CInv'
  <2>1. CASE \E t \in Requests : Admit(t)
    BY <1>2, <2>1, AdmitCap DEF IInv
  <2>2. CASE \A t \in Requests : ~Admit(t)
    BY <1>2, <2>2, OtherSteps, SparedCap, CountedCap
  <2>. QED BY <2>1, <2>2
<1>3. CInv => CapAlmostHolds
  BY DEF CInv
<1>. QED BY <1>1, <1>2, <1>3, Invariance, PTL DEF Spec
=============================================================================
