---------------------------- MODULE Attachments ----------------------------
(***************************************************************************)
(* The files of the upload store and what refers to them.  A document may  *)
(* be sent to be read (internal/web/extract.go, internal/data/extractions  *)
(* .go): its file is stored, a row of document_extractions says what       *)
(* became of the reading, the proposal it gave is saved as a record that   *)
(* keeps the file, and an hourly sweep (cmd/server/main.go) takes away     *)
(* what nobody saved.  Or it is sent with a record's form                  *)
(* (internal/web/record.go), and a ledger of the request removes it again  *)
(* if the answer is an error (internal/web/uploadledger.go).               *)
(*                                                                         *)
(* The store and the database share no transaction: every order of their   *)
(* two writes can be cut by a stop of the process, by a failed statement,  *)
(* or by a statement that took effect and was reported as failed, which is *)
(* what a client that goes away does to a commit under its context.        *)
(***************************************************************************)
EXTENDS Naturals, FiniteSets

CONSTANTS
    Requests,    \* concurrent requests
    Keys,        \* the keys of stored files, and the ids of the readings made of them
    Cap,         \* config.ReadingsPerHour
    MaxCrashes,  \* bound: how often the process dies
    Sweeper,     \* the transaction of the sweep
    Nobody, NoKey

ASSUME AttachmentsAssumption ==
    Sweeper \notin Requests /\ Nobody \notin Requests \cup {Sweeper} /\ NoKey \notin Keys /\ Cap \in Nat /\ MaxCrashes \in Nat

VARIABLES
    disk,    \* the files in the store
    row,     \* each reading's row: its status, or none
    age,     \* of a row: "new", older than an hour, or past the time a proposal is kept for
    holder,  \* the transaction that holds each row's lock
    told,    \* the proposals a client was sent to
    req,     \* each request: where it is, and the file it is about
    sweep,   \* the files whose rows the sweep has deleted and that it has still to remove
    used,    \* keys given out
    made,    \* how many records were ever written that name the file
    gone,    \* files whose record was deleted since, or took another file
    cut,     \* uploads whose write took effect and whose request was answered with an error
    left,    \* files left behind by a stop, a failed removal or an answer that was lost
    crashes

database == <<row, age, holder, made, gone>>
ghosts == <<used, cut, left, crashes>>
vars == <<disk, database, told, req, sweep, ghosts>>

Open == {"reading", "proposed"}
Statuses == Open \cup {"none", "saved", "failed"}
Phases == {"idle", "storing", "starting", "reading", "finishing", "removing", "failing",
           "marking", "committing", "uploading", "uploaded", "answering", "discarding"}
Idle == [pc |-> "idle", key |-> NoKey]

TypeOK ==
    /\ disk \subseteq Keys
    /\ row \in [Keys -> Statuses]
    /\ age \in [Keys -> {"new", "hour", "kept"}]
    /\ holder \in [Keys -> Requests \cup {Sweeper, Nobody}]
    /\ told \subseteq Keys
    /\ req \in [Requests -> [pc : Phases, key : Keys \cup {NoKey}]]
    /\ \A t \in Requests : req[t].key = NoKey <=> req[t].pc \in {"idle", "storing", "uploading"}
    /\ \A k \in Keys, t \in Requests : holder[k] = t => req[t] = [pc |-> "committing", key |-> k]
    /\ \A k \in Keys : holder[k] = Sweeper => row[k] \in Open /\ age[k] = "kept"
    /\ sweep \subseteq Keys
    /\ used \subseteq Keys
    /\ made \in [Keys -> Nat]
    /\ gone \subseteq Keys /\ cut \subseteq Keys /\ left \subseteq Keys
    /\ crashes \in 0 .. MaxCrashes

Init ==
    /\ disk = {} /\ told = {} /\ sweep = {} /\ used = {} /\ gone = {} /\ cut = {} /\ left = {}
    /\ row = [k \in Keys |-> "none"]
    /\ age = [k \in Keys |-> "new"]
    /\ holder = [k \in Keys |-> Nobody]
    /\ req = [t \in Requests |-> Idle]
    /\ made = [k \in Keys |-> 0]
    /\ crashes = 0

At(t, pc) == req[t].pc = pc
Key(t) == req[t].key
Go(t, pc) == req' = [req EXCEPT ![t].pc = pc]
End(t) == req' = [req EXCEPT ![t] = Idle]

\* storage.Remove, whose failure is only logged: the file then stays.
Remove(k) ==
    \/ disk' = disk \ {k} /\ UNCHANGED left
    \/ left' = left \cup {k} /\ UNCHANGED disk

\* storage.Save under a fresh key.  A file that could not be written whole is not taken away,
\* and its key is not known to anyone.
Store(t, next) ==
    \E k \in Keys \ used :
        /\ used' = used \cup {k}
        /\ disk' = disk \cup {k}
        /\ \/ req' = [req EXCEPT ![t] = [pc |-> next, key |-> k]] /\ UNCHANGED left
           \/ End(t) /\ left' = left \cup {k}
        /\ UNCHANGED <<database, told, sweep, cut, crashes>>

-----------------------------------------------------------------------------
(* extractDocument.                                                        *)

Recent == {k \in Keys : row[k] # "none" /\ age[k] = "new"}

AdmitAtCap(t) ==  \* mutant: one reading too many
    /\ At(t, "idle")
    /\ Cardinality(Recent) <= Cap
    /\ Go(t, "storing")
    /\ UNCHANGED <<disk, database, told, sweep, ghosts>>

\* CountExtractions; over the cap the request is refused.
Admit(t) ==
    /\ At(t, "idle")
    /\ Cardinality(Recent) < Cap
    /\ Go(t, "storing")
    /\ UNCHANGED <<disk, database, told, sweep, ghosts>>

StoreDocument(t) == At(t, "storing") /\ Store(t, "starting")

\* The row is written before the reader is asked, so that every attempt is counted.
StartExtraction(t) ==
    /\ At(t, "starting")
    /\ row' = [row EXCEPT ![Key(t)] = "reading"]
    /\ Go(t, "reading")
    /\ UNCHANGED <<disk, age, holder, made, gone, told, sweep, ghosts>>

StartForgets(t) ==  \* mutant: the file of an attempt that is not recorded stays
    /\ At(t, "starting")
    /\ End(t)
    /\ UNCHANGED <<disk, database, told, sweep, ghosts>>

\* ... or reported as not written, and the file is removed.
StartFails(t) ==
    /\ At(t, "starting")
    /\ \/ UNCHANGED row
       \/ row' = [row EXCEPT ![Key(t)] = "reading"]
    /\ Remove(Key(t))
    /\ End(t)
    /\ UNCHANGED <<age, holder, made, gone, told, sweep, used, cut, crashes>>

\* ExtractProposal: an answer, or none within the time the reader is given.
ReaderAnswers(t) ==
    /\ At(t, "reading")
    /\ \E pc \in {"finishing", "removing"} : Go(t, pc)
    /\ UNCHANGED <<disk, database, told, sweep, ghosts>>

\* The UPDATE finds the row while it is reading.  Only now is the client told the id.
FinishExtraction(t) ==
    /\ At(t, "finishing")
    /\ row' = [row EXCEPT ![Key(t)] = IF @ = "reading" THEN "proposed" ELSE @]
    /\ \/ End(t) /\ told' = told \cup {Key(t)}
       \/ Go(t, "removing") /\ UNCHANGED told
    /\ UNCHANGED <<disk, age, holder, made, gone, sweep, ghosts>>

FinishFails(t) ==
    /\ At(t, "finishing")
    /\ Go(t, "removing")
    /\ UNCHANGED <<disk, database, told, sweep, ghosts>>

RemoveDocument(t) ==
    /\ At(t, "removing")
    /\ Remove(Key(t))
    /\ Go(t, "failing")
    /\ UNCHANGED <<database, told, sweep, used, cut, crashes>>

\* Under the context of the request: when its client went away the row keeps its status.
FailExtraction(t) ==
    /\ At(t, "failing")
    /\ row' = [row EXCEPT ![Key(t)] = IF @ = "reading" THEN "failed" ELSE @]
              \/ UNCHANGED row
    /\ End(t)
    /\ UNCHANGED <<disk, age, holder, made, gone, told, sweep, ghosts>>

-----------------------------------------------------------------------------
(* saveExtracted.                                                          *)

\* The proposal is read outside the transaction; the record and its rows are then written
\* inside it, which nobody else sees before it commits.
BeginSave(t, k) ==
    /\ At(t, "idle")
    /\ k \in told
    /\ row[k] = "proposed"
    /\ req' = [req EXCEPT ![t] = [pc |-> "marking", key |-> k]]
    /\ UNCHANGED <<disk, database, told, sweep, ghosts>>

MarkAny(t) ==  \* mutant: whatever became of the proposal since it was read
    /\ At(t, "marking")
    /\ holder[Key(t)] = Nobody
    /\ holder' = [holder EXCEPT ![Key(t)] = t]
    /\ Go(t, "committing")
    /\ UNCHANGED <<disk, row, age, made, gone, told, sweep, ghosts>>

\* MarkExtractionSaved waits for the row, and finds it only while it is proposed; else the
\* whole transaction is rolled back.
MarkExtractionSaved(t) ==
    /\ At(t, "marking")
    /\ holder[Key(t)] = Nobody
    /\ IF row[Key(t)] = "proposed"
       THEN holder' = [holder EXCEPT ![Key(t)] = t] /\ Go(t, "committing")
       ELSE End(t) /\ UNCHANGED holder
    /\ UNCHANGED <<disk, row, age, made, gone, told, sweep, ghosts>>

\* The record and the mark, together; the request's answer makes no difference to the file.
CommitSave(t) ==
    /\ At(t, "committing")
    /\ row' = [row EXCEPT ![Key(t)] = "saved"]
    /\ made' = [made EXCEPT ![Key(t)] = @ + 1]
    /\ holder' = [holder EXCEPT ![Key(t)] = Nobody]
    /\ End(t)
    /\ UNCHANGED <<disk, age, gone, told, sweep, ghosts>>

\* A guard refuses the record or one of its rows, or a statement fails.
RollBackSave(t) ==
    /\ req[t].pc \in {"marking", "committing"}
    /\ holder' = [k \in Keys |-> IF holder[k] = t THEN Nobody ELSE holder[k]]
    /\ End(t)
    /\ UNCHANGED <<disk, row, age, made, gone, told, sweep, ghosts>>

-----------------------------------------------------------------------------
(* A record's own form (createRecordForm, updateRecordForm, patchRecordForm). *)

BeginUpload(t) ==
    /\ At(t, "idle")
    /\ Go(t, "uploading")
    /\ UNCHANGED <<disk, database, told, sweep, ghosts>>

\* handleFileUploads, before any guard has judged the write.
StoreUpload(t) == At(t, "uploading") /\ Store(t, "uploaded")

WriteRecord(t) ==
    /\ At(t, "uploaded")
    /\ made' = [made EXCEPT ![Key(t)] = @ + 1]
    /\ \/ Go(t, "answering") /\ UNCHANGED cut
       \/ Go(t, "discarding") /\ cut' = cut \cup {Key(t)}
    /\ UNCHANGED <<disk, row, age, holder, gone, told, sweep, used, left, crashes>>

RefuseRecord(t) ==
    /\ At(t, "uploaded")
    /\ Go(t, "discarding")
    /\ UNCHANGED <<disk, database, told, sweep, ghosts>>

\* What the answer shows is read after the commit (renderMachineBody), and a card may still be
\* refused its place (placeCard): an error then looks like a refused write to the ledger.
AnswerUpload(t) ==
    /\ At(t, "answering")
    /\ \/ End(t) /\ UNCHANGED cut
       \/ Go(t, "discarding") /\ cut' = cut \cup {Key(t)}
    /\ UNCHANGED <<disk, database, told, sweep, used, left, crashes>>

\* discardRefusedUploads.
DiscardUpload(t) ==
    /\ At(t, "discarding")
    /\ Remove(Key(t))
    /\ End(t)
    /\ UNCHANGED <<database, told, sweep, used, cut, crashes>>

\* A record is deleted, or its Field takes another file: nothing removes the one it named.
Forget(k) ==
    /\ made[k] > 0
    /\ k \notin gone
    /\ gone' = gone \cup {k}
    /\ UNCHANGED <<disk, row, age, holder, made, told, req, sweep, ghosts>>

-----------------------------------------------------------------------------
(* sweepExtractions, hourly, in one goroutine.                             *)

\* A request is answered within two minutes: no reading under way gets old.
UnderWay(k) == \E t \in Requests : Key(t) = k /\ req[t].pc \in {"reading", "finishing", "removing", "failing"}

Age(k) ==
    /\ row[k] # "none"
    /\ ~UnderWay(k)
    /\ age[k] # "kept"
    /\ age' = [age EXCEPT ![k] = IF @ = "new" THEN "hour" ELSE "kept"]
    /\ UNCHANGED <<disk, row, holder, made, gone, told, req, sweep, ghosts>>

DueWhatever == {k \in Keys : row[k] # "none" /\ age[k] = "kept"}  \* mutant: a saved reading expires too

DueProposed == {k \in Keys : row[k] = "proposed" /\ age[k] = "kept"}  \* mutant: a reading cut short stays

Due == {k \in Keys : row[k] \in Open /\ age[k] = "kept"}

\* ExpireExtractions is one DELETE.  It takes the rows one after another, waiting for those a
\* save has marked; a row that is no longer due when it is reached is left alone.
LockDue(k) ==
    /\ sweep = {}
    /\ k \in Due
    /\ holder[k] = Nobody
    /\ holder' = [holder EXCEPT ![k] = Sweeper]
    /\ UNCHANGED <<disk, row, age, made, gone, told, req, sweep, ghosts>>

\* Its rows are gone at once, and their keys returned, unless the answer is lost.
Expire ==
    LET taken == {k \in Keys : holder[k] = Sweeper}
    IN  /\ taken # {}
        /\ row' = [k \in Keys |-> IF k \in taken THEN "none" ELSE row[k]]
        /\ holder' = [k \in Keys |-> IF k \in taken THEN Nobody ELSE holder[k]]
        /\ \/ sweep' = taken /\ UNCHANGED left
           \/ left' = left \cup taken /\ UNCHANGED sweep
        /\ UNCHANGED <<disk, age, made, gone, told, req, used, cut, crashes>>

RemoveExpired(k) ==
    /\ k \in sweep
    /\ sweep' = sweep \ {k}
    /\ Remove(k)
    /\ UNCHANGED <<database, told, req, used, cut, crashes>>

-----------------------------------------------------------------------------
\* A request whose file nothing but the request itself accounts for.
Alone == {Key(t) : t \in {t \in Requests : req[t].pc \in {"starting", "uploaded", "discarding"}}}

\* The process dies and is started again; open transactions are rolled back.
Crash ==
    /\ crashes < MaxCrashes
    /\ crashes' = crashes + 1
    /\ req' = [t \in Requests |-> Idle]
    /\ holder' = [k \in Keys |-> Nobody]
    /\ sweep' = {}
    /\ left' = left \cup sweep \cup Alone
    /\ UNCHANGED <<disk, row, age, made, gone, told, used, cut>>

Read(t) ==
    \/ StoreDocument(t) \/ StartExtraction(t) \/ StartFails(t) \/ ReaderAnswers(t)
    \/ FinishExtraction(t) \/ FinishFails(t) \/ RemoveDocument(t) \/ FailExtraction(t)

Save(t) == MarkExtractionSaved(t) \/ CommitSave(t) \/ RollBackSave(t)

Upload(t) == StoreUpload(t) \/ WriteRecord(t) \/ RefuseRecord(t) \/ AnswerUpload(t) \/ DiscardUpload(t)

Next ==
    \/ \E t \in Requests :
          \/ Admit(t) \/ BeginUpload(t) \/ \E k \in Keys : BeginSave(t, k)
          \/ Read(t) \/ Save(t) \/ Upload(t)
    \/ Expire
    \/ \E k \in Keys : Age(k) \/ LockDue(k) \/ RemoveExpired(k) \/ Forget(k)
    \/ Crash

\* Requests are served and time passes.  The sweep's DELETE waits in the row's own queue, so
\* saves that come and go do not keep it out for ever.
Fairness ==
    /\ \A t \in Requests : WF_vars(Read(t)) /\ WF_vars(Save(t)) /\ WF_vars(Upload(t))
    /\ \A k \in Keys : WF_vars(Age(k)) /\ SF_vars(LockDue(k)) /\ WF_vars(RemoveExpired(k))
    /\ WF_vars(Expire)

Spec == Init /\ [][Next]_vars
FairSpec == Spec /\ Fairness

-----------------------------------------------------------------------------
\* A proposal is saved once, however many times its form is submitted ("two submissions of one
\* proposal cannot both win", MarkExtractionSaved), and an upload is one record's.
SavedOnce == \A k \in Keys : made[k] <= 1

\* A record's document is there, whatever the sweep, a failed reading or a stop removed: "its
\* document is now the one kept on the record" (ExpireExtractions).  The uploads whose request
\* failed after its commit are the ones the ledger takes away from their record.
DocumentKept == \A k \in Keys : made[k] > 0 /\ k \notin gone \cup cut => k \in disk

\* A file of the store has a record that names or named it, a reading still open, a request or
\* a sweep that will remove it, or was left by a stop or a failure: none is forgotten otherwise
\* (sweepExtractions; discardRefusedUploads).
Accounted ==
    \A k \in disk :
        row[k] \in Open \/ made[k] > 0 \/ k \in sweep \cup left
            \/ \E t \in Requests : Key(t) = k /\ req[t].pc # "idle"

Admitted == {t \in Requests : req[t].pc \in {"storing", "starting"}}

\* The cap is looked at before the attempt is counted: requests that look at once may pass it
\* together, by no more than there are of them (extractDocument).
CapAlmostHolds == Cardinality(Recent) + Cardinality(Admitted) < Cap + Cardinality(Requests)

\* A reading that nobody saves does not stay for good, though its request was cut short, and
\* nor does its file (sweepExtractions); nor does the file of a write that was refused.
Resolved ==
    \A k \in Keys : k \in disk \/ row[k] \in Open
                        ~> row[k] \notin Open /\ (k \in disk => made[k] > 0 \/ k \in left)
=============================================================================
