----------------------------- MODULE Schedules -----------------------------
(***************************************************************************)
(* Rules that fire on the passage of time (internal/execution/events.go,   *)
(* internal/behavior/event.go), run by the one ticker goroutine of         *)
(* cmd/server/main.go.  A tick lists the records of a Machine, then its    *)
(* activities, and runs the rules of every record that is overdue and not  *)
(* done, unless an activity already bears the text its rule would log:     *)
(* that text is the mark that the rules have run.  No transaction holds    *)
(* the listing, the mark and the other effects together, every effect is   *)
(* best effort, and people go on editing the records meanwhile.            *)
(*                                                                         *)
(* The rules are those of metadata/contract_term.yaml and document.yaml:   *)
(* log an activity, set a status, tell somebody.  What a status that was   *)
(* set sets off in turn (RunEvents, the recomputes) is Approval's and      *)
(* Figures' subject, and the run history nothing but shown to an admin.    *)
(***************************************************************************)
EXTENDS Reminders, Sequences

CONSTANTS
    Users,         \* concurrent requests
    Rules,         \* the services of the Machine's schedule Events, in the order declared
    MaxEdits,      \* bound: writes people make to records there are
    MaxFails,      \* bound: effects that fail
    MaxCrashes,    \* bound: how often the process dies
    NoRow, NoRec

Declared ==
    /\ Rules \in Seq({"log", "set", "tell"}) /\ Rules # <<>>
    /\ MarkerFields \subseteq {"title", "due"}
    /\ MaxDay \in Nat /\ MaxEdits \in Nat /\ MaxFails \in Nat /\ MaxCrashes \in Nat
    /\ NoRec \notin Recs

ASSUME SchedulesAssumption == Declared

\* What metadata/contract_term.yaml and document.yaml keep to and nothing checks: each service
\* is declared once, and the one that logs before the one that tells.
Orderly ==
    /\ \A i, j \in 1 .. Len(Rules) : Rules[i] = Rules[j] => i = j
    /\ \A i \in 1 .. Len(Rules) : Rules[i] = "tell" => \E j \in 1 .. (i - 1) : Rules[j] = "log"

VARIABLES
    row,      \* the records' rows
    born,     \* the ids given out
    today,
    ticker,   \* the scheduler's goroutine: where it is, and what it read
    req,      \* each request that edits: where it is, its record, and the row it will write
    cut,      \* texts whose mark stands though an effect after it failed or was never reached
    spent,    \* texts a person's write left a record with when their rules had run or were running
    edits, fails, crashes

ghosts == <<told, missed, cut, spent>>
bounds == <<edits, fails, crashes>>
vars == <<row, born, today, marks, ticker, req, ghosts, bounds>>

Idle == [pc |-> "idle", now |-> 0, listed |-> [r \in Recs |-> NoRow], todo |-> {}, rec |-> NoRec, next |-> 1]
Rest == [pc |-> "idle", rec |-> NoRec, new |-> NoRow]

TypeOK ==
    /\ row \in [Recs -> Rows \cup {NoRow}]
    /\ born \subseteq Recs
    /\ \A r \in Recs \ born : row[r] = NoRow
    /\ today \in 0 .. MaxDay + 1
    /\ marks \in [Texts -> Nat] /\ told \in [Texts -> Nat] /\ missed \in [Texts -> Nat]
    /\ ticker \in [pc : {"idle", "listed", "records", "rules"}, now : 0 .. today, listed : [Recs -> Rows \cup {NoRow}],
                   todo : SUBSET Recs, rec : Recs \cup {NoRec}, next : 1 .. Len(Rules)]
    /\ ticker.pc = "rules" <=> ticker.rec \in Recs
    /\ req \in [Users -> {Rest} \cup [pc : {"writing"}, rec : Recs, new : Rows]]
    /\ cut \subseteq Texts /\ spent \subseteq Texts
    /\ edits \in 0 .. MaxEdits /\ fails \in 0 .. MaxFails /\ crashes \in 0 .. MaxCrashes

Init ==
    /\ row = [r \in Recs |-> NoRow]
    /\ born = {}
    /\ today = 1
    /\ marks = [x \in Texts |-> 0] /\ told = [x \in Texts |-> 0] /\ missed = [x \in Texts |-> 0]
    /\ ticker = Idle
    /\ req = [u \in Users |-> Rest]
    /\ cut = {} /\ spent = {}
    /\ edits = 0 /\ fails = 0 /\ crashes = 0

-----------------------------------------------------------------------------
(* People.                                                                 *)

Create(r) ==
    /\ r \notin born
    /\ \E v \in {v \in Rows : v.status = "open"} : row' = [row EXCEPT ![r] = v]
    /\ born' = born \cup {r}
    /\ UNCHANGED <<today, marks, ticker, req, ghosts, bounds>>

Changes(v) == {w \in Rows : w # v /\ \E f \in DOMAIN v : \A g \in DOMAIN v \ {f} : w[g] = v[g]}

\* patchRecordForm: the row is read, and one Field of it changed.
BeginEdit(u, r) ==
    /\ req[u].pc = "idle"
    /\ row[r] # NoRow
    /\ edits < MaxEdits
    /\ edits' = edits + 1
    /\ \E v \in Changes(row[r]) : req' = [req EXCEPT ![u] = [pc |-> "writing", rec |-> r, new |-> v]]
    /\ UNCHANGED <<row, born, today, marks, ticker, ghosts, fails, crashes>>

InHand(r) == r \in ticker.todo \cup {ticker.rec} \/ ticker.pc = "listed"

\* UpdateRecord writes the whole row as it was read, or finds none.
WriteEdit(u) ==
    LET r == req[u].rec
        text == <<r, Marker(req[u].new)>>
    IN  /\ req[u].pc = "writing"
        /\ req' = [req EXCEPT ![u] = Rest]
        /\ IF row[r] = NoRow
           THEN UNCHANGED <<row, spent>>
           ELSE /\ row' = [row EXCEPT ![r] = req[u].new]
                /\ spent' = IF marks[text] > 0 \/ InHand(r) THEN spent \cup {text} ELSE spent
        /\ UNCHANGED <<born, today, marks, ticker, told, missed, cut, bounds>>

Delete(r) ==
    /\ row[r] # NoRow
    /\ edits < MaxEdits
    /\ edits' = edits + 1
    /\ row' = [row EXCEPT ![r] = NoRow]
    /\ UNCHANGED <<born, today, marks, ticker, req, ghosts, fails, crashes>>

Tomorrow ==
    /\ today <= MaxDay
    /\ today' = today + 1
    /\ UNCHANGED <<row, born, marks, ticker, req, ghosts, bounds>>

-----------------------------------------------------------------------------
(* runScheduler and RunScheduledEvents.                                    *)

\* MatchedScheduleEvents: the Events of a Machine share one condition.
Matched(v, now) == v # NoRow /\ v.due < now /\ v.status # "done"

\* A tick, with the clock as it begins: ListRecords.
List ==
    /\ ticker.pc = "idle"
    /\ ticker' = [Idle EXCEPT !.pc = "listed", !.now = today, !.listed = row]
    /\ UNCHANGED <<row, born, today, marks, req, ghosts, bounds>>

NoneMarked(r) == TRUE  \* mutant: the mark is not looked for

NeverMarked(r) == \A m \in Markers : marks[<<r, m>>] = 0  \* mutant: whatever the text

\* activityExists, over the Machine's activities.
Unmarked(r) == marks[<<r, Marker(ticker.listed[r])>>] = 0

\* Rules of which none logs have nothing to tell a second run by, and never run.
HasMarker == \E i \in 1 .. Len(Rules) : Rules[i] = "log"

ListActivities ==
    /\ ticker.pc = "listed"
    /\ ticker' = [ticker EXCEPT !.pc = "records",
          !.todo = {r \in Recs : Matched(ticker.listed[r], ticker.now) /\ HasMarker /\ Unmarked(r)}]
    /\ UNCHANGED <<row, born, today, marks, req, ghosts, bounds>>

NextRecord(r) ==
    /\ ticker.pc = "records"
    /\ r \in ticker.todo
    /\ ticker' = [ticker EXCEPT !.pc = "rules", !.todo = @ \ {r}, !.rec = r, !.next = 1]
    /\ UNCHANGED <<row, born, today, marks, req, ghosts, bounds>>

Listed == ticker.listed[ticker.rec]
Text == <<ticker.rec, Marker(Listed)>>

At(service) == ticker.pc = "rules" /\ Rules[ticker.next] = service

NextRule ==
    ticker' = IF ticker.next < Len(Rules)
              THEN [ticker EXCEPT !.next = @ + 1]
              ELSE [ticker EXCEPT !.pc = "records", !.rec = NoRec, !.next = 1]

LogActivity ==
    /\ At("log")
    /\ marks' = [marks EXCEPT ![Text] = @ + 1]
    /\ NextRule
    /\ UNCHANGED <<row, born, today, req, ghosts, bounds>>

\* setField: a value already held is not written; the row that is, is the one listed.
SetField ==
    /\ At("set")
    /\ row' = IF Listed.status = "late" \/ row[ticker.rec] = NoRow THEN row
              ELSE [row EXCEPT ![ticker.rec] = [Listed EXCEPT !.status = "late"]]
    /\ NextRule
    /\ UNCHANGED <<born, today, marks, req, ghosts, bounds>>

SendNotification ==
    /\ At("tell")
    /\ told' = [told EXCEPT ![Text] = @ + 1]
    /\ NextRule
    /\ UNCHANGED <<row, born, today, marks, req, missed, cut, spent, bounds>>

FailAndLeave ==  \* mutant: what failed ends the record's rules, and is tried again
    /\ ticker.pc = "rules"
    /\ fails < MaxFails
    /\ fails' = fails + 1
    /\ ticker' = [ticker EXCEPT !.pc = "records", !.rec = NoRec, !.next = 1]
    /\ UNCHANGED <<row, born, today, marks, req, ghosts, edits, crashes>>

\* A service that fails is logged, and the next one runs.
ServiceFails ==
    /\ ticker.pc = "rules"
    /\ fails < MaxFails
    /\ fails' = fails + 1
    /\ missed' = IF At("log") THEN [missed EXCEPT ![Text] = @ + 1] ELSE missed
    /\ cut' = IF At("log") THEN cut ELSE cut \cup {Text}
    /\ NextRule
    /\ UNCHANGED <<row, born, today, marks, req, told, spent, edits, crashes>>

EndTick ==
    /\ ticker.pc = "records"
    /\ ticker.todo = {}
    /\ ticker' = Idle
    /\ UNCHANGED <<row, born, today, marks, req, ghosts, bounds>>

\* The Machine's records or activities cannot be listed: the next tick tries again.
ListingFails ==
    /\ ticker.pc = "listed"
    /\ fails < MaxFails
    /\ fails' = fails + 1
    /\ ticker' = Idle
    /\ UNCHANGED <<row, born, today, marks, req, ghosts, edits, crashes>>

Crash ==
    /\ crashes < MaxCrashes
    /\ crashes' = crashes + 1
    /\ ticker' = Idle
    /\ req' = [u \in Users |-> Rest]
    /\ cut' = IF ticker.pc = "rules" /\ marks[Text] > 0 THEN cut \cup {Text} ELSE cut
    /\ UNCHANGED <<row, born, today, marks, told, missed, spent, edits, fails>>

-----------------------------------------------------------------------------
Service == LogActivity \/ SetField \/ SendNotification

Tick == List \/ ListActivities \/ (\E r \in Recs : NextRecord(r)) \/ Service \/ EndTick

Next ==
    \/ \E r \in Recs : Create(r) \/ Delete(r) \/ \E u \in Users : BeginEdit(u, r)
    \/ \E u \in Users : WriteEdit(u)
    \/ Tomorrow \/ Tick \/ ServiceFails \/ ListingFails \/ Crash

\* The ticker's goroutine runs and its statements are answered; people do what they like, and
\* what they began ends.
Fairness == WF_vars(Tick) /\ \A u \in Users : WF_vars(WriteEdit(u))

Spec == Init /\ [][Next]_vars
FairSpec == Spec /\ Fairness

-----------------------------------------------------------------------------
Overdue(r) == Matched(row[r], today)

\* A record that stays overdue and open is marked in the end, under the text it then has.
Marked == \A r \in Recs : Overdue(r) ~> ~Overdue(r) \/ marks[<<r, Marker(row[r])>>] > 0

\* ... and its status is set, unless an effect failed or the process stopped after the mark was
\* written, or a person wrote the record under that text while its rules ran or after they had.
Flagged ==
    \A r \in Recs :
        Overdue(r) ~> ~Overdue(r) \/ row[r].status = "late" \/ <<r, Marker(row[r])>> \in cut \cup spent
=============================================================================
