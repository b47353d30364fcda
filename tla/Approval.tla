------------------------------ MODULE Approval ------------------------------
(***************************************************************************)
(* The approval of one document (internal/web/approval.go, document.go and *)
(* signing.go): its submitter sends it out with the steps its approvers    *)
(* decide, each decision is rolled up to the document and stamped on its   *)
(* signed file (internal/execution/events.go and composite.go), and a      *)
(* rejected document is taken back to a draft and sent out again.          *)
(*                                                                         *)
(* No step of a handler shares a transaction or a lock with another: every *)
(* statement commits by itself, and every update writes the whole row it   *)
(* read, columns it did not mean to change included.  What follows a       *)
(* decision is best effort: a service that fails is logged, the next one   *)
(* runs, and a client that goes away or a process that dies ends the rest. *)
(***************************************************************************)
EXTENDS Naturals, FiniteSets, FiniteSetsExt

CONSTANTS
    Requests,      \* concurrent requests
    Modes,         \* fld_mode: "sequential" locks a step behind the ones before it
    MaxApprovers,  \* bound: the approvers of one submission
    MaxSteps,      \* bound: the steps ever created
    MaxCuts        \* bound: how often a request or a service is cut short

ASSUME ApprovalAssumption ==
    /\ Modes # {} /\ Modes \subseteq {"sequential", "parallel"}
    /\ MaxApprovers \in Nat \ {0} /\ MaxSteps \in Nat \ {0} /\ MaxCuts \in Nat

VARIABLES
    document,  \* the row of the document
    steps,     \* the rows of its steps, by id
    created,   \* how many ids were given out
    cuts,      \* how often a request or a service was cut short
    req        \* each request: where it is, and what it has read

vars == <<document, steps, created, cuts, req>>

Ids == 1 .. MaxSteps
Verdicts == {"approved", "rejected"}
Decisions == Verdicts \cup {"pending"}
Statuses == {"draft", "in_review"} \cup Verdicts

\* The status of a document not created yet, and the decision of a step that is not there.
Documents == [status : Statuses \cup {"none"}, mode : Modes, signed : SUBSET Ids]
Steps == [order : 0 .. MaxApprovers, decision : Decisions \cup {"none"}]
Gone == [order |-> 0, decision |-> "none"]

Idle == [pc |-> "idle"]
Jobs == [pc : {"mode", "turn", "decide", "rollup", "parent", "status", "stamps", "source", "sign",
               "place", "withdraw", "add", "redraft", "rows", "clear", "send", "create"},
         step : Ids \cup {0}, row : Steps, verdict : Decisions, sequential : BOOLEAN,
         value : Statuses, doc : Documents, marked : SUBSET Ids, rows : 0 .. MaxApprovers]

TypeOK ==
    /\ document \in Documents
    /\ steps \in [Ids -> Steps]
    /\ created \in 0 .. MaxSteps
    /\ cuts \in 0 .. MaxCuts
    /\ req \in [Requests -> Jobs \cup {Idle}]

Init ==
    /\ document \in [status : {"none"}, mode : Modes, signed : {{}}]
    /\ steps = [i \in Ids |-> Gone]
    /\ created = 0
    /\ cuts = 0
    /\ req = [t \in Requests |-> Idle]

-----------------------------------------------------------------------------
Active(t, pc) == req[t].pc = pc
Go(t, pc) == req' = [req EXCEPT ![t].pc = pc]
Answer(t) == req' = [req EXCEPT ![t] = Idle]

\* A request holds what it has read and will use; the rest of it is blank.
NoDocument == [status |-> "none", mode |-> CHOOSE m \in Modes : TRUE, signed |-> {}]
At(pc) == [pc |-> pc, step |-> 0, row |-> Gone, verdict |-> "pending", sequential |-> FALSE,
           value |-> "in_review", doc |-> NoDocument, marked |-> {}, rows |-> 0]

Begin(t, job) ==
    /\ Active(t, "idle")
    /\ req' = [req EXCEPT ![t] = job]

Live == {i \in Ids : steps[i] # Gone}
Mine(t) == req[t].step

\* UpdateRecord of a step: the whole row, and an error if it is not there any more.
Present(t) == steps[Mine(t)] # Gone

-----------------------------------------------------------------------------
(* Deciding a step: decideStep, up to its write.                           *)

AnyMove(from, to) == TRUE  \* mutant: the declared transitions are not consulted

\* CheckTransitions: a step leaves pending once; a decision that changes nothing is no move.
Declared(from, to) == from \in {"pending", to}

BeginDecide(t, s, d) ==
    /\ steps[s] # Gone
    /\ Declared(steps[s].decision, d)
    /\ Begin(t, [At("mode") EXCEPT !.step = s, !.row = steps[s], !.verdict = d])
    /\ UNCHANGED <<document, steps, created, cuts>>

ReadMode(t) ==
    /\ Active(t, "mode")
    /\ req' = [req EXCEPT ![t].pc = "turn", ![t].sequential = (document.mode = "sequential")]
    /\ UNCHANGED <<document, steps, created, cuts>>

LaterOpen(t) ==  \* mutant: the order is compared the wrong way round
    {i \in Live \ {Mine(t)} : steps[i].order > req[t].row.order /\ steps[i].decision = "pending"}

\* The siblings ahead of the step that are still open.
EarlierOpen(t) ==
    {i \in Live \ {Mine(t)} : steps[i].order < req[t].row.order /\ steps[i].decision = "pending"}

\* behavior.CanAct.
TakeTurn(t) ==
    /\ Active(t, "turn")
    /\ IF req[t].sequential /\ EarlierOpen(t) # {} THEN Answer(t) ELSE Go(t, "decide")
    /\ UNCHANGED <<document, steps, created, cuts>>

\* The decision is saved.  The Events of its Field fire if it was a change.
WriteDecision(t) ==
    /\ Active(t, "decide")
    /\ IF Present(t)
       THEN /\ steps' = [steps EXCEPT ![Mine(t)] = [req[t].row EXCEPT !.decision = req[t].verdict]]
            /\ IF req[t].row.decision = req[t].verdict THEN Answer(t)
               ELSE req' = [req EXCEPT ![t] = [At("rollup") EXCEPT !.verdict = req[t].verdict]]
       ELSE Answer(t) /\ UNCHANGED steps
    /\ UNCHANGED <<document, created, cuts>>

-----------------------------------------------------------------------------
(* rollUpParentStatus: the first service of a decision.                    *)

RollupNoDefault(decisions) ==  \* mutant: no default is declared, and nothing is written instead
    IF "rejected" \in decisions THEN "rejected"
    ELSE IF decisions = {"approved"} THEN "approved"
    ELSE "none"

RollupEager(decisions) ==  \* mutant: one approval is enough
    IF "rejected" \in decisions THEN "rejected"
    ELSE IF "approved" \in decisions THEN "approved"
    ELSE "in_review"

\* behavior.RollupValue, with the values the steps' Machine declares: one rejection settles
\* it, an approval takes every step, and a document of no steps is in review.
RollupValue(decisions) ==
    IF "rejected" \in decisions THEN "rejected"
    ELSE IF decisions = {"approved"} THEN "approved"
    ELSE "in_review"

StepDecisions == {steps[i].decision : i \in Live}

ListSiblings(t) ==
    /\ Active(t, "rollup")
    /\ req' = [req EXCEPT ![t].pc = "parent", ![t].value = RollupValue(StepDecisions)]
    /\ UNCHANGED <<document, steps, created, cuts>>

ReadParent(t) ==
    /\ Active(t, "parent")
    /\ req' = [req EXCEPT ![t].pc = "status", ![t].doc = document]
    /\ UNCHANGED <<document, steps, created, cuts>>

\* The next service of the decision: an approval is stamped on the file.
NextService(t) ==
    req' = [req EXCEPT ![t] = IF req[t].verdict = "approved" THEN At("stamps") ELSE Idle]

WriteStatus(t) ==
    /\ Active(t, "status")
    /\ document' = [req[t].doc EXCEPT !.status = req[t].value]
    /\ NextService(t)
    /\ UNCHANGED <<steps, created, cuts>>

\* The roll-up fails: it is logged, and the next service runs.
SkipRollup(t) ==
    /\ req[t].pc \in {"rollup", "parent", "status"}
    /\ cuts < MaxCuts
    /\ cuts' = cuts + 1
    /\ NextService(t)
    /\ UNCHANGED <<document, steps, created>>

-----------------------------------------------------------------------------
(* compositeSignedDocument: the second.                                    *)

ListEvery(t) ==  \* mutant: every step is stamped, whatever was decided
    /\ Active(t, "stamps")
    /\ req' = [req EXCEPT ![t].pc = "source", ![t].marked = Live]
    /\ UNCHANGED <<document, steps, created, cuts>>

ListStamps(t) ==
    LET approved == {i \in Live : steps[i].decision = "approved"}
    IN  /\ Active(t, "stamps")
        /\ IF approved = {} THEN Answer(t)
           ELSE req' = [req EXCEPT ![t].pc = "source", ![t].marked = approved]
        /\ UNCHANGED <<document, steps, created, cuts>>

ReadSource(t) ==
    /\ Active(t, "source")
    /\ req' = [req EXCEPT ![t].pc = "sign", ![t].doc = document]
    /\ UNCHANGED <<document, steps, created, cuts>>

WriteSigned(t) ==
    /\ Active(t, "sign")
    /\ document' = [req[t].doc EXCEPT !.signed = req[t].marked]
    /\ Answer(t)
    /\ UNCHANGED <<steps, created, cuts>>

-----------------------------------------------------------------------------
(* Placing a step's signature, withdrawing a step, adding one.             *)

BeginPlace(t, s) ==
    /\ steps[s] # Gone
    /\ Begin(t, [At("place") EXCEPT !.step = s, !.row = steps[s]])
    /\ UNCHANGED <<document, steps, created, cuts>>

\* updateSignaturePlacement: the box is set on the row as read, and all of it is written.
WritePlacement(t) ==
    /\ Active(t, "place")
    /\ steps' = IF Present(t) THEN [steps EXCEPT ![Mine(t)] = req[t].row] ELSE steps
    /\ Answer(t)
    /\ UNCHANGED <<document, created, cuts>>

\* CanDeleteApprovalStep.
BeginWithdraw(t, s) ==
    /\ steps[s].decision = "pending"
    /\ Begin(t, [At("withdraw") EXCEPT !.step = s])
    /\ UNCHANGED <<document, steps, created, cuts>>

\* deleteLocked: a delete fires no Event, so nothing is rolled up.
Withdraw(t) ==
    /\ Active(t, "withdraw")
    /\ steps' = [steps EXCEPT ![Mine(t)] = Gone]
    /\ Answer(t)
    /\ UNCHANGED <<document, created, cuts>>

\* The generic create of a step, by the document's submitter; d and n are what the form says.
BeginAdd(t, d, n) ==
    /\ document.status # "none"
    /\ Begin(t, [At("add") EXCEPT !.verdict = d, !.rows = n])
    /\ UNCHANGED <<document, steps, created, cuts>>

Insert(order, d) ==
    /\ created < MaxSteps
    /\ created' = created + 1
    /\ steps' = [steps EXCEPT ![created'] = [order |-> order, decision |-> d]]

AddStep(t) ==
    /\ Active(t, "add")
    /\ Insert(req[t].rows, req[t].verdict)
    /\ Answer(t)
    /\ UNCHANGED <<document, cuts>>

-----------------------------------------------------------------------------
(* Submitting a document, taking it back and sending it out again.         *)

\* submitDocumentWizard: created as a draft, or in review with n approvers to follow.
Submit(t, mode, n) ==
    /\ document.status = "none"
    /\ document' = [document EXCEPT !.mode = mode,
                                    !.status = IF n = 0 THEN "draft" ELSE "in_review"]
    /\ IF n = 0 THEN Active(t, "idle") /\ UNCHANGED req
       ELSE Begin(t, [At("create") EXCEPT !.rows = n])
    /\ UNCHANGED <<steps, created, cuts>>

\* createApprovalSteps: one pending step after another; marked holds the
\* steps this submission has created.
CreateStep(t) ==
    /\ Active(t, "create")
    /\ Insert(Cardinality(req[t].marked) + 1, "pending")
    /\ IF Cardinality(req[t].marked) + 1 = req[t].rows THEN Answer(t)
       ELSE req' = [req EXCEPT ![t].marked = @ \cup {created'}]
    /\ UNCHANGED <<document, cuts>>

ReviseInPlace(t) ==  \* mutant: the steps go, the status stays
    /\ document.status = "rejected"
    /\ Begin(t, At("rows"))
    /\ UNCHANGED <<document, steps, created, cuts>>

\* reviseDocument, CanReviseDocument.
BeginRevise(t) ==
    /\ document.status = "rejected"
    /\ Begin(t, [At("redraft") EXCEPT !.doc = document])
    /\ UNCHANGED <<document, steps, created, cuts>>

WriteDraft(t) ==
    /\ Active(t, "redraft")
    /\ document' = [req[t].doc EXCEPT !.status = "draft"]
    /\ req' = [req EXCEPT ![t] = At("rows")]
    /\ UNCHANGED <<steps, created, cuts>>

ListSteps(t) ==
    /\ Active(t, "rows")
    /\ req' = [req EXCEPT ![t].pc = "clear", ![t].marked = Live]
    /\ UNCHANGED <<document, steps, created, cuts>>

ClearStep(t) ==
    /\ Active(t, "clear")
    /\ IF req[t].marked = {} THEN Answer(t) /\ UNCHANGED steps
       ELSE LET i == Min(req[t].marked)
            IN  /\ steps' = [steps EXCEPT ![i] = Gone]
                /\ req' = [req EXCEPT ![t].marked = @ \ {i}]
    /\ UNCHANGED <<document, created, cuts>>

\* continueDocumentWizard, CanContinueDraft.
BeginContinue(t, n) ==
    /\ document.status = "draft"
    /\ Begin(t, [At("send") EXCEPT !.doc = document, !.rows = n])
    /\ UNCHANGED <<document, steps, created, cuts>>

\* What the form does not carry is carried forward from the row as read.
SendOut(t, mode) ==
    /\ Active(t, "send")
    /\ document' = [req[t].doc EXCEPT !.status = "in_review", !.mode = mode]
    /\ req' = [req EXCEPT ![t] = [At("create") EXCEPT !.rows = req[t].rows]]
    /\ UNCHANGED <<steps, created, cuts>>

-----------------------------------------------------------------------------
\* A statement fails, the client goes away, or the process dies: what was written stands, and
\* nothing takes the rest up again.
Abandon(t) ==
    /\ ~Active(t, "idle")
    /\ cuts < MaxCuts
    /\ cuts' = cuts + 1
    /\ Answer(t)
    /\ UNCHANGED <<document, steps, created>>

Next ==
    \E t \in Requests :
        \/ \E s \in Ids : \/ \E d \in Verdicts : BeginDecide(t, s, d)
                          \/ BeginPlace(t, s) \/ BeginWithdraw(t, s)
        \/ ReadMode(t) \/ TakeTurn(t) \/ WriteDecision(t)
        \/ ListSiblings(t) \/ ReadParent(t) \/ WriteStatus(t) \/ SkipRollup(t)
        \/ ListStamps(t) \/ ReadSource(t) \/ WriteSigned(t)
        \/ WritePlacement(t) \/ Withdraw(t)
        \/ \E d \in Decisions, n \in 1 .. MaxApprovers : BeginAdd(t, d, n)
        \/ AddStep(t)
        \/ \E mode \in Modes :
              \/ \E n \in 0 .. MaxApprovers : Submit(t, mode, n)
              \/ SendOut(t, mode)
        \/ \E n \in 1 .. MaxApprovers : BeginContinue(t, n)
        \/ CreateStep(t) \/ BeginRevise(t) \/ WriteDraft(t) \/ ListSteps(t) \/ ClearStep(t)
        \/ Abandon(t)

Spec == Init /\ [][Next]_vars

-----------------------------------------------------------------------------
\* A document is approved by every one of its steps: "approved needs every step"
\* (metadata/approval_step.yaml, RollupValue), whatever was written over whatever.
ApprovedByAll ==
    document.status = "approved" =>
        Live # {} /\ \A i \in Live : steps[i].decision = "approved"

\* A document is rejected because one of its steps is, and the steps of a rejected cycle are
\* still there for as long as its status is (reviseDocument).
RejectedByOne ==
    document.status = "rejected" => \E i \in Live : steps[i].decision = "rejected"

\* The signed file bears the stamp of no step that is there and is not approved, though the
\* steps are listed well before the file is written (compositeSignedDocument).
SignedAsApproved == \A i \in document.signed \cap Live : steps[i].decision = "approved"

\* In sequential mode a step is decided only when no step ahead of it is open (CanAct), though
\* the siblings are read before the decision is written.
InTurn ==
    [][\A i, j \in Ids :
          /\ steps[i].decision = "pending" /\ steps'[i].decision \in Verdicts
          /\ document.mode = "sequential"
          /\ steps[j].order < steps[i].order
          => steps[j].decision # "pending"]_vars

\* "A decision is final" (metadata/approval_step.yaml): the row of a decided step keeps its
\* decision until a revision, and only a revision, removes it (reviseDocument).
DecisionsFinal ==
    [][\A i \in Ids : steps[i].decision \in Verdicts =>
          \/ steps'[i] = steps[i]
          \/ steps'[i] = Gone /\ document.status = "draft"]_vars

\* At rest, with nothing cut short, a document out for approval has the status its steps add
\* up to: "A Document's own status follows its Approval Steps" (metadata/approval_step.yaml).
StatusFollows ==
    (\A t \in Requests : Active(t, "idle")) /\ cuts = 0 /\ document.status \notin {"none", "draft"}
        => document.status = RollupValue(StepDecisions)

-----------------------------------------------------------------------------
(* What the code does not keep apart, and what the properties above need   *)
(* kept apart: a constraint of the runs and a premise of the theorems.     *)

OnStep(t) == req[t].pc \in {"mode", "turn", "decide", "place", "withdraw"}
Deciding(t) == req[t].pc \in {"mode", "turn", "decide", "rollup", "parent", "status",
                              "stamps", "source", "sign"}
Changing(t) == req[t].pc \in {"redraft", "rows", "clear", "send", "create", "add"}

\* One request at a time has a step in hand, from its reading to its writing.
OneHand == \A t, u \in Requests : t # u /\ OnStep(t) /\ OnStep(u) => Mine(t) # Mine(u)

\* While a request sends the document out, takes it back or adds a step, no decision is
\* under way and no other request does one of these.
Settled == \A t, u \in Requests : t # u /\ Changing(t) => ~Deciding(u) /\ ~Changing(u)

\* No step is added to an approved document: it would be one that did not approve it.
NotAddedToApproved == \A t \in Requests : Active(t, "add") => document.status # "approved"

Undisturbed == OneHand /\ Settled /\ NotAddedToApproved
=============================================================================
