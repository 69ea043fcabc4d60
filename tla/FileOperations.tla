--------------------------- MODULE FileOperations ---------------------------
(***************************************************************************)
(* Exports, imports and their undo in one document editor: the controller  *)
(* of the Files panel (shared/editor/fileOperations.ts inside              *)
(* useEditorMessages.ts), the host's tasks and single claim                *)
(* (SdocEditorProvider.ts), its FileOperationPlanRegistry and the          *)
(* publication of an export (VsCodeExportService.ts).                      *)
(*                                                                         *)
(* A plan, an artifact and a flush are known by the number of the request  *)
(* they belong to.  Contents are bodies; a document fingerprint is its     *)
(* version, a target fingerprint the number of writes the target has seen. *)
(* The draft travels as in EditorSession; an edit is applied in one step.  *)
(***************************************************************************)
EXTENDS FlushAnswers, FiniteSets

CONSTANTS
    Start,          \* the body the document opens with
    Imported,       \* the body an import brings
    Typed,          \* the body the user types
    Foreign,        \* the body another program writes
    Meta, Settings, \* the metadata and settings, which nothing changes here
    Kinds,          \* the operations offered, among "export" and "import"
    Hurried,        \* whether palette and panel are used at the same time
    MaxOperations,  \* bound: requests, counting retries and undos
    MaxTyped,       \* bound: changes the user types
    MaxForeign,     \* bound: writes of other programs
    MaxFailures     \* bound: host steps that fail

ASSUME OperationAssumption ==
    /\ {Start, Imported, Typed, Foreign} \subseteq Contents
    /\ Meta \in Metas /\ Settings \in SettingValues
    /\ Kinds \subseteq {"export", "import"}
    /\ Hurried \in BOOLEAN
    /\ MaxOperations \in Nat

Operations == 1 .. MaxOperations

Plans == [source : Nat, target : Nat, body : Contents, cancelled : BOOLEAN,
          running : BOOLEAN, committing : BOOLEAN]

\* What the panel shows of a request, and the result action it waits for.
Shown == [phase : {"preflighting", "awaiting", "running", "succeeded", "failed",
                   "cancelled"},
          operation : Operations, kind : {"none", "export", "import"},
          offers : SUBSET {"undo", "repeat"}]

ResultActions == [action : {"undo", "repeat"}, operation : Operations, result : Shown]

ASSUME NoPlanAssumption == Null \notin Plans \cup ResultActions

VARIABLES
    sync,    \* the webview's DocumentSyncCoordinator
    view,    \* the rest of the webview
    toHost,  \* messages posted by the webview
    toView,  \* messages posted by the host
    host,    \* the session's variables in the host, and its edit queue
    tasks,   \* the host's asynchronous function for each request
    doc,     \* VS Code's text document
    target,  \* how often the exported file has been written
    ledger   \* history and bounds

vars == <<sync, view, toHost, toView, host, tasks, doc, target, ledger>>

webview == <<sync, view, toHost>>

----------------------------------------------------------------------------
(* Values *)

Idle == [phase |-> "idle", operation |-> 0, kind |-> "none", offers |-> {}]

Active(op) == op.phase \in {"preflighting", "awaiting", "running"}

Preflight == {"flushing", "rendering", "sizing", "choosing", "reading", "offering"}
Export    == {"queued", "staging", "staged", "committing", "published"}
Executing == {"starting", "checking", "applying", "restoring"} \cup Export
Steps     == {"none", "offered", "ended"} \cup Preflight \cup Executing

NoTask == [kind |-> "none", step |-> "none", aborted |-> FALSE,
           known |-> FALSE, source |-> 0, plan |-> Null]

Mutation(body) == [content |-> body, metadata |-> Meta, settings |-> Settings]

Status(phase, r, kind, offers) ==
    [type |-> "status", phase |-> phase, operation |-> r, kind |-> kind,
     offers |-> offers]

Message(type, r) == [type |-> type, operation |-> r]

\* The barrier behind an imported body; flushes have the numbers below.
Barrier(r) == MaxOperations + r

NewSync == AdoptReplacement(Created(1), 1, Mutation(Start), TRUE)

NewView == [op |-> Idle, pending |-> Null, authorized |-> 0, body |-> Start,
            tracked |-> Start, typed |-> FALSE, applying |-> <<>>]

Init ==
    /\ sync = NewSync /\ view = NewView
    /\ toHost = <<>> /\ toView = <<>>
    /\ host = [claim |-> 0, edits |-> <<>>, artifacts |-> {}, latest |-> 0,
               disposed |-> FALSE]
    /\ tasks = [r \in Operations |-> NoTask]
    /\ doc = [version |-> 1, body |-> Start]
    /\ target = 0
    /\ ledger = [issued |-> 0, typed |-> 0, foreign |-> 0, failures |-> 0,
                 cancelled |-> {}, effected |-> {}, stopped |-> {},
                 flushed |-> [r \in Operations |-> 0],
                 replaced |-> [r \in Operations |-> Null]]

Issue == ledger.issued + 1

----------------------------------------------------------------------------
(* The webview *)

\* The places of the imports whose barrier the step from s to t settled.
SettledImports(v, s, t) ==
    {n \in DOMAIN v.applying :
        /\ \E w \in s.flushWaiters : w.flush = Barrier(v.applying[n].operation)
        /\ ~\E w \in t.flushWaiters : w.flush = Barrier(v.applying[n].operation)}

\* The members of a sequence at these places, oldest first.
Picked(q, places) ==
    LET order == Ascending(places) IN [k \in DOMAIN order |-> q[order[k]]]

Stored(s, t, i) ==
    \E w \in s.flushWaiters : /\ w.flush = Barrier(i.operation)
                              /\ w.generation <= t.acknowledgedGeneration

Applied(r, ok) == [type |-> "applied", operation |-> r, ok |-> ok]

\* The checkpoints of these imports, submitted one after the other.
PutBack(t, undone) ==
    LET after[n \in 0 .. Len(undone)] ==
            IF n = 0 THEN t
            ELSE SubmitContent(after[n - 1], Mutation(undone[n].checkpoint), TRUE)
    IN  after[Len(undone)]

\* The webview moves to coordinator t and state v, and posts `posted` last.
\* An import whose barrier was rejected puts its checkpoint back
\* (applyImportedContentWithRollback).
ViewStep(t, v, posted) ==
    LET places  == SettledImports(v, sync, t)
        settled == Picked(v.applying, places)
        undone  == Picked(v.applying, {n \in places : ~Stored(sync, t, v.applying[n])})
        reports == [n \in DOMAIN settled |->
                       Applied(settled[n].operation, Stored(sync, t, settled[n]))]
        kept    == Picked(v.applying, DOMAIN v.applying \ places)
        back    == IF undone = <<>> THEN v.body ELSE undone[Len(undone)].checkpoint
    IN  /\ sync' = PutBack(t, undone)
        /\ view' = [v EXCEPT !.applying = kept,
                             !.body     = back,
                             !.tracked  = IF undone = <<>> THEN @ ELSE back,
                             !.typed    = undone = <<>> /\ @]
        /\ toHost' = toHost
             \o (IF Sends(sync, t) THEN <<[type |-> "edit", request |-> t.inFlight]>>
                                   ELSE <<>>)
             \o Answers(sync, t, MaxOperations) \o reports \o posted

\* flushPendingUpdate and the debounce: submit what was typed.
Captured(v) == IF v.typed /\ v.body # v.tracked
               THEN SubmitContent(sync, Mutation(v.body), TRUE) ELSE sync

CapturedView(v) == [v EXCEPT !.typed = FALSE,
                             !.tracked = IF v.typed THEN v.body ELSE @]

HostUnchanged == UNCHANGED <<toView, host, tasks, doc, target>>

Type ==
    /\ ~host.disposed
    /\ ledger.typed < MaxTyped /\ view.body # Typed
    /\ view' = [view EXCEPT !.body = Typed, !.typed = TRUE]
    /\ ledger' = [ledger EXCEPT !.typed = @ + 1]
    /\ UNCHANGED <<sync, toHost>> /\ HostUnchanged

Debounce ==
    /\ ~host.disposed /\ view.typed
    /\ ViewStep(Captured(view), CapturedView(view), <<>>)
    /\ UNCHANGED ledger /\ HostUnchanged

\* An unhurried user has seen what a palette command began.
Attentive ==
    Hurried \/ \A n \in DOMAIN toView :
                  ~(toView[n].type = "status" /\ toView[n].phase = "preflighting")

NewOperation(r) == /\ ~host.disposed /\ Attentive
                   /\ ledger.issued < MaxOperations /\ r = Issue
                   /\ ledger' = [ledger EXCEPT !.issued = r]

Preflighting(r, kind) ==
    [phase |-> "preflighting", operation |-> r, kind |-> kind, offers |-> {}]

\* handleFileOperation
Prepare ==
    /\ ~Active(view.op)
    /\ \E r \in Operations, kind \in Kinds :
          /\ NewOperation(r)
          /\ ViewStep(Captured(view),
                      [CapturedView(view) EXCEPT !.op = Preflighting(r, kind)],
                      <<[type |-> "prepare", operation |-> r, kind |-> kind]>>)
    /\ HostUnchanged

\* handleFileOperationConfirm
Confirm ==
    /\ ~host.disposed /\ view.op.phase = "awaiting"
    /\ ViewStep(sync, [view EXCEPT !.op.phase = "running"],
                <<Message("execute", view.op.operation)>>)
    /\ UNCHANGED ledger /\ HostUnchanged

\* handleFileOperationCancel; the user clicks once for each request.
Cancel ==
    /\ ~host.disposed /\ Active(view.op)
    /\ view.op.operation \notin ledger.stopped
    /\ ViewStep(sync, view, <<Message("cancel", view.op.operation)>>)
    /\ ledger' = [ledger EXCEPT !.stopped = @ \cup {view.op.operation}]
    /\ HostUnchanged

\* handleFileOperationRetry
RetryOperation ==
    /\ view.op.phase \in {"failed", "cancelled"} /\ view.op.kind # "none"
    /\ \E r \in Operations :
          /\ NewOperation(r)
          /\ ViewStep(sync, [view EXCEPT !.op = Preflighting(r, view.op.kind)],
                      <<[type |-> "retry", operation |-> r,
                         previous |-> view.op.operation]>>)
    /\ HostUnchanged

\* handleFileOperationResultAction; the actions that only open a file are
\* left out.
ResultAction ==
    /\ view.op.phase = "succeeded" /\ view.pending = Null
    /\ \E r \in Operations, action \in view.op.offers :
          /\ NewOperation(r)
          /\ ViewStep(sync,
                      [view EXCEPT !.pending = [action |-> action, operation |-> r,
                                                result |-> view.op]],
                      <<[type |-> action, operation |-> r,
                         previous |-> view.op.operation]>>)
    /\ HostUnchanged

----------------------------------------------------------------------------
(* shared/editor/fileOperations.ts and the webview's message handler *)

\* reduceStandaloneFileOperationHostMessage over fileOperationReducer.
Reduce(op, m) ==
    LET matching == op.phase # "idle" /\ op.operation = m.operation
        shown == [phase |-> m.phase, operation |-> m.operation, kind |-> m.kind,
                  offers |-> {}]
    IN  CASE m.phase = "preflighting" -> IF Active(op) THEN op ELSE shown
          [] m.phase = "awaiting" ->
                IF matching /\ op.phase = "preflighting" /\ op.kind = m.kind
                THEN [op EXCEPT !.phase = "awaiting"] ELSE op
          [] m.phase = "running" ->
                IF op.phase = "awaiting" /\ ~matching THEN op ELSE shown
          [] OTHER ->
                IF matching /\ Active(op)
                THEN [op EXCEPT !.phase = m.phase, !.offers = m.offers] ELSE op

\* Seeded fault: a failed action leaves its request pending.
ReduceAction_Pending(v, m) ==
    IF m.phase = "running" /\ v.pending.action = "undo"
    THEN [v EXCEPT !.op = Reduce(Idle, m)]
    ELSE [v EXCEPT !.op = Reduce(v.op, m)]

\* The status of the request behind a pending result action.  A failure puts
\* the earlier result back on display.
ReduceAction(v, m) ==
    LET result == v.pending.result
        done(op) == [v EXCEPT !.pending = Null, !.op = op]
    IN  CASE m.phase = "preflighting" /\ v.pending.action = "repeat" ->
                done(Reduce(result, m))
          [] m.phase = "running" /\ v.pending.action = "undo" ->
                [v EXCEPT !.op = Reduce(Idle, m)]
          [] m.phase = "succeeded" /\ v.pending.action = "undo" ->
                done([Reduce(Idle, [m EXCEPT !.phase = "running"])
                        EXCEPT !.phase = "succeeded", !.offers = m.offers])
          [] m.phase \in {"failed", "cancelled"} -> done(result)
          [] OTHER -> [v EXCEPT !.op = Reduce(v.op, m)]

Authorized(v, m) ==
    CASE m.phase = "running" /\ m.kind = "import" -> m.operation
      [] m.phase \in {"failed", "cancelled", "succeeded"} -> 0
      [] OTHER -> v.authorized

Hears(type) == ~host.disposed /\ toView # <<>> /\ Head(toView).type = type

Heard == toView' = Tail(toView) /\ UNCHANGED <<host, tasks, doc, target>>

HearStatus ==
    /\ Hears("status")
    /\ LET m == Head(toView)
           v == [view EXCEPT !.authorized = Authorized(view, m)]
       IN  ViewStep(sync,
                    IF view.pending # Null /\ view.pending.operation = m.operation
                    THEN ReduceAction(v, m)
                    ELSE [v EXCEPT !.op = Reduce(v.op, m)],
                    <<>>)
    /\ UNCHANGED ledger /\ Heard

\* fileOperationResultActionStatus, which only a failed action sends here.
HearActionFailed ==
    /\ Hears("actionFailed")
    /\ ViewStep(sync,
                IF view.pending # Null /\ view.pending.operation = Head(toView).operation
                THEN [view EXCEPT !.pending = Null, !.op = view.pending.result]
                ELSE view,
                <<>>)
    /\ UNCHANGED ledger /\ Heard

Admits(v, r) ==
    (v.op.phase = "running" /\ v.op.operation = r) \/ v.authorized = r

\* importContent and importHtml: the editor takes the body, submits it and
\* waits for its acknowledgement (applyImportAfterAcknowledgement).
HearImport ==
    /\ Hears("importContent")
    /\ LET r == Head(toView).operation
           body == Head(toView).body
           submitted == SubmitContent(sync, Mutation(body), TRUE)
           asked == RetryBeforeSave(submitted)
           t == AfterAcknowledged(submitted, Barrier(r))
           replaced == [view EXCEPT !.authorized = 0, !.body = body,
                                    !.tracked = body, !.typed = FALSE]
       IN  IF ~Admits(view, r)
           THEN UNCHANGED <<webview, ledger>>
           ELSE /\ IF FlushRejects(asked, asked.localGeneration)
                   THEN ViewStep(SubmitContent(asked, Mutation(view.body), TRUE),
                                 [replaced EXCEPT !.body = view.body,
                                                  !.tracked = view.body],
                                 <<Applied(r, FALSE)>>)
                   ELSE ViewStep(t, [replaced EXCEPT !.applying =
                                       Append(@, [operation |-> r,
                                                  checkpoint |-> view.body])],
                                 <<>>)
                /\ ledger' = [ledger EXCEPT !.effected = @ \cup {r},
                                            !.replaced[r] = view.body]
    /\ Heard

HearFlush ==
    /\ Hears("requestFlush")
    /\ LET r == Head(toView).operation
           captured == Captured(view)
       IN  /\ ViewStep(AfterAcknowledged(captured, r), CapturedView(view),
                       AnswersAtOnce(RetryBeforeSave(captured), r))
           /\ ledger' = [ledger EXCEPT !.flushed[r] = ledger.typed]
    /\ Heard

HearEditAnswer ==
    /\ Hears("editAcknowledged") \/ Hears("editRejected")
    /\ LET m == Head(toView)
       IN  ViewStep(IF m.type = "editAcknowledged" THEN Acknowledge(sync, m)
                                                   ELSE Reject(sync, m),
                    view, <<>>)
    /\ UNCHANGED ledger /\ Heard

HearExternalChange ==
    /\ Hears("externalChange")
    /\ ViewStep(ObserveExternalChange(sync, Head(toView).revision, Head(toView).snapshot),
                view, <<>>)
    /\ UNCHANGED ledger /\ Heard

Hear == \/ HearStatus \/ HearActionFailed \/ HearImport \/ HearFlush
        \/ HearEditAnswer \/ HearExternalChange

----------------------------------------------------------------------------
(* The host: the claim and the end of a task *)

Posted(messages) == IF host.disposed THEN toView ELSE toView \o messages
Post(messages)   == toView' = Posted(messages)

\* Seeded fault: every task that ends frees the claim, whoever holds it.
Release_Anyone(h, r) == [h EXCEPT !.claim = 0]

\* releaseFileOperation
Release(h, r) == IF h.claim = r THEN [h EXCEPT !.claim = 0] ELSE h

At(r, step) == tasks[r].step = step
Goto(r, step) == [tasks EXCEPT ![r].step = step]

\* The asynchronous function of the request has returned.
Ended(r) == [tasks EXCEPT ![r] = [NoTask EXCEPT !.kind = tasks[r].kind,
                                                !.known = tasks[r].known,
                                                !.step = "ended"]]

\* cancelPlan finds no plan of this request or one that has begun to commit.
Cancellable(r) == tasks[r].plan # Null /\ ~tasks[r].plan.committing

\* Seeded fault: only the preflight looks at its AbortController.
Aborted_PreflightOnly(r) == tasks[r].aborted

\* The controller the task's next throwIfAborted looks at.
Aborted(r) == tasks[r].aborted \/ (tasks[r].plan # Null /\ tasks[r].plan.cancelled)

\* The task ends, its plan goes, the claim is freed and the webview is told.
End(r, phase) ==
    /\ tasks' = Ended(r)
    /\ host' = Release(host, r)
    /\ Post(<<Status(phase, r, tasks[r].kind, {})>>)
    /\ ledger' = IF phase = "cancelled" /\ ~host.disposed
                 THEN [ledger EXCEPT !.cancelled = @ \cup {r}] ELSE ledger

EndAborted(r) == Aborted(r) /\ End(r, "cancelled") /\ UNCHANGED <<doc, target>>

Continues(r) == ~Aborted(r) /\ UNCHANGED <<doc, target>>

\* A rejected promise inside the task: an I/O error, or a postMessage refused.
Fails(r) ==
    /\ ledger.failures < MaxFailures
    /\ At(r, "flushing") \/ At(r, "rendering") \/ At(r, "reading")
         \/ At(r, "checking") \/ At(r, "staging") \/ At(r, "committing")
         \/ At(r, "published")
    /\ tasks' = Ended(r)
    /\ host' = Release(host, r)
    /\ Post(<<Status(IF tasks[r].aborted THEN "cancelled" ELSE "failed",
                     r, tasks[r].kind, {})>>)
    /\ ledger' = [ledger EXCEPT !.failures = @ + 1,
                    !.cancelled = @ \cup IF tasks[r].aborted THEN {r} ELSE {}]
    /\ UNCHANGED <<webview, doc, target>>

----------------------------------------------------------------------------
(* Preflight (beginFileOperationPreflight) *)

\* A request arrives with host variables h: it takes the claim or is refused.
Begin(r, kind) ==
    IF host.claim # 0
    THEN /\ Post(<<Status("failed", r, kind, {})>>)
         /\ tasks' = [tasks EXCEPT ![r].step = "ended", ![r].kind = kind]
         /\ UNCHANGED host
    ELSE /\ Post(<<Status("preflighting", r, kind, {}), Message("requestFlush", r)>>)
         /\ tasks' = [tasks EXCEPT ![r] = [NoTask EXCEPT !.kind = kind, !.known = TRUE,
                                                         !.step = "flushing"]]
         /\ host' = [host EXCEPT !.claim = r]

\* The command palette starts an export without asking the panel.
PaletteStart ==
    /\ ~host.disposed
    /\ Hurried \/ (toHost = <<>> /\ toView = <<>> /\ ~Active(view.op)
                     /\ view.pending = Null)
    /\ \E r \in Operations, kind \in Kinds \cap {"export"} :
          NewOperation(r) /\ Begin(r, kind)
    /\ UNCHANGED <<webview, doc, target>>

\* The flush was answered: an export takes its snapshot of the document, an
\* import opens the file dialog.
Flushed(r, ok) ==
    IF ok /\ ~Aborted(r)
    THEN /\ tasks' = [tasks EXCEPT
               ![r].step = IF tasks[r].kind = "export" THEN "rendering" ELSE "choosing",
               ![r].source = doc.version]
         /\ UNCHANGED <<host, toView, ledger>>
    ELSE End(r, IF Aborted(r) THEN "cancelled" ELSE "failed")

FlushTimesOut(r) == At(r, "flushing") /\ Flushed(r, FALSE)
                    /\ UNCHANGED <<webview, doc, target>>

\* prepareDocumentExport after the rendering: the source must be the one read.
Rendered(r) ==
    /\ At(r, "rendering")
    /\ \/ EndAborted(r)
       \/ /\ Continues(r)
          /\ IF tasks[r].source = doc.version
             THEN tasks' = Goto(r, "sizing") /\ UNCHANGED <<host, toView, ledger>>
             ELSE End(r, "failed")
    /\ UNCHANGED webview

\* registerPlan: fingerprints, and for an import the checkpoint to undo it.
NewPlan(r) ==
    [source |-> tasks[r].source,
     target |-> IF tasks[r].kind = "export" THEN target ELSE doc.version,
     body   |-> doc.body,
     cancelled |-> FALSE, running |-> FALSE, committing |-> FALSE]

Offer(r) ==
    /\ \/ EndAborted(r)
       \/ /\ Continues(r)
          /\ tasks' = [tasks EXCEPT ![r].step = "offering", ![r].plan = NewPlan(r)]
          /\ Post(<<Status("awaiting", r, tasks[r].kind, {})>>)
          /\ UNCHANGED <<host, ledger>>
    /\ UNCHANGED webview

Sized(r) == At(r, "sizing") /\ Offer(r)

\* showOpenDialog: the user picks a file, or none.
Choose(r) ==
    /\ At(r, "choosing")
    /\ \/ End(r, "cancelled") /\ UNCHANGED <<doc, target>>
       \/ EndAborted(r)
       \/ /\ Continues(r) /\ tasks' = Goto(r, "reading")
          /\ UNCHANGED <<host, toView, ledger>>
    /\ UNCHANGED webview

Read(r) == At(r, "reading") /\ Offer(r)

\* The posted plan was delivered and the preflight is over; a cancellation
\* that came before that has taken the plan away.
Offered(r) ==
    /\ At(r, "offering")
    /\ tasks' = IF tasks[r].plan = Null THEN Ended(r) ELSE Goto(r, "offered")
    /\ UNCHANGED <<webview, toView, host, doc, target, ledger>>

----------------------------------------------------------------------------
(* Execution (fileOperationExecute, executePlan, executePreparedExport) *)

\* executePlan up to the first await.
StartPlan(r) ==
    /\ At(r, "starting")
    /\ IF tasks[r].plan = Null
       THEN End(r, "failed")
       ELSE IF tasks[r].kind = "export" /\ tasks[r].plan.source # doc.version
            THEN End(r, "failed")
            ELSE /\ tasks' = [tasks EXCEPT ![r].step = "checking",
                                           ![r].plan.running = TRUE]
                 /\ UNCHANGED <<host, toView, ledger>>
    /\ UNCHANGED <<webview, doc, target>>

TargetIsCurrent(r) ==
    tasks[r].plan.target = IF tasks[r].kind = "export" THEN target ELSE doc.version

\* markCommitStarted
Committing(r, step) ==
    [tasks EXCEPT ![r].step = step, ![r].plan.committing = TRUE]

CheckTarget(r) ==
    /\ At(r, "checking")
    /\ \/ ~TargetIsCurrent(r) /\ End(r, "failed") /\ UNCHANGED <<doc, target>>
       \/ /\ TargetIsCurrent(r) /\ tasks[r].kind = "export"
          /\ tasks' = Goto(r, "queued")
          /\ UNCHANGED <<host, toView, ledger, doc, target>>
       \/ TargetIsCurrent(r) /\ tasks[r].kind = "import" /\ EndAborted(r)
       \/ /\ TargetIsCurrent(r) /\ tasks[r].kind = "import" /\ Continues(r)
          /\ tasks' = Committing(r, "applying")
          /\ Post(<<[type |-> "importContent", operation |-> r, body |-> Imported]>>)
          /\ UNCHANGED <<host, ledger>>
    /\ UNCHANGED webview

\* DocumentExportQueue: one export of a document at a time.
Stage(r) ==
    /\ At(r, "queued")
    /\ \A q \in Operations : tasks[q].step \notin Export \ {"queued"}
    /\ \/ EndAborted(r)
       \/ /\ Continues(r) /\ tasks' = Goto(r, "staging")
          /\ UNCHANGED <<host, toView, ledger>>
    /\ UNCHANGED webview

\* The directory and the staging file are written.
Staged(r) ==
    /\ At(r, "staging")
    /\ \/ EndAborted(r)
       \/ /\ Continues(r) /\ tasks' = Goto(r, "staged")
          /\ UNCHANGED <<host, toView, ledger>>
    /\ UNCHANGED webview

\* validateTarget, the last throwIfAborted and onCommitStart.
Validate(r) ==
    /\ At(r, "staged")
    /\ \/ ~TargetIsCurrent(r) /\ End(r, "failed") /\ UNCHANGED <<doc, target>>
       \/ TargetIsCurrent(r) /\ EndAborted(r)
       \/ /\ TargetIsCurrent(r) /\ Continues(r)
          /\ tasks' = Committing(r, "committing")
          /\ UNCHANGED <<host, toView, ledger>>
    /\ UNCHANGED webview

\* The staging file is renamed over the destination.
Publish(r) ==
    /\ At(r, "committing")
    /\ target' = target + 1
    /\ tasks' = Goto(r, "published")
    /\ ledger' = [ledger EXCEPT !.effected = @ \cup {r}]
    /\ UNCHANGED <<webview, toView, host, doc>>

Published(r) ==
    /\ At(r, "published")
    /\ tasks' = Ended(r)
    /\ host' = Release(host, r)
    /\ Post(<<Status("succeeded", r, "export", {"repeat"})>>)
    /\ UNCHANGED <<webview, doc, target, ledger>>

Checkpoint(r) ==
    [id |-> r, body |-> tasks[r].plan.body, expected |-> doc.version, leased |-> FALSE]

\* An import was applied: its checkpoint replaces the previous one, unless an
\* undo holds that.
Imports(r) ==
    /\ host' = Release([host EXCEPT
                  !.artifacts = {a \in @ : a.id # host.latest \/ a.leased}
                                  \cup {Checkpoint(r)},
                  !.latest = r], r)
    /\ Post(<<Status("succeeded", r, "import", {"undo", "repeat"})>>)

\* An undo was applied: lease.commit.
Undone(r) ==
    /\ host' = Release([host EXCEPT
                  !.artifacts = {a \in @ : ~a.leased},
                  !.latest = IF \E a \in host.artifacts : a.leased /\ a.id = @
                             THEN 0 ELSE @], r)
    /\ Post(<<Status("succeeded", r, "import", {})>>)

\* settleImportApplied: the task that waits for the body goes on.
SettleImport(r, ok) ==
    /\ IF ok
       THEN IF At(r, "applying") THEN Imports(r) ELSE Undone(r)
       ELSE /\ host' = Release([host EXCEPT
                  !.artifacts = IF At(r, "restoring")
                                THEN {[a EXCEPT !.leased = FALSE] : a \in @} ELSE @], r)
            /\ Post(<<IF At(r, "applying") THEN Status("failed", r, "import", {})
                                           ELSE Message("actionFailed", r)>>)
    /\ tasks' = Ended(r)

Waits(r) == At(r, "applying") \/ At(r, "restoring")

ImportTimesOut(r) ==
    /\ Waits(r) /\ SettleImport(r, FALSE)
    /\ UNCHANGED <<webview, doc, target, ledger>>

----------------------------------------------------------------------------
(* The host's message handler *)

Arrives(type) == ~host.disposed /\ toHost # <<>> /\ Head(toHost).type = type

Arrived == /\ toHost' = Tail(toHost) /\ UNCHANGED <<sync, view, doc, target>>

ArrivePrepare ==
    /\ Arrives("prepare")
    /\ Begin(Head(toHost).operation, Head(toHost).kind)
    /\ UNCHANGED ledger /\ Arrived

\* fileOperationRetry and the result action "repeat", from the remembered intent.
ArriveAgain ==
    /\ Arrives("retry") \/ Arrives("repeat")
    /\ LET m == Head(toHost)
       IN  IF tasks[m.previous].known
           THEN Begin(m.operation, tasks[m.previous].kind)
           ELSE /\ Post(<<IF m.type = "retry"
                          THEN Status("failed", m.operation, "none", {})
                          ELSE Message("actionFailed", m.operation)>>)
                /\ UNCHANGED <<host, tasks>>
    /\ UNCHANGED ledger /\ Arrived

ArriveExecute ==
    /\ Arrives("execute")
    /\ LET r == Head(toHost).operation
       IN  IF host.claim # r
           THEN /\ Post(<<Status("failed", r, "none", {})>>)
                /\ UNCHANGED <<host, tasks, ledger>>
           ELSE IF tasks[r].plan = Null
           THEN End(r, "failed")
           ELSE /\ Post(<<Status("running", r, tasks[r].kind, {})>>)
                /\ tasks' = Goto(r, "starting")
                /\ UNCHANGED <<host, ledger>>
    /\ Arrived

\* The preflight is aborted, a plan that waits goes, one that runs is cancelled.
Withdrawn(task) ==
    [task EXCEPT !.aborted = task.step \in Preflight,
                 !.step = IF task.step = "offered" THEN "ended" ELSE task.step,
                 !.plan = IF task.plan = Null \/ ~task.plan.running THEN Null
                          ELSE [task.plan EXCEPT !.cancelled = TRUE]]

\* fileOperationCancel
ArriveCancel ==
    /\ Arrives("cancel")
    /\ LET r == Head(toHost).operation
       IN  IF tasks[r].step \in Preflight \/ Cancellable(r)
           THEN /\ tasks' = [tasks EXCEPT ![r] = Withdrawn(tasks[r])]
                /\ host' = Release(host, r)
                /\ Post(<<Status("cancelled", r, tasks[r].kind, {})>>)
                /\ ledger' = [ledger EXCEPT !.cancelled = @ \cup {r}]
           ELSE UNCHANGED <<tasks, host, toView, ledger>>
    /\ Arrived

\* The result action "undo": claim, lease, fingerprint.
ArriveUndo ==
    /\ Arrives("undo")
    /\ LET r == Head(toHost).operation
           found == {a \in host.artifacts :
                        /\ a.id = Head(toHost).previous /\ ~a.leased
                        /\ a.expected = doc.version}
       IN  IF host.claim # 0 \/ found = {}
           THEN /\ Post(<<Message("actionFailed", r)>>)
                /\ UNCHANGED <<host, tasks>>
           ELSE \E a \in found :
                /\ host' = [host EXCEPT !.claim = r,
                              !.artifacts = (@ \ {a}) \cup {[a EXCEPT !.leased = TRUE]}]
                /\ tasks' = [tasks EXCEPT ![r].step = "restoring", ![r].kind = "import"]
                /\ Post(<<Status("running", r, "import", {}),
                          [type |-> "importContent", operation |-> r, body |-> a.body]>>)
    /\ UNCHANGED ledger /\ Arrived

\* fileOperationApplied
ArriveApplied ==
    /\ Arrives("applied")
    /\ LET r == Head(toHost).operation
       IN  IF Waits(r) THEN SettleImport(r, Head(toHost).ok)
                       ELSE UNCHANGED <<host, tasks, toView>>
    /\ UNCHANGED ledger /\ Arrived

ArriveFlushAnswer ==
    /\ Arrives("flushComplete") \/ Arrives("flushFailed")
    /\ LET r == Head(toHost).flush
       IN  IF At(r, "flushing")
           THEN Flushed(r, Head(toHost).type = "flushComplete")
           ELSE UNCHANGED <<host, tasks, toView, ledger>>
    /\ Arrived

ArriveEdit ==
    /\ Arrives("edit")
    /\ host' = [host EXCEPT !.edits = Append(@, Head(toHost).request)]
    /\ UNCHANGED <<tasks, toView, ledger>> /\ Arrived

Arrive == \/ ArrivePrepare \/ ArriveAgain \/ ArriveExecute \/ ArriveCancel
          \/ ArriveUndo \/ ArriveApplied \/ ArriveFlushAnswer \/ ArriveEdit

----------------------------------------------------------------------------
(* Around the operations *)

\* The serial queue: a current edit is written, another one refused.
HandleEdit ==
    /\ host.edits # <<>>
    /\ host' = [host EXCEPT !.edits = Tail(@)]
    /\ LET request == Head(host.edits)
           current == request.baseRevision = doc.version
           answer == [identity |-> Self, editId |-> request.editId,
                      revision |-> IF current THEN doc.version + 1 ELSE doc.version]
       IN  /\ doc' = IF current THEN [version |-> doc.version + 1,
                                      body |-> request.mutation.content]
                                ELSE doc
           /\ Post(<<IF current
                     THEN [type |-> "editAcknowledged", identity |-> Self,
                           editId |-> request.editId, revision |-> doc.version + 1]
                     ELSE [type |-> "editRejected", identity |-> Self,
                           editId |-> request.editId, revision |-> doc.version,
                           code |-> "STALE_REVISION",
                           hostSnapshot |-> Mutation(doc.body)]>>)
    /\ UNCHANGED <<webview, tasks, target, ledger>>

\* Another program writes the document or the exported file.
ForeignWrite ==
    /\ ledger.foreign < MaxForeign /\ ~host.disposed
    /\ ledger' = [ledger EXCEPT !.foreign = @ + 1]
    /\ \/ /\ doc' = [version |-> doc.version + 1, body |-> Foreign]
          /\ Post(<<[type |-> "externalChange", revision |-> doc.version + 1,
                     snapshot |-> Mutation(Foreign)]>>)
          /\ UNCHANGED target
       \/ target' = target + 1 /\ UNCHANGED <<doc, toView>>
    /\ UNCHANGED <<webview, host, tasks>>

\* Seeded fault: closing the editor leaves running plans alone.
Closed_PlansRunOn(r) ==
    IF tasks[r].step \in Preflight THEN [tasks[r] EXCEPT !.aborted = TRUE]
    ELSE tasks[r]

\* clearSession and the aborted preflights; a commit that has begun goes on.
Closed(r) ==
    LET task == tasks[r]
        plan == task.plan
    IN  IF Waits(r) THEN [task EXCEPT !.step = "ended", !.plan = Null]
        ELSE [task EXCEPT
                 !.aborted = task.step \in Preflight,
                 !.plan = IF plan = Null \/ plan.committing THEN plan
                          ELSE IF ~plan.running THEN Null
                          ELSE [plan EXCEPT !.cancelled = TRUE]]

\* The editor's tab is closed.
Dispose ==
    /\ ~host.disposed
    /\ host' = [host EXCEPT !.disposed = TRUE, !.artifacts = {}]
    /\ tasks' = [r \in Operations |-> Closed(r)]
    /\ toView' = <<>> /\ toHost' = <<>>
    /\ sync' = NewSync /\ view' = NewView    \* the webview is gone
    /\ UNCHANGED <<doc, target, ledger>>

Task(r) == \/ Rendered(r) \/ Sized(r) \/ Read(r) \/ Offered(r)
           \/ StartPlan(r) \/ CheckTarget(r) \/ Stage(r) \/ Staged(r)
           \/ Validate(r) \/ Publish(r) \/ Published(r)
           \/ FlushTimesOut(r) \/ ImportTimesOut(r)

Tasks == \E r \in Operations : Task(r) \/ Choose(r) \/ Fails(r)

User == \/ Type \/ Prepare \/ Confirm \/ Cancel \/ RetryOperation \/ ResultAction
        \/ PaletteStart \/ Dispose

Next == User \/ Debounce \/ Hear \/ Arrive \/ HandleEdit \/ Tasks \/ ForeignWrite

Spec == Init /\ [][Next]_vars

----------------------------------------------------------------------------
(* Properties *)

\* Type invariant of the session's host side and of the panel.
TypeOK ==
    /\ sync \in SyncStates
    /\ view.op.phase \in {"idle", "preflighting", "awaiting", "running",
                          "succeeded", "failed", "cancelled"}
    /\ view.op.operation \in 0 .. MaxOperations /\ view.body \in Contents
    /\ host.claim \in 0 .. MaxOperations
    /\ \A r \in Operations : /\ tasks[r].step \in Steps
                             /\ tasks[r].plan \in Plans \cup {Null}
    /\ doc \in [version : Nat, body : Contents] /\ target \in Nat

\* A request the host reported cancelled never writes its file nor replaces
\* the body, however late the cancellation came.
CancelledMeansUntouched == ledger.cancelled \cap ledger.effected = {}

\* Whatever is being written or applied holds the session's one claim, so
\* that no other operation begins beside it.
ClaimCoversEffects ==
    \A r \in Operations :
        tasks[r].step \in {"applying", "restoring", "committing", "published"}
            => host.claim = r \/ host.disposed

\* Nothing is under way but a dialog or a plan that waits for the user.
Quiet ==
    /\ toHost = <<>> /\ toView = <<>> /\ host.edits = <<>> /\ ~host.disposed
    /\ \A r \in Operations : tasks[r].step \in {"none", "offered", "ended", "choosing"}

\* Panel and host agree once all is quiet: the claim is free, or the panel
\* shows the request that holds it; a panel that shows an operation waits for
\* one the host still has, and no result action is left unanswered.
PanelMatchesClaim ==
    Quiet => /\ host.claim = 0 \/ (Active(view.op) /\ view.op.operation = host.claim)
             /\ Active(view.op) => host.claim = view.op.operation
             /\ view.op.phase = "awaiting" => tasks[view.op.operation].plan # Null
             /\ view.op.phase # "running" /\ view.pending = Null

\* The checkpoint an import can be undone with is the body it replaced,
\* unless the user typed on after the flush of its preflight.
UndoIsExact ==
    \A a \in host.artifacts :
        \/ a.body = ledger.replaced[a.id]
        \/ ledger.typed > ledger.flushed[a.id]

\* Once the editor is closed no commit begins: what was prepared is neither
\* written nor applied.
ClosedCommitsNothing ==
    [][host.disposed =>
         \A r \in Operations :
            tasks'[r].step \in {"committing", "applying"} => tasks'[r].step = tasks[r].step]_vars
============================================================================
