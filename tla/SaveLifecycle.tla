---------------------------- MODULE SaveLifecycle ----------------------------
(***************************************************************************)
(* Saving to disk: the status the webview shows (shared/editor/            *)
(* saveStatus.ts), the host's willSave and didSave handlers with the flush *)
(* between them (SdocEditorProvider.ts), and VS Code, which saves the text *)
(* document whatever the participants answer.                              *)
(*                                                                         *)
(* The webview is the only writer here, so every edit is current; foreign  *)
(* writes and invalid sources are the subject of EditorSession.  A text is *)
(* known by the number of the draft it holds.                              *)
(***************************************************************************)
EXTENDS FlushAnswers

CONSTANTS
    Start,          \* the text the session opens with
    MaxGeneration,  \* bound: local generations
    MaxSaves,       \* bound: save generations
    MaxRefusals,    \* bound: edits VS Code refuses
    MaxTimeouts,    \* bound: flushes that time out
    MaxFailures     \* bound: writes to disk that fail

ASSUME StartAssumption ==
    /\ Start \in Mutations
    /\ MaxGeneration \in Nat /\ MaxSaves \in Nat
    /\ MaxRefusals \in Nat /\ MaxTimeouts \in Nat /\ MaxFailures \in Nat

VARIABLES
    sync,     \* the webview's DocumentSyncCoordinator
    shown,    \* the webview's hostSaveState
    toHost,   \* messages posted by the webview
    toView,   \* messages posted by the host
    queue,    \* edits in the host's serial queue; the first may be applying
    applied,  \* whether VS Code has answered the first edit, and how
    flushes,  \* outcome of each save generation's flush
    buffer,   \* the text document: its version and the draft it holds
    saving,   \* VS Code's save: its stage and the draft it writes
    disk,     \* the draft in the file
    chances,  \* refusals, timeouts and failures left
    asked     \* history: the newest draft when a flush was last asked for

vars == <<sync, shown, toHost, toView, queue, applied, flushes, buffer,
          saving, disk, chances, asked>>

webview == <<sync, shown, toHost>>
storage == <<buffer, saving, disk>>

saveGeneration == Len(flushes)

----------------------------------------------------------------------------
(* saveStatus.ts *)

Phases == {"dirty", "saving", "saved", "failed"}

SaveStates == [saveGeneration : Nat, revision : Nat, phase : Phases]

CreateHostDocumentSaveState(revision, isDirty) ==
    [saveGeneration |-> 0, revision |-> revision,
     phase |-> IF isDirty THEN "dirty" ELSE "saved"]

MarkHostDocumentDirty(current, revision) ==
    [current EXCEPT !.revision = Larger(@, revision),
                    !.phase = IF @ = "saving" THEN "saving" ELSE "dirty"]

IsTerminal(phase) == phase \in {"saved", "failed"}

\* Seeded fault: a decided save is open to later messages.
Observes_AfterDecision(current, message) ==
    message.saveGeneration >= current.saveGeneration

\* Seeded fault: only the first message of a save is taken.
Observes_FirstOnly(current, message) ==
    message.saveGeneration > current.saveGeneration

\* Messages of an older save, or of one already decided, are ignored; so is,
\* within one save, a phase that does not follow "saving".
Observes(current, message) ==
    \/ message.saveGeneration > current.saveGeneration
    \/ /\ message.saveGeneration = current.saveGeneration
       /\ ~IsTerminal(current.phase)
       /\ current.phase = "saving" \/ message.phase = current.phase

ObserveDocumentSaveState(current, message) ==
    IF Observes(current, message)
    THEN [saveGeneration |-> message.saveGeneration,
          revision       |-> Larger(current.revision, message.revision),
          phase          |-> message.phase]
    ELSE current

\* deriveDocumentSavePresentation, for an editable document.
Presentation(s, status) ==
    IF s.conflict # Null \/ s.externalChange # Null THEN "conflict"
    ELSE IF s.error # Null \/ status.phase = "failed" THEN "failed"
    ELSE IF status.phase = "saving" THEN "saving"
    ELSE IF s.inFlight # Null THEN "syncing"
    ELSE IF s.pending # Null \/ s.localGeneration > s.acknowledgedGeneration
         THEN "modified"
    ELSE IF status.phase = "saved" /\ status.revision >= s.acknowledgedRevision
         THEN "saved"
    ELSE "disk-pending"

----------------------------------------------------------------------------
Init ==
    /\ sync = AdoptReplacement(Created(1), 1, Start, TRUE)
    /\ shown = CreateHostDocumentSaveState(1, FALSE)
    /\ toHost = <<>> /\ toView = <<>>
    /\ queue = <<>> /\ applied = "unknown"
    /\ flushes = <<>>
    /\ buffer = [version |-> 1, draft |-> 0]
    /\ saving = [stage |-> "idle", draft |-> 0]
    /\ disk = 0
    /\ chances = [refusals |-> MaxRefusals, timeouts |-> MaxTimeouts,
                  failures |-> MaxFailures]
    /\ asked = 0

Chance(kind) ==
    /\ chances[kind] > 0
    /\ chances' = [chances EXCEPT ![kind] = @ - 1]

----------------------------------------------------------------------------
(* The webview *)

\* The coordinator moves to t; what it hands to the transport and the flush
\* answers it settles are posted, then `posted`.
Moves(t, posted) ==
    /\ sync' = t
    /\ toHost' = toHost
         \o (IF Sends(sync, t) THEN <<[type |-> "edit", request |-> t.inFlight]>>
                               ELSE <<>>)
         \o Answers(sync, t, MaxSaves)
         \o posted

HostUnchanged == UNCHANGED <<queue, applied, flushes, storage, chances>>

\* A debounced update of the editor submits the next draft.
Submit ==
    /\ sync.localGeneration < MaxGeneration
    /\ Moves(SubmitContent(sync, Start, TRUE), <<>>)
    /\ UNCHANGED <<shown, toView, asked>> /\ HostUnchanged

\* handleRetrySync: "Retry" beside the failed status.
RetrySync ==
    /\ CanRetry(sync)
    /\ Moves(Retry(sync, Null), <<>>)
    /\ UNCHANGED <<shown, toView, asked>> /\ HostUnchanged

Hears(type) ==
    /\ toView # <<>> /\ Head(toView).type = type
    /\ toView' = Tail(toView)
    /\ HostUnchanged

HearAcknowledgement ==
    /\ Hears("editAcknowledged")
    /\ Moves(Acknowledge(sync, Head(toView)), <<>>)
    /\ shown' = IF Acknowledges(sync, Head(toView))
                THEN MarkHostDocumentDirty(shown, Head(toView).revision)
                ELSE shown
    /\ UNCHANGED asked

HearRejection ==
    /\ Hears("editRejected")
    /\ Moves(Reject(sync, Head(toView)), <<>>)
    /\ UNCHANGED <<shown, asked>>

HearSaveState ==
    /\ Hears("documentSaveState")
    /\ shown' = ObserveDocumentSaveState(shown, Head(toView))
    /\ UNCHANGED <<sync, toHost, asked>>

\* requestFlush: what was typed is submitted (a Submit just before), then
\* SaveCoordinator.afterAcknowledged.
HearFlush ==
    /\ Hears("requestFlush")
    /\ LET flush == Head(toView).flush
       IN  Moves(AfterAcknowledged(sync, flush),
                 AnswersAtOnce(RetryBeforeSave(sync), flush))
    /\ asked' = sync.localGeneration
    /\ UNCHANGED shown

Hear == HearAcknowledgement \/ HearRejection \/ HearSaveState \/ HearFlush

----------------------------------------------------------------------------
(* The extension host *)

Post(messages) == toView' = toView \o messages

SaveState(generation, phase) ==
    [type |-> "documentSaveState", saveGeneration |-> generation,
     revision |-> buffer.version, phase |-> phase]

\* resolveFlush and rejectFlush: the first answer counts.  A flush that fails
\* makes willSave's promise reject, and its handler report the save as failed.
SettleFlush(flush, outcome) ==
    IF flushes[flush] = "waiting"
    THEN /\ flushes' = [flushes EXCEPT ![flush] = outcome]
         /\ IF outcome = "rejected"
            THEN Post(<<SaveState(flush, "failed")>>)
            ELSE UNCHANGED toView
    ELSE UNCHANGED <<flushes, toView>>

Arrive ==
    /\ toHost # <<>> /\ toHost' = Tail(toHost)
    /\ LET message == Head(toHost)
       IN  \/ /\ message.type = "edit"
              /\ queue' = Append(queue, message.request)
              /\ UNCHANGED <<flushes, toView>>
           \/ /\ message.type = "flushComplete"
              /\ SettleFlush(message.flush, "resolved")
              /\ UNCHANGED queue
           \/ /\ message.type = "flushFailed"
              /\ SettleFlush(message.flush, "rejected")
              /\ UNCHANGED queue
    /\ UNCHANGED <<sync, shown, applied, storage, chances, asked>>

\* The serial queue's task: VS Code applies the edit or refuses it ...
ApplyEdit ==
    /\ queue # <<>> /\ applied = "unknown"
    /\ \/ /\ applied' = "applied"
          /\ buffer' = [version |-> buffer.version + 1,
                        draft   |-> Head(queue).localGeneration]
          /\ UNCHANGED chances
       \/ /\ applied' = "refused"
          /\ Chance("refusals")
          /\ UNCHANGED buffer
    /\ UNCHANGED <<webview, toView, queue, flushes, saving, disk, asked>>

Answer(editId) ==
    IF applied = "applied"
    THEN [type |-> "editAcknowledged", identity |-> Self, editId |-> editId,
          revision |-> buffer.version]
    ELSE [type |-> "editRejected", identity |-> Self, editId |-> editId,
          revision |-> buffer.version, code |-> "WRITE_FAILED", hostSnapshot |-> Start]

\* ... and the task resumes and answers the webview.
AnswerEdit ==
    /\ applied # "unknown"
    /\ applied' = "unknown" /\ queue' = Tail(queue)
    /\ Post(<<Answer(Head(queue).editId)>>)
    /\ UNCHANGED <<webview, flushes, storage, chances, asked>>

\* onWillSaveTextDocument: a new save generation, and its flush.
WillSave ==
    /\ saving.stage = "idle" /\ saveGeneration < MaxSaves
    /\ saving' = [saving EXCEPT !.stage = "preparing"]
    /\ flushes' = Append(flushes, "waiting")
    /\ LET generation == saveGeneration + 1
       IN  Post(<<SaveState(generation, "saving"),
                  [type |-> "requestFlush", flush |-> generation]>>)
    /\ UNCHANGED <<webview, queue, applied, buffer, disk, chances, asked>>

FlushTimesOut ==
    /\ \E flush \in DOMAIN flushes : /\ flushes[flush] = "waiting"
                                     /\ SettleFlush(flush, "rejected")
    /\ Chance("timeouts")
    /\ UNCHANGED <<webview, queue, applied, storage, asked>>

\* onDidSaveTextDocument: VS Code wrote the file.  The event's document is the
\* live one, so the revision reported is the one now open.  A first save
\* without participants opens the first generation.
DidSave ==
    /\ saving.stage = "writing"
    /\ saving' = [saving EXCEPT !.stage = "idle"]
    /\ disk' = saving.draft
    /\ flushes' = IF saveGeneration = 0 THEN <<"none">> ELSE flushes
    /\ Post(<<SaveState(Len(flushes'), "saved")>>)
    /\ UNCHANGED <<webview, queue, applied, buffer, chances, asked>>

----------------------------------------------------------------------------
(* VS Code *)

Writing == [stage |-> "writing", draft |-> buffer.draft]

HostIdle == UNCHANGED <<webview, toView, queue, applied, flushes, buffer, disk, asked>>

\* A participant that rejects does not stop the save.
StartWrite ==
    /\ saving.stage = "preparing"
    /\ flushes[saveGeneration] # "waiting"
    /\ saving' = Writing
    /\ UNCHANGED chances /\ HostIdle

\* A save that skips the participants.
StartWriteWithoutParticipants ==
    /\ saving.stage = "idle" /\ buffer.draft # disk
    /\ saving' = Writing
    /\ UNCHANGED chances /\ HostIdle

\* The file cannot be written: VS Code tells the user, and fires no event.
WriteFails ==
    /\ saving.stage = "writing"
    /\ saving' = [saving EXCEPT !.stage = "idle"]
    /\ Chance("failures") /\ HostIdle

----------------------------------------------------------------------------
Next == \/ Submit \/ RetrySync \/ Hear
        \/ Arrive \/ ApplyEdit \/ AnswerEdit \/ WillSave \/ FlushTimesOut \/ DidSave
        \/ StartWrite \/ StartWriteWithoutParticipants \/ WriteFails

Spec == Init /\ [][Next]_vars

\* Messages are delivered, the serial queue runs on, and VS Code answers an
\* edit and ends a save.  Nothing is assumed of the user or of timeouts.
FairSpec == Spec /\ WF_vars(Hear) /\ WF_vars(Arrive)
                 /\ WF_vars(ApplyEdit) /\ WF_vars(AnswerEdit)
                 /\ WF_vars(StartWrite) /\ WF_vars(DidSave \/ WriteFails)

----------------------------------------------------------------------------
(* Properties *)

Shows(phase) == Presentation(sync, shown) = phase

\* The messages of the webview, and those of the host.
Outbox == [type : {"edit"}, request : Requests]
    \cup [type : {"flushComplete", "flushFailed"}, flush : 1 .. MaxSaves]

Inbox == [type : {"editAcknowledged"}, identity : {Self}, editId : Nat, revision : Nat]
    \cup [type : {"editRejected"}, identity : {Self}, editId : Nat, revision : Nat,
          code : {"WRITE_FAILED"}, hostSnapshot : {Start}]
    \cup [type : {"documentSaveState"}, saveGeneration : Nat \ {0}, revision : Nat,
          phase : Phases]
    \cup [type : {"requestFlush"}, flush : 1 .. MaxSaves]

\* Type invariant of the save lifecycle.
TypeOK ==
    /\ sync \in SyncStates
    /\ shown \in SaveStates
    /\ toHost \in Seq(Outbox) /\ toView \in Seq(Inbox)
    /\ queue \in Seq(Requests)
    /\ applied \in {"unknown", "applied", "refused"}
    /\ flushes \in Seq({"waiting", "resolved", "rejected", "none"})
    /\ buffer \in [version : Nat, draft : Nat]
    /\ saving \in [stage : {"idle", "preparing", "writing"}, draft : Nat]
    /\ chances \in [refusals : Nat, timeouts : Nat, failures : Nat]
    /\ disk \in Nat /\ asked \in Nat

\* "Saved" is shown only when every draft that existed as the webview was
\* last asked to flush is in the file: the flush barrier, the write and the
\* three filters of observeDocumentSaveState together.
SavedHoldsTheBarrier == Shows("saved") => disk >= asked

\* A save whose flush failed or timed out is never shown as saved, although
\* VS Code goes on, writes the file and reports success for it.
FailedFlushNotSaved ==
    shown.phase = "saved" /\ shown.saveGeneration # 0 =>
        flushes[shown.saveGeneration] \in {"resolved", "none"}

\* The status never goes back to an older save, and a save once decided stays
\* decided until the document changes or another save begins.
StatusNeverRegresses ==
    [][/\ shown'.saveGeneration >= shown.saveGeneration
       /\ shown'.saveGeneration = shown.saveGeneration /\ IsTerminal(shown.phase)
            => shown'.phase \in {shown.phase, "dirty"}]_shown

\* A busy status ends unless a write fails: no draft and no save is left
\* behind by lost answers, refusals or timeouts.
StatusSettles ==
    Shows("saving") \/ Shows("syncing") \/ Shows("modified")
        ~> \/ Shows("saved") \/ Shows("failed") \/ Shows("disk-pending")
           \/ chances.failures < MaxFailures

\* ADR 0017: "`Saved` is shown only when a current disk-save event covers the
\* latest acknowledged revision".
SavedIsDurable == Shows("saved") => disk >= sync.acknowledgedGeneration

\* ADR 0017: "Save failures remain visible and actionable".
SaveFailureShown ==
    chances.failures < MaxFailures
        ~> Shows("failed") \/ Shows("saved") \/ Shows("disk-pending")
============================================================================
