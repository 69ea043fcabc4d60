--------------------------- MODULE EditorSession ---------------------------
(***************************************************************************)
(* One custom-editor session: the webview (useEditorMessages.ts and        *)
(* useTiptapEditor.ts around a DocumentSyncCoordinator), the extension     *)
(* host (SdocEditorProvider.ts), VS Code's text document between them and  *)
(* whoever else writes that document.  Both directions of postMessage are  *)
(* FIFO; the host answers edits, adoptions, recoveries and `ready` from    *)
(* its serial queue, and flush answers as they arrive.  The session starts *)
(* where `init` has been handled: a valid document, loaded and editable.   *)
(***************************************************************************)
EXTENDS FlushAnswers, CanonicalPersistence

CONSTANTS
    Invalid,          \* a document text that does not satisfy the contract
    Start,            \* the text the session opens with
    ExternalTexts,    \* the texts other writers put into the document
    Choices,          \* the decisions the user takes, see AllChoices
    MaxVersion,       \* bound: document versions other writers reach
    MaxGeneration,    \* bound: local generations
    MaxFlushes,       \* bound: flushes the host asks for
    MaxRefusals,      \* bound: edits VS Code refuses although they are current
    MaxBacklog        \* bound: messages under way when the user clicks again

Texts == Mutations \cup {Invalid}

\* An `applyEdit` under way: for whom, on which version, what it would write.
Tasks == [message : [type : {"edit"}, request : Requests, over : SUBSET Mutations]
                    \cup [type : {"recoverInvalidDocument"}, baseRevision : Nat,
                          mutation : Mutations],
          source  : Nat,
          text    : Mutations,
          outcome : {"unknown", "applied", "refused"}]

AllChoices == {"keep", "reload", "retry", "recover", "revalidate"}

ASSUME SessionAssumption ==
    /\ Invalid \notin Mutations
    /\ Start \in Mutations
    /\ ExternalTexts \subseteq Texts
    /\ Choices \subseteq AllChoices
    /\ MaxFlushes \in Nat
    /\ Null \notin Tasks \cup Caches

VARIABLES
    sync,      \* the webview's DocumentSyncCoordinator
    view,      \* the rest of the webview: editor, access, notice
    toHost,    \* messages posted by the webview
    toView,    \* messages posted by the host
    host,      \* the host's session variables and serial queue
    doc,       \* VS Code's text document
    flushes,   \* the host's pendingFlushResolvers, by flush number
    ledger     \* history: what the properties compare

vars == <<sync, view, toHost, toView, host, doc, flushes, ledger>>

----------------------------------------------------------------------------
(* The webview *)

\* Every field of the webview outside the coordinator that the messages read.
Views == [content    : Contents,      \* what the editor shows
          tracked    : Contents,      \* last content submitted or adopted
          typed      : BOOLEAN,       \* a debounced update is pending
          access     : {"editable", "invalid-external"},
          notice     : Snapshots \cup {Null},   \* external change on display
          revision   : Nat,           \* persistenceSessionRef's revision
          recovering : BOOLEAN,       \* a recovery request is unanswered
          keeping    : BOOLEAN]       \* the prompt waits for "keep mine"

\* The coordinator's snapshot of a text with this content.
Draft(content) == [sync.localMutation EXCEPT !.content = content]

\* The notice the coordinator currently holds, as the prompt shows it.
Shown(s) == s.externalChange

\* The edit the step from s to t handed to postMessage; `over` is the texts
\* the draft accounts for (history).
Edits(s, t, known) ==
    IF Sends(s, t)
    THEN <<[type |-> "edit", request |-> t.inFlight, over |-> known]>>
    ELSE <<>>

Waiting(t) == \E w \in t.flushWaiters : w.flush = 0

\* The webview moves to coordinator t and state v and posts `posted` last.
\* `known` (history) is the texts the draft accounts for: the one it was
\* written on, and those the user chose to keep it against.
ViewStep(t, v, known, posted) ==
    /\ sync' = t
    /\ view' = [v EXCEPT !.keeping = v.keeping /\ v.notice # Null /\ Waiting(sync')]
    /\ toHost' = toHost \o Edits(sync, sync', known) \o Answers(sync, sync', MaxFlushes) \o posted

\* captureIfChanged: submit the editor's content unless it is the last one
\* submitted or adopted.
Captured(v) ==
    IF v.typed /\ v.content # v.tracked
    THEN SubmitContent(sync, Draft(v.content), TRUE)
    ELSE sync

CapturedView(v) ==
    [v EXCEPT !.typed = FALSE,
              !.tracked = IF v.typed THEN v.content ELSE @]

\* replaceEditorDocument: the debounce is cancelled, the content adopted.
Replaced(v, content) ==
    [v EXCEPT !.content = content, !.tracked = content, !.typed = FALSE]

----------------------------------------------------------------------------
Init ==
    /\ sync = AdoptReplacement(Created(1), 1, Start, TRUE)
    /\ view = [content |-> Start.content, tracked |-> Start.content,
               typed |-> FALSE, access |-> "editable", notice |-> Null,
               revision |-> 1, recovering |-> FALSE, keeping |-> FALSE]
    /\ toHost = <<>>
    /\ toView = <<>>
    /\ host = [queue |-> <<>>, applying |-> Null, blocked |-> FALSE,
               lastLocal |-> Start, refusals |-> 0,
               cache |-> LoadedCache(1, Start)]
    /\ doc = [version |-> 1, text |-> Start]
    /\ flushes = <<>>
    /\ ledger = [known |-> {Start}, settled |-> {},
                 asked |-> [flush \in 1 .. MaxFlushes |-> 0]]

HostUnchanged == UNCHANGED <<toView, host, doc, flushes>>
ViewUnchanged == UNCHANGED <<sync, view, toHost>>

----------------------------------------------------------------------------
(* The user, in the webview *)

\* Generations that are or may still be created by what was typed.
Promised == sync.localGeneration + (IF view.typed THEN 1 ELSE 0)

\* Messages under way: the user does not click faster than this.
Backlog == Len(toHost) + Len(host.queue) + Len(toView)

Type ==
    /\ view.access = "editable"
    /\ Promised < MaxGeneration
    /\ \E content \in Contents \ {view.content} :
          view' = [view EXCEPT !.content = content, !.typed = TRUE]
    /\ UNCHANGED <<sync, toHost, ledger>> /\ HostUnchanged

Debounce ==
    /\ view.typed
    /\ ViewStep(Captured(view), CapturedView(view), ledger.known, <<>>)
    /\ UNCHANGED ledger /\ HostUnchanged

\* handleMetaChange: a field of the metadata is submitted as it is typed.
EditMetadata ==
    /\ view.access = "editable"
    /\ Promised < MaxGeneration
    /\ \E meta \in Metas \ {sync.localMutation.metadata} :
          ViewStep(SubmitMetadata(sync, meta), view, ledger.known, <<>>)
    /\ UNCHANGED ledger /\ HostUnchanged

\* handleKeepLocal: the user knows the text in the notice.
KeepMine ==
    /\ "keep" \in Choices
    /\ view.notice # Null /\ ~view.keeping
    /\ Promised < MaxGeneration
    /\ ViewStep(KeepLocalThroughAcknowledgement(sync, view.notice.revision, 0),
                [view EXCEPT !.keeping = TRUE],
                ledger.known \cup {view.notice.hostSnapshot}, <<>>)
    /\ ledger' = [ledger EXCEPT !.known = @ \cup {view.notice.hostSnapshot}]
    /\ HostUnchanged

\* handleReloadExternal: the draft is given up for the text in the notice.
Reload ==
    /\ "reload" \in Choices
    /\ view.notice # Null /\ ~view.keeping
    /\ LET revision == view.notice.revision
           snapshot == view.notice.hostSnapshot
       IN  /\ ViewStep(AdoptReplacement(sync, revision, snapshot, TRUE),
                       [Replaced(view, snapshot.content) EXCEPT
                          !.revision = revision,
                          !.notice = Null,
                          !.access = "editable"],
                       {snapshot},
                       <<[type |-> "externalChangeAdopted", revision |-> revision]>>)
           /\ ledger' = [ledger EXCEPT
                 !.known = {snapshot},
                 !.settled = @ \cup (1 .. sync.localGeneration)]
    /\ HostUnchanged

\* handleRetrySync
RetrySave ==
    /\ "retry" \in Choices
    /\ CanRetry(sync)
    /\ ViewStep(Retry(sync, Null), view, ledger.known, <<>>)
    /\ UNCHANGED ledger /\ HostUnchanged

\* handleRecoverInvalidDocument, behind a confirmation dialog: by the time it
\* is answered the 300 ms debounce has run.
RecoverFromLocal ==
    /\ "recover" \in Choices
    /\ view.access = "invalid-external" /\ ~view.recovering /\ ~view.typed
    /\ Backlog < MaxBacklog
    /\ ViewStep(sync, [view EXCEPT !.recovering = TRUE], ledger.known,
                <<[type |-> "recoverInvalidDocument",
                   baseRevision |-> view.revision,
                   mutation |-> Draft(view.content)]>>)
    /\ UNCHANGED ledger /\ HostUnchanged

\* handleRetryInvalidDocument: "Retry" below the invalid-source notice.
Revalidate ==
    /\ "revalidate" \in Choices
    /\ view.access = "invalid-external"
    /\ Backlog < MaxBacklog
    /\ ViewStep(sync, view, ledger.known, <<[type |-> "ready"]>>)
    /\ UNCHANGED ledger /\ HostUnchanged

----------------------------------------------------------------------------
(* The webview's message handler *)

\* The oldest message from the host is of this type.
Hears(type) == toView # <<>> /\ Head(toView).type = type

Heard == toView' = Tail(toView) /\ UNCHANGED <<host, doc, flushes>>

HearAcknowledgement ==
    /\ Hears("editAcknowledged") /\ Heard
    /\ LET message == Head(toView)
           t == Acknowledge(sync, message)
       IN  IF Acknowledges(sync, message)
           THEN /\ ViewStep(t, [view EXCEPT !.revision = message.revision,
                                            !.notice = Shown(t)],
                            {sync.inFlight.mutation}, <<>>)
                /\ ledger' = [ledger EXCEPT !.known = {sync.inFlight.mutation}]
           ELSE ViewStep(t, view, ledger.known, <<>>) /\ UNCHANGED ledger

HearRejection ==
    /\ Hears("editRejected") /\ Heard
    /\ LET message == Head(toView)
           t == Reject(sync, message)
       IN  ViewStep(t,
                    IF MatchesInFlight(sync, message) /\ Shown(t) # Null
                    THEN [view EXCEPT !.notice = Shown(t)]
                    ELSE view,
                    ledger.known, <<>>)
    /\ UNCHANGED ledger

\* observeHostSnapshot: a snapshot equal to the draft is no change at all.
HearExternalChange ==
    /\ Hears("externalChange") /\ Heard
    /\ LET revision == Head(toView).revision
           snapshot == Head(toView).snapshot
           t == ObserveExternalChange(sync, revision, snapshot)
           news == revision > sync.acknowledgedRevision
           known == IF news /\ sync.localMutation = snapshot
                    THEN ledger.known \cup {snapshot} ELSE ledger.known
       IN  /\ ViewStep(t,
                       [view EXCEPT
                          !.notice = IF news /\ sync.localMutation # snapshot
                                     THEN [revision |-> revision,
                                           hostSnapshot |-> snapshot]
                                     ELSE Shown(t),
                          !.revision = IF t.acknowledgedRevision >= revision
                                       THEN Larger(@, revision) ELSE @],
                       known, <<>>)
           /\ ledger' = [ledger EXCEPT !.known = known]

HearRevisionAdvanced ==
    /\ Hears("documentRevisionAdvanced") /\ Heard
    /\ LET revision == Head(toView).revision
           t == AdvanceAcknowledgedRevision(sync, revision)
       IN  ViewStep(t,
                    IF revision > sync.acknowledgedRevision
                    THEN [view EXCEPT !.revision = revision, !.notice = Shown(t)]
                    ELSE view,
                    ledger.known, <<>>)
    /\ UNCHANGED ledger

\* The source broke: the notice goes, and with it every write capability.
HearInvalid ==
    /\ Hears("externalInvalidDocument") /\ Heard
    /\ ViewStep(sync, [view EXCEPT !.revision = Head(toView).revision,
                                   !.notice = Null,
                                   !.access = "invalid-external"],
                ledger.known, <<>>)
    /\ UNCHANGED ledger

\* The editor's draft is adopted as stored: the ledger settles it only if it
\* is what the host stored (`stored` is history).
HearRecovery ==
    /\ Hears("invalidDocumentRecoveryResult") /\ Heard
    /\ LET message == Head(toView)
           draft == Draft(view.content)
       IN  IF view.recovering /\ message.recovered
           THEN /\ ViewStep(AdoptReplacement(sync, message.revision, draft, TRUE),
                            [view EXCEPT !.recovering = FALSE,
                                         !.revision = message.revision,
                                         !.access = "editable"],
                            {draft}, <<>>)
                /\ ledger' = [ledger EXCEPT
                      !.known = {draft},
                      !.settled = @ \cup IF message.stored = draft
                                         THEN 1 .. sync.localGeneration
                                         ELSE {}]
           ELSE /\ ViewStep(sync, [view EXCEPT !.recovering = FALSE],
                            ledger.known, <<>>)
                /\ UNCHANGED ledger

\* requestFlush: submit what is typed, then SaveCoordinator.afterAcknowledged.
HearFlush ==
    /\ Hears("requestFlush") /\ Heard
    /\ \E captured \in {Captured(view)} : \E asked \in {RetryBeforeSave(captured)} :
          LET flush == Head(toView).flush
          IN  /\ ViewStep(AfterAcknowledged(captured, flush), CapturedView(view),
                          ledger.known, AnswersAtOnce(asked, flush))
              /\ ledger' = [ledger EXCEPT !.asked[flush] = asked.localGeneration]

Hear == \/ HearAcknowledgement \/ HearRejection \/ HearExternalChange
        \/ HearRevisionAdvanced \/ HearInvalid \/ HearRecovery \/ HearFlush

----------------------------------------------------------------------------
(* The extension host *)

\* tryReadCurrentMutation
ReadMutation(text) == IF text = Invalid THEN Null ELSE text

Rejected(request, code) ==
    [type |-> "editRejected", identity |-> Self, editId |-> request.editId,
     revision |-> doc.version, code |-> code, hostSnapshot |-> ReadMutation(doc.text)]

\* Seeded fault: every recovery is reported as done.
Recovery_AlwaysDone(recovered, stored) ==
    [type |-> "invalidDocumentRecoveryResult", recovered |-> TRUE,
     revision |-> doc.version, stored |-> stored]

Recovery(recovered, stored) ==
    [type |-> "invalidDocumentRecoveryResult", recovered |-> recovered,
     revision |-> doc.version, stored |-> stored]

Post(message) == toView' = Append(toView, message)

\* postExternalChange, for the text and version of d.
PostExternalChange(h, d) ==
    IF d.text = Invalid
    THEN /\ host' = [h EXCEPT !.blocked = TRUE, !.cache = Null]
         /\ Post([type |-> "externalInvalidDocument", revision |-> d.version])
    ELSE /\ host' = [h EXCEPT !.blocked = FALSE, !.cache = Null]
         /\ Post(IF h.lastLocal = d.text
                 THEN [type |-> "documentRevisionAdvanced", revision |-> d.version]
                 ELSE [type |-> "externalChange", revision |-> d.version,
                       snapshot |-> d.text])

\* handleEditorMessage: a message arrives and is answered, queued or dropped.
SettleFlush(flush, outcome) ==
    flushes' = IF flushes[flush] = "waiting"
               THEN [flushes EXCEPT ![flush] = outcome]
               ELSE flushes

\* What a write-blocked session still handles.
ReadOnlySafe == {"ready", "flushComplete", "recoverInvalidDocument"}

Arrive ==
    /\ toHost # <<>>
    /\ toHost' = Tail(toHost)
    /\ LET message == Head(toHost)
       IN  \/ /\ host.blocked /\ message.type \notin ReadOnlySafe
              /\ IF message.type = "edit"
                 THEN Post(Rejected(message.request, "INVALID_DOCUMENT"))
                 ELSE UNCHANGED toView
              /\ UNCHANGED <<host, flushes>>
           \/ /\ message.type = "flushComplete"
              /\ SettleFlush(message.flush, "resolved")
              /\ UNCHANGED <<host, toView>>
           \/ /\ message.type = "flushFailed" /\ ~host.blocked
              /\ SettleFlush(message.flush, "rejected")
              /\ UNCHANGED <<host, toView>>
           \/ /\ ~host.blocked \/ message.type \in ReadOnlySafe
              /\ message.type \notin {"flushComplete", "flushFailed"}
              /\ host' = [host EXCEPT !.queue = Append(@, message)]
              /\ UNCHANGED <<toView, flushes>>
    /\ UNCHANGED <<sync, view, doc, ledger>>

\* The next task of the serial queue is of this type, and none is running.
Handles(type) ==
    /\ host.applying = Null
    /\ host.queue # <<>>
    /\ Head(host.queue).type = type

Dequeued == [host EXCEPT !.queue = Tail(@)]

\* updateDocument up to `await applyEdit`: the edit is planned against the
\* document as it is now. Only an edit uses the cache.
Applying(message) ==
    [Dequeued EXCEPT !.applying = [message |-> message,
                                   source  |-> doc.version,
                                   text    |-> IF message.type = "edit"
                                               THEN Persisted(host.cache, doc.version,
                                                              message.request)
                                               ELSE message.mutation,
                                   outcome |-> "unknown"]]

\* Seeded fault: the base revision of an edit is not compared.
IsCurrent_Unchecked(request) == TRUE

\* The edit was written on the document as it is.
IsCurrent(request) == request.baseRevision = doc.version

HandleEdit ==
    /\ Handles("edit")
    /\ LET message == Head(host.queue)
       IN  IF ~IsCurrent(message.request)
           THEN /\ host' = [Dequeued EXCEPT !.cache = Null]
                /\ Post(Rejected(message.request, "STALE_REVISION"))
           ELSE host' = Applying(message) /\ UNCHANGED toView
    /\ UNCHANGED <<doc, flushes, ledger>> /\ ViewUnchanged

HandleAdopted ==
    /\ Handles("externalChangeAdopted")
    /\ host' = IF Head(host.queue).revision = doc.version
                  /\ ReadMutation(doc.text) # Null
               THEN [Dequeued EXCEPT !.lastLocal = doc.text, !.cache = Null]
               ELSE Dequeued
    /\ UNCHANGED <<toView, doc, flushes, ledger>> /\ ViewUnchanged

\* Seeded fault: a recovery is accepted whatever the document holds now.
CanRecover_Unchecked(message) == TRUE

\* canRecoverInvalidDocument, for a document that was valid once.
CanRecover(message) == host.blocked /\ message.baseRevision = doc.version

HandleRecover ==
    /\ Handles("recoverInvalidDocument")
    /\ LET message == Head(host.queue)
       IN  IF CanRecover(message)
           THEN host' = [Applying(message) EXCEPT !.cache = Null] /\ UNCHANGED toView
           ELSE host' = Dequeued /\ Post(Recovery(FALSE, Null))
    /\ UNCHANGED <<doc, flushes, ledger>> /\ ViewUnchanged

\* `ready`: sendUpdate adopts the text as the local one; the `init` it posts
\* finds a webview that is already initialised and changes nothing there.
HandleReady ==
    /\ Handles("ready")
    /\ IF host.blocked
       THEN PostExternalChange(Dequeued, doc)
       ELSE /\ host' = IF doc.text = Invalid
                       THEN [Dequeued EXCEPT !.blocked = TRUE, !.cache = Null]
                       ELSE [Dequeued EXCEPT !.lastLocal = doc.text,
                                             !.cache = LoadedCache(doc.version, doc.text)]
            /\ UNCHANGED toView
    /\ UNCHANGED <<doc, flushes, ledger>> /\ ViewUnchanged

\* VS Code applies the edit to the version it was planned for, or not at all.
ApplyEdit ==
    /\ host.applying # Null /\ host.applying.outcome = "unknown"
    /\ LET message == host.applying.message
       IN  \/ /\ doc.version = host.applying.source
              /\ doc' = [version |-> doc.version + 1, text |-> host.applying.text]
              /\ host' = [host EXCEPT !.applying.outcome = "applied"]
              /\ ledger' = IF message.type = "edit"
                              /\ host.applying.text = message.request.mutation
                           THEN [ledger EXCEPT
                                   !.settled = @ \cup {message.request.localGeneration}]
                           ELSE ledger
           \/ /\ doc.version # host.applying.source
              /\ host' = [host EXCEPT !.applying.outcome = "refused"]
              /\ UNCHANGED <<doc, ledger>>
           \/ /\ doc.version = host.applying.source
              /\ host.refusals < MaxRefusals
              /\ host' = [host EXCEPT !.applying.outcome = "refused",
                                      !.refusals = @ + 1]
              /\ UNCHANGED <<doc, ledger>>
    /\ UNCHANGED <<toView, flushes>> /\ ViewUnchanged

\* isDocumentTextEditApplicationConfirmed: nothing happened since the edit.
Confirmed(applying) ==
    /\ applying.outcome = "applied"
    /\ doc.version = applying.source + 1

\* The code of an edit that was not confirmed.
FailureCode(applying) ==
    IF applying.outcome = "refused" /\ doc.version = applying.source
    THEN "WRITE_FAILED" ELSE "STALE_REVISION"

\* The task resumes after `await applyEdit` and answers the webview.
Resume ==
    /\ host.applying # Null /\ host.applying.outcome # "unknown"
    /\ LET applying == host.applying
           message == applying.message
           done == [host EXCEPT !.applying = Null, !.cache = Null]
       IN  IF Confirmed(applying)
           THEN IF message.type = "edit"
                THEN /\ host' = [done EXCEPT
                           !.lastLocal = applying.text,
                           !.cache = CacheOf(doc.version, message.request, applying.text)]
                     /\ Post([type |-> "editAcknowledged", identity |-> Self,
                              editId |-> message.request.editId,
                              revision |-> doc.version])
                ELSE /\ host' = [done EXCEPT !.lastLocal = message.mutation,
                                             !.blocked = FALSE]
                     /\ Post(Recovery(TRUE, message.mutation))
           ELSE /\ host' = done
                /\ Post(IF message.type = "edit"
                        THEN Rejected(message.request, FailureCode(applying))
                        ELSE Recovery(FALSE, Null))
    /\ UNCHANGED <<doc, flushes, ledger>> /\ ViewUnchanged

\* Another editor, a checkout or a formatter writes the document.
ExternalWrite ==
    /\ doc.version < MaxVersion
    /\ \E text \in ExternalTexts \ {doc.text} :
          LET d == [version |-> doc.version + 1, text |-> text]
          IN  doc' = d /\ PostExternalChange(host, d)
    /\ UNCHANGED <<flushes, ledger>> /\ ViewUnchanged

\* flushEditor, for a save, an export or a navigation.
RequestFlush ==
    /\ Len(flushes) < MaxFlushes
    /\ flushes' = Append(flushes, "waiting")
    /\ Post([type |-> "requestFlush", flush |-> Len(flushes) + 1])
    /\ UNCHANGED <<host, doc, ledger>> /\ ViewUnchanged

FlushTimesOut ==
    /\ \E flush \in DOMAIN flushes :
          /\ flushes[flush] = "waiting"
          /\ flushes' = [flushes EXCEPT ![flush] = "rejected"]
    /\ UNCHANGED <<toView, host, doc, ledger>> /\ ViewUnchanged

----------------------------------------------------------------------------
User == Type \/ EditMetadata \/ KeepMine \/ Reload \/ RetrySave \/ RecoverFromLocal \/ Revalidate

Handle == HandleEdit \/ HandleAdopted \/ HandleRecover \/ HandleReady

Next ==
    \/ User \/ Debounce \/ Hear
    \/ Arrive \/ Handle \/ ApplyEdit \/ Resume
    \/ ExternalWrite \/ RequestFlush \/ FlushTimesOut

Spec == Init /\ [][Next]_vars

\* Timers fire, posted messages are delivered, the serial queue advances and
\* VS Code answers: event loops run on.  Nothing is assumed of the user, of
\* other writers or of the flush timeout.
FairSpec == Spec /\ WF_vars(Debounce) /\ WF_vars(Hear) /\ WF_vars(Arrive)
                 /\ WF_vars(Handle) /\ WF_vars(ApplyEdit) /\ WF_vars(Resume)

\* A user who keeps pressing "Retry" while the source is reported invalid.
PersistentSpec == FairSpec /\ WF_vars(Revalidate)

----------------------------------------------------------------------------
(* Properties *)

\* The messages of either direction.
Outbox ==
    [type : {"edit"}, request : Requests, over : SUBSET Mutations]
    \cup [type : {"flushComplete", "flushFailed"}, flush : 1 .. MaxFlushes]
    \cup [type : {"externalChangeAdopted"}, revision : Nat]
    \cup [type : {"recoverInvalidDocument"}, baseRevision : Nat, mutation : Mutations]
    \cup [type : {"ready"}]

Inbox ==
    [type : {"editAcknowledged"}, identity : {Self}, editId : Nat, revision : Nat]
    \cup [type : {"editRejected"}, identity : {Self}, editId : Nat, revision : Nat,
          code : ErrorCodes, hostSnapshot : Mutations \cup {Null}]
    \cup [type : {"externalChange"}, revision : Nat, snapshot : Mutations]
    \cup [type : {"documentRevisionAdvanced", "externalInvalidDocument"}, revision : Nat]
    \cup [type : {"invalidDocumentRecoveryResult"}, recovered : BOOLEAN,
          revision : Nat, stored : Mutations \cup {Null}]
    \cup [type : {"requestFlush"}, flush : 1 .. MaxFlushes]

Hosts == [queue     : Seq(Outbox),
          applying  : Tasks \cup {Null},
          blocked   : BOOLEAN,
          lastLocal : Mutations,
          refusals  : Nat,
          cache     : Caches \cup {Null}]

\* Type invariant of the session.
TypeOK ==
    /\ sync \in SyncStates /\ sync.localMutation # Null
    /\ view \in Views
    /\ toHost \in Seq(Outbox) /\ toView \in Seq(Inbox)
    /\ host \in Hosts
    /\ doc \in [version : Nat, text : Texts]
    /\ flushes \in Seq({"waiting", "resolved", "rejected"}) /\ Len(flushes) <= MaxFlushes
    /\ ledger \in [known : SUBSET Mutations, settled : SUBSET Nat,
                   asked : [1 .. MaxFlushes -> Nat]]

\* The step in which VS Code applies the host's edit.
Overwrites ==
    /\ host.applying # Null /\ host.applying.outcome = "unknown"
    /\ host'.applying # Null /\ host'.applying.outcome = "applied"

\* An edit that changes the text replaces only one its author knew of: the one
\* the draft was written on (loaded, stored or reloaded), or one the user chose to
\* keep the draft against.  A recovery replaces only an invalid text.
NoSilentOverwrite ==
    [][Overwrites /\ doc'.text # doc.text =>
         IF host.applying.message.type = "edit"
         THEN doc.text \in host.applying.message.over
         ELSE doc.text = Invalid]_vars

\* Whatever the user decides, an edit replaces only a text its author knew of or
\* the text this editor's host itself last stored or adopted; a recovery only an
\* invalid text.
NoForeignOverwrite ==
    [][Overwrites =>
         IF host.applying.message.type = "edit"
         THEN doc.text \in host.applying.message.over \cup {host.lastLocal}
         ELSE doc.text = Invalid]_vars

\* A flush the host saw resolved stored everything typed before it, or the
\* user gave that up.
FlushMeansStored ==
    \A flush \in DOMAIN flushes :
        flushes[flush] = "resolved" =>
            \E g \in ledger.settled \cup {0} : g >= ledger.asked[flush]

\* The coordinator confirms only drafts that did reach the document.
AcknowledgedWasStored ==
    sync.acknowledgedGeneration \in ledger.settled \cup {0}

\* The webview never runs ahead of the document, and never forgets a revision
\* it has seen.
RevisionsBehindDocument ==
    /\ sync.acknowledgedRevision <= doc.version
    /\ view.revision <= doc.version
    /\ view.notice # Null => view.notice.revision <= doc.version

RevisionNeverReturns ==
    [][sync'.acknowledgedRevision >= sync.acknowledgedRevision]_vars

\* No message, task or debounce is under way.
Quiet ==
    /\ toHost = <<>> /\ toView = <<>> /\ ~view.typed
    /\ host.queue = <<>> /\ host.applying = Null

\* When all is quiet and the editor reports neither error nor conflict, the
\* document is what the editor shows, at the revision the webview edits.
QuietMeansStored ==
    Quiet /\ view.access = "editable" /\ view.notice = Null /\ sync.error = Null =>
        /\ doc.text = sync.localMutation
        /\ doc.text = Draft(view.content)
        /\ doc.version = sync.acknowledgedRevision
        /\ ~host.blocked

\* ADR 0015: when the source becomes invalid the webview "loses every write
\* capability" until the source is repaired.
InvalidMeansReadOnly ==
    toView = <<>> /\ view.access = "editable" => doc.text # Invalid

\* ADR 0015: "repairing the source and reloading remains the default recovery
\* path": once the source is repaired, a user who keeps retrying gets the
\* editor back, or at least a choice.
RepairReopens ==
    view.access = "invalid-external" /\ doc.text # Invalid
        ~> \/ view.access = "editable" \/ view.notice # Null
           \/ doc.text = Invalid

\* What the user typed is confirmed, or the editor says why it is not.
Unsettled == view.typed \/ sync.acknowledgedGeneration < sync.localGeneration

DraftSettles ==
    Unsettled ~> \/ ~Unsettled
                 \/ view.notice # Null \/ sync.error # Null
                 \/ view.access # "editable"

Unanswered(flush) == flush \in DOMAIN flushes /\ flushes[flush] = "waiting"

\* While the source stays valid, a flush is answered without its timeout
\* unless a conflict waits for the user: the webview's answer is never lost.
FlushAnswered ==
    [](doc.text # Invalid) =>
        \A flush \in 1 .. MaxFlushes :
            Unanswered(flush)
                ~> ~Unanswered(flush) \/ view.notice # Null
============================================================================
