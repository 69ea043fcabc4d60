---------------------------- MODULE BookEditor ----------------------------
\* The Book editor: a manifest that lists chapters, shown in a webview that the
\* host keeps up to date, edited there and in any text editor, and exported.
\*
\* The host composes the Book in the background: every change of the source
\* starts a new epoch, aborts the running load and schedules another. An edit
\* made in the webview names the revision it was made on, waits in a serial
\* queue, and may ask the user something before it is applied.
EXTENDS Naturals, SequencesExt

CONSTANTS
    Paths,          \* chapters a manifest can name
    Key,            \* [Paths -> keys]: paths with one key are one file
    Start,          \* the documents of the manifest at first
    ForeignOrders,  \* documents that other editors write into the manifest
    Invalid,        \* the manifest that does not parse
    None,
    MaxDocuments,   \* chapters a manifest may list (BOOK_MAX_DOCUMENTS)
    Overlapping,    \* whether the manifest may change while a style sheet is read
    MaxWrites,      \* writes by others, to the manifest or to chapters
    MaxClicks,      \* edits made in the webview
    MaxExports,
    MaxTogether     \* all three together

ASSUME BookAssumption ==
    /\ Start \in Seq(Paths) /\ ForeignOrders \subseteq Seq(Paths)
    /\ DOMAIN Key = Paths /\ Overlapping \in BOOLEAN
    /\ {MaxDocuments, MaxWrites, MaxClicks, MaxExports, MaxTogether} \subseteq Nat

VARIABLES
    doc,            \* the manifest: [book, version]
    chapter,        \* how often each chapter was written
    host,           \* what the editor's session on the host holds
    view,           \* what the webview shows, and the edit it waits for
    toHost, toView, \* messages under way
    ledger          \* how often each bounded thing has happened

vars == <<doc, chapter, host, view, toHost, toView, ledger>>

Spent(what, bound) ==
    /\ ledger[what] < bound
    /\ ledger.writes + ledger.clicks + ledger.exports < MaxTogether
    /\ ledger' = [ledger EXCEPT ![what] = @ + 1]

-----------------------------------------------------------------------------
\* Manifests. applyBookManifestMutation on a book that parsed, or None where it
\* throws.

Book(documents, title, publish) ==
    [documents |-> documents, title |-> title, publish |-> publish]

IsBook(book) == book # Invalid

Files == {Key[path] : path \in Paths}
Keys(documents) == {Key[path] : path \in ToSet(documents)}

AddDocuments(book, path) ==
    LET isNew == Key[path] \notin Keys(book.documents)
        documents == IF isNew THEN Append(book.documents, path) ELSE book.documents
    IN  IF Len(documents) > MaxDocuments THEN None
        ELSE [book EXCEPT !.documents = documents]

RemoveDocument(book, index) ==
    IF index > Len(book.documents) THEN None
    ELSE [book EXCEPT !.documents = RemoveAt(@, index)]

MoveDocument(book, from, to) ==
    IF from > Len(book.documents) \/ to > Len(book.documents) THEN None
    ELSE [book EXCEPT !.documents = InsertAt(RemoveAt(@, from), to, @[from])]

Mutated(book, message) ==
    CASE message.edit = "addDocument" -> AddDocuments(book, message.path)
      [] message.edit = "removeDocument" -> RemoveDocument(book, message.from)
      [] message.edit = "moveDocument" -> MoveDocument(book, message.from, message.to)
      [] message.edit = "updateMeta" -> [book EXCEPT !.title = message.title]
      [] message.edit = "savePublishProfile" -> [book EXCEPT !.publish = TRUE]

\* Edits that ask the user first: which file to add, whether to remove.
Asks(message) == message.edit \in {"addDocument", "removeDocument"}

-----------------------------------------------------------------------------
\* The host's view of the Book. `loading` is the load that a change aborts;
\* `styling` are loads that have composed the Book and read its style sheet.

NoLoad == None

Scheduled_Coalesced(h) ==   \* Seeded fault: a running load is thought to be enough.
    [h EXCEPT !.epoch = @ + 1, !.timer = h.loading = NoLoad]

\* A change of anything shown: a new epoch, the load aborted, a timer.
Scheduled(h) == [h EXCEPT !.epoch = @ + 1, !.loading = NoLoad, !.timer = TRUE]

Post(message) == toView' = Append(toView, message)

\* The end of updateWebview: revision and book are put together here.
Shown(h, load) ==
    LET state == [generation |-> load.sequence, revision |-> doc.version, book |-> load.book]
        source == IF IsBook(load.book)
                  THEN [revision |-> doc.version, epoch |-> load.epoch, book |-> load.book,
                        captured |-> load.captured, coherent |-> load.coherent]
                  ELSE None
    IN  [h EXCEPT !.state = state, !.source = source,
                  !.included = IF IsBook(load.book) THEN ToSet(load.book.documents) ELSE @]

PostState(h) ==
    IF h.ready THEN Post([type |-> "state", state |-> h.state]) ELSE UNCHANGED toView

\* updateWebview up to the first chapter: a manifest that does not parse is shown
\* as such at once.
StartUpdate(h) ==
    LET sequence == h.sequence + 1
        load == [sequence |-> sequence, epoch |-> h.epoch, book |-> doc.book,
                 captured |-> [path \in Paths |-> None], coherent |-> FALSE]
        begun == [h EXCEPT !.sequence = sequence, !.loading = NoLoad]
    IN  IF IsBook(doc.book)
        THEN host' = [begun EXCEPT !.loading = load] /\ UNCHANGED toView
        ELSE host' = Shown(begun, load) /\ PostState(Shown(begun, load))

TimerFires ==
    /\ host.timer
    /\ StartUpdate([host EXCEPT !.timer = FALSE])
    /\ UNCHANGED <<doc, chapter, view, toHost, ledger>>

Content(path) == chapter[Key[path]]
Unread(load) == {path \in ToSet(load.book.documents) : load.captured[path] = None}

LoadChapter(path) ==
    /\ host.loading # NoLoad /\ path \in Unread(host.loading)
    /\ host' = [host EXCEPT !.loading.captured[path] = Content(path)]
    /\ UNCHANGED <<doc, chapter, view, toHost, toView, ledger>>

\* `coherent` is history: whether what was read is the project as it is now.
Composed ==
    /\ host.loading # NoLoad /\ Unread(host.loading) = {}
    /\ LET read == host.loading
           load == [read EXCEPT !.coherent =
                       read.book = doc.book /\ \A p \in ToSet(read.book.documents) :
                                                  read.captured[p] = Content(p)]
           rest == [host EXCEPT !.loading = NoLoad]
       IN  IF load.book.publish
           THEN host' = [rest EXCEPT !.styling = @ \cup {load}] /\ UNCHANGED toView
           ELSE host' = Shown(rest, load) /\ PostState(Shown(rest, load))
    /\ UNCHANGED <<doc, chapter, view, toHost, ledger>>

StyleRead(load) ==
    /\ LET rest == [host EXCEPT !.styling = @ \ {load}]
       IN  host' = Shown(rest, load) /\ PostState(Shown(rest, load))
    /\ UNCHANGED <<doc, chapter, view, toHost, ledger>>

-----------------------------------------------------------------------------
\* Other writers. The manifest's change is heard at once; the file watchers of
\* the chapters shown tell of theirs later.

Undisturbed == Overlapping \/ host.styling = {}

ForeignManifest(book) ==
    /\ book # doc.book /\ Undisturbed
    /\ Spent("writes", MaxWrites)
    /\ doc' = [book |-> book, version |-> doc.version + 1]
    /\ host' = Scheduled(host)
    /\ UNCHANGED <<chapter, view, toHost, toView>>

ForeignChapter(path) ==
    /\ IsBook(doc.book) /\ path \in ToSet(doc.book.documents)
    /\ Spent("writes", MaxWrites)
    /\ chapter' = [chapter EXCEPT ![Key[path]] = @ + 1]
    /\ host' = [host EXCEPT !.unheard = @ \/ path \in host.included]
    /\ UNCHANGED <<doc, view, toHost, toView>>

WatcherFires ==
    /\ host.unheard
    /\ host' = Scheduled([host EXCEPT !.unheard = FALSE])
    /\ UNCHANGED <<doc, chapter, view, toHost, toView, ledger>>

-----------------------------------------------------------------------------
\* Edits in the webview.

Ready ==
    /\ ~view.ready
    /\ view' = [view EXCEPT !.ready = TRUE]
    /\ toHost' = Append(toHost, [type |-> "ready"])
    /\ UNCHANGED <<doc, chapter, host, toView, ledger>>

\* postMutation: one edit at a time, on the revision shown. `shown` is history.
Click(edit, path, from, to) ==
    /\ view.state # None /\ IsBook(view.state.book) /\ view.pending = None
    /\ {from, to} \subseteq 1 .. Len(view.state.book.documents)
    /\ edit = "moveDocument" \/ from = to
    /\ edit = "removeDocument" \/ edit = "moveDocument" \/ from = 1
    /\ edit = "moveDocument" => from # to
    /\ edit = "addDocument" \/ path = CHOOSE p \in Paths : TRUE
    /\ Spent("clicks", MaxClicks)
    /\ view' = [view EXCEPT !.pending = ledger.clicks + 1]
    /\ toHost' = Append(toHost,
          [type |-> "mutation", edit |-> edit, path |-> path, from |-> from, to |-> to,
           title |-> "renamed", request |-> ledger.clicks + 1,
           base |-> view.state.revision, shown |-> view.state.book])
    /\ UNCHANGED <<doc, chapter, host, toView>>

Result(message, status) == [type |-> "result", request |-> message.request, status |-> status]

\* prepareBookMutationSnapshot
Current(message) == doc.version = message.base
Snapshot(message) == Current(message) /\ IsBook(doc.book)
Refusal(message) == IF Current(message) THEN "rejected" ELSE "stale"

Ended(message, status) ==
    /\ host' = [host EXCEPT !.queue = Tail(@), !.mutation = None]
    /\ Post(Result(message, status))

\* updateProjectFile hands the edit to VS Code, which applies it to the version it
\* was made for or not at all.
Apply(message) ==
    LET next == Mutated(doc.book, message)
    IN  IF next = None THEN Ended(message, "rejected")
        ELSE IF message.edit = "addDocument" /\ next = doc.book THEN Ended(message, "cancelled")
        ELSE /\ host' = [host EXCEPT !.mutation =
                            [stage |-> "applying", next |-> next, version |-> doc.version]]
             /\ UNCHANGED toView

StartMutation ==
    /\ host.queue # <<>> /\ host.mutation = None
    /\ LET message == Head(host.queue)
       IN  \/ ~Snapshot(message) /\ Ended(message, Refusal(message))
           \/ /\ Snapshot(message)
              /\ IF message.edit = "removeDocument" /\ message.from > Len(doc.book.documents)
                 THEN Ended(message, "rejected")
                 ELSE IF Asks(message)
                 THEN /\ host' = [host EXCEPT !.mutation =
                                     [stage |-> "asking", next |-> None, version |-> 0]]
                      /\ UNCHANGED toView
                 ELSE Apply(message)
    /\ UNCHANGED <<doc, chapter, view, toHost, ledger>>

Recheck_Trusting(message) == IsBook(doc.book)   \* Seeded fault: the dialog took no time.
Recheck(message) == Snapshot(message)

AnswerDialog(agrees) ==
    /\ host.mutation # None /\ host.mutation.stage = "asking"
    /\ LET message == Head(host.queue)
       IN  \/ ~agrees /\ Ended(message, "cancelled")
           \/ agrees /\ ~Recheck(message) /\ Ended(message, Refusal(message))
           \/ agrees /\ Recheck(message) /\ Apply(message)
    /\ UNCHANGED <<doc, chapter, view, toHost, ledger>>

ApplyEdit ==
    /\ host.mutation # None /\ host.mutation.stage = "applying" /\ Undisturbed
    /\ LET message == Head(host.queue)
           done == [host EXCEPT !.queue = Tail(@), !.mutation = None]
       IN  \/ /\ doc.version = host.mutation.version
              /\ doc' = [book |-> host.mutation.next, version |-> doc.version + 1]
              /\ host' = Scheduled(done)
              /\ Post(Result(message, "applied"))
           \/ /\ doc.version # host.mutation.version
              /\ UNCHANGED doc
              /\ Ended(message, "rejected")
    /\ UNCHANGED <<chapter, view, toHost, ledger>>

-----------------------------------------------------------------------------
\* Exports. A plan is prepared from the composed Book and carries what it was
\* made from; when it runs, all of that is read again before anything is written.

Export ==
    /\ view.state # None /\ IsBook(view.state.book) /\ view.state.book.publish
    /\ Spent("exports", MaxExports)
    /\ toHost' = Append(toHost, [type |-> "export", base |-> view.state.revision])
    /\ UNCHANGED <<doc, chapter, host, view, toView>>

NoExport == None
Failed(h) == [h EXCEPT !.export = NoExport]

\* The first checks of the preflight; a source that is not current is composed anew.
Preflight(base) ==
    LET begun == [host EXCEPT !.export =
                     [stage |-> "updating", base |-> base, sequence |-> host.sequence + 1,
                      source |-> None, manifest |-> None, unread |-> <<>>]]
        isCurrent == /\ host.source # None
                     /\ host.source.revision = doc.version /\ host.source.epoch = host.epoch
    IN  CASE host.export # NoExport \/ doc.version # base -> UNCHANGED <<host, toView>>
          [] host.export = NoExport /\ doc.version = base /\ isCurrent ->
               host' = [begun EXCEPT !.export.sequence = 0] /\ UNCHANGED toView
          [] OTHER -> StartUpdate(begun)

Updated == host.loading # NoLoad => host.loading.sequence # host.export.sequence

InEpoch(h) == doc.version = h.export.base /\ h.export.source.epoch = h.epoch

Capture ==
    /\ host.export # NoExport /\ host.export.stage = "updating"
    /\ Updated /\ \A load \in host.styling : load.sequence # host.export.sequence
    /\ LET taken == [host EXCEPT !.export.source = host.source, !.export.stage = "rendering"]
       IN  host' = IF host.source # None /\ InEpoch(taken) /\ host.source.book.publish
                   THEN taken ELSE Failed(host)
    /\ UNCHANGED <<doc, chapter, view, toHost, toView, ledger>>

\* Diagrams, images and the target took their time: the Book must be the same.
Rendered ==
    /\ host.export # NoExport /\ host.export.stage = "rendering"
    /\ host' = IF InEpoch(host) THEN [host EXCEPT !.export.stage = "hashing"] ELSE Failed(host)
    /\ UNCHANGED <<doc, chapter, view, toHost, toView, ledger>>

\* createBookExportIntegritySnapshot reads the manifest after it has resolved paths.
PlanMade ==
    /\ host.export # NoExport /\ host.export.stage = "hashing"
    /\ host' = [host EXCEPT !.export.stage = "planned",
                            !.export.manifest = [version |-> doc.version]]
    /\ UNCHANGED <<doc, chapter, view, toHost, toView, ledger>>

\* readCurrentBookIntegrityFingerprint: the manifest, then one chapter after the other.
Confirm ==
    /\ host.export # NoExport /\ host.export.stage = "planned"
    /\ host' = IF doc.version = host.export.manifest.version
               THEN [host EXCEPT !.export.stage = "verifying",
                                 !.export.unread = host.export.source.book.documents]
               ELSE Failed(host)
    /\ UNCHANGED <<doc, chapter, view, toHost, toView, ledger>>

Unchanged_Trusting(path) == TRUE   \* Seeded fault: only the manifest is read again.

Unchanged(path) == Content(path) = host.export.source.captured[path]
VerifyChapter ==
    /\ host.export # NoExport /\ host.export.stage = "verifying" /\ host.export.unread # <<>>
    /\ host' = IF Unchanged(Head(host.export.unread))
               THEN [host EXCEPT !.export.unread = Tail(@)] ELSE Failed(host)
    /\ UNCHANGED <<doc, chapter, view, toHost, toView, ledger>>

Write ==
    /\ host.export # NoExport /\ host.export.stage = "verifying" /\ host.export.unread = <<>>
    /\ host' = [Failed(host) EXCEPT !.written = @ \cup {host.export.source}]
    /\ UNCHANGED <<doc, chapter, view, toHost, toView, ledger>>

CancelExport ==
    /\ host.export # NoExport
    /\ host' = Failed(host)
    /\ UNCHANGED <<doc, chapter, view, toHost, toView, ledger>>

-----------------------------------------------------------------------------
\* Messages.

Arrive ==
    /\ toHost # <<>>
    /\ toHost' = Tail(toHost)
    /\ LET message == Head(toHost)
       IN  \/ /\ message.type = "ready"
              /\ IF host.state # None
                 THEN /\ host' = [host EXCEPT !.ready = TRUE]
                      /\ Post([type |-> "state", state |-> host.state])
                 ELSE host' = Scheduled([host EXCEPT !.ready = TRUE]) /\ UNCHANGED toView
           \/ /\ message.type = "mutation"
              /\ host' = [host EXCEPT !.queue = Append(@, message)]
              /\ UNCHANGED toView
           \/ message.type = "refresh" /\ host' = Scheduled(host) /\ UNCHANGED toView
           \/ message.type = "export" /\ Preflight(message.base)
    /\ UNCHANGED <<doc, chapter, view, ledger>>

\* A newer generation replaces what is shown; an edit that was refused as stale
\* asks for a fresh one.
Newer(state) == view.state = None \/ state.generation > view.state.generation

Hear ==
    /\ toView # <<>>
    /\ toView' = Tail(toView)
    /\ LET message == Head(toView)
       IN  \/ /\ message.type = "state"
              /\ view' = IF Newer(message.state)
                         THEN [view EXCEPT !.state = message.state] ELSE view
              /\ UNCHANGED toHost
           \/ /\ message.type = "result"
              /\ view' = IF message.request = view.pending
                         THEN [view EXCEPT !.pending = None] ELSE view
              /\ toHost' = IF message.request = view.pending /\ message.status = "stale"
                           THEN Append(toHost, [type |-> "refresh"]) ELSE toHost
    /\ UNCHANGED <<doc, chapter, host, ledger>>

Init ==
    /\ doc = [book |-> Book(Start, "plain", TRUE), version |-> 1]
    /\ chapter = [key \in Files |-> 0]
    /\ host = [sequence |-> 0, epoch |-> 1, timer |-> TRUE, loading |-> NoLoad,
               styling |-> {}, state |-> None, source |-> None, included |-> {},
               unheard |-> FALSE, ready |-> FALSE, queue |-> <<>>, mutation |-> None,
               export |-> NoExport, written |-> {}]
    /\ view = [ready |-> FALSE, state |-> None, pending |-> None]
    /\ toHost = <<>> /\ toView = <<>>
    /\ ledger = [writes |-> 0, clicks |-> 0, exports |-> 0]

Edits == {"addDocument", "removeDocument", "moveDocument", "updateMeta", "savePublishProfile"}
Places == 1 .. MaxDocuments

Next ==
    \/ TimerFires
    \/ \E path \in Paths : LoadChapter(path) \/ ForeignChapter(path)
    \/ Composed
    \/ \E load \in host.styling : StyleRead(load)
    \/ \E order \in ForeignOrders, publish \in BOOLEAN :
         ForeignManifest(Book(order, "plain", publish))
    \/ ForeignManifest(Invalid)
    \/ WatcherFires
    \/ Ready
    \/ \E edit \in Edits, path \in Paths, from \in Places, to \in Places :
         Click(edit, path, from, to)
    \/ StartMutation
    \/ \E agrees \in BOOLEAN : AnswerDialog(agrees)
    \/ ApplyEdit
    \/ Export
    \/ Capture
    \/ Rendered
    \/ PlanMade
    \/ Confirm
    \/ VerifyChapter
    \/ Write
    \/ CancelExport
    \/ Arrive
    \/ Hear

Spec == Init /\ [][Next]_vars

-----------------------------------------------------------------------------
\* Properties.

\* An edit made in the webview is applied to the manifest its user saw, whatever
\* else was written while it waited, and while a dialog was open
\* (prepareBookMutationSnapshot, CHANGELOG.md:202 "rejected stale book edits").
EditsWhatWasShown ==
    [][doc'.version # doc.version /\ host.mutation # None /\ host'.mutation = None =>
       doc.book = Head(host.queue).shown]_vars

\* The editor never writes a manifest its own parser refuses: no two entries are
\* one file, and there are not too many (applyBookManifestMutation).
WritesValidBooks ==
    [][doc'.version # doc.version /\ host.mutation # None /\ host'.mutation = None =>
       LET documents == doc'.book.documents
       IN  /\ Len(documents) <= MaxDocuments
           /\ Cardinality(Keys(documents)) = Len(documents)]_vars

\* What an export wrote was the project at one moment: its manifest and all its
\* chapters together, never a mixture of two moments (loadBook, then
\* readCurrentBookIntegrityFingerprint).
ExportsOneMoment == \A source \in host.written : source.coherent

\* Once nothing is under way the webview shows the manifest as it is, under its
\* revision, and waits for no answer (updateWebview, enqueueMutation).
QuietShowsTheBook ==
    (~host.timer /\ host.loading = NoLoad /\ host.styling = {} /\ host.queue = <<>>
     /\ toHost = <<>> /\ toView = <<>> /\ view.ready) =>
        /\ view.state # None
        /\ view.state.book = doc.book /\ view.state.revision = doc.version
        /\ view.pending = None

-----------------------------------------------------------------------------
\* Types.

Books   == [documents : Seq(Paths), title : {"plain", "renamed"}, publish : BOOLEAN]
Sources == Books \cup {Invalid}
Read    == [Paths -> Nat \cup {None}]
States  == [generation : Nat, revision : Nat, book : Sources]

Loads == [sequence : Nat, epoch : Nat, book : Books, captured : Read, coherent : BOOLEAN]

\* No load and no state is none.
ASSUME NoneAssumption == None \notin Loads \cup States

Composites == [revision : Nat, epoch : Nat, book : Books, captured : Read, coherent : BOOLEAN]

Mutations == [stage : {"asking"}, next : {None}, version : {0}]
        \cup [stage : {"applying"}, next : Books, version : Nat]

Plans == [stage : {"updating", "rendering", "hashing", "planned", "verifying"}, base : Nat,
          sequence : Nat, source : Composites \cup {None},
          manifest : [version : Nat] \cup {None}, unread : Seq(Paths)]

Requests == [type : {"mutation"}, edit : Edits, path : Paths, from : Places, to : Places,
             title : {"renamed"}, request : Nat, base : Nat, shown : Books]

Outbox == Requests \cup [type : {"export"}, base : Nat] \cup [type : {"ready", "refresh"}]

Inbox == [type : {"state"}, state : States]
    \cup [type : {"result"}, request : Nat,
          status : {"applied", "rejected", "stale", "cancelled"}]

Hosts == [sequence : Nat, epoch : Nat, timer : BOOLEAN, loading : Loads \cup {None},
          styling : SUBSET Loads, state : States \cup {None},
          source : Composites \cup {None}, included : SUBSET Paths, unheard : BOOLEAN,
          ready : BOOLEAN, queue : Seq(Requests), mutation : Mutations \cup {None},
          export : Plans \cup {None}, written : SUBSET Composites]

\* The type of every variable.
TypeOK ==
    /\ doc \in [book : Sources, version : Nat]
    /\ chapter \in [Files -> Nat]
    /\ host \in Hosts
    /\ view \in [ready : BOOLEAN, state : States \cup {None}, pending : Nat \cup {None}]
    /\ toHost \in Seq(Outbox) /\ toView \in Seq(Inbox)
    /\ ledger \in [writes : Nat, clicks : Nat, exports : Nat]
===========================================================================
