------------------------- MODULE PersonalTemplates -------------------------
\* The library of personal templates in the home directory, and the editor
\* sessions that list, save, update, duplicate, delete, instantiate and apply
\* them. Sessions of several windows share the library under `.mutation.lock`.
\*
\* In a session the webview runs one action at a time and waits for its answer.
\* The host handles catalogs, creations and applications in its serial queue,
\* and changes of the library beside that queue. A template's fingerprint is its
\* content here. The document is known by its version only: how edits reach it is
\* the subject of EditorSession.
EXTENDS Naturals, Sequences, FiniteSets

CONSTANTS
    Sessions,       \* open editors, each with a webview and a host of its own
    Templates,      \* identities (UUIDs) of personal templates
    Start,          \* the templates there are at first
    None,
    MaxTemplates,   \* MAX_TEMPLATE_CANDIDATES
    WindowOpen,     \* whether others may write between a check and the rename it guards
    MaxActions,     \* actions started in a webview
    MaxRefreshes,   \* catalogs requested by the user
    MaxEdits,       \* edits typed, and changes of documents by others
    MaxOutside,     \* template files changed or removed by other programs
    MaxCrashes,
    MaxTogether     \* all of these together

ASSUME TemplatesAssumption ==
    /\ Start \subseteq Templates /\ IsFiniteSet(Templates) /\ IsFiniteSet(Sessions)
    /\ WindowOpen \in BOOLEAN
    /\ {MaxTemplates, MaxActions, MaxRefreshes, MaxEdits, MaxOutside, MaxCrashes,
        MaxTogether} \subseteq Nat

VARIABLES
    files,          \* the library: a content, or None, for each identity
    lock,           \* `.mutation.lock`: the session that owns it, or None
    doc,            \* each session's document: [version, acked, draft]
    web,            \* each session's webview
    host,           \* each session's host
    toHost, toWeb,  \* messages under way
    ledger          \* how often each bounded thing has happened

vars == <<files, lock, doc, web, host, toHost, toWeb, ledger>>

Spent(what, bound) ==
    /\ ledger[what] < bound
    /\ ledger.actions + ledger.refreshes + ledger.edits + ledger.outside + ledger.crashes
           < MaxTogether
    /\ ledger' = [ledger EXCEPT ![what] = @ + 1]

Content(body, metadata) == [body |-> body, metadata |-> metadata]
Stored == {id \in Templates : files[id] # None}

Alive(e) == host[e].alive
PostToHost(e, message) == toHost' = [toHost EXCEPT ![e] = Append(@, message)]
PostToWeb(e, message) == toWeb' = [toWeb EXCEPT ![e] = Append(@, message)]

Management == {"save", "update", "duplicate", "delete"}
Identified == {"save", "update", "duplicate", "apply"}   \* name session and revision
OnTemplate == {"update", "duplicate", "delete", "create", "apply"}

-----------------------------------------------------------------------------
\* The document, as far as templates depend on it.

Type(e) ==
    /\ Alive(e) /\ web[e].editable /\ ~doc[e].draft
    /\ Spent("edits", MaxEdits)
    /\ doc' = [doc EXCEPT ![e].draft = TRUE]
    /\ UNCHANGED <<files, lock, web, host, toHost, toWeb>>

\* An edit's round trip, or "Keep mine" where someone else wrote before it.
Acknowledge(e) ==
    /\ Alive(e) /\ doc[e].draft
    /\ LET version == doc[e].version + 1
       IN  doc' = [doc EXCEPT ![e] = [version |-> version, acked |-> version, draft |-> FALSE]]
    /\ UNCHANGED <<files, lock, web, host, toHost, toWeb, ledger>>

OutsideEdit(e) ==
    /\ Alive(e) /\ Spent("edits", MaxEdits)
    /\ doc' = [doc EXCEPT ![e].version = @ + 1]
    /\ UNCHANGED <<files, lock, web, host, toHost, toWeb>>

\* The webview learns of a change by others, with "Reload" if it had a draft.
Adopt(e) ==
    /\ Alive(e) /\ doc[e].acked # doc[e].version
    /\ doc' = [doc EXCEPT ![e].acked = doc[e].version, ![e].draft = FALSE]
    /\ UNCHANGED <<files, lock, web, host, toHost, toWeb, ledger>>

-----------------------------------------------------------------------------
\* The webview. Its reducer takes an answer only for what it waits for.

Running(w) == w.action.phase = "running"

Requesting(w) == [w EXCEPT !.catalog = [phase |-> "loading", request |-> w.next],
                           !.next = @ + 1]
CatalogRequest(w) == [type |-> "catalog", request |-> w.next]

Refresh(e) ==
    /\ Alive(e) /\ Spent("refreshes", MaxRefreshes)
    /\ web' = [web EXCEPT ![e] = Requesting(@)]
    /\ PostToHost(e, CatalogRequest(web[e]))
    /\ UNCHANGED <<files, lock, doc, host, toWeb>>

Request(w, op, id) ==
    [type |-> op, request |-> w.next, template |-> id,
     token |-> IF id = None THEN None ELSE w.shown[id], base |-> 0]

\* Deletions and creations are posted at once; what names the document's revision
\* waits until everything typed is acknowledged.
StartAction(e, op, id) ==
    /\ Alive(e) /\ ~Running(web[e])
    /\ IF op \in OnTemplate THEN id # None /\ web[e].shown[id] # None ELSE id = None
    /\ Spent("actions", MaxActions)
    /\ LET w == web[e]
           message == Request(w, op, id)
           started == [w EXCEPT
               !.action = [phase |-> "running", request |-> w.next, op |-> op],
               !.next = @ + 1,
               !.editable = @ /\ op # "apply"]
       IN  IF op \in Identified
           THEN /\ web' = [web EXCEPT ![e] = [started EXCEPT !.waiting = message]]
                /\ UNCHANGED toHost
           ELSE /\ web' = [web EXCEPT ![e] = started]
                /\ PostToHost(e, message)
    /\ UNCHANGED <<files, lock, doc, host, toWeb>>

AfterAcknowledged(e) ==
    /\ Alive(e) /\ web[e].waiting # None /\ ~doc[e].draft
    /\ PostToHost(e, [web[e].waiting EXCEPT !.base = doc[e].acked])
    /\ web' = [web EXCEPT ![e].waiting = None]
    /\ UNCHANGED <<files, lock, doc, host, toWeb, ledger>>

\* The edit it waits for is refused.
NotAcknowledged(e) ==
    /\ Alive(e) /\ web[e].waiting # None /\ doc[e].draft
    /\ web' = [web EXCEPT ![e].waiting = None, ![e].action.phase = "failed",
                          ![e].editable = TRUE]
    /\ UNCHANGED <<files, lock, doc, host, toHost, toWeb, ledger>>

Awaited(w, message) == Running(w) /\ w.action.request = message.request

Settled_UnlessCancelled(w, message) ==   \* Seeded fault: a cancelled dialog ends nothing.
    IF Awaited(w, message) /\ message.result # "cancelled"
    THEN [w EXCEPT !.action.phase = message.result] ELSE w

Settled(w, message) ==
    IF Awaited(w, message) THEN [w EXCEPT !.action.phase = message.result] ELSE w

CatalogSucceeded_AnyRequest(w, message) ==   \* Seeded fault: any answer is taken.
    IF w.catalog.phase = "loading"
    THEN [w EXCEPT !.catalog.phase = "ready", !.shown = message.templates]
    ELSE w

CatalogSucceeded(w, message) ==
    IF w.catalog = [phase |-> "loading", request |-> message.request]
    THEN [w EXCEPT !.catalog.phase = "ready", !.shown = message.templates]
    ELSE w

\* A finished change of the library asks for a new catalog.
WebReceives(e) ==
    /\ Alive(e) /\ toWeb[e] # <<>>
    /\ LET message == Head(toWeb[e])
           w == web[e]
           settled == Settled(w, message)
       IN  CASE message.type = "catalog" ->
                  /\ web' = [web EXCEPT ![e] = CatalogSucceeded(w, message)]
                  /\ UNCHANGED toHost
             [] message.type = "finished" /\ message.result = "completed" ->
                  /\ web' = [web EXCEPT ![e] =
                                 Requesting([settled EXCEPT !.left = message.left])]
                  /\ PostToHost(e, CatalogRequest(w))
             [] message.type = "finished" /\ message.result # "completed" ->
                  /\ web' = [web EXCEPT ![e] = settled]
                  /\ UNCHANGED toHost
             [] message.type = "applied" ->
                  /\ web' = [web EXCEPT ![e] = [settled EXCEPT !.editable = TRUE]]
                  /\ UNCHANGED toHost
             [] message.type = "created" ->
                  /\ web' = [web EXCEPT ![e] = settled]
                  /\ UNCHANGED toHost
    /\ toWeb' = [toWeb EXCEPT ![e] = Tail(@)]
    /\ UNCHANGED <<files, lock, doc, host, ledger>>

-----------------------------------------------------------------------------
\* The host takes messages in order.

NewJob(message) ==
    [message |-> message, step |-> "begin", attempt |-> 1, content |-> None,
     target |-> message.template, result |-> "failed"]

Finished(request, result, left) ==
    [type |-> "finished", request |-> request, result |-> result, left |-> left]

HostReceives(e) ==
    /\ Alive(e) /\ toHost[e] # <<>>
    /\ LET message == Head(toHost[e])
           h == host[e]
           queued == [h EXCEPT !.queue = Append(@, message)]
       IN  IF message.type \in Management
           THEN IF h.managementPending
                THEN /\ PostToWeb(e, Finished(message.request, "failed", None))
                     /\ UNCHANGED host
                ELSE /\ host' = [host EXCEPT ![e].managementPending = TRUE,
                                             ![e].job = NewJob(message)]
                     /\ UNCHANGED toWeb
           ELSE IF message.type = "apply"
           THEN IF h.applicationPending
                THEN /\ PostToWeb(e, [type |-> "applied", request |-> message.request,
                                      result |-> "failed"])
                     /\ UNCHANGED host
                ELSE /\ host' = [host EXCEPT ![e] = [queued EXCEPT !.applicationPending = TRUE]]
                     /\ UNCHANGED toWeb
           ELSE host' = [host EXCEPT ![e] = queued] /\ UNCHANGED toWeb
    /\ toHost' = [toHost EXCEPT ![e] = Tail(@)]
    /\ UNCHANGED <<files, lock, doc, web, ledger>>

Idle(h) == h.queue = <<>> /\ h.task = None

\* A catalog lists the directory first and then reads file after file.
StartTask(e) ==
    /\ Alive(e) /\ host[e].task = None /\ host[e].queue # <<>>
    /\ LET message == Head(host[e].queue)
       IN  host' = [host EXCEPT
               ![e].queue = Tail(@),
               ![e].task = [message |-> message,
                            unread |-> IF message.type = "catalog" THEN Stored ELSE {},
                            found |-> [id \in Templates |-> None]]]
    /\ UNCHANGED <<files, lock, doc, web, toHost, toWeb, ledger>>

Doing(e, type) == Alive(e) /\ host[e].task # None /\ host[e].task.message.type = type

ReadTemplate(e, id) ==
    /\ Doing(e, "catalog") /\ id \in host[e].task.unread
    /\ host' = [host EXCEPT ![e].task.unread = @ \ {id},
                            ![e].task.found[id] = files[id]]
    /\ UNCHANGED <<files, lock, doc, web, toHost, toWeb, ledger>>

SendTemplateCatalog(e) ==
    /\ Doing(e, "catalog") /\ host[e].task.unread = {}
    /\ LET task == host[e].task
       IN  /\ host' = [host EXCEPT ![e].available = task.found, ![e].task = None]
           /\ PostToWeb(e, [type |-> "catalog", request |-> task.message.request,
                            templates |-> task.found])
    /\ UNCHANGED <<files, lock, doc, web, toHost, ledger>>

\* createDocumentFromTemplate: the dialogs end in a new file, in nothing, or in an
\* error; a template that has gone fails at once.
CreateDocument(e, result) ==
    /\ Doing(e, "create")
    /\ host[e].available[host[e].task.message.template] = None => result = "failed"
    /\ PostToWeb(e, [type |-> "created", request |-> host[e].task.message.request,
                     result |-> result])
    /\ host' = [host EXCEPT ![e].task = None]
    /\ UNCHANGED <<files, lock, doc, web, toHost, ledger>>

\* applyTemplateToCurrentDocument: the explicit replacement brings the webview to
\* the new revision.
ApplyTemplate(e) ==
    /\ Doing(e, "apply")
    /\ LET message == host[e].task.message
           fits == message.base = doc[e].version /\ host[e].available[message.template] # None
           version == doc[e].version + 1
       IN  /\ PostToWeb(e, [type |-> "applied", request |-> message.request,
                            result |-> IF fits THEN "completed" ELSE "failed"])
           /\ doc' = IF fits THEN [doc EXCEPT ![e].version = version, ![e].acked = version]
                     ELSE doc
    /\ host' = [host EXCEPT ![e].task = None, ![e].applicationPending = FALSE]
    /\ UNCHANGED <<files, lock, web, toHost, ledger>>

-----------------------------------------------------------------------------
\* handlePersonalTemplateRequest, beside the queue.

At(e, step) == Alive(e) /\ host[e].job # None /\ host[e].job.step = step

Ended_StillPending(h) ==   \* Seeded fault: the flag is not cleared.
    [h EXCEPT !.job = None]

Ended(h) == [h EXCEPT !.job = None, !.managementPending = FALSE]

Finish(e, result) ==
    LET job == host[e].job
        left == IF result = "completed"
                THEN [template |-> job.target, content |-> job.content] ELSE None
    IN  /\ host' = [host EXCEPT ![e] = Ended(@)]
        /\ PostToWeb(e, Finished(job.message.request, result, left))

Go(e, job) == host' = [host EXCEPT ![e].job = job] /\ UNCHANGED toWeb

Live(e) == host[e].job.message.base = doc[e].version

\* The catalog the host listed last still has the template as the user saw it.
Offered(e) ==
    LET message == host[e].job.message
    IN  /\ host[e].available[message.template] # None
        /\ host[e].available[message.template] = message.token

\* randomUUID: an identity nobody has used; which one does not matter.
Used == Start \cup Stored
            \cup {host[e].job.target : e \in {f \in Sessions : host[f].job # None}}
            \cup {web[e].left.template : e \in {f \in Sessions : web[f].left # None}}
            \cup {id \in Templates : \E e \in Sessions : web[e].shown[id] # None}
Fresh == CHOOSE id \in Templates : id \notin Used

\* Only a change of metadata keeps the body; a copy gets an identity of its own.
Begin(e) ==
    /\ At(e, "begin")
    /\ LET job == host[e].job
           message == job.message
           metadata == <<e, message.request>>
           body == host[e].available[message.template].body
       IN  /\ message.type \in Identified => Idle(host[e])
           /\ IF message.type \in Identified /\ ~Live(e) THEN Finish(e, "failed")
              ELSE IF message.type = "save"
              THEN Go(e, [job EXCEPT !.step = "flush"])
              ELSE IF ~Offered(e) THEN Finish(e, "failed")
              ELSE CASE message.type = "delete" -> Go(e, [job EXCEPT !.step = "lock"])
                     [] message.type = "update" ->
                          Go(e, [job EXCEPT !.step = "lock", !.content = Content(body, metadata)])
                     [] message.type = "duplicate" ->
                          Go(e, [job EXCEPT !.step = "lock", !.target = Fresh,
                                        !.content = Content(body, metadata)])
    /\ UNCHANGED <<files, lock, doc, web, toHost, ledger>>

\* flushEditor is answered once everything typed is stored; or it fails, as after
\* its timeout.
Flushed(e) ==
    /\ At(e, "flush") /\ ~doc[e].draft
    /\ Go(e, [host[e].job EXCEPT !.step = "read"])
    /\ UNCHANGED <<files, lock, doc, web, toHost, ledger>>

NotFlushed(e) ==
    /\ At(e, "flush")
    /\ Finish(e, "failed")
    /\ UNCHANGED <<files, lock, doc, web, toHost, ledger>>

Snapshot(e) ==
    /\ At(e, "read") /\ Idle(host[e])
    /\ Go(e, [host[e].job EXCEPT
                  !.step = "lock", !.target = Fresh,
                  !.content = Content(<<e, doc[e].version>>,
                                      <<e, host[e].job.message.request>>)])
    /\ UNCHANGED <<files, lock, doc, web, toHost, ledger>>

-----------------------------------------------------------------------------
\* VsCodeTemplateService: the lock, the check and the change.

Free(e) == lock = None

\* A lock younger than five minutes is respected; an operation takes less than
\* that, so only a dead session's lock grows old.
Acquire(e) ==
    /\ At(e, "lock") /\ Free(e)
    /\ lock' = e
    /\ Go(e, [host[e].job EXCEPT !.step = "check"])
    /\ UNCHANGED <<files, doc, web, toHost, ledger>>

Occupied(e) ==
    /\ At(e, "lock") /\ ~Free(e)
    /\ Finish(e, "failed")
    /\ UNCHANGED <<files, lock, doc, web, toHost, ledger>>

FindStale(e) ==
    /\ At(e, "lock") /\ ~Free(e) /\ ~Alive(lock)
    /\ Go(e, [host[e].job EXCEPT !.step = "reclaim"])
    /\ UNCHANGED <<files, lock, doc, web, toHost, ledger>>

\* rename and rm of whatever is at the lock's path by now; two attempts.
Reclaim(e) ==
    /\ At(e, "reclaim")
    /\ lock' = None
    /\ IF host[e].job.attempt = 2 THEN Finish(e, "failed")
       ELSE Go(e, [host[e].job EXCEPT !.step = "lock", !.attempt = 2])
    /\ UNCHANGED <<files, doc, web, toHost, ledger>>

Creates(job) == job.message.type \in {"save", "duplicate"}

Verified_Always(job) == TRUE   \* Seeded fault: the fingerprint is not compared.

Verified(job) == files[job.target] = job.message.token

Admitted(job) == IF Creates(job) THEN Cardinality(Stored) < MaxTemplates ELSE Verified(job)

Check(e) ==
    /\ At(e, "check")
    /\ Go(e, [host[e].job EXCEPT !.step = IF Admitted(host[e].job) THEN "change" ELSE "release"])
    /\ UNCHANGED <<files, lock, doc, web, toHost, ledger>>

\* link, which refuses a name that exists, rename, or the move into the trash,
\* which needs the file to be there.
Possible(job) ==
    /\ Creates(job) => files[job.target] = None
    /\ job.message.type = "delete" => files[job.target] # None

Change(e) ==
    /\ At(e, "change")
    /\ LET job == host[e].job
       IN  IF Possible(job)
           THEN /\ files' = [files EXCEPT ![job.target] = job.content]
                /\ Go(e, [job EXCEPT !.step = "release", !.result = "completed"])
           ELSE /\ UNCHANGED files
                /\ Go(e, [job EXCEPT !.step = "release"])
    /\ UNCHANGED <<lock, doc, web, toHost, ledger>>

\* The lock is removed only if it is still one's own.
Release(e) ==
    /\ At(e, "release")
    /\ lock' = IF lock = e THEN None ELSE lock
    /\ Finish(e, host[e].job.result)
    /\ UNCHANGED <<files, doc, web, toHost, ledger>>

-----------------------------------------------------------------------------
\* Others.

\* Another program changes or removes a template's file, without the lock.
OutsideChange(id) ==
    /\ files[id] # None
    /\ WindowOpen \/ \A e \in Sessions : At(e, "change") => host[e].job.target # id
    /\ Spent("outside", MaxOutside)
    /\ \E content \in {None, Content(<<None, ledger.outside>>, files[id].metadata)} :
           files' = [files EXCEPT ![id] = content]
    /\ UNCHANGED <<lock, doc, web, host, toHost, toWeb>>

\* A window dies; its lock stays.
Crash(e) ==
    /\ Alive(e)
    /\ Spent("crashes", MaxCrashes)
    /\ host' = [host EXCEPT ![e] = [@ EXCEPT !.alive = FALSE, !.queue = <<>>,
                                             !.task = None, !.job = None]]
    /\ toHost' = [toHost EXCEPT ![e] = <<>>]
    /\ toWeb' = [toWeb EXCEPT ![e] = <<>>]
    /\ UNCHANGED <<files, lock, doc, web>>

-----------------------------------------------------------------------------
StartFiles == [id \in Templates |->
                  IF id \in Start THEN Content(<<None, None>>, <<None, None>>) ELSE None]

\* Sessions that have shown their first catalog.
Init ==
    /\ files = StartFiles
    /\ lock = None
    /\ doc = [e \in Sessions |-> [version |-> 1, acked |-> 1, draft |-> FALSE]]
    /\ web = [e \in Sessions |->
                 [action |-> [phase |-> "idle", request |-> 0, op |-> None],
                  catalog |-> [phase |-> "ready", request |-> 0],
                  shown |-> StartFiles, waiting |-> None, next |-> 1,
                  editable |-> TRUE, left |-> None]]
    /\ host = [e \in Sessions |->
                  [alive |-> TRUE, managementPending |-> FALSE, applicationPending |-> FALSE,
                   queue |-> <<>>, task |-> None, job |-> None, available |-> StartFiles]]
    /\ toHost = [e \in Sessions |-> <<>>]
    /\ toWeb = [e \in Sessions |-> <<>>]
    /\ ledger = [actions |-> 0, refreshes |-> 0, edits |-> 0, outside |-> 0, crashes |-> 0]

Results == {"completed", "cancelled", "failed"}

SessionStep(e) ==
    \/ WebReceives(e) \/ AfterAcknowledged(e) \/ NotAcknowledged(e)
    \/ HostReceives(e) \/ StartTask(e) \/ SendTemplateCatalog(e) \/ ApplyTemplate(e)
    \/ \E id \in Templates : ReadTemplate(e, id)
    \/ \E result \in Results : CreateDocument(e, result)
    \/ Begin(e) \/ Flushed(e) \/ NotFlushed(e) \/ Snapshot(e)
    \/ Acquire(e) \/ Occupied(e) \/ FindStale(e) \/ Reclaim(e)
    \/ Check(e) \/ Change(e) \/ Release(e)

Next ==
    \/ \E e \in Sessions :
          \/ SessionStep(e)
          \/ Type(e) \/ Acknowledge(e) \/ OutsideEdit(e) \/ Adopt(e)
          \/ Refresh(e)
          \/ \E op \in Management \cup {"create", "apply"}, id \in Templates \cup {None} :
                StartAction(e, op, id)
          \/ Crash(e)
    \/ \E id \in Templates : OutsideChange(id)

Spec == Init /\ [][Next]_vars

\* Messages are delivered, promises settle, dialogs are answered, and an edit is
\* acknowledged or refused.
FairSpec == Spec /\ \A e \in Sessions : WF_vars(SessionStep(e)) /\ WF_vars(Acknowledge(e))

-----------------------------------------------------------------------------
\* The state has its type.
TypeOK ==
    /\ lock \in Sessions \cup {None}
    /\ \A id \in Templates : files[id] # None => DOMAIN files[id] = {"body", "metadata"}
    /\ \A e \in Sessions :
          /\ doc[e].acked \in Nat /\ doc[e].version \in Nat /\ doc[e].draft \in BOOLEAN
          /\ web[e].action.phase \in {"idle", "running"} \cup Results
          /\ web[e].catalog.phase \in {"loading", "ready"}
          /\ web[e].editable \in BOOLEAN
          /\ {host[e].managementPending, host[e].applicationPending, host[e].alive}
                 \subseteq BOOLEAN

\* Whatever a session replaces or deletes in the library is what its user was
\* looking at when asking for it, and an update keeps the body it describes: no
\* change made by another window or program in between is lost.
ReplacesWhatWasSeen ==
    [][\A id \in Templates :
          files'[id] # files[id] /\ files[id] # None /\ ledger' = ledger
          => \E e \in Sessions :
                /\ At(e, "change") /\ host[e].job.target = id
                /\ files[id] = host[e].job.message.token
                /\ files'[id] # None => files'[id].body = files[id].body]_vars

\* However many windows save and duplicate at once, the library never holds more
\* templates than a catalog lists.
WithinLimit == Cardinality(Stored) <= MaxTemplates

\* After a change of its own a webview that is not loading shows the library with
\* that change, unless others have changed the template since: an older catalog
\* still under way does not come back.
CatalogShowsOwnChange ==
    \A e \in Sessions :
        LET left == web[e].left
        IN  /\ Alive(e) /\ left # None /\ web[e].catalog.phase = "ready"
            /\ files[left.template] = left.content
            => web[e].shown[left.template] = left.content

\* What the host works on is what the webview waits for, and its pending flags are
\* up exactly then: no request meets the flag of another one.
HostWork(h) ==
    (IF h.job = None THEN {} ELSE {h.job.message})
        \cup {m \in {h.queue[i] : i \in DOMAIN h.queue}
                   \cup (IF h.task = None THEN {} ELSE {h.task.message}) : m.type # "catalog"}

PanelAwaitsWork ==
    \A e \in Sessions : Alive(e) =>
        LET h == host[e]
            work == HostWork(h)
        IN  /\ \A message \in work : Awaited(web[e], message)
            /\ h.managementPending <=> \E m \in work : m.type \in Management
            /\ h.applicationPending <=> \E m \in work : m.type = "apply"

\* Every action ends, and an editor closed for an application is opened again.
ActionsEnd ==
    \A e \in Sessions :
        (Alive(e) /\ (Running(web[e]) \/ ~web[e].editable))
        ~> (~Alive(e) \/ (~Running(web[e]) /\ web[e].editable))
=============================================================================
