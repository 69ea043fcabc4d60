------------------------- MODULE DiagramRendering -------------------------
\* Text diagrams rendered by an external service: the preview coordinator of
\* every diagram in the webview, the render requests on the host with the two
\* slots and the cache of the editor's service, the user's consent, and the
\* exports and connection tests which render too.
\*
\* Between two turns of the host's event loop a render goes as far as the slot
\* it waits for, the name lookup or the request: those are its stages.
EXTENDS Naturals, Sequences, FiniteSets

LOCAL INSTANCE SequencesExt
LOCAL INSTANCE FiniteSetsExt

CONSTANTS
    Previews,       \* diagrams on display, dialogs included
    Sources,        \* texts of diagrams that can be rendered
    Empty,          \* the text of a diagram without source
    Endpoints,      \* servers the user may configure
    Slots,          \* requests that run at a time (2 in the code)
    MaxCached,      \* renders a service's cache may hold, by number or by size
    Exporters,      \* {"document"}, {"document", "book"}: who renders for exports
    Script,         \* the diagrams an export renders, one after the other
    MaxInputs,      \* edits of diagrams
    MaxEvents       \* decisions, settings, exports, tests and failures together

ASSUME DiagramAssumption ==
    /\ Empty \notin Sources
    /\ Slots \in Nat \ {0} /\ MaxCached \in Nat \ {0}
    /\ Exporters \subseteq {"document", "book"} /\ Script \in Seq(Sources)
    /\ MaxInputs \in Nat /\ MaxEvents \in Nat

VARIABLES
    preview,        \* the coordinator of each diagram
    known,          \* the consent the webview was told
    toHost, toView, \* messages under way
    host,           \* requests, services, exports and settings of the host
    ledger          \* how often each bounded thing has happened

vars == <<preview, known, toHost, toView, host, ledger>>

Consents == {"undecided", "granted", "declined"}
Services == {"panel", "test"} \cup (Exporters \cap {"book"})
NoRequest == <<>>

\* Requests are named by who asked and its generation, export step or test.
Requests == (Previews \cup Exporters \cup {"test"})
            \X (1 .. (MaxInputs + (Len(Script) + 1) * MaxEvents + 1))

Input == ledger.inputs < MaxInputs /\ ledger' = [ledger EXCEPT !.inputs = @ + 1]
Event == ledger.events < MaxEvents /\ ledger' = [ledger EXCEPT !.events = @ + 1]

-----------------------------------------------------------------------------
\* The service. `render` passes the consent, the cache and the slots before it
\* first waits for anything outside.

NewService(consent, endpoint) ==
    [consent |-> consent, endpoint |-> endpoint, running |-> 0,
     waiting |-> <<>>, cache |-> <<>>, bytes |-> 0]

ServiceOf(id) == CASE id[1] = "test" -> "test"
                   [] id[1] = "book" -> "book"
                   [] OTHER -> "panel"

Image(source) == [kind |-> "image", image |-> source]
Failure(kind) == [kind |-> kind]

\* What becomes of an answer: the webview's requests are answered by a message;
\* an export goes on with the next diagram, unless the answer is a cancellation.
Answered(h, id, answer) ==
    LET kept == [r \in DOMAIN h.requests \ {id} |-> h.requests[r]]
        gone == [h EXCEPT !.requests = kept]
    IN  IF id[1] \in Exporters
        THEN [gone EXCEPT !.exports[id[1]] =
                 IF answer = Failure("cancelled") THEN [@ EXCEPT !.active = FALSE, !.left = <<>>]
                 ELSE [@ EXCEPT !.left = Tail(@)]]
        ELSE [gone EXCEPT !.posts =
                 Append(@, [type |-> "result", id |-> id, answer |-> answer])]

Key(request) == <<request.endpoint, request.source>>

Touch(cache, key) == Append(SelectSeq(cache, LAMBDA k : k # key), key)

Render(h, id, source) ==
    LET name == ServiceOf(id)
        service == h.services[name]
        request == [source |-> source, endpoint |-> service.endpoint,
                    stage |-> "resolving", aborted |-> FALSE]
        added == [h EXCEPT !.requests = (id :> request) @@ @]
    IN  CASE service.consent # "granted" -> Answered(h, id, Failure("disabled"))
          [] service.consent = "granted" /\ Contains(service.cache, Key(request)) ->
               Answered([h EXCEPT !.services[name].cache = Touch(@, Key(request))],
                        id, Image(source))
          [] service.consent = "granted" /\ ~Contains(service.cache, Key(request))
               /\ service.running < Slots ->
               [added EXCEPT !.services[name].running = @ + 1]
          [] OTHER ->
               [added EXCEPT !.services[name].waiting = Append(@, id),
                             !.requests[id].stage = "waiting"]

Release_Keeps(h, name) ==   \* Seeded fault: the freed slot is not handed over.
    [h EXCEPT !.services[name].running = @ - 1]

\* A slot goes straight to the first that waits.
Release(h, name) ==
    LET service == h.services[name]
    IN  IF service.waiting = <<>>
        THEN [h EXCEPT !.services[name].running = @ - 1]
        ELSE [h EXCEPT !.services[name].waiting = Tail(@),
                       !.requests[Head(service.waiting)].stage = "resolving"]

\* The cache counts sizes in images. A key that is there already keeps its place.
Remember(service, key) ==
    LET cache == IF Contains(service.cache, key) THEN service.cache
                 ELSE Append(service.cache, key)
        bytes == service.bytes + 1
        dropped == Min({n \in 0 .. Len(cache) :
                          \/ n = Len(cache)
                          \/ Len(cache) - n <= MaxCached /\ bytes - n <= MaxCached})
    IN  [service EXCEPT !.cache = SubSeq(cache, dropped + 1, Len(cache)),
                        !.bytes = bytes - dropped]

\* Aborting: who waits for a slot is answered at once and leaves the queue; who
\* has a slot keeps it until the abort has reached its lookup or its request.
Abort(h, ids) ==
    LET Waits(id) == id \in DOMAIN h.requests /\ h.requests[id].stage = "waiting"
        leaving == {id \in ids : Waits(id)}
        marked == [h EXCEPT
            !.requests = [id \in DOMAIN @ |->
                            IF id \in ids THEN [@[id] EXCEPT !.aborted = TRUE] ELSE @[id]],
            !.services = [name \in Services |->
                            [@[name] EXCEPT !.waiting =
                                SelectSeq(@, LAMBDA id : id \notin leaving)]]]
    IN  FoldSeq(LAMBDA id, g : Answered(g, id, Failure("cancelled")), marked,
                SelectSeq(h.services["panel"].waiting \o h.services["test"].waiting,
                          LAMBDA id : id \in leaving))

UpdateSettings(h, consent, endpoint) ==
    LET service == h.services["panel"]
        revoked == service.consent = "granted" /\ consent # "granted"
        changed == consent # service.consent \/ endpoint # service.endpoint
        kept == IF changed THEN [service EXCEPT !.cache = <<>>, !.bytes = 0] ELSE service
        updated == [h EXCEPT !.services["panel"] =
                       [kept EXCEPT !.consent = consent, !.endpoint = endpoint]]
    IN  IF revoked
        THEN Abort(updated, {id \in DOMAIN h.requests : ServiceOf(id) = "panel"})
        ELSE updated

-----------------------------------------------------------------------------
\* The preview coordinator of a diagram in the webview.

NewPreview(source) ==
    [input |-> source, requested |-> FALSE, generation |-> 0, timer |-> FALSE,
     request |-> NoRequest, status |-> "source-only", output |-> Empty,
     retryable |-> FALSE, cache |-> {}, disposed |-> FALSE]

\* Leaving a generation clears its timer and aborts its request.
CancelMessages(p) ==
    IF preview[p].request = NoRequest THEN <<>>
    ELSE <<[type |-> "cancel", id |-> preview[p].request]>>

Cancelled(coordinator) == [coordinator EXCEPT !.timer = FALSE, !.request = NoRequest]

ShowSourceOnly(c) == [c EXCEPT !.status = "source-only", !.output = Empty]
ShowReady(c, source) == [c EXCEPT !.status = "ready", !.output = source]
ShowLoading(c) == [c EXCEPT !.status = "loading", !.output = Empty]
ShowError(c, retryable) ==
    [c EXCEPT !.status = "error", !.output = Empty, !.retryable = retryable]

SetInput(coordinator, source, requested) ==
    LET next == [Cancelled(coordinator) EXCEPT
                    !.input = source, !.requested = requested, !.generation = @ + 1]
    IN  CASE source = Empty \/ ~requested -> ShowSourceOnly(next)
          [] source # Empty /\ requested /\ source \in next.cache -> ShowReady(next, source)
          [] OTHER -> [ShowLoading(next) EXCEPT !.timer = TRUE]

\* The user edits a diagram in its dialog, or an undo or another program's
\* write changes it without anyone having asked for its preview.
Edit(p, source, asks) ==
    /\ ~preview[p].disposed /\ source # preview[p].input
    /\ Input
    /\ preview' = [preview EXCEPT ![p] = SetInput(@, source, @.requested \/ asks)]
    /\ toHost' = toHost \o CancelMessages(p)
    /\ UNCHANGED <<known, toView, host>>

\* generate: without the consent the webview knows of, nothing is sent.
Generate(p, coordinator) ==
    LET id == <<p, coordinator.generation>>
    IN  IF known # "granted"
        THEN /\ preview' = [preview EXCEPT ![p] = ShowSourceOnly(coordinator)]
             /\ UNCHANGED toHost
        ELSE /\ preview' = [preview EXCEPT ![p] = [coordinator EXCEPT !.request = id]]
             /\ toHost' = Append(toHost, [type |-> "render", id |-> id,
                                          source |-> coordinator.input])

Debounced(p) ==
    /\ preview[p].timer
    /\ Generate(p, [preview[p] EXCEPT !.timer = FALSE])
    /\ UNCHANGED <<known, toView, host, ledger>>

Retry(p) ==
    /\ ~preview[p].disposed
    /\ preview[p].status = "error" /\ preview[p].retryable
    /\ Generate(p, ShowLoading([Cancelled(preview[p]) EXCEPT !.generation = @ + 1]))
    /\ UNCHANGED <<known, toView, host, ledger>>

RemoveDiagram(p) ==
    /\ ~preview[p].disposed
    /\ preview' = [preview EXCEPT ![p] =
          [Cancelled(@) EXCEPT !.disposed = TRUE, !.generation = @ + 1, !.cache = {}]]
    /\ toHost' = toHost \o CancelMessages(p)
    /\ UNCHANGED <<known, toView, host, ledger>>

\* The user decides about sending diagrams, or tests the connection.
Decide(consent) ==
    /\ Event
    /\ toHost' = Append(toHost, [type |-> "consent", consent |-> consent])
    /\ UNCHANGED <<preview, known, toView, host>>

\* A test is offered under a grant, one at a time.
Testing == \/ \E n \in 1 .. Len(toHost) : toHost[n].type = "test"
           \/ \E id \in DOMAIN host.requests : id[1] = "test"
           \/ \E n \in 1 .. Len(toView) : toView[n].type = "result" /\ toView[n].id[1] = "test"

TestConnection ==
    /\ known = "granted" /\ ~Testing
    /\ Event
    /\ toHost' = Append(toHost, [type |-> "test", id |-> <<"test", ledger.events + 1>>])
    /\ UNCHANGED <<preview, known, toView, host>>

HearResult_AnyGeneration(message) ==   \* Seeded fault: an answer to an earlier source counts.
    LET waiting == {p \in Previews : preview[p].request # NoRequest /\ message.id[1] = p}
    IN  /\ preview' = [p \in Previews |->
              IF p \in waiting /\ message.answer.kind = "image"
              THEN ShowReady([preview[p] EXCEPT !.request = NoRequest], message.answer.image)
              ELSE preview[p]]
        /\ UNCHANGED known

\* An answer counts for the coordinator that still waits for it.
HearResult(message) ==
    LET waiting == {p \in Previews : preview[p].request = message.id}
        Settled(coordinator) ==
            LET c == [coordinator EXCEPT !.request = NoRequest]
            IN  CASE message.answer.kind \in {"disabled", "cancelled"} -> ShowError(c, FALSE)
                  [] message.answer.kind = "failed" -> ShowError(c, TRUE)
                  [] OTHER -> [ShowReady(c, message.answer.image) EXCEPT
                                  !.cache = @ \cup {message.answer.image}]
    IN  /\ preview' = [p \in Previews |->
                          IF p \in waiting THEN Settled(preview[p]) ELSE preview[p]]
        /\ UNCHANGED known

Hear ==
    /\ toView # <<>>
    /\ toView' = Tail(toView)
    /\ LET message == Head(toView)
       IN  \/ message.type = "result" /\ HearResult(message)
           \/ message.type = "settings" /\ known' = message.consent /\ UNCHANGED preview
    /\ UNCHANGED <<toHost, host, ledger>>

-----------------------------------------------------------------------------
\* The host.

Becomes(h) ==
    /\ host' = [h EXCEPT !.posts = <<>>]
    /\ toView' = toView \o h.posts

Post(h, message) == [h EXCEPT !.posts = Append(@, message)]
SettingsMessage(consent) == [type |-> "settings", consent |-> consent]

\* Messages are handled as they arrive; consent waits in the serial queue, where
\* the stored decision and the running services change one after the other.
Arrive ==
    /\ toHost # <<>>
    /\ toHost' = Tail(toHost)
    /\ LET message == Head(toHost)
       IN  \/ message.type = "render" /\ Becomes(Render(host, message.id, message.source))
           \/ message.type = "cancel" /\ Becomes(Abort(host, {message.id}))
           \/ message.type = "consent"
              /\ Becomes([host EXCEPT !.deciding = Append(@, message.consent)])
           \/ /\ message.type = "test"
              /\ LET fresh == NewService(host.stored, host.endpoint)
                 IN  \E source \in {Script[1]} :
                       Becomes(Render([host EXCEPT !.services["test"] = fresh],
                                      message.id, source))
    /\ UNCHANGED <<preview, known, ledger>>

StoreConsent ==
    /\ host.deciding # <<>> /\ ~host.storing
    /\ host' = [host EXCEPT !.stored = Head(host.deciding), !.storing = TRUE]
    /\ UNCHANGED <<preview, known, toHost, toView, ledger>>

Synchronized_KeepsTests(h, consent) ==   \* Seeded fault: only the service is told.
    UpdateSettings(h, consent, h.endpoint)

\* synchronizeDiagramRendererRuntimes: the service of the editor is updated, and
\* with anything but a grant every request of the panel is aborted.
Synchronized(h, consent) ==
    LET updated == UpdateSettings(h, consent, h.endpoint)
        panel == {id \in DOMAIN updated.requests : id[1] \in Previews \cup {"test"}}
    IN  IF consent # "granted" THEN Abort(updated, panel) ELSE updated

SynchronizeConsent ==
    /\ host.storing
    /\ LET consent == Head(host.deciding)
           decided == [host EXCEPT !.storing = FALSE, !.deciding = Tail(@), !.decided = consent]
       IN  Becomes(Post(Synchronized(decided, consent), SettingsMessage(consent)))
    /\ UNCHANGED <<preview, known, toHost, ledger>>

\* The decision cannot be saved: `update` is refused, with the new value in place
\* or not, or another value is read back. The webview is told the error; the
\* services keep the consent they have, and nothing is aborted.
ConsentFails ==
    /\ host.deciding # <<>>
    /\ Event
    /\ host' = [host EXCEPT !.storing = FALSE, !.deciding = Tail(@)]
    /\ UNCHANGED <<preview, known, toHost, toView>>

\* The services are given the stored consent along with the endpoint.
ConfigureEndpoint(endpoint) ==
    /\ endpoint # host.endpoint
    /\ Event
    /\ LET configured == [host EXCEPT !.endpoint = endpoint,
                                      !.decided = IF host.stored = "granted" THEN "granted" ELSE @]
       IN  Becomes(Post(UpdateSettings(configured, host.stored, endpoint),
                        SettingsMessage(host.stored)))
    /\ UNCHANGED <<preview, known, toHost>>

\* An export renders its diagrams in turn. The editor's uses the service of the
\* panel; the Book's makes one of its own from the settings of that moment.
StartExport(kind) ==
    /\ ~host.exports[kind].active
    /\ Event
    /\ host' = [host EXCEPT
          !.exports[kind] = [active |-> TRUE, left |-> Script, step |-> @.step],
          !.services = IF kind = "book"
                       THEN [@ EXCEPT !["book"] = NewService(host.stored, host.endpoint)]
                       ELSE @]
    /\ UNCHANGED <<preview, known, toHost, toView>>

Busy(kind) == \E id \in DOMAIN host.requests : id[1] = kind

RenderForExport(kind) ==
    /\ host.exports[kind].active /\ host.exports[kind].left # <<>> /\ ~Busy(kind)
    /\ LET step == host.exports[kind].step + 1
       IN  Becomes(Render([host EXCEPT !.exports[kind].step = step],
                          <<kind, step>>, Head(host.exports[kind].left)))
    /\ UNCHANGED <<preview, known, toHost, ledger>>

FinishExport(kind) ==
    /\ host.exports[kind].active /\ host.exports[kind].left = <<>>
    /\ host' = [host EXCEPT !.exports[kind].active = FALSE]
    /\ UNCHANGED <<preview, known, toHost, toView, ledger>>

CancelExport(kind) ==
    /\ host.exports[kind].active /\ Busy(kind)
    /\ Becomes(Abort(host, {id \in DOMAIN host.requests : id[1] = kind}))
    /\ UNCHANGED <<preview, known, toHost, ledger>>

\* The name is resolved and the request goes out, unless it was aborted.
Send(id) ==
    /\ host.requests[id].stage = "resolving" /\ ~host.requests[id].aborted
    /\ host' = [host EXCEPT !.requests[id].stage = "posted"]
    /\ UNCHANGED <<preview, known, toHost, toView, ledger>>

\* `post` has ended, in one way or the other: the slot is given back.
Ended(id, answer) == Answered(Release(host, ServiceOf(id)), id, answer)

Succeed(id) ==
    LET request == host.requests[id]
        ended == Ended(id, Image(request.source))
    IN  /\ request.stage = "posted" /\ ~request.aborted
        /\ Becomes([ended EXCEPT !.services[ServiceOf(id)] = Remember(@, Key(request))])
        /\ UNCHANGED <<preview, known, toHost, ledger>>

Fail(id) ==
    /\ host.requests[id].stage \in {"resolving", "posted"} /\ ~host.requests[id].aborted
    /\ Event
    /\ Becomes(Ended(id, Failure("failed")))
    /\ UNCHANGED <<preview, known, toHost>>

AbortReached(id) ==
    /\ host.requests[id].stage \in {"resolving", "posted"} /\ host.requests[id].aborted
    /\ Becomes(Ended(id, Failure("cancelled")))
    /\ UNCHANGED <<preview, known, toHost, ledger>>

-----------------------------------------------------------------------------
Init ==
    /\ preview = [p \in Previews |-> NewPreview(Empty)]
    /\ \E consent \in {"undecided", "granted"}, endpoint \in Endpoints :
         /\ known = consent
         /\ host = [requests |-> <<>>, posts |-> <<>>,
                    services |-> [name \in Services |-> NewService(consent, endpoint)],
                    exports |-> [kind \in Exporters |->
                                   [active |-> FALSE, left |-> <<>>, step |-> 0]],
                    stored |-> consent, decided |-> consent, endpoint |-> endpoint,
                    deciding |-> <<>>, storing |-> FALSE]
    /\ toHost = <<>> /\ toView = <<>>
    /\ ledger = [inputs |-> 0, events |-> 0]

Next ==
    \/ \E p \in Previews :
         \/ \E source \in Sources \cup {Empty}, asks \in BOOLEAN : Edit(p, source, asks)
         \/ Debounced(p)
         \/ Retry(p)
         \/ RemoveDiagram(p)
    \/ \E consent \in {"granted", "declined"} : Decide(consent)
    \/ TestConnection
    \/ Hear
    \/ Arrive
    \/ StoreConsent
    \/ SynchronizeConsent
    \/ ConsentFails
    \/ \E endpoint \in Endpoints : ConfigureEndpoint(endpoint)
    \/ \E kind \in Exporters :
         StartExport(kind) \/ RenderForExport(kind) \/ FinishExport(kind) \/ CancelExport(kind)
    \/ \E id \in DOMAIN host.requests :
         Send(id) \/ Succeed(id) \/ Fail(id) \/ AbortReached(id)

Spec == Init /\ [][Next]_vars

-----------------------------------------------------------------------------
\* Properties.

\* A loading preview is waited for: its timer runs, or its request is on its way
\* to the host, in work there, or answered. A ready one shows its own source,
\* and any other has neither timer nor request (DiagramRenderCoordinator.ts).
PreviewsTruthful ==
    \A p \in Previews :
      LET c == preview[p]
          Travels(channel, type) ==
              \E n \in 1 .. Len(channel) : /\ channel[n].type = type
                                           /\ channel[n].id = c.request
      IN  ~c.disposed =>
          /\ c.status = "ready" => c.output = c.input
          /\ c.status = "loading" =>
               \/ c.timer /\ c.request = NoRequest
               \/ /\ ~c.timer /\ c.request # NoRequest
                  /\ \/ Travels(toHost, "render")
                     \/ c.request \in DOMAIN host.requests
                     \/ Travels(toView, "result")
          /\ c.status # "loading" => ~c.timer /\ c.request = NoRequest

\* Slots are neither lost nor used twice: those running are the requests past the
\* queue, never more than there are, and nobody waits while one is free
\* (KrokiDiagramService.acquire, release).
SlotsAccounted ==
    \A name \in Services :
      LET service == host.services[name]
          Staged(stages) == {id \in DOMAIN host.requests :
                               ServiceOf(id) = name /\ host.requests[id].stage \in stages}
      IN  /\ service.running = Cardinality(Staged({"resolving", "posted"}))
          /\ service.running <= Slots
          /\ ToSet(service.waiting) = Staged({"waiting"})
          /\ \A id \in ToSet(service.waiting) : ~host.requests[id].aborted
          /\ service.waiting # <<>> => service.running = Slots

\* The cache stays within its bounds and is not counted for less than it holds
\* (KrokiDiagramService.remember).
CacheBounded ==
    \A name \in Services :
      LET service == host.services[name]
      IN  /\ Len(service.cache) <= MaxCached
          /\ Len(service.cache) <= service.bytes
          /\ service.bytes <= MaxCached \/ service.cache = <<>>

\* A source leaves the host only under a grant that is stored, or still in force
\* because no later decision has reached the services (`decided`): preview, export
\* and connection test alike, however long the request waited (docs/adr/0020:42-44).
SendsUnderConsent ==
    [][\A id \in DOMAIN host.requests \cap DOMAIN host'.requests :
         host.requests[id].stage # "posted" /\ host'.requests[id].stage = "posted" =>
         "granted" \in {host.stored, host.decided}]_vars

\* The type of every variable.
TypeOK ==
    /\ preview \in [Previews ->
         [input : Sources \cup {Empty}, requested : BOOLEAN, generation : Nat,
          timer : BOOLEAN, request : Requests \cup {NoRequest},
          status : {"source-only", "loading", "ready", "error"},
          output : Sources \cup {Empty}, retryable : BOOLEAN,
          cache : SUBSET Sources, disposed : BOOLEAN]]
    /\ known \in Consents
    /\ DOMAIN host.requests \subseteq Requests
    /\ \A id \in DOMAIN host.requests :
         host.requests[id] \in [source : Sources, endpoint : Endpoints,
                                stage : {"waiting", "resolving", "posted"}, aborted : BOOLEAN]
    /\ \A name \in Services :
         host.services[name] \in
           [consent : Consents, endpoint : Endpoints, running : Nat,
            waiting : Seq(Requests), cache : Seq(Endpoints \X Sources), bytes : Nat]
    /\ {host.stored, host.decided} \subseteq Consents
=============================================================================
