------------------------ MODULE EditorSession_proofs ------------------------
(***************************************************************************)
(* For every set of texts, every bound and every interleaving of webview,  *)
(* host, other writers and user: the webview never runs ahead of the       *)
(* document, and an edit replaces only a text its author knew of or the    *)
(* host's own last one; where the user does not take the two decisions for *)
(* an invalid source, what the webview reports as confirmed, and what a    *)
(* resolved flush stands for, did reach the document; and where the user   *)
(* does not reload either, a quiet editor that reports nothing shows the   *)
(* document as it is.                                                      *)
(***************************************************************************)
EXTENDS EditorSession, SyncOperations_proofs

----------------------------------------------------------------------------
(* Types and revisions: what a turn of the webview does to them *)

\* Nothing the webview has heard or will hear is newer than the document.
Recent ==
    /\ RevisionsBehindDocument
    /\ Within(sync, doc.version)
    /\ \A m \in In(toView) : m.type # "requestFlush" => m.revision <= doc.version

\* The first inductive invariant.
Typed == TypeOK /\ Sound(sync) /\ Recent

Ledgers == [known : SUBSET Mutations, settled : SUBSET Nat,
            asked : [1 .. MaxFlushes -> Nat]]

\* What each kind of message from the host carries.
LEMMA InboxFields ==
    ASSUME NEW m \in Inbox
    PROVE  /\ m.type \in {"editAcknowledged", "editRejected"} =>
                 m.editId \in Nat /\ m.revision \in Nat
           /\ m.type = "editRejected" =>
                 m.code \in ErrorCodes /\ m.hostSnapshot \in Mutations \cup {Null}
           /\ m.type = "externalChange" => m.revision \in Nat /\ m.snapshot \in Mutations
           /\ m.type \in {"documentRevisionAdvanced", "externalInvalidDocument"} =>
                 m.revision \in Nat
           /\ m.type = "invalidDocumentRecoveryResult" => m.revision \in Nat
           /\ m.type = "requestFlush" => m.flush \in 1 .. MaxFlushes
BY DEF Inbox

\* The message posted for a request, and the one for an answered flush.
EditOf(m, t) ==
    /\ m.type = "edit" /\ m.request = t.inFlight
    /\ t.inFlight # Null /\ t.nextEditId # sync.nextEditId

AnswerOf(m, t) ==
    /\ m.type \in {"flushComplete", "flushFailed"}
    /\ m.flush \in 1 .. MaxFlushes
    /\ \E w \in sync.flushWaiters : w.flush = m.flush
    /\ ~\E w \in t.flushWaiters : w.flush = m.flush
    /\ m.type = "flushComplete" =>
          \E w \in sync.flushWaiters :
             /\ w.flush = m.flush
             /\ w.generation <= t.acknowledgedGeneration

\* A turn of the webview to the coordinator state t and the view v.
Turn(t, v, known, posted) ==
    /\ Sound(t) /\ Keeps(sync, t) /\ Within(t, doc.version)
    /\ v \in Views /\ v.revision <= doc.version
    /\ v.notice # Null => v.notice.revision <= doc.version
    /\ known \in SUBSET Mutations
    /\ posted \in Seq(Outbox)
    /\ ViewStep(t, v, known, posted)

\* What is known of the queue to the host afterwards.
Turned(posted) ==
    /\ Keeps(sync, sync')
    /\ \A m \in In(toHost') :
          \/ m \in In(toHost)
          \/ m \in In(posted)
          \/ EditOf(m, sync')
          \/ AnswerOf(m, sync')

\* The editor's draft survives every turn.
LEMMA DraftStays ==
    ASSUME Typed, NEW t, Sound(t), Keeps(sync, t)
    PROVE  t \in SyncStates /\ t.localMutation # Null /\ t.localMutation \in Mutations
<1>1. t \in SyncStates /\ sync.localMutation # Null
  BY DEF Typed, TypeOK, Sound, Consistent
<1>2. t.localMutation # Null
  BY <1>1 DEF Keeps, Follows
<1>3. QED
  BY <1>1, <1>2 DEF SyncStates

\* What a turn posts: the edit, the answers and the message of its own.
LEMMA TurnPosts ==
    ASSUME Typed, NEW t, NEW v, NEW known, NEW posted, Turn(t, v, known, posted)
    PROVE  toHost' \in Seq(Outbox) /\ Turned(posted)
<1> DEFINE edits == Edits(sync, t, known)
           answers == Answers(sync, t, MaxFlushes)
<1>1. /\ sync' = t
      /\ toHost' = toHost \o Edits(sync, sync', known)
                     \o Answers(sync, sync', MaxFlushes) \o posted
      /\ sync \in SyncStates /\ t \in SyncStates
      /\ toHost \in Seq(Outbox) /\ posted \in Seq(Outbox)
      /\ Keeps(sync, t)
      /\ known \in SUBSET Mutations
  BY DraftStays DEF Turn, ViewStep, Typed, TypeOK
<1>2. toHost' = ((toHost \o edits) \o answers) \o posted
  BY <1>1
<1>3. edits \in Seq(Outbox) /\ \A m \in In(edits) : EditOf(m, t)
  <2>1. CASE Sends(sync, t)
    <3> DEFINE m == [type |-> "edit", request |-> t.inFlight, over |-> known]
    <3>1. t.nextEditId # sync.nextEditId
      BY <1>1, <2>1 DEF Sends, SyncStates
    <3>2. t.inFlight # Null /\ t.inFlight \in Requests
      BY <1>1, <3>1 DEF Keeps, Travels, SyncStates
    <3>3. m \in Outbox /\ EditOf(m, t)
      BY <1>1, <3>1, <3>2 DEF Outbox, EditOf
    <3>4. edits = <<m>>
      BY <2>1 DEF Edits
    <3> HIDE DEF m, edits
    <3>5. QED
      BY <3>3, <3>4, InFew
  <2>2. CASE ~Sends(sync, t)
    <3>1. edits = <<>>
      BY <2>2 DEF Edits
    <3> HIDE DEF edits
    <3>2. QED
      BY <3>1, InFew
  <2>3. QED
    BY <2>1, <2>2
<1>4. answers \in Seq(Outbox) /\ \A m \in In(answers) : AnswerOf(m, t)
  <2>1. FlushMessages(MaxFlushes) \subseteq Outbox
    BY DEF FlushMessages, Outbox
  <2>2. /\ answers \in Seq(FlushMessages(MaxFlushes))
        /\ \A m \in In(answers) : AnswerOf(m, t)
    BY <1>1, AnswersTyped, SessionAssumption DEF AnswerOf
  <2> HIDE DEF answers
  <2>3. QED
    BY <2>1, <2>2, SeqMonotonic
<1> HIDE DEF edits, answers
<1>5. /\ toHost \o edits \in Seq(Outbox)
      /\ In(toHost \o edits) \subseteq In(toHost) \cup In(edits)
  BY <1>1, <1>3, InConcat
<1>6. /\ (toHost \o edits) \o answers \in Seq(Outbox)
      /\ In((toHost \o edits) \o answers) \subseteq In(toHost \o edits) \cup In(answers)
  BY <1>4, <1>5, InConcat
<1>7. /\ toHost' \in Seq(Outbox)
      /\ In(toHost') \subseteq In((toHost \o edits) \o answers) \cup In(posted)
  BY <1>1, <1>2, <1>6, InConcat
<1>8. \A m \in In(toHost') : \/ m \in In(toHost) \/ m \in In(posted)
                             \/ EditOf(m, t) \/ AnswerOf(m, t)
  BY <1>3, <1>4, <1>5, <1>6, <1>7
<1>9. QED
  BY <1>1, <1>7, <1>8 DEF Turned

\* The fields of the view that a turn leaves as they were handed to it.
LEMMA TurnView ==
    ASSUME NEW t, NEW v, NEW known, NEW posted, Turn(t, v, known, posted)
    PROVE  /\ view' \in Views
           /\ view'.revision = v.revision
           /\ view'.notice = v.notice
           /\ view'.recovering = v.recovering
<1> DEFINE keeping == v.keeping /\ v.notice # Null /\ Waiting(sync')
<1>1. v \in Views /\ view' = [v EXCEPT !.keeping = keeping]
  BY DEF Turn, ViewStep
<1>2. keeping \in BOOLEAN
  BY <1>1 DEF Views
<1> HIDE DEF keeping
<1>3. QED
  BY <1>1, <1>2 DEF Views

\* A turn keeps types and revisions, if its reader's queue only loses messages.
LEMMA TurnTyped ==
    ASSUME Typed, NEW t, NEW v, NEW known, NEW posted, Turn(t, v, known, posted),
           UNCHANGED <<host, doc, flushes>>, ledger' \in Ledgers,
           toView' \in Seq(Inbox), In(toView') \subseteq In(toView)
    PROVE  Typed' /\ Turned(posted)
<1>1. /\ sync' = t /\ Sound(t) /\ t \in SyncStates /\ t.localMutation # Null
      /\ Within(t, doc.version)
  BY DraftStays DEF Turn, ViewStep
<1>2. toHost' \in Seq(Outbox) /\ Turned(posted)
  BY TurnPosts
<1>3. /\ view' \in Views
      /\ view'.revision <= doc.version
      /\ view'.notice # Null => view'.notice.revision <= doc.version
  BY TurnView DEF Turn
<1>4. TypeOK'
  BY <1>1, <1>2, <1>3 DEF TypeOK, Typed, Ledgers
<1>5. Recent'
  BY <1>1, <1>3 DEF Recent, Typed, RevisionsBehindDocument, Within
<1>6. QED
  BY <1>1, <1>2, <1>4, <1>5 DEF Typed

\* The part of a turn that is the user's: nothing is heard.
LEMMA UserTyped ==
    ASSUME Typed, NEW t, NEW v, NEW known, NEW posted, Turn(t, v, known, posted),
           HostUnchanged, ledger' \in Ledgers
    PROVE  Typed' /\ Turned(posted)
<1>1. toView' \in Seq(Inbox) /\ In(toView') \subseteq In(toView)
  BY DEF HostUnchanged, Typed, TypeOK
<1>2. UNCHANGED <<host, doc, flushes>>
  BY DEF HostUnchanged
<1>3. QED
  BY <1>1, <1>2, TurnTyped

\* The part of a turn that answers a message: the oldest one is gone.
LEMMA HearTyped ==
    ASSUME Typed, NEW t, NEW v, NEW known, NEW posted, Turn(t, v, known, posted),
           toView # <<>>, Heard, ledger' \in Ledgers
    PROVE  Typed' /\ Turned(posted)
<1>1. toView' \in Seq(Inbox) /\ In(toView') \subseteq In(toView)
  BY InTail DEF Heard, Typed, TypeOK
<1>2. UNCHANGED <<host, doc, flushes>>
  BY DEF Heard
<1>3. QED
  BY <1>1, <1>2, TurnTyped

\* The message heard, its type and its revision.
LEMMA HeardMessage ==
    ASSUME Typed, NEW type, Hears(type)
    PROVE  LET m == Head(toView)
           IN  /\ toView # <<>>
               /\ m \in Inbox /\ m \in In(toView) /\ m.type = type
               /\ m.type # "requestFlush" => m.revision <= doc.version
<1>1. toView # <<>> /\ toView \in Seq(Inbox) /\ Head(toView).type = type
  BY DEF Hears, Typed, TypeOK
<1>2. Head(toView) \in Inbox /\ Head(toView) \in In(toView)
  BY <1>1, InTail
<1>3. QED
  BY <1>1, <1>2 DEF Typed, Recent

\* What every action may use of the state before it.
LEMMA TypedFacts ==
    ASSUME Typed
    PROVE  /\ Sound(sync) /\ sync \in SyncStates
           /\ sync.localMutation # Null /\ sync.localMutation \in Mutations
           /\ Within(sync, doc.version)
           /\ view \in Views
           /\ view.revision <= doc.version
           /\ view.notice # Null => /\ view.notice \in Snapshots
                                    /\ view.notice.revision <= doc.version
           /\ ledger \in Ledgers /\ ledger.known \in SUBSET Mutations
           /\ doc.version \in Nat
           /\ Keeps(sync, sync)
<1>1. sync \in SyncStates /\ sync.localMutation # Null /\ view \in Views
  BY DEF Typed, TypeOK
<1>2. sync.localMutation \in Mutations
  BY <1>1 DEF SyncStates
<1>3. view.notice # Null => view.notice \in Snapshots
  BY <1>1 DEF Views
<1>4. Keeps(sync, sync)
  BY <1>1, SameKeeps
<1>5. QED
  BY <1>1, <1>2, <1>3, <1>4
     DEF Typed, TypeOK, Recent, RevisionsBehindDocument, Ledgers

\* A draft of any content is a mutation.
LEMMA DraftTyped ==
    ASSUME Typed, NEW content \in Contents
    PROVE  Draft(content) \in Mutations
<1>1. sync.localMutation \in Mutations
  BY TypedFacts
<1>2. QED
  BY <1>1 DEF Draft, Mutations

\* captureIfChanged is a sound step that learns nothing of the host.
LEMMA CapturedGood ==
    ASSUME Typed
    PROVE  LET t == Captured(view)
           IN  /\ Sound(t) /\ Keeps(sync, t) /\ Learns(sync, t, doc.version)
               /\ t.flushWaiters \subseteq sync.flushWaiters
               /\ t.nextEditId # sync.nextEditId => t.error = Null
<1> DEFINE mutation == Draft(view.content)
           changed == Differing(sync, mutation) \cup {"content"}
<1>1. Sound(sync) /\ Within(sync, doc.version) /\ Keeps(sync, sync)
  BY TypedFacts
<1>2. mutation \in Mutations
  BY TypedFacts, DraftTyped DEF Views
<1>3. Captured(view) = SubmitComponents(sync, mutation, changed) \/ Captured(view) = sync
  BY DEF Captured, SubmitContent
<1> HIDE DEF mutation, changed
<1>4. CASE Captured(view) = SubmitComponents(sync, mutation, changed)
  BY <1>1, <1>2, <1>4, SubmitSound, SubmitKeeps, SubmitLearns, SubmitOpen DEF Advances
<1>5. CASE Captured(view) = sync
  BY <1>1, <1>5 DEF Learns
<1>6. QED
  BY <1>3, <1>4, <1>5

\* What captureIfChanged remembers of the editor.
LEMMA CapturedViewTyped ==
    ASSUME Typed
    PROVE  /\ CapturedView(view) \in Views
           /\ CapturedView(view).revision = view.revision
           /\ CapturedView(view).notice = view.notice
           /\ CapturedView(view).recovering = view.recovering
<1> DEFINE tracked == IF view.typed THEN view.content ELSE view.tracked
<1>1. view \in Views
  BY TypedFacts
<1>2. tracked \in Contents
  BY <1>1 DEF Views
<1>3. CapturedView(view) = [view EXCEPT !.typed = FALSE, !.tracked = tracked]
  BY <1>1 DEF CapturedView, Views
<1> HIDE DEF tracked
<1>4. QED
  BY <1>1, <1>2, <1>3 DEF Views

----------------------------------------------------------------------------
(* Types and revisions: the user and the webview's message handler *)

\* A turn that confirms nothing and opens no barrier.
Unconfirming ==
    /\ sync'.acknowledgedGeneration = sync.acknowledgedGeneration
    /\ sync'.flushWaiters \subseteq sync.flushWaiters

\* What is shown of every turn: it keeps the invariant and posts `posted`.
Turns(posted) == Typed' /\ Turned(posted) /\ view'.recovering = view.recovering

\* Typing changes the editor alone.
LEMMA TypeTurns ==
    ASSUME Typed, Type
    PROVE  Typed' /\ view'.recovering = view.recovering
<1>1. PICK content \in Contents \ {view.content} :
         view' = [view EXCEPT !.content = content, !.typed = TRUE]
  BY DEF Type
<1>2. view \in Views
  BY TypedFacts
<1>3. /\ view' \in Views
      /\ view'.revision = view.revision
      /\ view'.notice = view.notice
      /\ view'.recovering = view.recovering
  BY <1>1, <1>2 DEF Views
<1>4. UNCHANGED <<sync, toHost, ledger, toView, host, doc, flushes>>
  BY DEF Type, HostUnchanged
<1>5. QED
  BY <1>3, <1>4
     DEF Typed, TypeOK, Recent, RevisionsBehindDocument, Within, Sound, Consistent

\* The debounce submits the draft.
LEMMA DebounceTurns ==
    ASSUME Typed, Debounce
    PROVE  Turns(<<>>) /\ Unconfirming
<1>1. /\ ViewStep(Captured(view), CapturedView(view), ledger.known, <<>>)
      /\ ledger' = ledger /\ HostUnchanged
  BY DEF Debounce
<1>2. Turn(Captured(view), CapturedView(view), ledger.known, <<>>)
  BY <1>1, TypedFacts, CapturedGood, CapturedViewTyped, InFew DEF Turn, Learns
<1>3. sync' = Captured(view)
  BY <1>1 DEF ViewStep
<1>4. view'.recovering = view.recovering
  BY <1>2, TurnView, CapturedViewTyped
<1>5. QED
  BY <1>1, <1>2, <1>3, <1>4, UserTyped, TypedFacts, CapturedGood
     DEF Turns, Unconfirming, Learns

\* A field of the metadata is submitted.
LEMMA MetadataTurns ==
    ASSUME Typed, EditMetadata
    PROVE  Turns(<<>>) /\ Unconfirming
<1>1. PICK meta \in Metas :
         ViewStep(SubmitMetadata(sync, meta), view, ledger.known, <<>>)
  BY DEF EditMetadata
<1> DEFINE mutation == [sync.localMutation EXCEPT !.metadata = meta]
           t == SubmitMetadata(sync, meta)
<1>2. mutation \in Mutations
  BY TypedFacts DEF Mutations
<1>3. t = SubmitComponents(sync, mutation, Differing(sync, mutation))
  BY TypedFacts DEF SubmitMetadata
<1> HIDE DEF mutation, t
<1>4. /\ Sound(t) /\ Keeps(sync, t) /\ Learns(sync, t, doc.version)
      /\ t.flushWaiters \subseteq sync.flushWaiters
  BY <1>2, <1>3, TypedFacts, SubmitSound, SubmitKeeps, SubmitLearns DEF Advances
<1>5. Turn(t, view, ledger.known, <<>>)
  BY <1>1, <1>4, TypedFacts, InFew DEF Turn, Learns, t
<1>6. sync' = t /\ ledger' = ledger /\ HostUnchanged
  BY <1>1 DEF EditMetadata, ViewStep, t
<1>7. view'.recovering = view.recovering
  BY <1>5, TurnView
<1>8. QED
  BY <1>4, <1>5, <1>6, <1>7, UserTyped, TypedFacts DEF Turns, Unconfirming, Learns

\* "Keep mine": the draft goes out again, behind a barrier of the webview's own.
LEMMA KeepMineTurns ==
    ASSUME Typed, KeepMine
    PROVE  /\ Turns(<<>>)
           /\ sync'.acknowledgedGeneration = sync.acknowledgedGeneration
           /\ \A w \in sync'.flushWaiters : w \in sync.flushWaiters \/ w.flush = 0
           /\ ledger'.asked = ledger.asked /\ ledger'.settled = ledger.settled
           /\ HostUnchanged
<1> DEFINE revision == view.notice.revision
           kept == KeepLocal(sync, revision)
           t == FlushThrough(kept, 0, kept.localGeneration)
           v == [view EXCEPT !.keeping = TRUE]
           known == ledger.known \cup {view.notice.hostSnapshot}
<1>1. /\ view.notice # Null
      /\ ViewStep(t, v, known, <<>>)
      /\ ledger' = [ledger EXCEPT !.known = known]
      /\ HostUnchanged
  BY TypedFacts DEF KeepMine, KeepLocalThroughAcknowledgement, Ledgers
<1>2. revision \in Nat /\ revision <= doc.version /\ view.notice.hostSnapshot \in Mutations
  BY <1>1, TypedFacts DEF Snapshots
<1> HIDE DEF revision
<1>3. /\ Sound(kept) /\ Keeps(sync, kept) /\ Learns(sync, kept, doc.version)
      /\ kept.flushWaiters \subseteq sync.flushWaiters
  BY <1>2, TypedFacts, KeepLocalSound, KeepLocalKeeps, KeepLocalLearns DEF Advances
<1> HIDE DEF kept
<1>4. /\ Sound(t) /\ Keeps(sync, t) /\ Within(t, doc.version)
      /\ t.acknowledgedGeneration = sync.acknowledgedGeneration
      /\ \A w \in t.flushWaiters : w \in sync.flushWaiters \/ w.flush = 0
  <2>1. /\ Sound(t)
        /\ t.acknowledgedGeneration = kept.acknowledgedGeneration
        /\ t.acknowledgedRevision = kept.acknowledgedRevision
        /\ t.externalChange = kept.externalChange
        /\ t.flushWaiters \subseteq kept.flushWaiters \cup
              {[flush |-> 0, generation |-> kept.localGeneration]}
    BY <1>3, FlushSound
  <2>2. Keeps(sync, t)
    BY <1>3, FlushKeeps
  <2> HIDE DEF t
  <2>3. QED
    BY <1>3, <2>1, <2>2 DEF Learns, Within
<1> HIDE DEF t
<1>5. /\ v \in Views /\ v.revision = view.revision /\ v.notice = view.notice
      /\ v.recovering = view.recovering
  BY TypedFacts DEF Views
<1>6. known \in SUBSET Mutations
  BY <1>2, TypedFacts
<1> HIDE DEF v, known
<1>7. /\ ledger' \in Ledgers
      /\ ledger'.asked = ledger.asked /\ ledger'.settled = ledger.settled
  BY <1>1, <1>6, TypedFacts DEF Ledgers
<1>8. Turn(t, v, known, <<>>)
  BY <1>1, <1>4, <1>5, <1>6, TypedFacts, InFew DEF Turn
<1>9. sync' = t
  BY <1>1 DEF ViewStep
<1>10. view'.recovering = view.recovering
  BY <1>5, <1>8, TurnView
<1>11. QED
  BY <1>1, <1>4, <1>7, <1>8, <1>9, <1>10, UserTyped DEF Turns

\* What a reload shows of the view it replaces.
LEMMA ReplacedTyped ==
    ASSUME Typed, NEW content \in Contents, NEW revision \in Nat
    PROVE  LET v == [Replaced(view, content) EXCEPT !.revision = revision,
                                                    !.notice = Null,
                                                    !.access = "editable"]
           IN  /\ v \in Views /\ v.revision = revision /\ v.notice = Null
               /\ v.recovering = view.recovering
<1> DEFINE u == Replaced(view, content)
<1>1. view \in Views
  BY TypedFacts
<1>2. u \in Views /\ u.recovering = view.recovering
  BY <1>1 DEF Replaced, Views
<1> HIDE DEF u
<1> DEFINE v == [u EXCEPT !.revision = revision, !.notice = Null, !.access = "editable"]
<1>3. /\ v \in Views /\ v.revision = revision /\ v.notice = Null
      /\ v.recovering = view.recovering
  BY <1>2 DEF Views
<1>4. QED
  BY <1>3 DEF u

\* "Reload": every draft is given up, and the ledger says so.
LEMMA ReloadTurns ==
    ASSUME Typed, Reload
    PROVE  /\ sync'.acknowledgedGeneration = sync.localGeneration
           /\ sync'.flushWaiters \subseteq sync.flushWaiters
           /\ ledger'.asked = ledger.asked
           /\ ledger'.settled = ledger.settled \cup (1 .. sync.localGeneration)
           /\ HostUnchanged
           /\ \E m : m.type = "externalChangeAdopted" /\ Turns(<<m>>)
<1> DEFINE revision == view.notice.revision
           snapshot == view.notice.hostSnapshot
           t == AdoptReplacement(sync, revision, snapshot, TRUE)
           v == [Replaced(view, snapshot.content) EXCEPT
                    !.revision = revision, !.notice = Null, !.access = "editable"]
           m == [type |-> "externalChangeAdopted", revision |-> revision]
           settled == ledger.settled \cup (1 .. sync.localGeneration)
<1>1. /\ view.notice # Null
      /\ ViewStep(t, v, {snapshot}, <<m>>)
      /\ ledger' = [ledger EXCEPT !.known = {snapshot}, !.settled = settled]
      /\ HostUnchanged
  BY TypedFacts DEF Reload, Ledgers
<1>2. /\ revision \in Nat /\ revision <= doc.version
      /\ snapshot \in Mutations /\ snapshot.content \in Contents
  BY <1>1, TypedFacts DEF Snapshots, Mutations
<1> HIDE DEF revision, snapshot
<1>3. /\ Sound(t) /\ Keeps(sync, t) /\ Within(t, doc.version)
      /\ t.acknowledgedGeneration = sync.localGeneration
      /\ t.flushWaiters \subseteq sync.flushWaiters
  <2>1. Sound(t) /\ Advances(sync, t)
    BY <1>2, TypedFacts, AdoptSound
  <2>2. Keeps(sync, t)
    BY <1>2, TypedFacts, AdoptKeeps
  <2>3. Within(t, doc.version) /\ t.acknowledgedGeneration = sync.localGeneration
    BY <1>2, TypedFacts, AdoptLearns
  <2>4. QED
    BY <2>1, <2>2, <2>3 DEF Advances
<1> HIDE DEF t
<1>4. v \in Views /\ v.revision = revision /\ v.notice = Null /\ v.recovering = view.recovering
  BY <1>2, ReplacedTyped
<1>5. m \in Outbox /\ m.type = "externalChangeAdopted"
  BY <1>2 DEF Outbox
<1>6. settled \in SUBSET Nat
  BY TypedFacts DEF Ledgers, SyncStates
<1> HIDE DEF v, m
<1>7. Turn(t, v, {snapshot}, <<m>>)
  BY <1>1, <1>2, <1>3, <1>4, <1>5, InFew DEF Turn
<1>8. /\ ledger' \in Ledgers
      /\ ledger'.asked = ledger.asked /\ ledger'.settled = settled
  BY <1>1, <1>2, <1>6, TypedFacts DEF Ledgers
<1>9. sync' = t
  BY <1>1 DEF ViewStep
<1>10. view'.recovering = view.recovering
  BY <1>4, <1>7, TurnView
<1>11. Turns(<<m>>)
  BY <1>1, <1>7, <1>8, <1>10, UserTyped DEF Turns
<1>12. QED
  BY <1>1, <1>3, <1>5, <1>8, <1>9, <1>11

\* "Retry": the queued draft goes out again.
LEMMA RetryTurns ==
    ASSUME Typed, RetrySave
    PROVE  Turns(<<>>) /\ Unconfirming
<1> DEFINE t == Retry(sync, Null)
<1>1. ViewStep(t, view, ledger.known, <<>>) /\ ledger' = ledger /\ HostUnchanged
  BY DEF RetrySave
<1>2. /\ Sound(t) /\ Keeps(sync, t) /\ Learns(sync, t, doc.version)
      /\ t.flushWaiters \subseteq sync.flushWaiters
  BY TypedFacts, RetrySound, RetryKeeps, RetryLearns DEF Advances
<1> HIDE DEF t
<1>3. Turn(t, view, ledger.known, <<>>)
  BY <1>1, <1>2, TypedFacts, InFew DEF Turn, Learns
<1>4. sync' = t /\ view'.recovering = view.recovering
  BY <1>1, <1>3, TurnView DEF ViewStep
<1>5. QED
  BY <1>1, <1>2, <1>3, <1>4, UserTyped, TypedFacts DEF Turns, Unconfirming, Learns

\* The two decisions for an invalid source leave the coordinator alone.
LEMMA InvalidSourceTurns ==
    ASSUME Typed, RecoverFromLocal \/ Revalidate
    PROVE  Typed'
<1>1. CASE RecoverFromLocal
  <2> DEFINE v == [view EXCEPT !.recovering = TRUE]
             m == [type         |-> "recoverInvalidDocument",
                   baseRevision |-> view.revision,
                   mutation     |-> Draft(view.content)]
  <2>1. ViewStep(sync, v, ledger.known, <<m>>) /\ ledger' = ledger /\ HostUnchanged
    BY <1>1 DEF RecoverFromLocal
  <2>2. v \in Views /\ v.revision = view.revision /\ v.notice = view.notice
    BY TypedFacts DEF Views
  <2>3. view.revision \in Nat /\ Draft(view.content) \in Mutations
    BY TypedFacts, DraftTyped DEF Views
  <2>4. m \in Outbox
    BY <2>3 DEF Outbox
  <2> HIDE DEF v, m
  <2>5. Turn(sync, v, ledger.known, <<m>>)
    BY <2>1, <2>2, <2>4, TypedFacts, InFew DEF Turn
  <2>6. QED
    BY <2>1, <2>5, UserTyped, TypedFacts
<1>2. CASE Revalidate
  <2> DEFINE m == [type |-> "ready"]
  <2>1. ViewStep(sync, view, ledger.known, <<m>>) /\ ledger' = ledger /\ HostUnchanged
    BY <1>2 DEF Revalidate
  <2>2. m \in Outbox
    BY DEF Outbox
  <2> HIDE DEF m
  <2>3. Turn(sync, view, ledger.known, <<m>>)
    BY <2>1, <2>2, TypedFacts, InFew DEF Turn
  <2>4. QED
    BY <2>1, <2>3, UserTyped, TypedFacts
<1>3. QED
  BY <1>1, <1>2

\* An acknowledgement confirms the request in flight, or nothing at all.
LEMMA AcknowledgementTurns ==
    ASSUME Typed, HearAcknowledgement
    PROVE  /\ Turns(<<>>)
           /\ sync'.flushWaiters \subseteq sync.flushWaiters
           /\ IF Acknowledges(sync, Head(toView))
              THEN sync'.acknowledgedGeneration = sync.inFlight.localGeneration
              ELSE sync'.acknowledgedGeneration = sync.acknowledgedGeneration
           /\ ledger'.asked = ledger.asked /\ ledger'.settled = ledger.settled
<1> DEFINE m == Head(toView)
           t == Acknowledge(sync, m)
<1>1. /\ toView # <<>> /\ Heard
      /\ m.revision \in Nat /\ m.revision <= doc.version
  BY HeardMessage, InboxFields DEF HearAcknowledgement
<1> HIDE DEF m
<1>2. /\ Sound(t) /\ Keeps(sync, t) /\ Within(t, doc.version)
      /\ t.flushWaiters \subseteq sync.flushWaiters
      /\ IF Acknowledges(sync, m)
         THEN t.acknowledgedGeneration = sync.inFlight.localGeneration
         ELSE t = sync
  BY <1>1, TypedFacts, AcknowledgeSound, AcknowledgeKeeps, AcknowledgeLearns DEF Advances
<1>3. CASE Acknowledges(sync, m)
  <2> DEFINE v == [view EXCEPT !.revision = m.revision, !.notice = Shown(t)]
             known == {sync.inFlight.mutation}
  <2>1. /\ ViewStep(t, v, known, <<>>)
        /\ ledger' = [ledger EXCEPT !.known = known]
    BY <1>3 DEF HearAcknowledgement, m
  <2> HIDE DEF t
  <2>2. sync.inFlight.mutation \in Mutations
    BY <1>3, TypedFacts DEF Acknowledges, MatchesInFlight, SyncStates, Requests
  <2>3. /\ Shown(t) \in Snapshots \cup {Null}
        /\ Shown(t) # Null => Shown(t).revision <= doc.version
    BY <1>2 DEF Shown, Within, Sound, Consistent, SyncStates
  <2>4. /\ v \in Views /\ v.revision = m.revision /\ v.notice = Shown(t)
        /\ v.recovering = view.recovering
    BY <1>1, <2>3, TypedFacts DEF Views
  <2> HIDE DEF v
  <2>5. Turn(t, v, known, <<>>)
    BY <1>1, <1>2, <2>1, <2>2, <2>3, <2>4, InFew DEF Turn
  <2>6. /\ ledger' \in Ledgers
        /\ ledger'.asked = ledger.asked /\ ledger'.settled = ledger.settled
    BY <2>1, <2>2, TypedFacts DEF Ledgers
  <2>7. sync' = t /\ view'.recovering = view.recovering
    BY <2>1, <2>4, <2>5, TurnView DEF ViewStep
  <2>8. QED
    BY <1>1, <1>2, <1>3, <2>5, <2>6, <2>7, HearTyped DEF Turns, m
<1>4. CASE ~Acknowledges(sync, m)
  <2>1. ViewStep(t, view, ledger.known, <<>>) /\ ledger' = ledger
    BY <1>4 DEF HearAcknowledgement, m
  <2> HIDE DEF t
  <2>2. Turn(t, view, ledger.known, <<>>)
    BY <1>2, <2>1, TypedFacts, InFew DEF Turn
  <2>3. sync' = t /\ view'.recovering = view.recovering
    BY <2>1, <2>2, TurnView DEF ViewStep
  <2>4. QED
    BY <1>1, <1>2, <1>4, <2>1, <2>2, <2>3, HearTyped, TypedFacts DEF Turns, m
<1>5. QED
  BY <1>3, <1>4

\* A rejection queues the draft again.
LEMMA RejectionTurns ==
    ASSUME Typed, HearRejection
    PROVE  Turns(<<>>) /\ Unconfirming /\ ledger' = ledger
<1> DEFINE m == Head(toView)
           t == Reject(sync, m)
           v == IF MatchesInFlight(sync, m) /\ Shown(t) # Null
                THEN [view EXCEPT !.notice = Shown(t)] ELSE view
<1>1. /\ toView # <<>> /\ Heard
      /\ m.revision \in Nat /\ m.revision <= doc.version
      /\ m.code \in ErrorCodes /\ m.hostSnapshot \in Mutations \cup {Null}
  BY HeardMessage, InboxFields DEF HearRejection
<1>2. ViewStep(t, v, ledger.known, <<>>) /\ ledger' = ledger
  BY DEF HearRejection
<1> HIDE DEF m
<1>3. /\ Sound(t) /\ Keeps(sync, t) /\ Learns(sync, t, doc.version)
      /\ t.flushWaiters \subseteq sync.flushWaiters
  BY <1>1, TypedFacts, RejectSound, RejectKeeps, RejectLearns DEF Advances
<1> HIDE DEF t
<1>4. /\ Shown(t) \in Snapshots \cup {Null}
      /\ Shown(t) # Null => Shown(t).revision <= doc.version
  BY <1>3 DEF Shown, Within, Sound, Consistent, SyncStates, Learns
<1>5. /\ v \in Views /\ v.revision = view.revision /\ v.recovering = view.recovering
      /\ v.notice # Null => v.notice.revision <= doc.version
  BY <1>4, TypedFacts DEF Views
<1> HIDE DEF v
<1>6. Turn(t, v, ledger.known, <<>>)
  BY <1>2, <1>3, <1>5, TypedFacts, InFew DEF Turn, Learns
<1>7. sync' = t /\ view'.recovering = view.recovering
  BY <1>2, <1>5, <1>6, TurnView DEF ViewStep
<1>8. QED
  BY <1>1, <1>2, <1>3, <1>6, <1>7, HearTyped, TypedFacts DEF Turns, Unconfirming, Learns

\* A notice of somebody else's text.
LEMMA ExternalChangeTurns ==
    ASSUME Typed, HearExternalChange
    PROVE  /\ Turns(<<>>) /\ Unconfirming
           /\ ledger'.asked = ledger.asked /\ ledger'.settled = ledger.settled
<1> DEFINE revision == Head(toView).revision
           snapshot == Head(toView).snapshot
           t == ObserveExternalChange(sync, revision, snapshot)
           news == revision > sync.acknowledgedRevision
           known == IF news /\ sync.localMutation = snapshot
                    THEN ledger.known \cup {snapshot} ELSE ledger.known
           notice == IF news /\ sync.localMutation # snapshot
                     THEN [revision |-> revision, hostSnapshot |-> snapshot]
                     ELSE Shown(t)
           reached == IF t.acknowledgedRevision >= revision
                      THEN Larger(view.revision, revision) ELSE view.revision
           v == [view EXCEPT !.notice = notice, !.revision = reached]
<1>1. /\ toView # <<>> /\ Heard
      /\ revision \in Nat /\ revision <= doc.version
      /\ snapshot \in Mutations
  BY HeardMessage, InboxFields DEF HearExternalChange
<1>2. ViewStep(t, v, known, <<>>) /\ ledger' = [ledger EXCEPT !.known = known]
  BY TypedFacts DEF HearExternalChange, Views
<1> HIDE DEF revision, snapshot
<1>3. /\ Sound(t) /\ Keeps(sync, t) /\ Learns(sync, t, doc.version)
      /\ t.flushWaiters \subseteq sync.flushWaiters
  BY <1>1, TypedFacts, ObserveSound, ObserveKeeps, ObserveLearns DEF Advances
<1> HIDE DEF t, news
<1>4. /\ Shown(t) \in Snapshots \cup {Null}
      /\ Shown(t) # Null => Shown(t).revision <= doc.version
  BY <1>3 DEF Shown, Within, Sound, Consistent, SyncStates, Learns
<1>5. notice \in Snapshots \cup {Null} /\ (notice # Null => notice.revision <= doc.version)
  BY <1>1, <1>4 DEF Snapshots
<1>6. reached \in Nat /\ reached <= doc.version
  BY <1>1, TypedFacts DEF Larger, Views
<1>7. known \in SUBSET Mutations
  BY <1>1, TypedFacts
<1> HIDE DEF notice, reached, known
<1>8. /\ v \in Views /\ v.revision = reached /\ v.notice = notice
      /\ v.recovering = view.recovering
  BY <1>5, <1>6, TypedFacts DEF Views
<1> HIDE DEF v
<1>9. Turn(t, v, known, <<>>)
  BY <1>2, <1>3, <1>5, <1>6, <1>7, <1>8, InFew DEF Turn, Learns
<1>10. /\ ledger' \in Ledgers
       /\ ledger'.asked = ledger.asked /\ ledger'.settled = ledger.settled
  BY <1>2, <1>7, TypedFacts DEF Ledgers
<1>11. sync' = t /\ view'.recovering = view.recovering
  BY <1>2, <1>8, <1>9, TurnView DEF ViewStep
<1>12. QED
  BY <1>1, <1>3, <1>9, <1>10, <1>11, HearTyped DEF Turns, Unconfirming, Learns

\* A revision without a change of its own.
LEMMA RevisionAdvancedTurns ==
    ASSUME Typed, HearRevisionAdvanced
    PROVE  Turns(<<>>) /\ Unconfirming /\ ledger' = ledger
<1> DEFINE revision == Head(toView).revision
           t == AdvanceAcknowledgedRevision(sync, revision)
           v == IF revision > sync.acknowledgedRevision
                THEN [view EXCEPT !.revision = revision, !.notice = Shown(t)]
                ELSE view
<1>1. /\ toView # <<>> /\ Heard
      /\ revision \in Nat /\ revision <= doc.version
  BY HeardMessage, InboxFields DEF HearRevisionAdvanced
<1>2. ViewStep(t, v, ledger.known, <<>>) /\ ledger' = ledger
  BY DEF HearRevisionAdvanced
<1> HIDE DEF revision
<1>3. /\ Sound(t) /\ Keeps(sync, t) /\ Learns(sync, t, doc.version)
      /\ t.flushWaiters \subseteq sync.flushWaiters
  BY <1>1, TypedFacts, AdvanceSound, AdvanceKeeps, AdvanceLearns DEF Advances
<1> HIDE DEF t
<1>4. /\ Shown(t) \in Snapshots \cup {Null}
      /\ Shown(t) # Null => Shown(t).revision <= doc.version
  BY <1>3 DEF Shown, Within, Sound, Consistent, SyncStates, Learns
<1>5. /\ v \in Views /\ v.revision <= doc.version /\ v.recovering = view.recovering
      /\ v.notice # Null => v.notice.revision <= doc.version
  BY <1>1, <1>4, TypedFacts DEF Views
<1> HIDE DEF v
<1>6. Turn(t, v, ledger.known, <<>>)
  BY <1>2, <1>3, <1>5, TypedFacts, InFew DEF Turn, Learns
<1>7. sync' = t /\ view'.recovering = view.recovering
  BY <1>2, <1>5, <1>6, TurnView DEF ViewStep
<1>8. QED
  BY <1>1, <1>2, <1>3, <1>6, <1>7, HearTyped, TypedFacts DEF Turns, Unconfirming, Learns

\* The source broke: only the view changes.
LEMMA InvalidTurns ==
    ASSUME Typed, HearInvalid
    PROVE  Turns(<<>>) /\ Unconfirming /\ ledger' = ledger
<1> DEFINE revision == Head(toView).revision
           v == [view EXCEPT !.revision = revision, !.notice = Null,
                             !.access = "invalid-external"]
<1>1. /\ toView # <<>> /\ Heard
      /\ revision \in Nat /\ revision <= doc.version
  BY HeardMessage, InboxFields DEF HearInvalid
<1>2. ViewStep(sync, v, ledger.known, <<>>) /\ ledger' = ledger
  BY DEF HearInvalid
<1> HIDE DEF revision
<1>3. /\ v \in Views /\ v.revision = revision /\ v.notice = Null
      /\ v.recovering = view.recovering
  BY <1>1, TypedFacts DEF Views
<1> HIDE DEF v
<1>4. Turn(sync, v, ledger.known, <<>>)
  BY <1>1, <1>2, <1>3, TypedFacts, InFew DEF Turn
<1>5. sync' = sync /\ view'.recovering = view.recovering
  BY <1>2, <1>3, <1>4, TurnView DEF ViewStep
<1>6. QED
  BY <1>1, <1>2, <1>4, <1>5, HearTyped, TypedFacts DEF Turns, Unconfirming

\* The answer to a recovery keeps types, whatever it says.
LEMMA RecoveryTyped ==
    ASSUME Typed, HearRecovery
    PROVE  Typed'
<1> DEFINE m == Head(toView)
           draft == Draft(view.content)
           t == AdoptReplacement(sync, m.revision, draft, TRUE)
<1>1. /\ toView # <<>> /\ Heard
      /\ m.revision \in Nat /\ m.revision <= doc.version
  BY HeardMessage, InboxFields DEF HearRecovery
<1>2. draft \in Mutations
  BY TypedFacts, DraftTyped DEF Views
<1>3. CASE view.recovering /\ m.recovered
  <2> DEFINE v == [view EXCEPT !.recovering = FALSE, !.revision = m.revision,
                               !.access = "editable"]
             settled == ledger.settled \cup IF m.stored = draft
                                            THEN 1 .. sync.localGeneration ELSE {}
  <2>1. /\ ViewStep(t, v, {draft}, <<>>)
        /\ ledger' = [ledger EXCEPT !.known = {draft}, !.settled = settled]
    BY <1>3, TypedFacts DEF HearRecovery, Ledgers
  <2> HIDE DEF m, draft
  <2>2. Sound(t) /\ Keeps(sync, t) /\ Within(t, doc.version)
    <3>1. Sound(t)
      BY <1>1, <1>2, TypedFacts, AdoptSound
    <3>2. Keeps(sync, t)
      BY <1>1, <1>2, TypedFacts, AdoptKeeps
    <3>3. Within(t, doc.version)
      BY <1>1, <1>2, TypedFacts, AdoptLearns
    <3>4. QED
      BY <3>1, <3>2, <3>3
  <2> HIDE DEF t
  <2>3. v \in Views /\ v.revision = m.revision /\ v.notice = view.notice
    BY <1>1, TypedFacts DEF Views
  <2> HIDE DEF v
  <2>4. Turn(t, v, {draft}, <<>>)
    BY <1>1, <1>2, <2>1, <2>2, <2>3, TypedFacts, InFew DEF Turn
  <2>5. settled \in SUBSET Nat
    BY TypedFacts DEF Ledgers, SyncStates
  <2> HIDE DEF settled
  <2>6. ledger' \in Ledgers
    BY <1>2, <2>1, <2>5, TypedFacts DEF Ledgers
  <2>7. QED
    BY <1>1, <2>4, <2>6, HearTyped
<1>4. CASE ~(view.recovering /\ m.recovered)
  <2> DEFINE v == [view EXCEPT !.recovering = FALSE]
  <2>1. ViewStep(sync, v, ledger.known, <<>>) /\ ledger' = ledger
    BY <1>4 DEF HearRecovery
  <2>2. v \in Views /\ v.revision = view.revision /\ v.notice = view.notice
    BY TypedFacts DEF Views
  <2> HIDE DEF v
  <2>3. Turn(sync, v, ledger.known, <<>>)
    BY <2>1, <2>2, TypedFacts, InFew DEF Turn
  <2>4. QED
    BY <1>1, <2>1, <2>3, HearTyped, TypedFacts
<1>5. QED
  BY <1>3, <1>4

\* A flush: the draft is captured, a transient failure retried, and a barrier
\* put to the newest generation, which is the one the ledger notes.
LEMMA FlushTurns ==
    ASSUME Typed, HearFlush
    PROVE  LET flush == Head(toView).flush
               g == ledger'.asked[flush]
           IN  /\ sync'.acknowledgedGeneration = sync.acknowledgedGeneration
               /\ \A w \in sync'.flushWaiters :
                     \/ w \in sync.flushWaiters
                     \/ w.flush = flush /\ w.generation = g
               /\ ledger'.settled = ledger.settled
               /\ \A f \in 1 .. MaxFlushes : f # flush => ledger'.asked[f] = ledger.asked[f]
               /\ \E posted \in Seq(Outbox) :
                     /\ Turns(posted)
                     /\ \A m \in In(posted) :
                           /\ m.type \in {"flushComplete", "flushFailed"}
                           /\ m.flush = flush
                           /\ m.type = "flushComplete" => g <= sync.acknowledgedGeneration
<1> DEFINE flush == Head(toView).flush
<1>1. toView # <<>> /\ Heard /\ flush \in 1 .. MaxFlushes
  BY HeardMessage, InboxFields DEF HearFlush
<1> DEFINE captured == Captured(view)
           asked == RetryBeforeSave(captured)
           g == asked.localGeneration
           t == FlushThrough(asked, flush, g)
           posted == AnswersAtOnce(asked, flush)
<1>2. /\ ViewStep(t, CapturedView(view), ledger.known, posted)
      /\ ledger' = [ledger EXCEPT !.asked[flush] = g]
  BY DEF HearFlush, AfterAcknowledged
<1>3. flush \in Nat
  BY <1>1, SessionAssumption
<1> HIDE DEF flush
<1>4. /\ Sound(captured) /\ Keeps(sync, captured) /\ Learns(sync, captured, doc.version)
      /\ captured.flushWaiters \subseteq sync.flushWaiters
      /\ captured.nextEditId # sync.nextEditId => captured.error = Null
  BY CapturedGood
<1> HIDE DEF captured
<1>5. /\ Sound(asked) /\ Keeps(sync, asked) /\ Learns(sync, asked, doc.version)
      /\ asked.flushWaiters \subseteq sync.flushWaiters
  <2>1. CASE CanRetry(captured)
    <3>1. asked = Retry(captured, Null)
      BY <2>1 DEF RetryBeforeSave
    <3>2. captured.nextEditId = sync.nextEditId
      BY <1>4, <2>1 DEF CanRetry
    <3>3. /\ Sound(asked) /\ Keeps(captured, asked)
          /\ Learns(captured, asked, doc.version)
          /\ asked.flushWaiters \subseteq captured.flushWaiters
      BY <1>4, <3>1, RetrySound, RetryKeeps, RetryLearns DEF Advances, Learns
    <3> HIDE DEF asked
    <3>4. Keeps(sync, asked)
      BY <1>4, <3>2, <3>3, KeepsOn, TypedFacts DEF Sound, Consistent
    <3>5. QED
      BY <1>4, <3>3, <3>4 DEF Learns
  <2>2. CASE ~CanRetry(captured)
    BY <1>4, <2>2 DEF RetryBeforeSave
  <2>3. QED
    BY <2>1, <2>2
<1> HIDE DEF asked
<1>6. /\ Sound(t) /\ Keeps(sync, t) /\ Within(t, doc.version)
      /\ t.acknowledgedGeneration = sync.acknowledgedGeneration
      /\ \A w \in t.flushWaiters :
            \/ w \in sync.flushWaiters
            \/ w.flush = flush /\ w.generation = g
  <2>1. /\ Sound(t)
        /\ t.acknowledgedGeneration = asked.acknowledgedGeneration
        /\ t.acknowledgedRevision = asked.acknowledgedRevision
        /\ t.externalChange = asked.externalChange
        /\ t.flushWaiters \subseteq asked.flushWaiters \cup
              {[flush |-> flush, generation |-> g]}
    BY <1>3, <1>5, FlushSound
  <2>2. Keeps(sync, t)
    BY <1>5, FlushKeeps
  <2> HIDE DEF t
  <2>3. \A w \in t.flushWaiters :
           \/ w \in sync.flushWaiters
           \/ w.flush = flush /\ w.generation = g
    <3> DEFINE waiter == [flush |-> flush, generation |-> g]
    <3>1. waiter.flush = flush /\ waiter.generation = g
      OBVIOUS
    <3>2. \A w \in t.flushWaiters : w \in asked.flushWaiters \/ w = waiter
      BY <2>1
    <3> HIDE DEF waiter
    <3>3. QED
      BY <1>5, <3>1, <3>2
  <2> HIDE DEF g
  <2>4. QED
    BY <1>5, <2>1, <2>2, <2>3 DEF Learns, Within
<1> HIDE DEF t
<1>7. g \in Nat /\ asked.acknowledgedGeneration = sync.acknowledgedGeneration
  BY <1>5 DEF Sound, Consistent, SyncStates, Learns
<1>8. /\ posted \in Seq(Outbox)
      /\ \A m \in In(posted) :
            /\ m.type \in {"flushComplete", "flushFailed"}
            /\ m.flush = flush
            /\ m.type = "flushComplete" => g <= sync.acknowledgedGeneration
  <2> DEFINE yes == FlushAnswer(flush, TRUE)
             no  == FlushAnswer(flush, FALSE)
  <2>1. /\ yes \in Outbox /\ yes.flush = flush /\ yes.type = "flushComplete"
        /\ no \in Outbox /\ no.flush = flush /\ no.type = "flushFailed"
    BY <1>1 DEF FlushAnswer, Outbox
  <2>2. \/ posted = <<yes>> /\ g <= sync.acknowledgedGeneration
        \/ posted = <<no>>
        \/ posted = <<>>
    BY <1>7 DEF AnswersAtOnce, FlushResolves, FlushRejects
  <2> HIDE DEF yes, no, posted
  <2>3. QED
    BY <2>1, <2>2, InFew
<1> HIDE DEF posted
<1>9. Turn(t, CapturedView(view), ledger.known, posted)
  BY <1>2, <1>6, <1>8, TypedFacts, CapturedViewTyped DEF Turn
<1>10. /\ ledger' \in Ledgers
       /\ ledger'.settled = ledger.settled
       /\ ledger'.asked[flush] = g
       /\ \A f \in 1 .. MaxFlushes : f # flush => ledger'.asked[f] = ledger.asked[f]
  <2>1. ledger.asked \in [1 .. MaxFlushes -> Nat]
    BY TypedFacts DEF Ledgers
  <2> DEFINE noted == [ledger.asked EXCEPT ![flush] = g]
  <2>2. ledger' = [ledger EXCEPT !.asked = noted]
    BY <1>2, TypedFacts DEF Ledgers
  <2> HIDE DEF g
  <2>3. /\ noted \in [1 .. MaxFlushes -> Nat]
        /\ noted[flush] = g
        /\ \A f \in 1 .. MaxFlushes : f # flush => noted[f] = ledger.asked[f]
    BY <1>1, <1>7, <2>1
  <2> HIDE DEF noted
  <2>4. QED
    BY <2>2, <2>3, TypedFacts DEF Ledgers
<1> HIDE DEF g
<1>11. sync' = t /\ view'.recovering = view.recovering
  BY <1>2, <1>9, TurnView, CapturedViewTyped DEF ViewStep
<1>12. Turns(posted)
  BY <1>1, <1>9, <1>10, <1>11, HearTyped DEF Turns
<1>13. QED
  BY <1>6, <1>8, <1>10, <1>11, <1>12 DEF flush

----------------------------------------------------------------------------
(* Types and revisions: the host, VS Code and the other writers *)

Docs == [version : Nat, text : Texts]

Outcomes == {"waiting", "resolved", "rejected"}

\* The messages a task may be made of.
EditMessages == [type : {"edit"}, request : Requests, over : SUBSET Mutations]

RecoveryMessages ==
    [type : {"recoverInvalidDocument"}, baseRevision : Nat, mutation : Mutations]

\* What each kind of message from the webview carries.
LEMMA OutboxFields ==
    ASSUME NEW m \in Outbox
    PROVE  /\ m.type = "edit" => m \in EditMessages /\ m.request \in Requests
           /\ m.type \in {"flushComplete", "flushFailed"} => m.flush \in 1 .. MaxFlushes
           /\ m.type = "recoverInvalidDocument" =>
                 m \in RecoveryMessages /\ m.mutation \in Mutations
BY DEF Outbox, EditMessages, RecoveryMessages

\* What every action may use of the host's state.
LEMMA HostFacts ==
    ASSUME Typed
    PROVE  /\ host \in Hosts /\ host.queue \in Seq(Outbox)
           /\ host.applying \in Tasks \cup {Null}
           /\ host.cache \in Caches \cup {Null}
           /\ host.lastLocal \in Mutations /\ host.refusals \in Nat
           /\ doc \in Docs /\ doc.version \in Nat /\ doc.text \in Texts
           /\ toHost \in Seq(Outbox) /\ toView \in Seq(Inbox)
           /\ flushes \in Seq(Outcomes) /\ Len(flushes) <= MaxFlushes
           /\ ledger \in Ledgers
BY DEF Typed, TypeOK, Hosts, Docs, Outcomes, Ledgers

\* A step of the host keeps types and revisions, if what it posts is not newer
\* than the document it leaves.
LEMMA HostTyped ==
    ASSUME Typed, UNCHANGED <<sync, view>>, toHost' \in Seq(Outbox),
           host' \in Hosts, doc' \in Docs, doc'.version >= doc.version,
           flushes' \in Seq(Outcomes), Len(flushes') <= MaxFlushes, ledger' \in Ledgers,
           toView' \in Seq(Inbox),
           \A m \in In(toView') : \/ m \in In(toView)
                                  \/ m.type = "requestFlush"
                                  \/ m.revision <= doc'.version
    PROVE  Typed'
<1>1. /\ TypeOK /\ Recent /\ Sound(sync)
      /\ doc.version \in Nat /\ doc'.version \in Nat
      /\ sync \in SyncStates /\ view \in Views
  BY DEF Typed, TypeOK, Docs
<1>2. TypeOK'
  BY <1>1 DEF TypeOK, Docs, Outcomes, Ledgers
<1>3. Within(sync, doc'.version)
  BY <1>1 DEF Recent, Within, SyncStates, Snapshots
<1>4. /\ view.revision <= doc'.version
      /\ view.notice # Null => view.notice.revision <= doc'.version
  BY <1>1 DEF Recent, RevisionsBehindDocument, Views, Snapshots
<1>5. ASSUME NEW m \in In(toView), m.type # "requestFlush"
      PROVE  m.revision <= doc'.version
  <2>1. m \in Inbox
    BY <1>1, InTyped DEF TypeOK
  <2>2. m.revision \in Nat
    BY <1>5, <2>1 DEF Inbox
  <2>3. m.revision <= doc.version
    BY <1>1, <1>5 DEF Recent
  <2>4. QED
    BY <1>1, <2>2, <2>3
<1>6. Recent'
  BY <1>3, <1>4, <1>5 DEF Recent, RevisionsBehindDocument, Within
<1>7. Sound(sync')
  BY <1>1
<1>8. QED
  BY <1>2, <1>6, <1>7 DEF Typed

\* One posted message.
LEMMA PostTyped ==
    ASSUME Typed, NEW m \in Inbox, Post(m)
    PROVE  toView' \in Seq(Inbox) /\ In(toView') = In(toView) \cup {m}
BY HostFacts, InAppend DEF Post

\* The text an edit is planned to store is a mutation.
LEMMA PersistedTyped ==
    ASSUME NEW cache \in Caches \cup {Null}, NEW version, NEW request \in Requests
    PROVE  Persisted(cache, version, request) \in Mutations
<1>1. request.mutation \in Mutations
  BY DEF Requests
<1>2. Resolves(cache, version, request) => cache.text \in Mutations
  BY DEF Resolves, Caches
<1>3. QED
  BY <1>1, <1>2 DEF Persisted, Mutations, Components

\* The queue without its oldest task.
LEMMA DequeuedTyped ==
    ASSUME Typed, host.queue # <<>>
    PROVE  /\ Dequeued \in Hosts
           /\ Dequeued.queue = Tail(host.queue)
           /\ Dequeued.applying = host.applying
           /\ Dequeued.cache = host.cache
           /\ In(Tail(host.queue)) \subseteq In(host.queue)
           /\ Head(host.queue) \in Outbox /\ Head(host.queue) \in In(host.queue)
<1>1. /\ Tail(host.queue) \in Seq(Outbox)
      /\ In(Tail(host.queue)) \subseteq In(host.queue)
      /\ Head(host.queue) \in Outbox /\ Head(host.queue) \in In(host.queue)
  BY HostFacts, InTail
<1>2. QED
  BY <1>1, HostFacts DEF Dequeued, Hosts

\* The task a message becomes, and the host that runs it.
LEMMA ApplyingTyped ==
    ASSUME Typed, host.queue # <<>>, NEW message \in EditMessages \cup RecoveryMessages
    PROVE  LET h == Applying(message)
           IN  /\ h \in Hosts
               /\ h.queue = Tail(host.queue)
               /\ h.cache = host.cache
               /\ h.applying # Null
               /\ h.applying.message = message
               /\ h.applying.outcome = "unknown"
               /\ h.applying.text = IF message.type = "edit"
                                    THEN Persisted(host.cache, doc.version, message.request)
                                    ELSE message.mutation
<1> DEFINE text == IF message.type = "edit"
                   THEN Persisted(host.cache, doc.version, message.request)
                   ELSE message.mutation
           task == [message |-> message, source |-> doc.version,
                    text |-> text, outcome |-> "unknown"]
<1>1. text \in Mutations
  <2>1. CASE message \in EditMessages
    <3>1. message.request \in Requests /\ message.type = "edit"
      BY <2>1 DEF EditMessages
    <3>2. QED
      BY <3>1, HostFacts, PersistedTyped
  <2>2. CASE message \in RecoveryMessages
    BY <2>2 DEF RecoveryMessages
  <2>3. QED
    BY <2>1, <2>2
<1>2. Applying(message) = [Dequeued EXCEPT !.applying = task]
  BY DEF Applying
<1> HIDE DEF text
<1>3. /\ task \in Tasks
      /\ task.message = message /\ task.outcome = "unknown" /\ task.text = text
  BY <1>1, HostFacts DEF Tasks, EditMessages, RecoveryMessages
<1>4. task # Null
  BY <1>3, SessionAssumption
<1> HIDE DEF task
<1>5. QED
  BY <1>2, <1>3, <1>4, DequeuedTyped DEF Hosts, text

\* The answers the host may give to an edit or a recovery.
LEMMA AnswersOfHostTyped ==
    ASSUME Typed
    PROVE  /\ \A request \in Requests, code \in ErrorCodes :
                 LET m == Rejected(request, code)
                 IN  /\ m \in Inbox /\ m.type = "editRejected"
                     /\ m.editId = request.editId /\ m.revision = doc.version
           /\ \A recovered \in BOOLEAN, stored \in Mutations \cup {Null} :
                 LET m == Recovery(recovered, stored)
                 IN  /\ m \in Inbox /\ m.type = "invalidDocumentRecoveryResult"
                     /\ m.revision = doc.version
<1>1. ASSUME NEW request \in Requests, NEW code \in ErrorCodes
      PROVE  LET m == Rejected(request, code)
             IN  /\ m \in Inbox /\ m.type = "editRejected"
                 /\ m.editId = request.editId /\ m.revision = doc.version
  <2>1. ReadMutation(doc.text) \in Mutations \cup {Null}
    BY HostFacts DEF ReadMutation, Texts
  <2>2. request.editId \in Nat
    BY DEF Requests
  <2>3. QED
    BY <2>1, <2>2, HostFacts DEF Rejected, Inbox
<1>2. ASSUME NEW recovered \in BOOLEAN, NEW stored \in Mutations \cup {Null}
      PROVE  LET m == Recovery(recovered, stored)
             IN  /\ m \in Inbox /\ m.type = "invalidDocumentRecoveryResult"
                 /\ m.revision = doc.version
  BY HostFacts DEF Recovery, Inbox
<1>3. QED
  BY <1>1, <1>2

\* The kinds of message that report another writer's text.
ChangeTypes == {"externalInvalidDocument", "documentRevisionAdvanced", "externalChange"}

\* postExternalChange drops the cache and reports the version of d.
LEMMA ChangePosted ==
    ASSUME Typed, NEW h \in Hosts, NEW d \in Docs, PostExternalChange(h, d)
    PROVE  /\ host' \in Hosts
           /\ host'.queue = h.queue /\ host'.applying = h.applying /\ host'.cache = Null
           /\ \E m \in Inbox : /\ Post(m)
                               /\ m.type \in ChangeTypes
                               /\ m.revision = d.version
<1>1. d.version \in Nat /\ d.text \in Texts
  BY DEF Docs
<1>2. CASE d.text = Invalid
  <2> DEFINE m == [type |-> "externalInvalidDocument", revision |-> d.version]
  <2>1. host' = [h EXCEPT !.blocked = TRUE, !.cache = Null] /\ Post(m)
    BY <1>2 DEF PostExternalChange
  <2>2. m \in Inbox /\ m.type \in ChangeTypes /\ m.revision = d.version
    BY <1>1 DEF Inbox, ChangeTypes
  <2>3. QED
    BY <2>1, <2>2 DEF Hosts
<1>3. CASE d.text # Invalid
  <2> DEFINE same == [type |-> "documentRevisionAdvanced", revision |-> d.version]
             news == [type |-> "externalChange", revision |-> d.version,
                      snapshot |-> d.text]
             m == IF h.lastLocal = d.text THEN same ELSE news
  <2>1. host' = [h EXCEPT !.blocked = FALSE, !.cache = Null] /\ Post(m)
    BY <1>3 DEF PostExternalChange
  <2>2. same \in Inbox /\ same.type \in ChangeTypes /\ same.revision = d.version
    BY <1>1 DEF Inbox, ChangeTypes
  <2>3. news \in Inbox /\ news.type \in ChangeTypes /\ news.revision = d.version
    BY <1>1, <1>3 DEF Inbox, ChangeTypes, Texts
  <2>4. m \in Inbox /\ m.type \in ChangeTypes /\ m.revision = d.version
    BY <2>2, <2>3
  <2> HIDE DEF m
  <2>5. QED
    BY <2>1, <2>4 DEF Hosts
<1>4. QED
  BY <1>2, <1>3

\* An outcome noted in the list of flushes.
LEMMA SettledTyped ==
    ASSUME NEW q \in Seq(Outcomes), NEW i, NEW o \in Outcomes
    PROVE  LET r == [q EXCEPT ![i] = o]
           IN  /\ r \in Seq(Outcomes) /\ Len(r) = Len(q)
               /\ DOMAIN r = DOMAIN q
               /\ i \in DOMAIN q => r[i] = o
               /\ \A j \in DOMAIN q : j # i => r[j] = q[j]
<1> DEFINE r == [q EXCEPT ![i] = o]
           n == Len(q)
<1>1. n \in Nat /\ q \in [1 .. n -> Outcomes] /\ DOMAIN q = 1 .. n
  BY LenProperties
<1> HIDE DEF n
<1>2. /\ r \in [1 .. n -> Outcomes]
      /\ i \in DOMAIN q => r[i] = o
      /\ \A j \in DOMAIN q : j # i => r[j] = q[j]
  BY <1>1
<1> HIDE DEF r
<1>3. r \in Seq(Outcomes)
  BY <1>1, <1>2, SeqDef
<1>4. DOMAIN r = 1 .. n /\ Len(r) = n
  BY <1>1, <1>2, <1>3, LenProperties
<1>5. QED
  BY <1>1, <1>2, <1>3, <1>4 DEF n, r

\* A message arrives: settled, queued, answered or dropped.
LEMMA ArriveTyped ==
    ASSUME Typed, Arrive
    PROVE  Typed'
<1> DEFINE message == Head(toHost)
<1>1. /\ toHost # <<>> /\ toHost' = Tail(toHost)
      /\ UNCHANGED <<sync, view, doc, ledger>>
  BY DEF Arrive
<1>2. /\ message \in Outbox /\ toHost' \in Seq(Outbox)
  BY <1>1, HostFacts, InTail
<1>3. doc.version >= doc.version
  BY HostFacts
<1>4. CASE /\ host.blocked /\ message.type \notin ReadOnlySafe
           /\ IF message.type = "edit"
              THEN Post(Rejected(message.request, "INVALID_DOCUMENT"))
              ELSE UNCHANGED toView
           /\ UNCHANGED <<host, flushes>>
  <2>1. CASE message.type = "edit"
    <3> DEFINE m == Rejected(message.request, "INVALID_DOCUMENT")
    <3>1. message.request \in Requests
      BY <1>2, <2>1, OutboxFields
    <3>2. m \in Inbox /\ m.revision = doc.version
      BY <3>1, AnswersOfHostTyped DEF ErrorCodes
    <3>3. Post(m)
      BY <1>4, <2>1
    <3> HIDE DEF m
    <3>4. toView' \in Seq(Inbox) /\ In(toView') = In(toView) \cup {m}
      BY <3>2, <3>3, PostTyped
    <3> HIDE DEF message
    <3>5. QED
      BY <1>1, <1>2, <1>3, <1>4, <3>2, <3>4, HostFacts, HostTyped
  <2>2. CASE message.type # "edit"
    BY <1>1, <1>2, <1>3, <1>4, <2>2, HostFacts, HostTyped
  <2>3. QED
    BY <2>1, <2>2
<1>5. ASSUME NEW outcome \in {"resolved", "rejected"},
             SettleFlush(message.flush, outcome), UNCHANGED <<host, toView>>
      PROVE  Typed'
  <2>1. flushes' \in Seq(Outcomes) /\ Len(flushes') <= MaxFlushes
    BY <1>5, HostFacts, SettledTyped DEF SettleFlush, Outcomes
  <2>2. QED
    BY <1>1, <1>2, <1>3, <1>5, <2>1, HostFacts, HostTyped
<1>6. CASE /\ host' = [host EXCEPT !.queue = Append(@, message)]
           /\ UNCHANGED <<toView, flushes>>
  <2>1. Append(host.queue, message) \in Seq(Outbox)
    BY <1>2, HostFacts, InAppend
  <2>2. host' \in Hosts
    BY <1>6, <2>1, HostFacts DEF Hosts
  <2>3. QED
    BY <1>1, <1>2, <1>3, <1>6, <2>2, HostFacts, HostTyped
<1>7. QED
  BY <1>4, <1>5, <1>6 DEF Arrive

\* A task that only posts an answer.
LEMMA PostOnlyTyped ==
    ASSUME Typed, NEW m \in Inbox, Post(m), m.revision = doc.version,
           host' \in Hosts, UNCHANGED <<doc, flushes, ledger, sync, view, toHost>>
    PROVE  Typed'
<1>1. toView' \in Seq(Inbox) /\ In(toView') = In(toView) \cup {m}
  BY PostTyped
<1>2. doc.version >= doc.version /\ m.revision <= doc.version
  BY HostFacts
<1>3. QED
  BY <1>1, <1>2, HostFacts, HostTyped

\* A task that only moves the host.
LEMMA MoveOnlyTyped ==
    ASSUME Typed, host' \in Hosts,
           UNCHANGED <<toView, doc, flushes, ledger, sync, view, toHost>>
    PROVE  Typed'
<1>1. doc.version >= doc.version
  BY HostFacts
<1>2. QED
  BY <1>1, HostFacts, HostTyped

\* The tasks of the serial queue.
LEMMA HandleTyped ==
    ASSUME Typed, Handle
    PROVE  Typed'
<1> DEFINE message == Head(host.queue)
<1>1. \/ HandleEdit \/ HandleAdopted \/ HandleRecover \/ HandleReady
  BY DEF Handle
<1>2. /\ host.queue # <<>>
      /\ UNCHANGED <<doc, flushes, ledger, sync, view, toHost>>
  BY <1>1 DEF HandleEdit, HandleAdopted, HandleRecover, HandleReady, Handles, ViewUnchanged
<1>3. message \in Outbox /\ Dequeued \in Hosts
  BY <1>2, DequeuedTyped
<1>4. CASE HandleEdit
  <2>1. message \in EditMessages /\ message.request \in Requests
    BY <1>3, <1>4, OutboxFields DEF HandleEdit, Handles
  <2>2. CASE ~IsCurrent(message.request)
    <3> DEFINE m == Rejected(message.request, "STALE_REVISION")
    <3>1. host' = [Dequeued EXCEPT !.cache = Null] /\ Post(m)
      BY <1>4, <2>2 DEF HandleEdit
    <3>2. m \in Inbox /\ m.revision = doc.version
      BY <2>1, AnswersOfHostTyped DEF ErrorCodes
    <3> HIDE DEF m
    <3>3. host' \in Hosts
      BY <1>3, <3>1 DEF Hosts
    <3>4. QED
      BY <1>2, <3>1, <3>2, <3>3, PostOnlyTyped
  <2>3. CASE IsCurrent(message.request)
    <3>1. host' = Applying(message) /\ toView' = toView
      BY <1>4, <2>3 DEF HandleEdit
    <3> HIDE DEF message
    <3>2. host' \in Hosts
      BY <1>2, <2>1, <3>1, ApplyingTyped
    <3>3. QED
      BY <1>2, <3>1, <3>2, MoveOnlyTyped
  <2>4. QED
    BY <2>2, <2>3
<1>5. CASE HandleAdopted
  <2>1. /\ toView' = toView
        /\ \/ host' = Dequeued
           \/ /\ ReadMutation(doc.text) # Null
              /\ host' = [Dequeued EXCEPT !.lastLocal = doc.text, !.cache = Null]
    BY <1>5 DEF HandleAdopted
  <2>2. ReadMutation(doc.text) # Null => doc.text \in Mutations
    BY HostFacts DEF ReadMutation, Texts
  <2>3. host' \in Hosts
    BY <1>3, <2>1, <2>2 DEF Hosts
  <2>4. QED
    BY <1>2, <2>1, <2>3, MoveOnlyTyped
<1>6. CASE HandleRecover
  <2>1. message \in RecoveryMessages
    BY <1>3, <1>6, OutboxFields DEF HandleRecover, Handles
  <2>2. CASE CanRecover(message)
    <3>1. host' = [Applying(message) EXCEPT !.cache = Null] /\ toView' = toView
      BY <1>6, <2>2 DEF HandleRecover
    <3> HIDE DEF message
    <3>2. Applying(message) \in Hosts
      BY <1>2, <2>1, ApplyingTyped
    <3>3. host' \in Hosts
      BY <3>1, <3>2 DEF Hosts
    <3>4. QED
      BY <1>2, <3>1, <3>3, MoveOnlyTyped
  <2>3. CASE ~CanRecover(message)
    <3> DEFINE m == Recovery(FALSE, Null)
    <3>1. host' = Dequeued /\ Post(m)
      BY <1>6, <2>3 DEF HandleRecover
    <3>2. m \in Inbox /\ m.revision = doc.version
      BY AnswersOfHostTyped
    <3> HIDE DEF m
    <3>3. QED
      BY <1>2, <1>3, <3>1, <3>2, PostOnlyTyped
  <2>4. QED
    BY <2>2, <2>3
<1>7. CASE HandleReady
  <2>1. CASE host.blocked
    <3>1. PostExternalChange(Dequeued, doc)
      BY <1>7, <2>1 DEF HandleReady
    <3>2. host' \in Hosts /\ \E m \in Inbox : Post(m) /\ m.revision = doc.version
      BY <1>3, <3>1, HostFacts, ChangePosted
    <3>3. QED
      BY <1>2, <3>2, PostOnlyTyped
  <2>2. CASE ~host.blocked
    <3>1. /\ toView' = toView
          /\ host' = IF doc.text = Invalid
                     THEN [Dequeued EXCEPT !.blocked = TRUE, !.cache = Null]
                     ELSE [Dequeued EXCEPT !.lastLocal = doc.text,
                                           !.cache = LoadedCache(doc.version, doc.text)]
      BY <1>7, <2>2 DEF HandleReady
    <3>2. doc.text # Invalid => /\ doc.text \in Mutations
                                /\ LoadedCache(doc.version, doc.text) \in Caches
      BY HostFacts DEF Texts, LoadedCache, Caches
    <3>3. host' \in Hosts
      BY <1>3, <3>1, <3>2 DEF Hosts
    <3>4. QED
      BY <1>2, <3>1, <3>3, MoveOnlyTyped
  <2>3. QED
    BY <2>1, <2>2
<1>8. QED
  BY <1>1, <1>4, <1>5, <1>6, <1>7

\* VS Code's answer, noted in the task.
Noted(h, outcome) ==
    /\ h \in Hosts
    /\ h.queue = host.queue /\ h.cache = host.cache
    /\ h.applying # Null /\ h.applying.outcome = outcome
    /\ h.applying.message = host.applying.message
    /\ h.applying.text = host.applying.text

\* A task with its outcome is a task still, and nothing else of it changed.
LEMMA OutcomeNoted ==
    ASSUME Typed, host.applying # Null, NEW outcome \in {"applied", "refused"},
           NEW n \in Nat
    PROVE  /\ Noted([host EXCEPT !.applying.outcome = outcome], outcome)
           /\ Noted([host EXCEPT !.applying.outcome = outcome, !.refusals = n], outcome)
<1> DEFINE task == [host.applying EXCEPT !.outcome = outcome]
<1>1. host.applying \in Tasks
  BY HostFacts
<1>2. /\ task \in Tasks /\ task.outcome = outcome
      /\ task.message = host.applying.message /\ task.text = host.applying.text
  BY <1>1 DEF Tasks
<1>3. task # Null
  BY <1>2, SessionAssumption
<1>4. /\ [host EXCEPT !.applying.outcome = outcome, !.refusals = n]
           = [host EXCEPT !.applying = task, !.refusals = n]
      /\ [host EXCEPT !.applying.outcome = outcome] = [host EXCEPT !.applying = task]
  BY HostFacts DEF Hosts
<1> HIDE DEF task
<1> DEFINE g == [host EXCEPT !.applying = task]
           h == [host EXCEPT !.applying = task, !.refusals = n]
<1>5. Noted(g, outcome)
  BY <1>2, <1>3, HostFacts DEF Hosts, Noted
<1>6. Noted(h, outcome)
  BY <1>2, <1>3, HostFacts DEF Hosts, Noted
<1>7. QED
  BY <1>4, <1>5, <1>6

\* VS Code applies the edit, to the version it was planned for, or refuses it.
LEMMA ApplyEditEffect ==
    ASSUME Typed, ApplyEdit
    PROVE  LET task == host.applying
           IN  /\ task \in Tasks /\ task # Null
               /\ host' \in Hosts
               /\ host'.queue = host.queue /\ host'.cache = host.cache
               /\ host'.applying # Null
               /\ host'.applying.message = task.message
               /\ host'.applying.text = task.text
               /\ UNCHANGED <<toView, flushes, sync, view, toHost>>
               /\ \/ /\ host'.applying.outcome = "applied"
                     /\ doc' \in Docs /\ doc'.version = doc.version + 1
                     /\ ledger' = IF /\ task.message.type = "edit"
                                     /\ task.text = task.message.request.mutation
                                  THEN [ledger EXCEPT !.settled = @
                                          \cup {task.message.request.localGeneration}]
                                  ELSE ledger
                  \/ /\ host'.applying.outcome = "refused"
                     /\ doc' = doc /\ ledger' = ledger
<1> DEFINE task == host.applying
<1>1. task # Null /\ task \in Tasks /\ UNCHANGED <<toView, flushes, sync, view, toHost>>
  BY HostFacts DEF ApplyEdit, ViewUnchanged
<1>2. host.refusals \in Nat /\ host.refusals + 1 \in Nat
  BY HostFacts
<1>3. CASE /\ doc' = [version |-> doc.version + 1, text |-> task.text]
           /\ host' = [host EXCEPT !.applying.outcome = "applied"]
           /\ ledger' = IF /\ task.message.type = "edit"
                           /\ task.text = task.message.request.mutation
                        THEN [ledger EXCEPT
                                !.settled = @ \cup {task.message.request.localGeneration}]
                        ELSE ledger
  <2>1. doc' \in Docs /\ doc'.version = doc.version + 1
    BY <1>1, <1>3, HostFacts DEF Docs, Tasks, Texts
  <2>2. Noted(host', "applied")
    BY <1>1, <1>2, <1>3, OutcomeNoted
  <2>3. QED
    BY <1>1, <1>3, <2>1, <2>2 DEF Noted
<1>4. CASE /\ host' = [host EXCEPT !.applying.outcome = "refused"]
           /\ UNCHANGED <<doc, ledger>>
  <2>1. Noted(host', "refused")
    BY <1>1, <1>2, <1>4, OutcomeNoted
  <2>2. QED
    BY <1>1, <1>4, <2>1 DEF Noted
<1>5. CASE /\ host' = [host EXCEPT !.applying.outcome = "refused",
                                   !.refusals = @ + 1]
           /\ UNCHANGED <<doc, ledger>>
  <2>1. Noted(host', "refused")
    BY <1>1, <1>2, <1>5, OutcomeNoted
  <2>2. QED
    BY <1>1, <1>5, <2>1 DEF Noted
<1>6. QED
  BY <1>3, <1>4, <1>5 DEF ApplyEdit

\* VS Code's answer keeps types and revisions.
LEMMA ApplyEditTyped ==
    ASSUME Typed, ApplyEdit
    PROVE  Typed'
<1> DEFINE message == host.applying.message
           settled == ledger.settled \cup {message.request.localGeneration}
<1>1. /\ host.applying \in Tasks
      /\ host' \in Hosts
      /\ UNCHANGED <<toView, flushes, sync, view, toHost>>
  BY ApplyEditEffect
<1>2. doc' \in Docs /\ doc'.version >= doc.version
  BY ApplyEditEffect, HostFacts
<1>3. \/ ledger' = ledger
      \/ message.type = "edit" /\ ledger' = [ledger EXCEPT !.settled = settled]
  BY ApplyEditEffect, HostFacts DEF Ledgers
<1>4. ledger' \in Ledgers
  <2>1. message.type = "edit" => message.request.localGeneration \in Nat
    BY <1>1 DEF Tasks, Requests
  <2> HIDE DEF message
  <2>2. message.type = "edit" => settled \in SUBSET Nat
    BY <2>1, HostFacts DEF Ledgers
  <2> HIDE DEF settled
  <2>3. QED
    BY <1>3, <2>2, HostFacts DEF Ledgers
<1>5. QED
  BY <1>1, <1>2, <1>4, HostFacts, HostTyped

\* The answer to a task: how the host goes on, and what it says.
LEMMA ResumeEffect ==
    ASSUME Typed, Resume
    PROVE  LET task == host.applying
           IN  /\ task \in Tasks /\ task # Null /\ task.outcome # "unknown"
               /\ host' \in Hosts /\ host'.queue = host.queue /\ host'.applying = Null
               /\ UNCHANGED <<doc, flushes, ledger, sync, view, toHost>>
               /\ \E m \in Inbox :
                     /\ Post(m) /\ m.revision = doc.version
                     /\ IF task.message.type = "edit"
                        THEN IF Confirmed(task)
                             THEN /\ m.type = "editAcknowledged"
                                  /\ m.editId = task.message.request.editId
                                  /\ host'.cache = CacheOf(doc.version, task.message.request,
                                                           task.text)
                             ELSE /\ m.type = "editRejected" /\ host'.cache = Null
                                  /\ m.editId = task.message.request.editId
                        ELSE m.type = "invalidDocumentRecoveryResult" /\ host'.cache = Null
<1> DEFINE task == host.applying
           message == task.message
           done == [host EXCEPT !.applying = Null, !.cache = Null]
<1>1. /\ task # Null /\ task \in Tasks /\ task.outcome # "unknown"
      /\ UNCHANGED <<doc, flushes, ledger, sync, view, toHost>>
  BY HostFacts DEF Resume, ViewUnchanged
<1>2. /\ task.text \in Mutations
      /\ message.type = "edit" => message.request \in Requests
      /\ message.type # "edit" => message.mutation \in Mutations
  BY <1>1 DEF Tasks
<1>3. /\ done \in Hosts /\ done.queue = host.queue /\ done.applying = Null
      /\ done.cache = Null
  BY HostFacts DEF Hosts
<1>4. CASE Confirmed(task) /\ message.type = "edit"
  <2> DEFINE m == [type |-> "editAcknowledged", identity |-> Self,
                   editId |-> message.request.editId, revision |-> doc.version]
             cache == CacheOf(doc.version, message.request, task.text)
  <2>1. /\ host' = [done EXCEPT !.lastLocal = task.text, !.cache = cache]
        /\ Post(m)
    BY <1>4 DEF Resume
  <2>2. /\ m \in Inbox /\ m.type = "editAcknowledged" /\ m.revision = doc.version
        /\ m.editId = message.request.editId
    BY <1>2, <1>4, HostFacts DEF Inbox, Requests
  <2>3. cache \in Caches
    BY <1>2, <1>4, HostFacts DEF Caches, CacheOf, Requests
  <2> HIDE DEF m, cache, done
  <2>4. /\ host' \in Hosts /\ host'.queue = host.queue /\ host'.applying = Null
        /\ host'.cache = cache
    BY <1>2, <1>3, <2>1, <2>3 DEF Hosts
  <2>5. QED
    BY <1>1, <1>4, <2>1, <2>2, <2>4 DEF cache
<1>5. CASE Confirmed(task) /\ message.type # "edit"
  <2> DEFINE m == Recovery(TRUE, message.mutation)
  <2>1. /\ host' = [done EXCEPT !.lastLocal = message.mutation, !.blocked = FALSE]
        /\ Post(m)
    BY <1>5 DEF Resume
  <2>2. m \in Inbox /\ m.type = "invalidDocumentRecoveryResult" /\ m.revision = doc.version
    BY <1>2, <1>5, AnswersOfHostTyped
  <2> HIDE DEF m, done
  <2>3. /\ host' \in Hosts /\ host'.queue = host.queue /\ host'.applying = Null
        /\ host'.cache = Null
    BY <1>2, <1>3, <1>5, <2>1 DEF Hosts
  <2>4. QED
    BY <1>1, <1>5, <2>1, <2>2, <2>3
<1>6. CASE ~Confirmed(task)
  <2> DEFINE no == Rejected(message.request, FailureCode(task))
             failed == Recovery(FALSE, Null)
             m == IF message.type = "edit" THEN no ELSE failed
  <2>1. host' = done /\ Post(m)
    BY <1>6 DEF Resume
  <2>2. message.type = "edit" =>
           /\ no \in Inbox /\ no.type = "editRejected" /\ no.revision = doc.version
           /\ no.editId = message.request.editId
    <3>1. FailureCode(task) \in ErrorCodes
      BY DEF FailureCode, ErrorCodes
    <3>2. QED
      BY <1>2, <3>1, AnswersOfHostTyped
  <2>3. /\ failed \in Inbox /\ failed.type = "invalidDocumentRecoveryResult"
        /\ failed.revision = doc.version
    BY AnswersOfHostTyped
  <2> HIDE DEF no, failed
  <2>4. /\ m \in Inbox /\ m.revision = doc.version
        /\ IF message.type = "edit"
           THEN m.type = "editRejected" /\ m.editId = message.request.editId
           ELSE m.type = "invalidDocumentRecoveryResult"
    BY <2>2, <2>3
  <2> HIDE DEF m, done
  <2>5. QED
    BY <1>1, <1>3, <1>6, <2>1, <2>4
<1>7. QED
  BY <1>4, <1>5, <1>6

\* The answer to a task keeps types and revisions.
LEMMA ResumeTyped ==
    ASSUME Typed, Resume
    PROVE  Typed'
BY ResumeEffect, PostOnlyTyped

\* Another writer's text is reported at its own version.
LEMMA ExternalWriteEffect ==
    ASSUME Typed, ExternalWrite
    PROVE  /\ doc' \in Docs /\ doc'.version = doc.version + 1
           /\ host' \in Hosts
           /\ host'.queue = host.queue /\ host'.applying = host.applying
           /\ host'.cache = Null
           /\ UNCHANGED <<flushes, ledger, sync, view, toHost>>
           /\ \E m \in Inbox : /\ Post(m) /\ m.type \in ChangeTypes
                               /\ m.revision = doc'.version
<1>1. PICK text \in ExternalTexts :
         LET d == [version |-> doc.version + 1, text |-> text]
         IN  doc' = d /\ PostExternalChange(host, d)
  BY DEF ExternalWrite
<1> DEFINE d == [version |-> doc.version + 1, text |-> text]
<1>2. d \in Docs /\ d.version = doc.version + 1
  BY HostFacts, SessionAssumption DEF Docs
<1>3. doc' = d /\ PostExternalChange(host, d)
  BY <1>1
<1> HIDE DEF d
<1>4. UNCHANGED <<flushes, ledger, sync, view, toHost>>
  BY DEF ExternalWrite, ViewUnchanged
<1>5. QED
  BY <1>2, <1>3, <1>4, HostFacts, ChangePosted

\* Another writer's text keeps types and revisions.
LEMMA ExternalWriteTyped ==
    ASSUME Typed, ExternalWrite
    PROVE  Typed'
<1>1. PICK m \in Inbox : Post(m) /\ m.revision = doc'.version
  BY ExternalWriteEffect
<1>2. toView' \in Seq(Inbox) /\ In(toView') = In(toView) \cup {m}
  BY <1>1, PostTyped
<1>3. doc'.version >= doc.version /\ m.revision <= doc'.version
  BY <1>1, ExternalWriteEffect, HostFacts
<1>4. QED
  BY <1>1, <1>2, <1>3, ExternalWriteEffect, HostFacts, HostTyped

\* A new flush, and a flush nobody answered in time.
LEMMA FlushesTyped ==
    ASSUME Typed, RequestFlush \/ FlushTimesOut
    PROVE  Typed'
<1>1. doc.version >= doc.version
  BY HostFacts
<1>2. CASE RequestFlush
  <2> DEFINE m == [type |-> "requestFlush", flush |-> Len(flushes) + 1]
  <2>1. /\ Len(flushes) < MaxFlushes /\ Post(m)
        /\ flushes' = Append(flushes, "waiting")
        /\ UNCHANGED <<host, doc, ledger, sync, view, toHost>>
    BY <1>2 DEF RequestFlush, ViewUnchanged
  <2>2. Len(flushes) \in Nat /\ MaxFlushes \in Nat
    BY HostFacts, LenProperties, SessionAssumption
  <2>3. Len(flushes) + 1 \in 1 .. MaxFlushes
    BY <2>1, <2>2
  <2>4. m \in Inbox /\ m.type = "requestFlush"
    BY <2>3 DEF Inbox
  <2> HIDE DEF m
  <2>5. toView' \in Seq(Inbox) /\ In(toView') = In(toView) \cup {m}
    BY <2>1, <2>4, PostTyped
  <2>6. flushes' \in Seq(Outcomes) /\ Len(flushes') = Len(flushes) + 1
    BY <2>1, HostFacts, AppendProperties DEF Outcomes
  <2>7. QED
    BY <1>1, <2>1, <2>3, <2>4, <2>5, <2>6, HostFacts, HostTyped
<1>3. CASE FlushTimesOut
  <2>1. PICK flush \in DOMAIN flushes : flushes' = [flushes EXCEPT ![flush] = "rejected"]
    BY <1>3 DEF FlushTimesOut
  <2>2. flushes' \in Seq(Outcomes) /\ Len(flushes') <= MaxFlushes
    BY <2>1, HostFacts, SettledTyped DEF Outcomes
  <2>3. UNCHANGED <<toView, host, doc, ledger, sync, view, toHost>>
    BY <1>3 DEF FlushTimesOut, ViewUnchanged
  <2>4. QED
    BY <1>1, <2>2, <2>3, HostFacts, HostTyped
<1>4. QED
  BY <1>2, <1>3

----------------------------------------------------------------------------
(* Types and revisions: the theorems *)

\* The coordinator of a document just loaded.
LEMMA LoadedSound ==
    LET s == AdoptReplacement(Created(1), 1, Start, TRUE)
    IN  /\ Sound(s) /\ Within(s, 1)
        /\ s.localMutation = Start
        /\ s.acknowledgedGeneration = 0
        /\ s.nextEditId = 0 /\ s.inFlight = Null /\ s.flushWaiters = {}
        /\ \A c \in Components : s.componentRevisions[c] = 0
<1> DEFINE z == Created(1)
           s == AdoptReplacement(z, 1, Start, TRUE)
<1>1. z \in SyncStates
  BY DEF Created, SyncStates
<1>2. /\ z.localMutation = Null /\ z.localGeneration = 0
      /\ z.acknowledgedGeneration = 0 /\ z.nextEditId = 0
      /\ z.inFlight = Null /\ z.pending = Null /\ z.error = Null
      /\ z.externalChange = Null /\ z.flushWaiters = {}
  BY DEF Created
<1> HIDE DEF z
<1>3. Sound(z)
  BY <1>1, <1>2 DEF Sound, Consistent, Numbered, Held, WaitersOpen, Awake
<1>4. Sound(s)
  BY <1>3, AdoptSound, SessionAssumption
<1>5. Within(s, 1) /\ s.acknowledgedGeneration = z.localGeneration
  <2> DEFINE one == 1
  <2>1. one \in Nat /\ one <= one
    OBVIOUS
  <2> HIDE DEF one
  <2>2. LET t == AdoptReplacement(z, one, Start, TRUE)
        IN  Within(t, one) /\ t.acknowledgedGeneration = z.localGeneration
    BY <1>3, <2>1, AdoptLearns
  <2>3. QED
    BY <2>2 DEF one
<1>6. /\ s.localMutation = Start
      /\ s.nextEditId = 0 /\ s.inFlight = Null /\ s.flushWaiters = {}
      /\ \A c \in Components : s.componentRevisions[c] = 0
  <2>1. s.localMutation = Start /\ s.nextEditId = 0 /\ s.inFlight = Null
    BY <1>1, <1>2 DEF AdoptReplacement, SettleFlushWaiters, SyncStates
  <2>2. s.flushWaiters \subseteq z.flushWaiters
    BY <1>3, AdoptSound, SessionAssumption DEF Advances
  <2>3. s.componentRevisions = [c \in Components |-> 0]
    BY <1>1, <1>2 DEF AdoptReplacement, SettleFlushWaiters, SyncStates
  <2> HIDE DEF s
  <2>4. QED
    BY <1>2, <2>1, <2>2, <2>3
<1>7. QED
  BY <1>2, <1>4, <1>5, <1>6 DEF z

\* The session starts typed, with nothing under way.
LEMMA InitTyped ==
    ASSUME Init
    PROVE  Typed
<1>1. /\ Start \in Mutations /\ Start # Null /\ Start.content \in Contents
  BY SessionAssumption, NullAssumption DEF Mutations
<1>2. /\ Sound(sync) /\ Within(sync, 1) /\ sync.localMutation = Start
  BY LoadedSound DEF Init
<1>3. /\ view \in Views /\ view.revision = 1 /\ view.notice = Null
  BY <1>1 DEF Init, Views
<1>4. doc \in Docs /\ doc.version = 1
  BY <1>1 DEF Init, Docs, Texts
<1>5. LoadedCache(1, Start) \in Caches
  BY <1>1 DEF LoadedCache, Caches
<1>6. host \in Hosts
  BY <1>1, <1>5 DEF Init, Hosts
<1>7. /\ toHost \in Seq(Outbox) /\ toView \in Seq(Inbox) /\ In(toView) = {}
      /\ flushes \in Seq(Outcomes) /\ Len(flushes) = 0
  BY InFew DEF Init
<1>8. ledger \in Ledgers
  BY <1>1 DEF Init, Ledgers
<1>9. Len(flushes) <= MaxFlushes
  BY <1>7, SessionAssumption
<1>10. sync \in SyncStates /\ sync.localMutation # Null
  BY <1>1, <1>2 DEF Sound, Consistent
<1>11. TypeOK
  BY <1>3, <1>4, <1>6, <1>7, <1>8, <1>9, <1>10 DEF TypeOK, Docs, Outcomes, Ledgers
<1>12. Recent
  BY <1>2, <1>3, <1>4, <1>7 DEF Recent, RevisionsBehindDocument, Within
<1>13. QED
  BY <1>2, <1>11, <1>12 DEF Typed

\* Every action keeps the invariant.
LEMMA NextTyped ==
    ASSUME Typed, Next
    PROVE  Typed'
<1>1. CASE User
  BY <1>1, TypeTurns, MetadataTurns, KeepMineTurns, ReloadTurns, RetryTurns,
     InvalidSourceTurns DEF User, Turns
<1>2. CASE Debounce
  BY <1>2, DebounceTurns DEF Turns
<1>3. CASE Hear
  BY <1>3, AcknowledgementTurns, RejectionTurns, ExternalChangeTurns,
     RevisionAdvancedTurns, InvalidTurns, RecoveryTyped, FlushTurns DEF Hear, Turns
<1>4. CASE Arrive \/ Handle \/ ApplyEdit \/ Resume
  BY <1>4, ArriveTyped, HandleTyped, ApplyEditTyped, ResumeTyped
<1>5. CASE ExternalWrite \/ RequestFlush \/ FlushTimesOut
  BY <1>5, ExternalWriteTyped, FlushesTyped
<1>6. QED
  BY <1>1, <1>2, <1>3, <1>4, <1>5 DEF Next

\* The first invariant holds, whatever the user decides.
LEMMA TypedHolds == Spec => []Typed
<1>1. Init => Typed
  BY InitTyped
<1>2. Typed /\ [Next]_vars => Typed'
  <2>1. CASE Next
    BY <2>1, NextTyped
  <2>2. CASE UNCHANGED vars
    BY <2>2 DEF vars, Typed, TypeOK, Recent, RevisionsBehindDocument, Within,
                Sound, Consistent
  <2>3. QED
    BY <2>1, <2>2
<1>3. QED
  BY <1>1, <1>2, PTL DEF Spec

\* Every variable of the session keeps its type, whatever the user decides.
THEOREM TypeCorrect == Spec => []TypeOK
<1>1. Typed => TypeOK
  BY DEF Typed
<1>2. QED
  BY <1>1, TypedHolds, PTL

\* useEditorMessages.ts and DocumentSyncCoordinator: no revision the webview
\* holds, edits or shows is newer than the document, however late the messages
\* of the host arrive.
THEOREM RevisionsBehind == Spec => []RevisionsBehindDocument
<1>1. Typed => RevisionsBehindDocument
  BY DEF Typed, Recent
<1>2. QED
  BY <1>1, TypedHolds, PTL

----------------------------------------------------------------------------
(* What was stored: the invariant *)

\* The user takes neither of the decisions for an invalid source: recovering it
\* from the draft or validating it again lets the host store, or take for
\* stored, another text than the one an edit carries.
Untouched == Choices \cap {"recover", "revalidate"} = {}

\* The message whose task is running.
Tasked == IF host.applying = Null THEN {} ELSE {host.applying.message}

\* The messages from the webview that are not answered yet.
Messages == In(toHost) \cup In(host.queue) \cup Tasked

\* The requests among them.
Carried == {m.request : m \in {n \in Messages : n.type = "edit"}}

\* What the host's cache says of the revisions it was made for.
Cached == IF host.cache = Null THEN {}
          ELSE {[componentRevisions |-> host.cache.components,
                 mutation           |-> host.cache.text]}

\* What r knows of a component is of the past of s, or what s holds now.
Earlier(r, s) ==
    \A c \in Components :
        /\ r.componentRevisions[c] <= s.componentRevisions[c]
        /\ r.componentRevisions[c] = s.componentRevisions[c]
              => r.mutation[c] = s.localMutation[c]

\* Two drafts with the same revision of a component hold the same value of it.
Agree(r, q) ==
    \A c \in Components :
        r.componentRevisions[c] = q.componentRevisions[c] => r.mutation[c] = q.mutation[c]

\* Numbers of edits only grow, and the coordinator recognises its own.
Numbers ==
    /\ \A r \in Carried :
          /\ r.editId < sync.nextEditId
          /\ sync.inFlight # Null /\ sync.inFlight.editId = r.editId => r = sync.inFlight
    /\ \A m \in In(toView) :
          m.type \in {"editAcknowledged", "editRejected"} => m.editId < sync.nextEditId

\* Requests and cache are of the past of one editor.
Pasts ==
    /\ \A r \in Carried \cup Cached : Earlier(r, sync)
    /\ \A r, q \in Carried \cup Cached : Agree(r, q)

\* Nothing is under way that the two decisions would have started.
Plain ==
    /\ \A m \in Messages : m.type \notin {"ready", "recoverInvalidDocument"}
    /\ \A m \in In(toView) : m.type # "invalidDocumentRecoveryResult"
    /\ ~view.recovering

\* An edit is stored as it was sent, and what VS Code applied is in the ledger.
Whole ==
    host.applying # Null =>
        /\ host.applying.text = host.applying.message.request.mutation
        /\ host.applying.outcome = "applied" =>
              host.applying.message.request.localGeneration \in ledger.settled

\* Only stored edits are acknowledged.
Truth ==
    \A m \in In(toView) :
        m.type = "editAcknowledged" /\ sync.inFlight # Null
              /\ sync.inFlight.editId = m.editId
            => sync.inFlight.localGeneration \in ledger.settled

\* What was typed before the flush is in the ledger.
Kept(flush) == \E g \in ledger.settled \cup {0} : g >= ledger.asked[flush]

\* The webview waits for the generations the ledger noted.
Awaited ==
    \A w \in sync.flushWaiters :
        w.flush # 0 => /\ w.flush \in DOMAIN flushes
                       /\ w.generation = ledger.asked[w.flush]

\* A flush is reported complete only when it is.
Honest ==
    \A m \in In(toHost) :
        m.type = "flushComplete" => m.flush \in DOMAIN flushes /\ Kept(m.flush)

\* A flush the webview has not heard of is neither awaited nor answered.
Unheard(f) ==
    /\ f \in DOMAIN flushes /\ flushes[f] # "resolved"
    /\ \A w \in sync.flushWaiters : w.flush # f
    /\ \A m \in In(toHost) : m.type = "flushComplete" => m.flush # f

Asking ==
    \A i \in DOMAIN toView : toView[i].type = "requestFlush" =>
        /\ Unheard(toView[i].flush)
        /\ \A j \in DOMAIN toView :
              toView[j].type = "requestFlush" /\ toView[j].flush = toView[i].flush => i = j

\* The second inductive invariant.
Stored ==
    /\ Typed
    /\ Numbers /\ Pasts /\ Plain /\ Whole /\ Truth
    /\ Awaited /\ Honest /\ Asking
    /\ AcknowledgedWasStored /\ FlushMeansStored

----------------------------------------------------------------------------
(* What was stored: a turn of the webview *)

\* What is carried is a request.
LEMMA CarriedTyped ==
    ASSUME Typed
    PROVE  /\ Carried \subseteq Requests
           /\ \A m \in Messages : m \in Outbox
           /\ \A r \in Cached : /\ r.componentRevisions \in [Components -> Nat]
                                /\ r.mutation \in Mutations
<1>1. /\ In(toHost) \subseteq Outbox /\ In(host.queue) \subseteq Outbox
  BY HostFacts, InTyped
<1>2. Tasked \subseteq Outbox
  BY HostFacts DEF Tasked, Tasks, Outbox
<1>3. \A m \in Messages : m \in Outbox
  BY <1>1, <1>2 DEF Messages
<1>4. Carried \subseteq Requests
  BY <1>3, OutboxFields DEF Carried
<1>5. host.cache # Null => host.cache \in Caches
  BY HostFacts
<1>6. \A r \in Cached : /\ r.componentRevisions \in [Components -> Nat]
                        /\ r.mutation \in Mutations
  BY <1>5 DEF Cached, Caches
<1>7. QED
  BY <1>3, <1>4, <1>6

\* The coordinator's numbers, before a turn and after it.
LEMMA InFlightTyped ==
    ASSUME Typed
    PROVE  /\ sync.nextEditId \in Nat
           /\ sync.inFlight # Null => sync.inFlight \in Requests
           /\ sync.acknowledgedGeneration \in Nat /\ sync.localGeneration \in Nat
           /\ sync.flushWaiters \subseteq Waiters
BY TypedFacts DEF SyncStates

\* What a turn adds to the requests under way: at most the one it sent.
LEMMA TurnCarries ==
    ASSUME Typed, NEW posted, Turned(posted), UNCHANGED host,
           \A m \in In(posted) : m.type # "edit"
    PROVE  /\ \A r \in Carried' : \/ r \in Carried
                                  \/ /\ r = sync'.inFlight /\ sync'.inFlight # Null
                                     /\ sync'.nextEditId # sync.nextEditId
           /\ Cached' = Cached
<1>1. Tasked' = Tasked /\ Cached' = Cached
  BY DEF Tasked, Cached
<1>2. \A m \in Messages' : m.type = "edit" =>
         \/ m \in Messages
         \/ /\ m.request = sync'.inFlight /\ sync'.inFlight # Null
            /\ sync'.nextEditId # sync.nextEditId
  BY <1>1 DEF Messages, Turned, EditOf, AnswerOf
<1>3. QED
  BY <1>1, <1>2 DEF Carried

\* A turn keeps the numbers.
LEMMA TurnNumbers ==
    ASSUME Typed, Numbers, Typed', NEW posted, Turned(posted), UNCHANGED host,
           \A m \in In(posted) : m.type # "edit", In(toView') \subseteq In(toView)
    PROVE  Numbers'
<1>1. Keeps(sync, sync') /\ sync.nextEditId \in Nat /\ sync'.nextEditId \in Nat
  BY InFlightTyped DEF Turned, Typed, TypeOK, SyncStates
<1>2. \/ /\ sync'.nextEditId = sync.nextEditId
         /\ sync'.inFlight = sync.inFlight \/ sync'.inFlight = Null
      \/ /\ sync'.nextEditId = sync.nextEditId + 1
         /\ sync'.inFlight # Null
         /\ sync'.inFlight.editId = sync.nextEditId
  BY <1>1 DEF Keeps, Travels
<1>3. ASSUME NEW r \in Carried'
      PROVE  /\ r.editId < sync'.nextEditId
             /\ sync'.inFlight # Null /\ sync'.inFlight.editId = r.editId
                   => r = sync'.inFlight
  <2>1. CASE r \in Carried
    <3>1. r.editId < sync.nextEditId /\ r.editId \in Nat
      BY <2>1, CarriedTyped DEF Numbers, Requests
    <3>2. sync.inFlight # Null /\ sync.inFlight.editId = r.editId => r = sync.inFlight
      BY <2>1 DEF Numbers
    <3>3. r.editId < sync'.nextEditId
      BY <1>1, <1>2, <3>1
    <3>4. sync'.inFlight # Null /\ sync'.inFlight.editId = r.editId => r = sync'.inFlight
      BY <1>1, <1>2, <3>1, <3>2
    <3>5. QED
      BY <3>3, <3>4
  <2>2. CASE r \notin Carried
    <3>1. r = sync'.inFlight /\ sync'.nextEditId # sync.nextEditId
      BY <2>2, TurnCarries
    <3>2. QED
      BY <1>1, <1>2, <3>1
  <2>3. QED
    BY <2>1, <2>2
<1>4. ASSUME NEW m \in In(toView'), m.type \in {"editAcknowledged", "editRejected"}
      PROVE  m.editId < sync'.nextEditId
  <2>1. m \in In(toView) /\ m \in Inbox
    BY HostFacts, InTyped
  <2>2. m.editId < sync.nextEditId /\ m.editId \in Nat
    BY <1>4, <2>1, InboxFields DEF Numbers
  <2>3. QED
    BY <1>1, <1>2, <2>2
<1>5. QED
  BY <1>3, <1>4 DEF Numbers

\* A turn leaves requests and cache behind, and sends what the editor holds.
LEMMA TurnPasts ==
    ASSUME Typed, Pasts, Typed', NEW posted, Turned(posted), UNCHANGED host,
           \A m \in In(posted) : m.type # "edit"
    PROVE  Pasts'
<1> DEFINE old == Carried \cup Cached
           fresh == sync'.inFlight
           sent == /\ sync'.inFlight # Null
                   /\ sync'.nextEditId # sync.nextEditId
<1>1. Follows(sync, sync') /\ Travels(sync, sync')
  BY DEF Turned, Keeps
<1>2. sync \in SyncStates /\ sync' \in SyncStates /\ sync.localMutation # Null
  BY DEF Typed, TypeOK
<1>3. \A r \in Carried' \cup Cached' : r \in old \/ (sent /\ r = fresh)
  BY TurnCarries
<1>4. sent => IsLatest(fresh, sync')
  BY <1>1, <1>2 DEF Travels
<1>5. \A c \in Components : /\ sync.componentRevisions[c] \in Nat
                            /\ sync'.componentRevisions[c] \in Nat
  BY <1>2 DEF SyncStates
<1>6. ASSUME NEW r \in old
      PROVE  Earlier(r, sync') /\ \A c \in Components : r.componentRevisions[c] \in Nat
  <2>1. r.componentRevisions \in [Components -> Nat]
    BY CarriedTyped DEF Requests
  <2>2. Earlier(r, sync)
    BY DEF Pasts
  <2>3. QED
    BY <1>1, <1>2, <1>5, <2>1, <2>2 DEF Earlier, Follows
<1>7. \A r \in old, q \in old : Agree(r, q)
  BY DEF Pasts
<1> HIDE DEF old, sent, fresh
<1>8. sent => Earlier(fresh, sync')
  BY <1>4, <1>5 DEF IsLatest, Earlier
<1>9. sent => \A r \in old : Agree(r, fresh) /\ Agree(fresh, r)
  BY <1>4, <1>5, <1>6 DEF IsLatest, Earlier, Agree
<1>10. ASSUME NEW r \in Carried' \cup Cached'
       PROVE  Earlier(r, sync')
  BY <1>3, <1>6, <1>8
<1>11. ASSUME NEW r \in Carried' \cup Cached', NEW q \in Carried' \cup Cached'
       PROVE  Agree(r, q)
  <2>1. Agree(fresh, fresh)
    BY DEF Agree
  <2>2. QED
    BY <1>3, <1>7, <1>9, <2>1
<1>12. QED
  BY <1>10, <1>11 DEF Pasts

\* A turn starts neither of the two decisions.
LEMMA TurnPlain ==
    ASSUME Typed, Plain, NEW posted, Turned(posted), UNCHANGED host,
           In(toView') \subseteq In(toView), view'.recovering = view.recovering,
           \A m \in In(posted) : m.type \notin {"ready", "recoverInvalidDocument"}
    PROVE  Plain'
<1>1. Tasked' = Tasked
  BY DEF Tasked
<1>2. ASSUME NEW m \in Messages'
      PROVE  m.type \notin {"ready", "recoverInvalidDocument"}
  <2>1. \/ m \in Messages
        \/ m \in In(posted)
        \/ EditOf(m, sync')
        \/ AnswerOf(m, sync')
    BY <1>1 DEF Messages, Turned
  <2>2. QED
    BY <2>1 DEF Plain, EditOf, AnswerOf
<1>3. QED
  BY <1>2 DEF Plain

\* An acknowledgement under way is of a stored draft, or of no draft of ours.
LEMMA TurnTruth ==
    ASSUME Typed, Numbers, Truth, NEW posted, Turned(posted),
           In(toView') \subseteq In(toView), ledger.settled \subseteq ledger'.settled
    PROVE  Truth'
<1>1. sync.nextEditId \in Nat
  BY InFlightTyped
<1>2. ASSUME NEW m \in In(toView'), m.type = "editAcknowledged",
             sync'.inFlight # Null, sync'.inFlight.editId = m.editId
      PROVE  sync'.inFlight.localGeneration \in ledger'.settled
  <2>1. m \in In(toView) /\ m \in Inbox
    BY HostFacts, InTyped
  <2>2. m.editId < sync.nextEditId /\ m.editId \in Nat
    BY <1>2, <2>1, InboxFields DEF Numbers
  <2>3. \/ sync'.inFlight = sync.inFlight
        \/ sync'.inFlight.editId = sync.nextEditId
    BY <1>2 DEF Turned, Keeps, Travels
  <2>4. sync'.inFlight = sync.inFlight
    BY <1>1, <1>2, <2>2, <2>3
  <2>5. QED
    BY <1>2, <2>1, <2>4 DEF Truth
<1>3. QED
  BY <1>2 DEF Truth

\* The flushes still to be heard of, when the webview hears one message or none.
LEMMA StillAsking ==
    ASSUME Typed, Asking,
           \/ toView' = toView
           \/ toView # <<>> /\ toView' = Tail(toView)
    PROVE  /\ In(toView') \subseteq In(toView)
           /\ \A i \in DOMAIN toView' : toView'[i].type = "requestFlush" =>
                 /\ toView'[i].flush \in 1 .. MaxFlushes
                 /\ Unheard(toView'[i].flush)
                 /\ \A j \in DOMAIN toView' :
                       /\ toView'[j].type = "requestFlush"
                       /\ toView'[j].flush = toView'[i].flush
                       => i = j
                 /\ toView' # toView /\ Head(toView).type = "requestFlush"
                       => toView'[i].flush # Head(toView).flush
<1>1. \A i \in DOMAIN toView : toView[i].type = "requestFlush"
                                  => toView[i].flush \in 1 .. MaxFlushes
  <2>1. \A i \in DOMAIN toView : toView[i] \in Inbox
    BY HostFacts, InTyped DEF In
  <2>2. QED
    BY <2>1, InboxFields
<1>2. CASE toView' = toView
  BY <1>1, <1>2 DEF Asking
<1>3. CASE toView # <<>> /\ toView' = Tail(toView)
  <2>1. /\ Head(toView) = toView[1] /\ 1 \in DOMAIN toView
        /\ In(toView') \subseteq In(toView)
        /\ \A i \in DOMAIN toView' : i + 1 \in DOMAIN toView /\ toView'[i] = toView[i + 1]
        /\ \A i \in DOMAIN toView' : i # 0 /\ i \in Nat
    BY <1>3, HostFacts, InTail
  <2>2. ASSUME NEW i \in DOMAIN toView', toView'[i].type = "requestFlush"
        PROVE  /\ toView'[i].flush \in 1 .. MaxFlushes
               /\ Unheard(toView'[i].flush)
               /\ Head(toView).type = "requestFlush" => toView'[i].flush # Head(toView).flush
    <3>1. i + 1 # 1
      BY <2>1
    <3>2. i + 1 \in DOMAIN toView /\ toView'[i] = toView[i + 1]
      BY <2>1
    <3>3. QED
      BY <1>1, <2>1, <2>2, <3>1, <3>2 DEF Asking
  <2>3. ASSUME NEW i \in DOMAIN toView', toView'[i].type = "requestFlush",
               NEW j \in DOMAIN toView', toView'[j].type = "requestFlush",
               toView'[j].flush = toView'[i].flush
        PROVE  i = j
    <3>1. i + 1 \in DOMAIN toView /\ toView'[i] = toView[i + 1]
      BY <2>1
    <3>2. j + 1 \in DOMAIN toView /\ toView'[j] = toView[j + 1]
      BY <2>1
    <3>3. i + 1 = j + 1
      BY <2>3, <3>1, <3>2 DEF Asking
    <3>4. QED
      BY <2>1, <3>3
  <2>4. QED
    BY <2>1, <2>2, <2>3
<1>4. QED
  BY <1>2, <1>3

\* What is asked of a turn, `flush` being the flush it heard of, or 0.
Sincere(flush, posted) ==
    /\ flush # 0 => flush \in 1 .. MaxFlushes /\ Unheard(flush)
    /\ ledger.settled \subseteq ledger'.settled
    /\ \A f \in 1 .. MaxFlushes : f # flush => ledger'.asked[f] = ledger.asked[f]
    /\ \A w \in sync'.flushWaiters :
          \/ w \in sync.flushWaiters
          \/ w.flush = 0
          \/ w.flush = flush /\ w.generation = ledger'.asked[flush]
    /\ sync'.acknowledgedGeneration \in ledger'.settled \cup {0}
    /\ \A m \in In(posted) :
          \/ m.type = "externalChangeAdopted"
          \/ m.type = "flushFailed"
          \/ /\ m.type = "flushComplete" /\ m.flush = flush /\ flush # 0
             /\ ledger'.asked[flush] <= sync'.acknowledgedGeneration

\* The barriers, after a turn that was sincere.
LEMMA TurnFlushes ==
    ASSUME Typed, Typed', Awaited, Honest, Asking, FlushMeansStored,
           NEW posted, Turned(posted), UNCHANGED flushes,
           NEW flush \in Nat, Sincere(flush, posted),
           \/ toView' = toView /\ flush = 0
           \/ /\ toView # <<>> /\ toView' = Tail(toView)
              /\ flush # 0 => toView' # toView /\ Head(toView).type = "requestFlush"
                              /\ flush = Head(toView).flush
    PROVE  /\ Awaited' /\ Honest' /\ Asking'
           /\ AcknowledgedWasStored' /\ FlushMeansStored'
<1>1. /\ flush # 0 => /\ flush \in 1 .. MaxFlushes /\ flush \in DOMAIN flushes
                      /\ flushes[flush] # "resolved"
                      /\ \A w \in sync.flushWaiters : w.flush # flush
                      /\ \A m \in In(toHost) : m.type = "flushComplete" => m.flush # flush
      /\ DOMAIN flushes \subseteq 1 .. MaxFlushes /\ 0 \notin DOMAIN flushes
  <2>1. DOMAIN flushes = 1 .. Len(flushes) /\ Len(flushes) \in Nat /\ Len(flushes) <= MaxFlushes
    BY HostFacts, LenProperties
  <2>2. DOMAIN flushes \subseteq 1 .. MaxFlushes /\ 0 \notin DOMAIN flushes
    BY <2>1, SessionAssumption
  <2>3. QED
    BY <2>2 DEF Sincere, Unheard
<1>2. \A f \in DOMAIN flushes : f # flush /\ Kept(f) => Kept(f)'
  BY <1>1 DEF Kept, Sincere
<1>3. Awaited'
  <2>1. ASSUME NEW w \in sync'.flushWaiters, w.flush # 0
        PROVE  w.flush \in DOMAIN flushes' /\ w.generation = ledger'.asked[w.flush]
    <3>1. CASE w \in sync.flushWaiters
      <4>1. w.flush \in DOMAIN flushes /\ w.generation = ledger.asked[w.flush]
        BY <2>1, <3>1 DEF Awaited
      <4>2. w.flush # flush
        BY <1>1, <2>1, <3>1
      <4>3. ledger'.asked[w.flush] = ledger.asked[w.flush]
        BY <1>1, <4>1, <4>2 DEF Sincere
      <4>4. QED
        BY <4>1, <4>3
    <3>2. CASE w.flush = flush /\ w.generation = ledger'.asked[flush]
      BY <1>1, <2>1, <3>2
    <3>3. QED
      BY <2>1, <3>1, <3>2 DEF Sincere
  <2>2. QED
    BY <2>1 DEF Awaited
<1>4. Honest'
  <2>1. ASSUME NEW m \in In(toHost'), m.type = "flushComplete"
        PROVE  m.flush \in DOMAIN flushes' /\ Kept(m.flush)'
    <3>1. CASE m \in In(toHost)
      <4>1. m.flush \in DOMAIN flushes /\ Kept(m.flush)
        BY <2>1, <3>1 DEF Honest
      <4>2. m.flush # flush
        BY <1>1, <2>1, <3>1, <4>1
      <4>3. QED
        BY <1>2, <4>1, <4>2
    <3>2. CASE m \in In(posted)
      <4>1. /\ m.flush = flush /\ flush # 0
            /\ ledger'.asked[flush] <= sync'.acknowledgedGeneration
            /\ sync'.acknowledgedGeneration \in ledger'.settled \cup {0}
            /\ sync'.acknowledgedGeneration \in Nat
        BY <2>1, <3>2 DEF Sincere, Typed, TypeOK, SyncStates
      <4>2. ledger'.asked[flush] \in Nat
        BY <1>1, <4>1 DEF Typed, TypeOK
      <4>3. Kept(flush)'
        BY <4>1, <4>2 DEF Kept
      <4>4. QED
        BY <1>1, <4>1, <4>3
    <3>3. CASE AnswerOf(m, sync')
      <4>1. PICK w \in sync.flushWaiters :
               w.flush = m.flush /\ w.generation <= sync'.acknowledgedGeneration
        BY <2>1, <3>3 DEF AnswerOf
      <4>2. m.flush # 0
        BY <3>3, SessionAssumption DEF AnswerOf
      <4>3. w.flush \in DOMAIN flushes /\ w.generation = ledger.asked[w.flush]
        BY <4>1, <4>2 DEF Awaited
      <4>4. m.flush # flush
        BY <1>1, <4>1, <4>2
      <4>5. ledger'.asked[m.flush] = ledger.asked[m.flush]
        BY <3>3, <4>4 DEF AnswerOf, Sincere
      <4>6. /\ ledger'.asked[m.flush] \in Nat
            /\ sync'.acknowledgedGeneration \in Nat
            /\ sync'.acknowledgedGeneration \in ledger'.settled \cup {0}
        BY <3>3 DEF AnswerOf, Sincere, Typed, TypeOK, SyncStates
      <4>7. sync'.acknowledgedGeneration >= ledger'.asked[m.flush]
        BY <4>1, <4>3, <4>5, <4>6
      <4>8. QED
        BY <4>1, <4>3, <4>6, <4>7 DEF Kept
    <3>4. QED
      BY <2>1, <3>1, <3>2, <3>3 DEF Turned, EditOf
  <2>2. QED
    BY <2>1 DEF Honest
<1>5. Asking'
  <2>1. ASSUME NEW i \in DOMAIN toView', toView'[i].type = "requestFlush"
        PROVE  /\ toView'[i].flush \in DOMAIN flushes'
               /\ flushes'[toView'[i].flush] # "resolved"
               /\ \A w \in sync'.flushWaiters : w.flush # toView'[i].flush
               /\ \A m \in In(toHost') :
                     m.type = "flushComplete" => m.flush # toView'[i].flush
    <3> DEFINE f == toView'[i].flush
    <3>1. f \in 1 .. MaxFlushes /\ Unheard(f)
      BY <2>1, StillAsking
    <3>2. f # flush /\ f # 0
      BY <2>1, <3>1, StillAsking
    <3> HIDE DEF f
    <3>3. \A w \in sync'.flushWaiters : w.flush # f
      BY <3>1, <3>2 DEF Sincere, Unheard
    <3>4. \A m \in In(toHost') : m.type = "flushComplete" => m.flush # f
      BY <3>1, <3>2 DEF Turned, EditOf, AnswerOf, Unheard, Sincere
    <3>5. f \in DOMAIN flushes' /\ flushes'[f] # "resolved"
      BY <3>1 DEF Unheard
    <3>6. QED
      BY <3>3, <3>4, <3>5 DEF f
  <2>2. \A i \in DOMAIN toView', j \in DOMAIN toView' :
           /\ toView'[i].type = "requestFlush" /\ toView'[j].type = "requestFlush"
           /\ toView'[j].flush = toView'[i].flush
           => i = j
    BY StillAsking
  <2>3. QED
    BY <2>1, <2>2 DEF Asking, Unheard
<1>6. AcknowledgedWasStored'
  BY DEF AcknowledgedWasStored, Sincere
<1>7. FlushMeansStored'
  <2>1. ASSUME NEW f \in DOMAIN flushes, flushes[f] = "resolved"
        PROVE  Kept(f)'
    <3>1. Kept(f)
      BY <2>1 DEF FlushMeansStored, Kept
    <3>2. f # flush
      BY <1>1, <2>1
    <3>3. QED
      BY <1>2, <3>1, <3>2
  <2>2. QED
    BY <2>1 DEF FlushMeansStored, Kept
<1>8. QED
  BY <1>3, <1>4, <1>5, <1>6, <1>7

\* A turn that was sincere keeps the invariant.
LEMMA TurnStored ==
    ASSUME Stored, NEW posted, Turns(posted), UNCHANGED <<host, flushes>>,
           NEW flush \in Nat, Sincere(flush, posted),
           \/ toView' = toView /\ flush = 0
           \/ /\ toView # <<>> /\ toView' = Tail(toView)
              /\ flush # 0 => toView' # toView /\ Head(toView).type = "requestFlush"
                              /\ flush = Head(toView).flush
    PROVE  Stored'
<1>1. /\ Typed /\ Numbers /\ Pasts /\ Plain /\ Whole /\ Truth
      /\ Awaited /\ Honest /\ Asking /\ FlushMeansStored
      /\ Typed' /\ Turned(posted) /\ view'.recovering = view.recovering
  BY DEF Stored, Turns
<1>2. In(toView') \subseteq In(toView)
  BY <1>1, StillAsking
<1>3. \A m \in In(posted) : m.type \notin {"edit", "ready", "recoverInvalidDocument"}
  BY DEF Sincere
<1>4. ledger.settled \subseteq ledger'.settled
  BY DEF Sincere
<1>5. Numbers' /\ Pasts'
  BY <1>1, <1>2, <1>3, TurnNumbers, TurnPasts
<1>6. Plain' /\ Truth'
  BY <1>1, <1>2, <1>3, <1>4, TurnPlain, TurnTruth
<1>7. Whole'
  BY <1>1, <1>4 DEF Whole
<1>8. /\ Awaited' /\ Honest' /\ Asking'
      /\ AcknowledgedWasStored' /\ FlushMeansStored'
  BY <1>1, TurnFlushes
<1>9. QED
  BY <1>1, <1>5, <1>6, <1>7, <1>8 DEF Stored

\* A turn that confirms nothing, asks for nothing and answers no flush.
LEMMA QuietTurnStored ==
    ASSUME Stored, Turns(<<>>), Unconfirming, UNCHANGED <<host, flushes>>,
           ledger'.asked = ledger.asked, ledger'.settled = ledger.settled,
           \/ toView' = toView
           \/ toView # <<>> /\ toView' = Tail(toView)
    PROVE  Stored'
<1> DEFINE none == 0
<1>1. sync'.acknowledgedGeneration \in ledger'.settled \cup {0}
  BY DEF Stored, AcknowledgedWasStored, Unconfirming
<1>2. In(<<>>) = {}
  BY InFew
<1>3. Sincere(none, <<>>)
  BY <1>1, <1>2 DEF Sincere, Unconfirming
<1>4. none \in Nat /\ none = 0
  OBVIOUS
<1> HIDE DEF none
<1>5. QED
  BY <1>3, <1>4, TurnStored

\* The host hears nothing of a turn but what is posted.
LEMMA HeardUnchanged ==
    ASSUME NEW type, Hears(type), Heard
    PROVE  /\ UNCHANGED <<host, flushes>>
           /\ toView # <<>> /\ toView' = Tail(toView)
BY DEF Hears, Heard

\* What the user does in a webview whose source is never recovered.
LEMMA UserStored ==
    ASSUME Untouched, Stored, User \/ Debounce
    PROVE  Stored'
<1>1. Typed
  BY DEF Stored
<1>2. CASE Type
  <2>1. UNCHANGED <<sync, toHost, ledger, toView, host, flushes>>
    BY <1>2 DEF Type, HostUnchanged
  <2>2. Turned(<<>>)
    BY <1>1, <2>1, TypedFacts DEF Turned
  <2>3. QED
    BY <1>1, <1>2, <2>1, <2>2, TypeTurns, QuietTurnStored DEF Turns, Unconfirming
<1>3. CASE Debounce
  <2>1. UNCHANGED <<ledger, toView, host, flushes>>
    BY <1>3 DEF Debounce, HostUnchanged
  <2>2. QED
    BY <1>1, <1>3, <2>1, DebounceTurns, QuietTurnStored
<1>4. CASE EditMetadata
  <2>1. UNCHANGED <<ledger, toView, host, flushes>>
    BY <1>4 DEF EditMetadata, HostUnchanged
  <2>2. QED
    BY <1>1, <1>4, <2>1, MetadataTurns, QuietTurnStored
<1>5. CASE RetrySave
  <2>1. UNCHANGED <<ledger, toView, host, flushes>>
    BY <1>5 DEF RetrySave, HostUnchanged
  <2>2. QED
    BY <1>1, <1>5, <2>1, RetryTurns, QuietTurnStored
<1> DEFINE none == 0
<1>6. none \in Nat /\ none = 0
  OBVIOUS
<1>7. CASE KeepMine
  <2>1. /\ Turns(<<>>)
        /\ sync'.acknowledgedGeneration = sync.acknowledgedGeneration
        /\ \A w \in sync'.flushWaiters : w \in sync.flushWaiters \/ w.flush = 0
        /\ ledger'.asked = ledger.asked /\ ledger'.settled = ledger.settled
        /\ UNCHANGED <<toView, host, flushes>>
    BY <1>1, <1>7, KeepMineTurns DEF HostUnchanged
  <2>2. In(<<>>) = {}
    BY InFew
  <2>3. sync'.acknowledgedGeneration \in ledger'.settled \cup {0}
    BY <2>1 DEF Stored, AcknowledgedWasStored
  <2>4. Sincere(none, <<>>)
    BY <2>1, <2>2, <2>3 DEF Sincere
  <2> HIDE DEF none
  <2>5. QED
    BY <1>6, <2>1, <2>4, TurnStored
<1>8. CASE Reload
  <2>1. /\ sync'.acknowledgedGeneration = sync.localGeneration
        /\ sync'.flushWaiters \subseteq sync.flushWaiters
        /\ ledger'.asked = ledger.asked
        /\ ledger'.settled = ledger.settled \cup (1 .. sync.localGeneration)
        /\ UNCHANGED <<toView, host, flushes>>
    BY <1>1, <1>8, ReloadTurns DEF HostUnchanged
  <2>2. PICK m : m.type = "externalChangeAdopted" /\ Turns(<<m>>)
    BY <1>1, <1>8, ReloadTurns
  <2>3. In(<<m>>) = {m}
    <3> DEFINE M == {m}
    <3>1. m \in M
      OBVIOUS
    <3> HIDE DEF M
    <3>2. QED
      BY <3>1, InFew
  <2>4. sync'.acknowledgedGeneration \in ledger'.settled \cup {0}
    BY <1>1, <2>1, InFlightTyped
  <2>5. Sincere(none, <<m>>)
    BY <2>1, <2>2, <2>3, <2>4 DEF Sincere
  <2> HIDE DEF none
  <2>6. QED
    BY <1>6, <2>1, <2>2, <2>5, TurnStored
<1>9. CASE RecoverFromLocal \/ Revalidate
  BY <1>9 DEF RecoverFromLocal, Revalidate, Untouched
<1>10. QED
  BY <1>2, <1>3, <1>4, <1>5, <1>7, <1>8, <1>9 DEF User

\* What the webview hears.
LEMMA HearStored ==
    ASSUME Stored, Hear
    PROVE  Stored'
<1>1. Typed
  BY DEF Stored
<1>2. CASE HearRejection
  <2>1. /\ UNCHANGED <<host, flushes>>
        /\ toView # <<>> /\ toView' = Tail(toView)
    BY <1>2, HeardUnchanged DEF HearRejection
  <2>2. QED
    BY <1>1, <1>2, <2>1, RejectionTurns, QuietTurnStored
<1>3. CASE HearExternalChange
  <2>1. /\ UNCHANGED <<host, flushes>>
        /\ toView # <<>> /\ toView' = Tail(toView)
    BY <1>3, HeardUnchanged DEF HearExternalChange
  <2>2. QED
    BY <1>1, <1>3, <2>1, ExternalChangeTurns, QuietTurnStored
<1>4. CASE HearRevisionAdvanced
  <2>1. /\ UNCHANGED <<host, flushes>>
        /\ toView # <<>> /\ toView' = Tail(toView)
    BY <1>4, HeardUnchanged DEF HearRevisionAdvanced
  <2>2. QED
    BY <1>1, <1>4, <2>1, RevisionAdvancedTurns, QuietTurnStored
<1>5. CASE HearInvalid
  <2>1. /\ UNCHANGED <<host, flushes>>
        /\ toView # <<>> /\ toView' = Tail(toView)
    BY <1>5, HeardUnchanged DEF HearInvalid
  <2>2. QED
    BY <1>1, <1>5, <2>1, InvalidTurns, QuietTurnStored
<1>6. CASE HearAcknowledgement
  <2> DEFINE none == 0
  <2>1. /\ UNCHANGED <<host, flushes>>
        /\ toView # <<>> /\ toView' = Tail(toView)
        /\ Head(toView) \in In(toView) /\ Head(toView).type = "editAcknowledged"
    BY <1>1, <1>6, HeardUnchanged, HeardMessage DEF HearAcknowledgement
  <2>2. /\ Turns(<<>>)
        /\ sync'.flushWaiters \subseteq sync.flushWaiters
        /\ IF Acknowledges(sync, Head(toView))
           THEN sync'.acknowledgedGeneration = sync.inFlight.localGeneration
           ELSE sync'.acknowledgedGeneration = sync.acknowledgedGeneration
        /\ ledger'.asked = ledger.asked /\ ledger'.settled = ledger.settled
    BY <1>1, <1>6, AcknowledgementTurns
  <2>3. Acknowledges(sync, Head(toView)) => sync.inFlight.localGeneration \in ledger.settled
    BY <2>1 DEF Acknowledges, MatchesInFlight, Stored, Truth
  <2>4. sync'.acknowledgedGeneration \in ledger'.settled \cup {0}
    BY <2>2, <2>3 DEF Stored, AcknowledgedWasStored
  <2>5. In(<<>>) = {}
    BY InFew
  <2>6. Sincere(none, <<>>) /\ none \in Nat /\ none = 0
    BY <2>2, <2>4, <2>5 DEF Sincere
  <2> HIDE DEF none
  <2>7. QED
    BY <2>1, <2>2, <2>6, TurnStored
<1>7. CASE HearRecovery
  <2>1. /\ Head(toView) \in In(toView)
        /\ Head(toView).type = "invalidDocumentRecoveryResult"
    BY <1>1, <1>7, HeardMessage DEF HearRecovery
  <2>2. QED
    BY <2>1 DEF Stored, Plain
<1>8. CASE HearFlush
  <2> DEFINE flush == Head(toView).flush
             g == ledger'.asked[flush]
  <2>1. /\ UNCHANGED <<host, flushes>>
        /\ toView # <<>> /\ toView' = Tail(toView)
        /\ Head(toView).type = "requestFlush" /\ Head(toView) \in Inbox
    BY <1>1, <1>8, HeardUnchanged, HeardMessage DEF HearFlush
  <2>2. /\ sync'.acknowledgedGeneration = sync.acknowledgedGeneration
        /\ \A w \in sync'.flushWaiters :
              \/ w \in sync.flushWaiters
              \/ w.flush = flush /\ w.generation = g
        /\ ledger'.settled = ledger.settled
        /\ \A f \in 1 .. MaxFlushes : f # flush => ledger'.asked[f] = ledger.asked[f]
    BY <1>1, <1>8, FlushTurns
  <2>3. PICK posted \in Seq(Outbox) :
           /\ Turns(posted)
           /\ \A m \in In(posted) :
                 /\ m.type \in {"flushComplete", "flushFailed"}
                 /\ m.flush = flush
                 /\ m.type = "flushComplete" => g <= sync.acknowledgedGeneration
    BY <1>1, <1>8, FlushTurns
  <2>4. flush \in 1 .. MaxFlushes /\ flush \in Nat /\ flush # 0
    BY <2>1, InboxFields, SessionAssumption
  <2>5. Head(toView) = toView[1] /\ 1 \in DOMAIN toView
    BY <1>1, <2>1, HostFacts, InTail
  <2>6. Unheard(flush)
    BY <2>1, <2>5 DEF Stored, Asking
  <2>7. toView' # toView
    <3>1. Len(Tail(toView)) = Len(toView) - 1 /\ Len(toView) \in Nat
      BY <1>1, <2>1, HostFacts, HeadTailProperties, LenProperties
    <3> DEFINE n == Len(toView)
    <3>2. Len(toView') = n - 1 /\ n \in Nat
      BY <2>1, <3>1
    <3> HIDE DEF n
    <3>3. Len(toView') # n
      BY <3>2
    <3>4. QED
      BY <3>3 DEF n
  <2>8. sync'.acknowledgedGeneration \in ledger'.settled \cup {0}
    BY <2>2 DEF Stored, AcknowledgedWasStored
  <2> HIDE DEF flush
  <2>9. Sincere(flush, posted)
    BY <2>2, <2>3, <2>4, <2>6, <2>8 DEF Sincere
  <2>10. flush = Head(toView).flush
    BY DEF flush
  <2>11. QED
    BY <2>1, <2>3, <2>4, <2>7, <2>9, <2>10, TurnStored
<1>9. QED
  BY <1>2, <1>3, <1>4, <1>5, <1>6, <1>7, <1>8 DEF Hear

----------------------------------------------------------------------------
(* What was stored: a step of the host, of VS Code or of another writer *)

\* A message the host may post for the requests it has.
Fair(m) ==
    /\ m.type # "invalidDocumentRecoveryResult"
    /\ m.type \in {"editAcknowledged", "editRejected"} =>
          \E r \in Carried :
             /\ m.editId = r.editId
             /\ m.type = "editAcknowledged" => r.localGeneration \in ledger'.settled

\* A step of the host that answers what it was asked.
LEMMA HostStored ==
    ASSUME Stored, Typed', UNCHANGED <<sync, view>>,
           Messages' \subseteq Messages, In(toHost') \subseteq In(toHost),
           \A q \in Cached' : \/ q \in Cached
                              \/ \E r \in Carried :
                                    /\ q.componentRevisions = r.componentRevisions
                                    /\ q.mutation = r.mutation,
           \A m \in In(toView') : m \in In(toView) \/ Fair(m),
           ledger.settled \subseteq ledger'.settled, ledger'.asked = ledger.asked,
           DOMAIN flushes \subseteq DOMAIN flushes',
           Whole', Asking', FlushMeansStored'
    PROVE  Stored'
<1>1. /\ Typed /\ Numbers /\ Pasts /\ Plain /\ Truth /\ Awaited /\ Honest
      /\ AcknowledgedWasStored
  BY DEF Stored
<1>2. Carried' \subseteq Carried
  BY DEF Carried
<1>3. Numbers'
  <2>1. \A m \in In(toView') : m.type \in {"editAcknowledged", "editRejected"}
                                  => m.editId < sync'.nextEditId
    BY <1>1 DEF Numbers, Fair
  <2>2. QED
    BY <1>1, <1>2, <2>1 DEF Numbers
<1>4. Pasts'
  <2>1. \A q \in Carried' \cup Cached' :
           \E r \in Carried \cup Cached :
              /\ q.componentRevisions = r.componentRevisions
              /\ q.mutation = r.mutation
    BY <1>2
  <2>2. ASSUME NEW q \in Carried' \cup Cached'
        PROVE  Earlier(q, sync')
    BY <1>1, <2>1 DEF Pasts, Earlier
  <2>3. ASSUME NEW p \in Carried' \cup Cached', NEW q \in Carried' \cup Cached'
        PROVE  Agree(p, q)
    BY <1>1, <2>1 DEF Pasts, Agree
  <2>4. QED
    BY <2>2, <2>3 DEF Pasts
<1>5. Plain'
  BY <1>1 DEF Plain, Fair
<1>6. Truth'
  <2>1. ASSUME NEW m \in In(toView'), m.type = "editAcknowledged",
               sync.inFlight # Null, sync.inFlight.editId = m.editId
        PROVE  sync.inFlight.localGeneration \in ledger'.settled
    <3>1. CASE m \in In(toView)
      BY <1>1, <2>1, <3>1 DEF Truth
    <3>2. CASE Fair(m)
      BY <1>1, <2>1, <3>2 DEF Fair, Numbers
    <3>3. QED
      BY <3>1, <3>2
  <2>2. QED
    BY <2>1 DEF Truth
<1>7. Awaited' /\ Honest'
  BY <1>1 DEF Awaited, Honest, Kept
<1>8. AcknowledgedWasStored'
  BY <1>1 DEF AcknowledgedWasStored
<1>9. QED
  BY <1>3, <1>4, <1>5, <1>6, <1>7, <1>8 DEF Stored

\* The places of a queue that a posted message joined.
LEMMA AppendPlaces ==
    ASSUME NEW S, NEW q \in Seq(S), NEW x \in S
    PROVE  \A i \in DOMAIN Append(q, x) :
              \/ i \in DOMAIN q /\ Append(q, x)[i] = q[i]
              \/ i = Len(q) + 1 /\ Append(q, x)[i] = x
<1> DEFINE p == Append(q, x)
<1>1. /\ p \in Seq(S)
      /\ Len(p) = Len(q) + 1
      /\ \A i \in 1 .. Len(q) : p[i] = q[i]
      /\ p[Len(q) + 1] = x
  BY AppendProperties
<1> HIDE DEF p
<1>2. /\ Len(q) \in Nat
      /\ DOMAIN q = 1 .. Len(q)
      /\ DOMAIN p = 1 .. Len(q) + 1
  BY <1>1, LenProperties
<1>3. \A i \in 1 .. Len(q) + 1 : i = Len(q) + 1 \/ i \in 1 .. Len(q)
  BY <1>2
<1>4. QED
  BY <1>1, <1>2, <1>3 DEF p

\* The flushes still to be heard of, when the host posts no other.
LEMMA AskingStays ==
    ASSUME Typed, Asking, sync' = sync, In(toHost') \subseteq In(toHost),
           \A f : Unheard(f) => f \in DOMAIN flushes' /\ flushes'[f] # "resolved",
           \/ toView' = toView
           \/ \E m \in Inbox : Post(m) /\ m.type # "requestFlush"
    PROVE  Asking'
<1>1. \A i \in DOMAIN toView' : toView'[i].type = "requestFlush" =>
         i \in DOMAIN toView /\ toView'[i] = toView[i]
  <2>1. CASE toView' = toView
    BY <2>1
  <2>2. ASSUME NEW m \in Inbox, Post(m), m.type # "requestFlush"
        PROVE  \A i \in DOMAIN toView' : toView'[i].type = "requestFlush" =>
                  i \in DOMAIN toView /\ toView'[i] = toView[i]
    BY <2>2, HostFacts, AppendPlaces DEF Post
  <2>3. QED
    BY <2>1, <2>2
<1>2. \A f : Unheard(f) => Unheard(f)'
  BY DEF Unheard
<1>3. QED
  BY <1>1, <1>2 DEF Asking, Unheard

\* A step of the host that settles no flush and posts at most one message.
LEMMA AnswerStored ==
    ASSUME Stored, Typed', UNCHANGED <<sync, view, flushes>>,
           Messages' \subseteq Messages, In(toHost') \subseteq In(toHost),
           \A q \in Cached' : \/ q \in Cached
                              \/ \E r \in Carried :
                                    /\ q.componentRevisions = r.componentRevisions
                                    /\ q.mutation = r.mutation,
           \/ toView' = toView
           \/ \E m \in Inbox : Post(m) /\ Fair(m) /\ m.type # "requestFlush",
           ledger.settled \subseteq ledger'.settled, ledger'.asked = ledger.asked,
           Whole'
    PROVE  Stored'
<1>1. Typed /\ Asking /\ FlushMeansStored
  BY DEF Stored
<1>2. \A f : Unheard(f) => f \in DOMAIN flushes' /\ flushes'[f] # "resolved"
  BY DEF Unheard
<1>3. Asking'
  BY <1>1, <1>2, AskingStays
<1>4. FlushMeansStored'
  BY <1>1 DEF FlushMeansStored
<1>5. \A m \in In(toView') : m \in In(toView) \/ Fair(m)
  <2>1. ASSUME NEW m \in Inbox, Post(m), Fair(m)
        PROVE  \A x \in In(toView') : x \in In(toView) \/ Fair(x)
    <3>1. In(toView') = In(toView) \cup {m}
      BY <1>1, <2>1, PostTyped
    <3>2. QED
      BY <2>1, <3>1
  <2>2. QED
    BY <2>1
<1>6. QED
  BY <1>3, <1>4, <1>5, HostStored

\* The oldest message of a queue was one of the messages under way.
LEMMA UnderWayFacts ==
    ASSUME Stored
    PROVE  /\ Typed /\ Plain
           /\ \A m \in Messages : /\ m \in Outbox
                                  /\ m.type # "recoverInvalidDocument" /\ m.type # "ready"
                                  /\ m.type = "edit" => m.request \in Carried
           /\ host.applying # Null =>
                 /\ host.applying.message \in Messages
                 /\ host.applying.message.type = "edit"
                 /\ host.applying.message.request \in Carried
<1>1. Typed /\ Plain
  BY DEF Stored
<1>2. \A m \in Messages : /\ m \in Outbox
                          /\ m.type # "recoverInvalidDocument" /\ m.type # "ready"
                          /\ m.type = "edit" => m.request \in Carried
  BY <1>1, CarriedTyped DEF Plain, Carried
<1>3. ASSUME host.applying # Null
      PROVE  /\ host.applying.message \in Messages
             /\ host.applying.message.type = "edit"
             /\ host.applying.message.request \in Carried
  <2>1. host.applying.message \in Messages
    BY <1>3 DEF Messages, Tasked
  <2>2. host.applying.message.type \in {"edit", "recoverInvalidDocument"}
    BY <1>1, <1>3, HostFacts DEF Tasks
  <2>3. QED
    BY <1>2, <2>1, <2>2
<1>4. QED
  BY <1>1, <1>2, <1>3

\* A message arrives: a flush is complete only if what it asked for is stored.
LEMMA ArriveStored ==
    ASSUME Stored, Arrive
    PROVE  Stored'
<1> DEFINE message == Head(toHost)
<1>1. /\ toHost # <<>> /\ toHost' = Tail(toHost)
      /\ UNCHANGED <<sync, view, doc, ledger>>
  BY DEF Arrive
<1>2. Typed /\ Typed'
  BY ArriveTyped, UnderWayFacts
<1>3. /\ message \in Outbox /\ message \in In(toHost) /\ message \in Messages
      /\ In(toHost') \subseteq In(toHost)
  BY <1>1, <1>2, HostFacts, InTail DEF Messages
<1>4. CASE /\ host.blocked /\ message.type \notin ReadOnlySafe
           /\ IF message.type = "edit"
              THEN Post(Rejected(message.request, "INVALID_DOCUMENT"))
              ELSE UNCHANGED toView
           /\ UNCHANGED <<host, flushes>>
  <2>1. Messages' \subseteq Messages /\ Cached' = Cached /\ Whole'
    BY <1>1, <1>3, <1>4 DEF Messages, Tasked, Cached, Stored, Whole
  <2>2. \/ toView' = toView
        \/ \E m \in Inbox : Post(m) /\ Fair(m) /\ m.type # "requestFlush"
    <3>1. CASE message.type = "edit"
      <4> DEFINE m == Rejected(message.request, "INVALID_DOCUMENT")
      <4>1. message.request \in Requests /\ message.request \in Carried
        BY <1>3, <3>1, OutboxFields, UnderWayFacts
      <4>2. /\ m \in Inbox /\ m.type = "editRejected"
            /\ m.editId = message.request.editId
        BY <1>2, <4>1, AnswersOfHostTyped DEF ErrorCodes
      <4>3. Post(m)
        BY <1>4, <3>1
      <4> HIDE DEF m, message
      <4>4. QED
        BY <4>1, <4>2, <4>3 DEF Fair
    <3>2. CASE message.type # "edit"
      BY <1>4, <3>2
    <3>3. QED
      BY <3>1, <3>2
  <2> HIDE DEF message
  <2>3. QED
    BY <1>1, <1>2, <1>3, <1>4, <2>1, <2>2, AnswerStored
<1>5. CASE /\ message.type = "flushComplete"
           /\ SettleFlush(message.flush, "resolved")
           /\ UNCHANGED <<host, toView>>
  <2> DEFINE flush == message.flush
  <2>1. flush \in DOMAIN flushes /\ Kept(flush)
    BY <1>3, <1>5 DEF Stored, Honest
  <2>2. \A f : Unheard(f) => f # flush
    BY <1>3, <1>5 DEF Unheard
  <2> HIDE DEF flush
  <2>3. /\ DOMAIN flushes' = DOMAIN flushes
        /\ \A f \in DOMAIN flushes : f # flush => flushes'[f] = flushes[f]
    BY <1>2, <1>5, HostFacts, SettledTyped DEF SettleFlush, Outcomes, flush
  <2>4. Asking'
    BY <1>1, <1>2, <1>3, <1>5, <2>2, <2>3, AskingStays DEF Stored, Unheard
  <2>5. FlushMeansStored'
    BY <1>1, <2>1, <2>3 DEF Stored, FlushMeansStored, Kept
  <2>6. Messages' \subseteq Messages /\ Cached' = Cached /\ Whole'
    BY <1>1, <1>3, <1>5 DEF Messages, Tasked, Cached, Stored, Whole
  <2> HIDE DEF message
  <2>7. QED
    BY <1>1, <1>2, <1>3, <1>5, <2>3, <2>4, <2>5, <2>6, HostStored
<1>6. CASE /\ SettleFlush(message.flush, "rejected")
           /\ UNCHANGED <<host, toView>>
  <2> DEFINE flush == message.flush
  <2>1. /\ DOMAIN flushes' = DOMAIN flushes
        /\ \A f \in DOMAIN flushes : flushes'[f] = flushes[f] \/ flushes'[f] = "rejected"
    BY <1>2, <1>6, HostFacts, SettledTyped DEF SettleFlush, Outcomes
  <2>2. Asking'
    BY <1>1, <1>2, <1>3, <1>6, <2>1, AskingStays DEF Stored, Unheard
  <2>3. FlushMeansStored'
    BY <1>1, <2>1 DEF Stored, FlushMeansStored
  <2>4. Messages' \subseteq Messages /\ Cached' = Cached /\ Whole'
    BY <1>1, <1>3, <1>6 DEF Messages, Tasked, Cached, Stored, Whole
  <2> HIDE DEF message
  <2>5. QED
    BY <1>1, <1>2, <1>3, <1>6, <2>1, <2>2, <2>3, <2>4, HostStored
<1>7. CASE /\ host' = [host EXCEPT !.queue = Append(@, message)]
           /\ UNCHANGED <<toView, flushes>>
  <2>1. In(Append(host.queue, message)) = In(host.queue) \cup {message}
    BY <1>2, <1>3, HostFacts, InAppend
  <2>2. /\ host'.queue = Append(host.queue, message)
        /\ host'.applying = host.applying /\ host'.cache = host.cache
    BY <1>2, <1>7, HostFacts DEF Hosts
  <2>3. Tasked' = Tasked /\ Cached' = Cached
    BY <2>2 DEF Tasked, Cached
  <2>4. Messages' \subseteq Messages
    BY <1>3, <2>1, <2>2, <2>3 DEF Messages
  <2>5. Whole'
    BY <1>1, <2>2 DEF Stored, Whole
  <2> HIDE DEF message
  <2>6. QED
    BY <1>1, <1>2, <1>3, <1>7, <2>3, <2>4, <2>5, AnswerStored
<1>8. QED
  BY <1>4, <1>5, <1>6, <1>7 DEF Arrive

\* What the cache completes an edit with is what the edit carries.
LEMMA PersistedWhole ==
    ASSUME Typed, Pasts, NEW request \in Carried
    PROVE  Persisted(host.cache, doc.version, request) = request.mutation
<1> DEFINE text == Persisted(host.cache, doc.version, request)
<1>1. request \in Requests /\ request.mutation \in Mutations
  BY CarriedTyped DEF Requests
<1>2. text \in Mutations
  BY <1>1, HostFacts, PersistedTyped
<1>3. ASSUME NEW c \in Components
      PROVE  text[c] = request.mutation[c]
  <2>1. text[c] = IF /\ Resolves(host.cache, doc.version, request)
                     /\ c \in Reused(host.cache, request)
                  THEN host.cache.text[c] ELSE request.mutation[c]
    BY DEF Persisted
  <2>2. CASE /\ Resolves(host.cache, doc.version, request)
             /\ c \in Reused(host.cache, request)
    <3> DEFINE q == [componentRevisions |-> host.cache.components,
                     mutation           |-> host.cache.text]
    <3>1. q \in Cached
      BY <2>2 DEF Resolves, Cached
    <3>2. Agree(request, q)
      BY <3>1 DEF Pasts
    <3>3. request.componentRevisions[c] = host.cache.components[c]
      BY <2>2 DEF Reused
    <3>4. QED
      BY <2>1, <2>2, <3>2, <3>3 DEF Agree
  <2>3. QED
    BY <2>1, <2>2
<1> HIDE DEF text
<1>4. text = request.mutation
  BY <1>1, <1>2, <1>3 DEF Mutations, Components
<1>5. QED
  BY <1>4 DEF text

\* The tasks of the serial queue.
LEMMA HandleStored ==
    ASSUME Stored, Handle
    PROVE  Stored'
<1> DEFINE message == Head(host.queue)
<1>1. HandleEdit \/ HandleAdopted \/ HandleRecover \/ HandleReady
  BY DEF Handle
<1>2. /\ host.queue # <<>> /\ host.applying = Null
      /\ UNCHANGED <<doc, flushes, ledger, sync, view, toHost>>
  BY <1>1 DEF HandleEdit, HandleAdopted, HandleRecover, HandleReady, Handles, ViewUnchanged
<1>3. Typed /\ Typed'
  BY HandleTyped, UnderWayFacts
<1>4. /\ message \in Outbox /\ message \in Messages
      /\ In(Tail(host.queue)) \subseteq In(host.queue)
      /\ Dequeued \in Hosts /\ Dequeued.queue = Tail(host.queue)
      /\ Dequeued.applying = Null /\ Dequeued.cache = host.cache
  BY <1>2, <1>3, DequeuedTyped DEF Messages
<1>5. CASE /\ host'.queue = Tail(host.queue) /\ host'.applying = Null
           /\ host'.cache = host.cache \/ host'.cache = Null
           /\ \/ toView' = toView
              \/ \E m \in Inbox : Post(m) /\ Fair(m) /\ m.type # "requestFlush"
  <2>1. Tasked' = {} /\ Messages' \subseteq Messages
    BY <1>2, <1>4, <1>5 DEF Tasked, Messages
  <2>2. Cached' \subseteq Cached /\ Whole'
    BY <1>5 DEF Cached, Whole
  <2>3. QED
    BY <1>2, <1>3, <1>5, <2>1, <2>2, AnswerStored
<1>6. CASE HandleEdit
  <2>1. message.type = "edit" /\ message.request \in Carried
    BY <1>4, <1>6, UnderWayFacts DEF HandleEdit, Handles
  <2>2. message \in EditMessages /\ message.request \in Requests
    BY <1>4, <2>1, OutboxFields
  <2>3. CASE ~IsCurrent(message.request)
    <3> DEFINE m == Rejected(message.request, "STALE_REVISION")
    <3>1. host' = [Dequeued EXCEPT !.cache = Null] /\ Post(m)
      BY <1>6, <2>3 DEF HandleEdit
    <3>2. /\ m \in Inbox /\ m.type = "editRejected"
          /\ m.editId = message.request.editId
      BY <1>3, <2>2, AnswersOfHostTyped DEF ErrorCodes
    <3> HIDE DEF m, message
    <3>3. Fair(m) /\ m.type # "requestFlush"
      BY <2>1, <3>2 DEF Fair
    <3>4. /\ host'.queue = Tail(host.queue) /\ host'.applying = Null
          /\ host'.cache = Null
      BY <1>4, <3>1 DEF Hosts
    <3>5. QED
      BY <1>5, <3>1, <3>2, <3>3, <3>4
  <2>4. CASE IsCurrent(message.request)
    <3>1. host' = Applying(message) /\ toView' = toView
      BY <1>6, <2>4 DEF HandleEdit
    <3> HIDE DEF message
    <3>2. /\ host'.queue = Tail(host.queue)
          /\ host'.cache = host.cache
          /\ host'.applying # Null
          /\ host'.applying.message = message
          /\ host'.applying.outcome = "unknown"
          /\ host'.applying.text = Persisted(host.cache, doc.version, message.request)
      BY <1>2, <1>3, <2>1, <2>2, <3>1, ApplyingTyped
    <3>3. Tasked' = {message} /\ Messages' \subseteq Messages /\ Cached' = Cached
      BY <1>2, <1>4, <3>2 DEF Tasked, Messages, Cached
    <3>4. host'.applying.text = message.request.mutation
      BY <1>3, <2>1, <3>2, PersistedWhole DEF Stored
    <3>5. Whole'
      BY <3>2, <3>4 DEF Whole
    <3>6. QED
      BY <1>2, <1>3, <3>1, <3>3, <3>5, AnswerStored
  <2>5. QED
    BY <2>3, <2>4
<1>7. CASE HandleAdopted
  <2>1. /\ toView' = toView
        /\ \/ host' = Dequeued
           \/ host' = [Dequeued EXCEPT !.lastLocal = doc.text, !.cache = Null]
    BY <1>7 DEF HandleAdopted
  <2>2. /\ host'.queue = Tail(host.queue) /\ host'.applying = Null
        /\ host'.cache = host.cache \/ host'.cache = Null
    BY <1>4, <2>1 DEF Hosts
  <2>3. QED
    BY <1>5, <2>1, <2>2
<1>8. CASE HandleRecover \/ HandleReady
  BY <1>4, <1>8, UnderWayFacts DEF HandleRecover, HandleReady, Handles
<1>9. QED
  BY <1>1, <1>6, <1>7, <1>8

\* VS Code applies the edit, and the ledger notes it.
LEMMA ApplyEditStored ==
    ASSUME Stored, ApplyEdit
    PROVE  Stored'
<1> DEFINE task == host.applying
           generation == task.message.request.localGeneration
<1>1. /\ task # Null
      /\ host'.queue = host.queue /\ host'.cache = host.cache
      /\ host'.applying # Null
      /\ host'.applying.message = task.message
      /\ host'.applying.text = task.text
      /\ UNCHANGED <<toView, flushes, sync, view, toHost>>
  BY UnderWayFacts, ApplyEditEffect
<1>2. task.message.type = "edit" /\ task.text = task.message.request.mutation
  BY <1>1, UnderWayFacts DEF Stored, Whole
<1>3. \/ /\ host'.applying.outcome = "applied"
         /\ ledger' = [ledger EXCEPT !.settled = @ \cup {generation}]
      \/ /\ host'.applying.outcome = "refused"
         /\ ledger' = ledger
  BY <1>2, UnderWayFacts, ApplyEditEffect
<1> HIDE DEF generation
<1>4. /\ ledger'.asked = ledger.asked
      /\ ledger.settled \subseteq ledger'.settled
      /\ host'.applying.outcome = "applied" => generation \in ledger'.settled
  BY <1>3, UnderWayFacts, HostFacts DEF Ledgers
<1>5. Whole'
  BY <1>1, <1>2, <1>4 DEF Whole, generation
<1>6. Tasked' = Tasked /\ Messages' = Messages /\ Cached' = Cached
  BY <1>1 DEF Tasked, Messages, Cached
<1>7. Typed'
  BY ApplyEditTyped, UnderWayFacts
<1>8. QED
  BY <1>1, <1>4, <1>5, <1>6, <1>7, AnswerStored

\* The task answers the webview: it acknowledges what VS Code applied.
LEMMA ResumeStored ==
    ASSUME Stored, Resume
    PROVE  Stored'
<1> DEFINE task == host.applying
           request == task.message.request
<1>1. /\ task # Null /\ task.outcome # "unknown"
      /\ host'.queue = host.queue /\ host'.applying = Null
      /\ UNCHANGED <<doc, flushes, ledger, sync, view, toHost>>
  BY UnderWayFacts, ResumeEffect
<1>2. /\ task.message.type = "edit" /\ request \in Carried
      /\ task.text = request.mutation
      /\ task.outcome = "applied" => request.localGeneration \in ledger.settled
  BY <1>1, UnderWayFacts DEF Stored, Whole
<1>3. PICK m \in Inbox :
         /\ Post(m)
         /\ IF Confirmed(task)
            THEN /\ m.type = "editAcknowledged" /\ m.editId = request.editId
                 /\ host'.cache = CacheOf(doc.version, request, task.text)
            ELSE /\ m.type = "editRejected" /\ host'.cache = Null
                 /\ m.editId = request.editId
  BY <1>2, UnderWayFacts, ResumeEffect
<1>4. Confirmed(task) => task.outcome = "applied"
  BY DEF Confirmed
<1> HIDE DEF task, request
<1>5. Fair(m) /\ m.type # "requestFlush"
  BY <1>1, <1>2, <1>3, <1>4 DEF Fair
<1>6. \A q \in Cached' : /\ q.componentRevisions = request.componentRevisions
                         /\ q.mutation = request.mutation
  BY <1>2, <1>3 DEF Cached, CacheOf
<1>7. Tasked' = {} /\ Messages' \subseteq Messages /\ Whole'
  BY <1>1 DEF Tasked, Messages, Whole
<1>8. Typed'
  BY ResumeTyped, UnderWayFacts
<1>9. QED
  BY <1>1, <1>2, <1>3, <1>5, <1>6, <1>7, <1>8, AnswerStored

\* Another writer's text: the cache is dropped.
LEMMA ExternalWriteStored ==
    ASSUME Stored, ExternalWrite
    PROVE  Stored'
<1>1. /\ host'.queue = host.queue /\ host'.applying = host.applying
      /\ host'.cache = Null
      /\ UNCHANGED <<flushes, ledger, sync, view, toHost>>
      /\ \E m \in Inbox : Post(m) /\ m.type \in ChangeTypes
  BY UnderWayFacts, ExternalWriteEffect
<1>2. \A m : m.type \in ChangeTypes => Fair(m) /\ m.type # "requestFlush"
  BY DEF ChangeTypes, Fair
<1>3. Tasked' = Tasked /\ Messages' \subseteq Messages /\ Cached' = {}
  BY <1>1 DEF Tasked, Messages, Cached
<1>4. Whole'
  BY <1>1 DEF Stored, Whole
<1>5. Typed'
  BY ExternalWriteTyped, UnderWayFacts
<1>6. QED
  BY <1>1, <1>2, <1>3, <1>4, <1>5, AnswerStored

\* A flush under a number nobody has heard of, and one that is given up.
LEMMA FlushesStored ==
    ASSUME Stored, RequestFlush \/ FlushTimesOut
    PROVE  Stored'
<1>1. /\ Typed /\ Awaited /\ Honest /\ Asking /\ FlushMeansStored
      /\ Typed'
  BY FlushesTyped DEF Stored
<1>2. UNCHANGED <<host, doc, ledger, sync, view, toHost>>
  BY DEF RequestFlush, FlushTimesOut, ViewUnchanged
<1>3. Messages' \subseteq Messages /\ Cached' = Cached /\ Whole'
  BY <1>2 DEF Messages, Tasked, Cached, Stored, Whole
<1>4. CASE RequestFlush
  <2>0. PICK n : n = Len(flushes) + 1
    OBVIOUS
  <2> DEFINE m == [type |-> "requestFlush", flush |-> n]
  <2>1. Post(m) /\ flushes' = Append(flushes, "waiting") /\ Len(flushes) < MaxFlushes
    BY <1>4, <2>0 DEF RequestFlush
  <2>2. /\ DOMAIN flushes = 1 .. Len(flushes) /\ Len(flushes) \in Nat
        /\ flushes \in Seq(Outcomes) /\ "waiting" \in Outcomes
    BY <1>1, HostFacts, LenProperties DEF Outcomes
  <2>3. n \notin DOMAIN flushes /\ n # 0
    BY <2>0, <2>2
  <2>4. /\ n \in DOMAIN flushes' /\ flushes'[n] = "waiting"
        /\ DOMAIN flushes \subseteq DOMAIN flushes'
        /\ \A f \in DOMAIN flushes : flushes'[f] = flushes[f]
        /\ \A f \in DOMAIN flushes' : f \in DOMAIN flushes \/ f = n
    <3> DEFINE p == Append(flushes, "waiting")
    <3>1. /\ p \in Seq(Outcomes) /\ Len(p) = Len(flushes) + 1
          /\ \A i \in 1 .. Len(flushes) : p[i] = flushes[i]
          /\ p[Len(flushes) + 1] = "waiting"
      BY <2>2, AppendProperties
    <3> HIDE DEF p
    <3>2. DOMAIN p = 1 .. Len(flushes) + 1
      BY <2>2, <3>1, LenProperties
    <3>3. QED
      BY <2>0, <2>1, <2>2, <3>1, <3>2 DEF p
  <2>5. m \in Inbox /\ m.type = "requestFlush" /\ m.flush = n
    <3>1. n \in 1 .. MaxFlushes
      BY <2>0, <2>1, <2>2, SessionAssumption
    <3>2. QED
      BY <3>1 DEF Inbox
  <2> HIDE DEF m
  <2>6. \A i \in DOMAIN toView' : \/ i \in DOMAIN toView /\ toView'[i] = toView[i]
                                  \/ i = Len(toView) + 1 /\ toView'[i] = m
    BY <1>1, <2>1, <2>5, HostFacts, AppendPlaces DEF Post
  <2>7. In(toView') = In(toView) \cup {m}
    BY <1>1, <2>1, <2>5, PostTyped
  <2>8. Unheard(n)'
    BY <1>1, <1>2, <2>3, <2>4 DEF Unheard, Awaited, Honest
  <2>9. \A f : Unheard(f) => f \in DOMAIN flushes /\ Unheard(f)'
    BY <1>2, <2>4 DEF Unheard
  <2>10. Asking'
    <3>1. ASSUME NEW i \in DOMAIN toView', toView'[i].type = "requestFlush"
          PROVE  \/ /\ i \in DOMAIN toView /\ toView'[i] = toView[i]
                    /\ toView[i].flush # n
                 \/ i = Len(toView) + 1 /\ toView'[i] = m
      BY <1>1, <2>3, <2>6, <2>9, <3>1 DEF Asking
    <3>2. QED
      BY <1>1, <2>5, <2>8, <2>9, <3>1 DEF Asking, Unheard
  <2>11. FlushMeansStored'
    BY <1>1, <1>2, <2>4 DEF FlushMeansStored
  <2>12. Fair(m)
    BY <2>5 DEF Fair
  <2>13. QED
    BY <1>1, <1>2, <1>3, <2>4, <2>7, <2>10, <2>11, <2>12, HostStored
<1>5. CASE FlushTimesOut
  <2>1. PICK flush \in DOMAIN flushes : flushes' = [flushes EXCEPT ![flush] = "rejected"]
    BY <1>5 DEF FlushTimesOut
  <2>2. /\ DOMAIN flushes' = DOMAIN flushes
        /\ \A f \in DOMAIN flushes : flushes'[f] = flushes[f] \/ flushes'[f] = "rejected"
    BY <1>1, <2>1, HostFacts, SettledTyped DEF Outcomes
  <2>3. toView' = toView
    BY <1>5 DEF FlushTimesOut
  <2>4. Asking'
    BY <1>1, <1>2, <2>2, <2>3, AskingStays DEF Unheard
  <2>5. FlushMeansStored'
    BY <1>1, <1>2, <2>2 DEF FlushMeansStored
  <2>6. QED
    BY <1>1, <1>2, <1>3, <2>2, <2>3, <2>4, <2>5, HostStored
<1>6. QED
  BY <1>4, <1>5

----------------------------------------------------------------------------
(* What was stored: the theorems *)

\* The session starts with nothing to answer and a cache of what it loaded.
LEMMA InitStored ==
    ASSUME Init
    PROVE  Stored
<1>1. Typed
  BY InitTyped
<1>2. /\ sync.localMutation = Start /\ sync.acknowledgedGeneration = 0
      /\ sync.inFlight = Null /\ sync.flushWaiters = {}
      /\ \A c \in Components : sync.componentRevisions[c] = 0
  BY LoadedSound DEF Init
<1>3. /\ toHost = <<>> /\ toView = <<>> /\ flushes = <<>>
      /\ host.queue = <<>> /\ host.applying = Null
      /\ host.cache = LoadedCache(1, Start)
      /\ ~view.recovering
  BY DEF Init
<1>4. DOMAIN toView = {} /\ DOMAIN flushes = {}
  BY <1>3
<1>5. /\ In(toHost) = {} /\ In(toView) = {} /\ In(host.queue) = {} /\ Tasked = {}
  BY <1>3, InFew DEF Tasked
<1>6. Messages = {} /\ Carried = {}
  BY <1>5 DEF Messages, Carried
<1>7. \A q \in Cached : /\ \A c \in Components : q.componentRevisions[c] = 0
                        /\ q.mutation = Start
  BY <1>3 DEF Cached, LoadedCache
<1>8. Numbers /\ Plain /\ Whole /\ Truth
  BY <1>3, <1>5, <1>6 DEF Numbers, Plain, Whole, Truth
<1>9. Pasts
  BY <1>2, <1>6, <1>7 DEF Pasts, Earlier, Agree
<1>10. Awaited /\ Honest /\ Asking
  BY <1>2, <1>4, <1>5 DEF Awaited, Honest, Asking
<1>11. AcknowledgedWasStored /\ FlushMeansStored
  BY <1>2, <1>4 DEF AcknowledgedWasStored, FlushMeansStored
<1>12. QED
  BY <1>1, <1>8, <1>9, <1>10, <1>11 DEF Stored

\* Every action keeps the second invariant.
LEMMA NextStored ==
    ASSUME Untouched, Stored, Next
    PROVE  Stored'
<1>1. CASE User \/ Debounce
  BY <1>1, UserStored
<1>2. CASE Hear
  BY <1>2, HearStored
<1>3. CASE Arrive \/ Handle \/ ApplyEdit \/ Resume
  BY <1>3, ArriveStored, HandleStored, ApplyEditStored, ResumeStored
<1>4. CASE ExternalWrite \/ RequestFlush \/ FlushTimesOut
  BY <1>4, ExternalWriteStored, FlushesStored
<1>5. QED
  BY <1>1, <1>2, <1>3, <1>4 DEF Next

\* The second invariant holds where the source is not recovered.
LEMMA StoredHolds ==
    ASSUME Untouched
    PROVE  Spec => []Stored
<1>1. Init => Stored
  BY InitStored
<1>2. Stored /\ [Next]_vars => Stored'
  <2>1. CASE Next
    BY <2>1, NextStored
  <2>2. ASSUME Stored, UNCHANGED vars
        PROVE  Stored'
    <3>1. UNCHANGED <<sync, view, toHost, toView, host, doc, flushes, ledger>>
      BY <2>2 DEF vars
    <3>2. Typed'
      BY <2>2, <3>1 DEF Stored, Typed, TypeOK, Recent, RevisionsBehindDocument, Within,
                        Sound, Consistent
    <3>3. Messages' = Messages /\ Cached' = Cached
      BY <3>1 DEF Messages, Tasked, Cached
    <3>4. Whole'
      BY <2>2, <3>1 DEF Stored, Whole
    <3>5. QED
      BY <2>2, <3>1, <3>2, <3>3, <3>4, AnswerStored
  <2>3. QED
    BY <2>1, <2>2
<1>3. QED
  BY <1>1, <1>2, PTL DEF Spec

\* DocumentSyncCoordinator.acknowledge and SdocEditorProvider.updateDocument:
\* whatever else writes the document, and however late answers arrive, the
\* webview counts a generation as confirmed only if VS Code applied exactly
\* that draft, or the user gave it up for a reload.
THEOREM AcknowledgedStored ==
    ASSUME Untouched
    PROVE  Spec => []AcknowledgedWasStored
<1>1. Stored => AcknowledgedWasStored
  BY DEF Stored
<1>2. QED
  BY <1>1, StoredHolds, PTL

\* SaveCoordinator.afterAcknowledged and flushEditor: a flush the host saw
\* resolved, before a save, an export or a navigation, stored everything that
\* was typed before the webview heard of it.
THEOREM FlushStored ==
    ASSUME Untouched
    PROVE  Spec => []FlushMeansStored
<1>1. Stored => FlushMeansStored
  BY DEF Stored
<1>2. QED
  BY <1>1, StoredHolds, PTL

----------------------------------------------------------------------------
(* What is quiet is stored: the invariant *)

\* The user neither gives up the draft nor decides about an invalid source.
Persevering == Choices \subseteq {"keep", "retry"}

\* The webview has heard of no broken source, and will not hear of one so far.
Sane ==
    /\ view.access = "editable"
    /\ \A m \in In(toView) : m.type # "externalInvalidDocument"

\* The editor's content is the coordinator's, unless something is typed; a notice
\* of the coordinator is on display, and no notice is behind what was acknowledged.
Shows ==
    /\ view.tracked = sync.localMutation.content
    /\ view.typed \/ view.content = view.tracked
    /\ sync.externalChange # Null => view.notice = sync.externalChange
    /\ view.notice # Null => view.notice.revision >= sync.acknowledgedRevision

\* An error waits with the draft.
ErrorWaits(s) == s.error # Null => s.inFlight = Null /\ s.pending # Null

\* A request is written on what was acknowledged.
Waits ==
    /\ ErrorWaits(sync)
    /\ sync.inFlight # Null => sync.inFlight.baseRevision <= sync.acknowledgedRevision

\* The host writes, nobody adopts anything, and a task is an edit planned on the
\* version it was written on.
Writes ==
    /\ ~host.blocked /\ doc.text # Invalid
    /\ \A m \in Messages : m.type # "externalChangeAdopted"
    /\ host.applying # Null =>
          /\ host.applying.source = host.applying.message.request.baseRevision
          /\ host.applying.source <= doc.version
          /\ host.applying.outcome = "applied" => host.applying.source < doc.version

\* VS Code applied the edit, and neither the host nor anybody else wrote since.
Unreported ==
    /\ host.applying # Null /\ host.applying.outcome = "applied"
    /\ doc.version = host.applying.source + 1

\* What is said of a revision.
Dated(m) == m.type # "requestFlush"

\* Nobody has heard of such a version.
Secret ==
    Unreported =>
        /\ doc.text = host.applying.text
        /\ sync.acknowledgedRevision < doc.version
        /\ view.notice # Null => view.notice.revision < doc.version
        /\ \A m \in In(toView) : Dated(m) => m.revision < doc.version

\* Of these messages each is of a version of its own.
News == {"externalChange", "documentRevisionAdvanced", "editAcknowledged"}

\* m comes after a revision.
After(m, revision) ==
    /\ revision <= m.revision
    /\ m.type \in News => revision < m.revision

\* x comes before y in a queue.
Precedes(q, x, y) == \E i, j \in DOMAIN q : i < j /\ q[i] = x /\ q[j] = y

\* Revisions reach the webview in order.
Ordered ==
    /\ \A m \in In(toView) : Dated(m) =>
          /\ After(m, sync.acknowledgedRevision)
          /\ view.notice # Null => After(m, view.notice.revision)
    /\ \A x, y \in In(toView) :
          Precedes(toView, x, y) /\ Dated(x) /\ Dated(y) => After(y, x.revision)

\* Edits and their answers, by number.
Counted(m) == m.type \in {"edit", "editAcknowledged", "editRejected"}

Number(m) == IF m.type = "edit" THEN m.request.editId ELSE m.editId

Below(S, T) == \A x \in S, y \in T : Counted(x) /\ Counted(y) => Number(x) < Number(y)

Rising(q) == \A x, y \in In(q) :
    Precedes(q, x, y) /\ Counted(x) /\ Counted(y) => Number(x) < Number(y)

\* Edits and answers are on their way in the order of their numbers.
Lined ==
    /\ Rising(toView) /\ Rising(host.queue) /\ Rising(toHost)
    /\ Below(In(toView), Messages)
    /\ Below(Tasked, In(host.queue) \cup In(toHost))
    /\ Below(In(host.queue), In(toHost))

\* The answers to the request in flight.
Settling == {m \in In(toView) : /\ m.type \in {"editAcknowledged", "editRejected"}
                                /\ sync.inFlight # Null
                                /\ m.editId = sync.inFlight.editId}

\* The request in flight is the last of them, and there is one as long as any edit
\* or answer is on its way.
Newest ==
    /\ \A m \in Messages \cup In(toView) :
          Counted(m) => sync.inFlight # Null /\ Number(m) <= sync.inFlight.editId
    /\ sync.inFlight # Null => sync.inFlight \in Carried \/ Settling # {}

\* The request in flight will be rejected.
Doomed ==
    /\ sync.inFlight # Null /\ Settling = {}
    /\ sync.inFlight.baseRevision < doc.version

\* Of the document's version the webview knows, or will hear.
Informs(m) ==
    \/ m.type \in {"externalChange", "documentRevisionAdvanced"}
    \/ m \in Settling /\ (m.type = "editAcknowledged" \/ IsConflict(m))

Informed ==
    ~Unreported =>
        \/ sync.acknowledgedRevision = doc.version
        \/ sync.externalChange # Null /\ sync.externalChange.revision = doc.version
        \/ Doomed
        \/ \E m \in In(toView) : Informs(m) /\ m.revision = doc.version

\* The document is what the host last stored, or the webview learns that it is not.
Noticed ==
    \/ doc.text = host.lastLocal
    \/ \E m \in In(toView) : m.type = "externalChange" /\ m.revision = doc.version
    \/ sync.externalChange # Null /\ sync.externalChange.revision = doc.version
    \/ sync.error # Null
    \/ sync.inFlight # Null /\ \A m \in Settling : m.type # "editAcknowledged"

\* The news of the document's version is its text.
Quoted ==
    \A m \in In(toView) :
        m.type = "externalChange" /\ m.revision = doc.version => m.snapshot = doc.text

\* What the host last stored is what the editor holds, once all is answered.
Matched ==
    /\ sync.inFlight = Null /\ sync.pending = Null => host.lastLocal = sync.localMutation
    /\ \A m \in Settling :
          m.type = "editAcknowledged" => host.lastLocal = sync.inFlight.mutation

\* What holds as long as the source is valid.
Orderly ==
    /\ Shows /\ Waits /\ Writes /\ Secret /\ Ordered /\ Lined /\ Newest
    /\ Informed /\ Noticed /\ Quoted /\ Matched

\* The third inductive invariant.
Settled == Stored /\ (Sane => Orderly)

----------------------------------------------------------------------------
(* What is quiet is stored: the coordinator's methods *)

\* What dispatchNext changes: nothing, or the queued draft goes out.
LEMMA DispatchEffect ==
    ASSUME NEW u \in SyncStates
    PROVE  LET t == DispatchNext(u)
           IN  /\ t.acknowledgedRevision = u.acknowledgedRevision
               /\ t.externalChange = u.externalChange
               /\ t.error = u.error
               /\ t.localMutation = u.localMutation
               /\ IF CanDispatch(u)
                  THEN /\ t.inFlight # Null
                       /\ t.inFlight.baseRevision = u.acknowledgedRevision
                       /\ t.nextEditId = u.nextEditId + 1
                       /\ t.pending = Null
                  ELSE t = u
<1> DEFINE request == [editId             |-> u.nextEditId,
                       baseRevision       |-> u.acknowledgedRevision,
                       localGeneration    |-> u.pending.localGeneration,
                       componentRevisions |-> u.pending.componentRevisions,
                       mutation           |-> u.pending.mutation]
           t == [u EXCEPT !.inFlight = request, !.pending = Null,
                          !.nextEditId = u.nextEditId + 1]
<1>1. CanDispatch(u) => DispatchNext(u) = t
  BY DEF DispatchNext
<1>2. ~CanDispatch(u) => DispatchNext(u) = u
  BY DEF DispatchNext
<1>3. request.baseRevision = u.acknowledgedRevision
  OBVIOUS
<1>4. CanDispatch(u) => request \in Requests
  BY DEF SyncStates, CanDispatch, Requests, Drafts
<1>5. CanDispatch(u) => request # Null
  BY <1>4, NullAssumption
<1> HIDE DEF request
<1>6. /\ t.acknowledgedRevision = u.acknowledgedRevision
      /\ t.externalChange = u.externalChange
      /\ t.error = u.error
      /\ t.localMutation = u.localMutation
      /\ t.inFlight = request /\ t.pending = Null
      /\ t.nextEditId = u.nextEditId + 1
  BY DEF SyncStates
<1> HIDE DEF t
<1>7. QED
  BY <1>1, <1>2, <1>3, <1>5, <1>6

\* A step that only submits and sends: nothing is learned, nothing is answered.
Proceeds(s, t) ==
    /\ t.acknowledgedRevision = s.acknowledgedRevision
    /\ t.externalChange = s.externalChange
    /\ ErrorWaits(t)
    /\ \/ /\ t.nextEditId = s.nextEditId
          /\ t.inFlight = s.inFlight
          /\ s.error # Null => t.error # Null
          /\ t.pending = Null => s.pending = Null /\ t.localMutation = s.localMutation
       \/ /\ t.nextEditId = s.nextEditId + 1
          /\ s.inFlight = Null /\ t.inFlight # Null
          /\ t.inFlight.baseRevision = s.acknowledgedRevision

\* Two such steps are one.
LEMMA ProceedsOn ==
    ASSUME NEW s \in SyncStates, NEW t \in SyncStates, NEW u \in SyncStates,
           Proceeds(s, t), Proceeds(t, u)
    PROVE  Proceeds(s, u)
<1>1. s.nextEditId \in Nat /\ t.nextEditId \in Nat /\ u.nextEditId \in Nat
  BY DEF SyncStates
<1>2. QED
  BY <1>1 DEF Proceeds

\* submit: what it submits is what the editor holds afterwards.
LEMMA SubmitProceeds ==
    ASSUME NEW s, Sound(s), ErrorWaits(s), s.localMutation # Null,
           NEW mutation \in Mutations, NEW changed
    PROVE  LET t == SubmitComponents(s, mutation, changed)
           IN  /\ Proceeds(s, t)
               /\ t.localMutation.content = IF "content" \in changed
                                            THEN mutation.content
                                            ELSE s.localMutation.content
<1> DEFINE next == [c \in Components |->
                      IF c \in changed \/ s.localMutation = Null
                      THEN mutation[c] ELSE s.localMutation[c]]
           draft == [localGeneration    |-> s.localGeneration + 1,
                     componentRevisions |-> BumpedRevisions(s, changed),
                     mutation           |-> next]
           u == [s EXCEPT !.localGeneration    = draft.localGeneration,
                          !.componentRevisions = draft.componentRevisions,
                          !.localMutation      = draft.mutation,
                          !.pending            = draft]
<1>1. s \in SyncStates
  BY DEF Sound, Consistent
<1>2. CASE changed = {}
  <2>1. SubmitComponents(s, mutation, changed) = s
    BY <1>2 DEF SubmitComponents
  <2>2. QED
    BY <1>2, <2>1 DEF Proceeds
<1>3. CASE changed # {}
  <2>1. SubmitComponents(s, mutation, changed) = DispatchNext(u)
    BY <1>3 DEF SubmitComponents
  <2>2. next \in Mutations
    BY <1>1 DEF SyncStates, Mutations, Components
  <2>3. next.content = IF "content" \in changed THEN mutation.content
                                                ELSE s.localMutation.content
    BY DEF Components
  <2>4. BumpedRevisions(s, changed) \in [Components -> Nat]
    BY <1>1 DEF SyncStates, BumpedRevisions
  <2>5. s.localGeneration + 1 \in Nat
    BY <1>1 DEF SyncStates
  <2> HIDE DEF next
  <2>6. draft \in Drafts
    BY <2>2, <2>4, <2>5 DEF Drafts
  <2>7. draft # Null
    BY <2>6, NullAssumption
  <2>8. /\ draft.localGeneration = s.localGeneration + 1
        /\ draft.componentRevisions = BumpedRevisions(s, changed)
        /\ draft.mutation = next
    OBVIOUS
  <2> HIDE DEF draft
  <2>9. /\ u \in SyncStates /\ u.nextEditId = s.nextEditId /\ u.inFlight = s.inFlight
        /\ u.acknowledgedRevision = s.acknowledgedRevision
        /\ u.externalChange = s.externalChange
        /\ u.error = s.error
        /\ u.pending = draft /\ u.localMutation = next
    BY <1>1, <2>2, <2>4, <2>5, <2>6, <2>8 DEF SyncStates
  <2> HIDE DEF u
  <2>10. Proceeds(s, DispatchNext(u))
    <3>1. CASE CanDispatch(u)
      <4>1. s.inFlight = Null /\ s.error = Null
        BY <2>9, <3>1 DEF CanDispatch
      <4>2. QED
        BY <2>9, <3>1, <4>1, DispatchEffect DEF Proceeds, ErrorWaits
    <3>2. CASE ~CanDispatch(u)
      BY <2>7, <2>9, <3>2, DispatchEffect DEF Proceeds, ErrorWaits
    <3>3. QED
      BY <3>1, <3>2
  <2>11. QED
    BY <2>1, <2>3, <2>9, <2>10, DispatchEffect
<1>4. QED
  BY <1>2, <1>3

\* A retry the webview allows sends the draft that waits with the error.
LEMMA RetryProceeds ==
    ASSUME NEW s, Sound(s), ErrorWaits(s), CanRetry(s)
    PROVE  LET t == Retry(s, Null)
           IN  Proceeds(s, t) /\ t.localMutation = s.localMutation
<1> DEFINE u == [s EXCEPT !.acknowledgedRevision = s.acknowledgedRevision,
                          !.error          = Null,
                          !.conflict       = Null,
                          !.externalChange = Null]
<1>1. s \in SyncStates
  BY DEF Sound, Consistent
<1>2. s.error # Null /\ s.externalChange = Null /\ s.inFlight = Null /\ s.pending # Null
  BY DEF CanRetry, ErrorWaits
<1>3. Retry(s, Null) = DispatchNext(u)
  BY <1>1, <1>2 DEF Retry, SyncStates
<1>4. /\ u \in SyncStates /\ u.nextEditId = s.nextEditId /\ u.inFlight = s.inFlight
      /\ u.acknowledgedRevision = s.acknowledgedRevision
      /\ u.externalChange = Null /\ u.error = Null
      /\ u.pending = s.pending /\ u.localMutation = s.localMutation
  BY <1>1 DEF SyncStates
<1> HIDE DEF u
<1>5. CanDispatch(u)
  BY <1>2, <1>4 DEF CanDispatch
<1>6. QED
  BY <1>2, <1>3, <1>4, <1>5, DispatchEffect DEF Proceeds, ErrorWaits

\* A barrier changes the waiters only.
LEMMA FlushProceeds ==
    ASSUME NEW s, Sound(s), ErrorWaits(s), NEW flush, NEW generation
    PROVE  LET t == FlushThrough(s, flush, generation)
           IN  /\ Proceeds(s, t) /\ t.localMutation = s.localMutation
               /\ t.inFlight = s.inFlight /\ t.error = s.error
               /\ t.nextEditId = s.nextEditId
<1> DEFINE waiters == s.flushWaiters \cup {[flush |-> flush, generation |-> generation]}
           t == [s EXCEPT !.flushWaiters = waiters]
<1>1. s \in SyncStates
  BY DEF Sound, Consistent
<1>2. FlushThrough(s, flush, generation) = s \/ FlushThrough(s, flush, generation) = t
  BY DEF FlushThrough
<1> HIDE DEF waiters
<1>3. /\ t.acknowledgedRevision = s.acknowledgedRevision
      /\ t.externalChange = s.externalChange
      /\ t.error = s.error /\ t.inFlight = s.inFlight /\ t.pending = s.pending
      /\ t.nextEditId = s.nextEditId /\ t.localMutation = s.localMutation
  BY <1>1 DEF SyncStates
<1> HIDE DEF t
<1>4. QED
  BY <1>2, <1>3 DEF Proceeds, ErrorWaits

\* keepLocal sends the draft at once, on the revision the user was shown.
LEMMA KeepLocalEffect ==
    ASSUME NEW s, Sound(s), s.localMutation # Null, NEW revision \in Nat
    PROVE  LET t == KeepLocal(s, revision)
           IN  /\ t.acknowledgedRevision = revision
               /\ t.externalChange = Null /\ t.error = Null
               /\ t.localMutation = s.localMutation
               /\ t.nextEditId = s.nextEditId + 1
               /\ t.inFlight # Null /\ t.inFlight.baseRevision = revision
<1> DEFINE generation == IF s.localMutation = Null
                         THEN s.localGeneration
                         ELSE s.localGeneration + 1
           rebased == [s EXCEPT !.acknowledgedRevision = revision,
                                !.localGeneration      = generation,
                                !.inFlight             = Null,
                                !.error                = Null,
                                !.conflict             = Null,
                                !.externalChange       = Null]
           queued == IF s.localMutation = Null THEN Null ELSE LatestDraft(rebased)
           u == [rebased EXCEPT !.pending = queued]
<1>1. s \in SyncStates
  BY DEF Sound, Consistent
<1>2. generation \in Nat
  BY <1>1 DEF SyncStates
<1>3. KeepLocal(s, revision) = DispatchNext(u)
  BY DEF KeepLocal
<1> HIDE DEF generation
<1>4. rebased \in SyncStates
  BY <1>1, <1>2 DEF SyncStates
<1>5. /\ rebased.acknowledgedRevision = revision
      /\ rebased.localMutation = s.localMutation
      /\ rebased.inFlight = Null /\ rebased.error = Null
      /\ rebased.externalChange = Null
      /\ rebased.nextEditId = s.nextEditId
  BY <1>1 DEF SyncStates
<1> HIDE DEF rebased
<1>6. queued \in Drafts
  BY <1>4, <1>5 DEF LatestDraft, Drafts, SyncStates
<1>7. queued # Null
  BY <1>6, NullAssumption
<1> HIDE DEF queued
<1>8. /\ u \in SyncStates
      /\ u.acknowledgedRevision = revision
      /\ u.localMutation = s.localMutation
      /\ u.inFlight = Null /\ u.error = Null /\ u.externalChange = Null
      /\ u.pending = queued
      /\ u.nextEditId = s.nextEditId
  BY <1>4, <1>5, <1>6 DEF SyncStates
<1> HIDE DEF u
<1>9. CanDispatch(u)
  BY <1>7, <1>8 DEF CanDispatch
<1>10. QED
  BY <1>3, <1>8, <1>9, DispatchEffect

\* After its request the editor's draft is acknowledged, or goes out, or waits
\* behind a newer notice.
LEMMA AcknowledgeEffect ==
    ASSUME NEW s, Sound(s), NEW message, message.revision \in Nat,
           Acknowledges(s, message)
    PROVE  LET t == Acknowledge(s, message)
           IN  /\ t.acknowledgedRevision = message.revision
               /\ t.externalChange = NoticeNewerThan(s, message.revision)
               /\ t.error = Null
               /\ t.localMutation = s.localMutation
               /\ \/ /\ t.nextEditId = s.nextEditId
                     /\ t.inFlight = Null /\ t.pending = s.pending
                  \/ /\ t.nextEditId = s.nextEditId + 1
                     /\ t.inFlight # Null
                     /\ t.inFlight.baseRevision = message.revision
<1> DEFINE confirmed == Larger(s.acknowledgedGeneration, s.inFlight.localGeneration)
           notice == NoticeNewerThan(s, message.revision)
           v == [s EXCEPT !.acknowledgedRevision   = message.revision,
                          !.acknowledgedGeneration = confirmed,
                          !.inFlight       = Null,
                          !.error          = Null,
                          !.conflict       = Null,
                          !.externalChange = notice]
           u == SettleFlushWaiters(v)
<1>1. s \in SyncStates
  BY DEF Sound, Consistent
<1>2. Acknowledge(s, message) = DispatchNext(u)
  BY DEF Acknowledge
<1>3. confirmed \in Nat
  BY <1>1 DEF SyncStates, Requests, Larger, Acknowledges, MatchesInFlight,
              Sound, Consistent, Numbered
<1>4. notice \in Snapshots \cup {Null}
  BY <1>1, NoticeTyped
<1> HIDE DEF confirmed
<1>5. /\ v \in SyncStates /\ v.nextEditId = s.nextEditId /\ v.inFlight = Null
      /\ v.acknowledgedRevision = message.revision
      /\ v.externalChange = notice /\ v.error = Null
      /\ v.localMutation = s.localMutation /\ v.pending = s.pending
  BY <1>1, <1>3, <1>4 DEF SyncStates
<1> HIDE DEF v, notice
<1>6. /\ u \in SyncStates /\ u.nextEditId = s.nextEditId /\ u.inFlight = Null
      /\ u.acknowledgedRevision = message.revision
      /\ u.externalChange = notice /\ u.error = Null
      /\ u.localMutation = s.localMutation /\ u.pending = s.pending
  BY <1>5 DEF SettleFlushWaiters, SyncStates
<1> HIDE DEF u
<1>7. QED
  BY <1>2, <1>6, DispatchEffect DEF notice

\* A rejected draft waits with the error, behind the host's text if there is one.
LEMMA RejectEffect ==
    ASSUME NEW s, Sound(s), s.localMutation # Null, NEW message,
           message.code \in ErrorCodes, MatchesInFlight(s, message)
    PROVE  LET t == Reject(s, message)
           IN  /\ t.acknowledgedRevision = s.acknowledgedRevision
               /\ t.externalChange = IF IsConflict(message)
                                     THEN [revision     |-> message.revision,
                                           hostSnapshot |-> message.hostSnapshot]
                                     ELSE s.externalChange
               /\ t.error # Null /\ t.inFlight = Null /\ t.pending # Null
               /\ t.localMutation = s.localMutation
               /\ t.nextEditId = s.nextEditId
<1> DEFINE pending == IF s.pending = Null /\ s.localMutation # Null
                      THEN LatestDraft(s) ELSE s.pending
           error == [localGeneration |-> s.inFlight.localGeneration,
                     code            |-> message.code]
           conflict == IF IsConflict(message)
                       THEN [hostRevision |-> message.revision,
                             hostSnapshot |-> message.hostSnapshot]
                       ELSE Null
           notice == IF IsConflict(message)
                     THEN [revision     |-> message.revision,
                           hostSnapshot |-> message.hostSnapshot]
                     ELSE s.externalChange
           v == [s EXCEPT !.inFlight = Null, !.pending = pending, !.error = error,
                          !.conflict = conflict, !.externalChange = notice]
<1>1. s \in SyncStates /\ s.inFlight \in Requests
  BY DEF Sound, Consistent, MatchesInFlight, SyncStates
<1>2. Reject(s, message) = RejectFlushWaiters(v)
  BY DEF Reject
<1>3. LatestDraft(s) # Null
  <2>1. LatestDraft(s) \in Drafts
    BY <1>1 DEF LatestDraft, Drafts, SyncStates
  <2>2. QED
    BY <2>1, NullAssumption
<1>4. pending # Null
  BY <1>3
<1>5. error # Null
  <2>1. error \in Errors
    BY <1>1 DEF Errors, Requests
  <2>2. QED
    BY <2>1, NullAssumption
<1> HIDE DEF pending, error, conflict, notice
<1>6. /\ v.acknowledgedRevision = s.acknowledgedRevision
      /\ v.externalChange = notice /\ v.error = error
      /\ v.inFlight = Null /\ v.pending = pending
      /\ v.localMutation = s.localMutation
      /\ v.nextEditId = s.nextEditId
      /\ v = [v EXCEPT !.flushWaiters = v.flushWaiters]
  BY <1>1 DEF SyncStates
<1>7. LET t == [v EXCEPT !.flushWaiters = {}]
      IN  /\ t.acknowledgedRevision = v.acknowledgedRevision
          /\ t.externalChange = v.externalChange /\ t.error = v.error
          /\ t.inFlight = v.inFlight /\ t.pending = v.pending
          /\ t.localMutation = v.localMutation
          /\ t.nextEditId = v.nextEditId
  BY <1>1 DEF SyncStates
<1> HIDE DEF v
<1>8. QED
  BY <1>2, <1>4, <1>5, <1>6, <1>7 DEF RejectFlushWaiters, notice

\* A newer revision is taken over; the queued draft may go out on it.
LEMMA AdvanceEffect ==
    ASSUME NEW s, Sound(s), ErrorWaits(s), NEW revision \in Nat,
           revision > s.acknowledgedRevision
    PROVE  LET t == AdvanceAcknowledgedRevision(s, revision)
           IN  /\ t.acknowledgedRevision = revision
               /\ t.externalChange = NoticeNewerThan(s, revision)
               /\ ErrorWaits(t)
               /\ t.error = s.error
               /\ t.localMutation = s.localMutation
               /\ \/ /\ t.nextEditId = s.nextEditId
                     /\ t.inFlight = s.inFlight /\ t.pending = s.pending
                     /\ s.inFlight = Null /\ s.pending # Null /\ s.error = Null
                           => t.externalChange # Null
                  \/ /\ t.nextEditId = s.nextEditId + 1
                     /\ s.inFlight = Null /\ t.inFlight # Null
                     /\ t.inFlight.baseRevision = revision
<1> DEFINE notice == NoticeNewerThan(s, revision)
           u == [s EXCEPT !.acknowledgedRevision = revision, !.externalChange = notice]
<1>1. s \in SyncStates
  BY DEF Sound, Consistent
<1>2. AdvanceAcknowledgedRevision(s, revision) = DispatchNext(u)
  BY DEF AdvanceAcknowledgedRevision
<1>3. notice \in Snapshots \cup {Null}
  BY <1>1, NoticeTyped
<1> HIDE DEF notice
<1>4. /\ u \in SyncStates
      /\ u.acknowledgedRevision = revision /\ u.externalChange = notice
      /\ u.error = s.error /\ u.inFlight = s.inFlight /\ u.pending = s.pending
      /\ u.localMutation = s.localMutation
      /\ u.nextEditId = s.nextEditId
  BY <1>1, <1>3 DEF SyncStates
<1> HIDE DEF u
<1>5. CASE CanDispatch(u)
  <2>1. s.inFlight = Null /\ s.error = Null
    BY <1>4, <1>5 DEF CanDispatch
  <2>2. QED
    BY <1>2, <1>4, <1>5, <2>1, DispatchEffect DEF ErrorWaits, notice
<1>6. CASE ~CanDispatch(u)
  <2>1. s.inFlight = Null /\ s.pending # Null /\ s.error = Null => notice # Null
    BY <1>4, <1>6 DEF CanDispatch
  <2>2. QED
    BY <1>2, <1>4, <1>6, <2>1, DispatchEffect DEF ErrorWaits, notice
<1>7. QED
  BY <1>5, <1>6

\* Somebody else's text is noted; the draft stays where it is.
LEMMA ObserveEffect ==
    ASSUME NEW s, Sound(s), NEW revision \in Nat, NEW snapshot,
           revision > s.acknowledgedRevision, s.localMutation # snapshot
    PROVE  LET t == ObserveExternalChange(s, revision, snapshot)
           IN  /\ t.acknowledgedRevision = s.acknowledgedRevision
               /\ t.externalChange = [revision |-> revision, hostSnapshot |-> snapshot]
               /\ t.error = s.error /\ t.inFlight = s.inFlight /\ t.pending = s.pending
               /\ t.localMutation = s.localMutation
               /\ t.nextEditId = s.nextEditId
<1> DEFINE notice == [revision |-> revision, hostSnapshot |-> snapshot]
           t == [s EXCEPT !.externalChange = notice]
<1>1. s \in SyncStates
  BY DEF Sound, Consistent
<1>2. ObserveExternalChange(s, revision, snapshot) = t
  BY DEF ObserveExternalChange
<1> HIDE DEF notice
<1>3. /\ t.acknowledgedRevision = s.acknowledgedRevision
      /\ t.externalChange = notice
      /\ t.error = s.error /\ t.inFlight = s.inFlight /\ t.pending = s.pending
      /\ t.localMutation = s.localMutation
      /\ t.nextEditId = s.nextEditId
  BY <1>1 DEF SyncStates
<1> HIDE DEF t
<1>4. QED
  BY <1>2, <1>3 DEF notice

----------------------------------------------------------------------------
(* What is quiet is stored: queues *)

\* A posted message comes after the others.
LEMMA PrecedesAppend ==
    ASSUME NEW S, NEW q \in Seq(S), NEW m \in S, NEW x, NEW y,
           Precedes(Append(q, m), x, y)
    PROVE  Precedes(q, x, y) \/ (x \in In(q) /\ y = m)
<1> DEFINE p == Append(q, m)
<1>1. /\ p \in Seq(S)
      /\ Len(p) = Len(q) + 1
      /\ \A i \in 1 .. Len(q) : p[i] = q[i]
      /\ p[Len(q) + 1] = m
  BY AppendProperties
<1>2. PICK i \in DOMAIN p, j \in DOMAIN p : i < j /\ p[i] = x /\ p[j] = y
  BY DEF Precedes
<1> HIDE DEF p
<1>3. /\ Len(q) \in Nat
      /\ DOMAIN q = 1 .. Len(q)
      /\ DOMAIN p = 1 .. Len(q) + 1
  BY <1>1, LenProperties
<1>4. i \in DOMAIN q /\ p[i] = q[i]
  BY <1>1, <1>2, <1>3
<1>5. CASE j = Len(q) + 1
  BY <1>1, <1>2, <1>4, <1>5 DEF In
<1>6. CASE j # Len(q) + 1
  <2>1. j \in DOMAIN q /\ p[j] = q[j]
    BY <1>1, <1>2, <1>3, <1>6
  <2>2. QED
    BY <1>2, <1>4, <2>1 DEF Precedes
<1>7. QED
  BY <1>5, <1>6

\* The oldest message came before the others, and these stay in their order.
LEMMA PrecedesTail ==
    ASSUME NEW S, NEW q \in Seq(S), q # <<>>
    PROVE  /\ \A x, y : Precedes(Tail(q), x, y) => Precedes(q, x, y)
           /\ \A y \in In(Tail(q)) : Precedes(q, Head(q), y)
           /\ In(q) \subseteq {Head(q)} \cup In(Tail(q))
<1> DEFINE p == Tail(q)
<1>1. /\ p \in Seq(S)
      /\ Len(p) = Len(q) - 1
      /\ \A i \in 1 .. Len(p) : p[i] = q[i + 1]
  BY HeadTailProperties
<1>2. Head(q) = q[1]
  OBVIOUS
<1> HIDE DEF p
<1>3. /\ Len(q) \in Nat \ {0}
      /\ DOMAIN q = 1 .. Len(q)
      /\ DOMAIN p = 1 .. Len(q) - 1
  BY <1>1, EmptySeq, LenProperties
<1>4. \A i \in DOMAIN p : i + 1 \in DOMAIN q /\ 1 < i + 1 /\ p[i] = q[i + 1]
  BY <1>1, <1>3
<1>5. \A i, j \in DOMAIN p : i < j => i + 1 < j + 1
  BY <1>3
<1>6. \A i \in DOMAIN q : i = 1 \/ (i - 1 \in DOMAIN p /\ q[i] = p[i - 1])
  BY <1>1, <1>3
<1>7. 1 \in DOMAIN q
  BY <1>3
<1>8. ASSUME NEW x, NEW y, Precedes(p, x, y)
      PROVE  Precedes(q, x, y)
  <2>1. PICK i \in DOMAIN p, j \in DOMAIN p : i < j /\ p[i] = x /\ p[j] = y
    BY <1>8 DEF Precedes
  <2>2. i + 1 \in DOMAIN q /\ j + 1 \in DOMAIN q /\ i + 1 < j + 1
        /\ q[i + 1] = x /\ q[j + 1] = y
    BY <1>4, <1>5, <2>1
  <2>3. QED
    BY <2>2 DEF Precedes
<1>9. ASSUME NEW y \in In(p)
      PROVE  Precedes(q, Head(q), y)
  <2>1. PICK i \in DOMAIN p : p[i] = y
    BY <1>9 DEF In
  <2>2. QED
    BY <1>2, <1>4, <1>7, <2>1 DEF Precedes
<1>10. In(q) \subseteq {Head(q)} \cup In(p)
  BY <1>2, <1>6 DEF In
<1>11. QED
  BY <1>8, <1>9, <1>10 DEF p

\* Where two queues meet, all of the first comes before all of the second.
LEMMA PrecedesConcat ==
    ASSUME NEW S, NEW q \in Seq(S), NEW r \in Seq(S)
    PROVE  /\ In(q \o r) = In(q) \cup In(r)
           /\ \A x, y : Precedes(q \o r, x, y) =>
                 \/ Precedes(q, x, y)
                 \/ Precedes(r, x, y)
                 \/ x \in In(q) /\ y \in In(r)
<1> DEFINE p == q \o r
<1>1. /\ p \in Seq(S)
      /\ Len(p) = Len(q) + Len(r)
      /\ \A i \in 1 .. Len(q) + Len(r) :
            p[i] = IF i <= Len(q) THEN q[i] ELSE r[i - Len(q)]
  BY ConcatProperties
<1> HIDE DEF p
<1>2. /\ Len(q) \in Nat /\ Len(r) \in Nat
      /\ DOMAIN q = 1 .. Len(q)
      /\ DOMAIN r = 1 .. Len(r)
      /\ DOMAIN p = 1 .. Len(q) + Len(r)
  BY <1>1, LenProperties
<1>3. \A i \in DOMAIN p :
         \/ i <= Len(q) /\ i \in DOMAIN q /\ p[i] = q[i]
         \/ Len(q) < i /\ i - Len(q) \in DOMAIN r /\ p[i] = r[i - Len(q)]
  BY <1>1, <1>2
<1>4. \A i \in DOMAIN q : i \in DOMAIN p /\ p[i] = q[i]
  BY <1>1, <1>2
<1>5. \A i \in DOMAIN r : i + Len(q) \in DOMAIN p /\ p[i + Len(q)] = r[i]
  BY <1>1, <1>2
<1>6. In(p) = In(q) \cup In(r)
  BY <1>3, <1>4, <1>5 DEF In
<1>7. ASSUME NEW x, NEW y, Precedes(p, x, y)
      PROVE  \/ Precedes(q, x, y)
             \/ Precedes(r, x, y)
             \/ x \in In(q) /\ y \in In(r)
  <2>1. PICK i \in DOMAIN p, j \in DOMAIN p : i < j /\ p[i] = x /\ p[j] = y
    BY <1>7 DEF Precedes
  <2>2. i \in Nat /\ j \in Nat
    BY <1>2
  <2>3. CASE j <= Len(q)
    <3>1. i \in DOMAIN q /\ p[i] = q[i] /\ j \in DOMAIN q /\ p[j] = q[j]
      BY <1>2, <1>3, <2>1, <2>2, <2>3
    <3>2. QED
      BY <2>1, <3>1 DEF Precedes
  <2>4. CASE Len(q) < i
    <3>1. /\ i - Len(q) \in DOMAIN r /\ p[i] = r[i - Len(q)]
          /\ j - Len(q) \in DOMAIN r /\ p[j] = r[j - Len(q)]
          /\ i - Len(q) < j - Len(q)
      BY <1>2, <1>3, <2>1, <2>2, <2>4
    <3>2. QED
      BY <2>1, <3>1 DEF Precedes
  <2>5. CASE i <= Len(q) /\ Len(q) < j
    <3>1. i \in DOMAIN q /\ p[i] = q[i] /\ j - Len(q) \in DOMAIN r /\ p[j] = r[j - Len(q)]
      BY <1>2, <1>3, <2>1, <2>2, <2>5
    <3>2. QED
      BY <2>1, <3>1 DEF In
  <2>6. QED
    BY <1>2, <2>2, <2>3, <2>4, <2>5
<1>8. QED
  BY <1>6, <1>7 DEF p

\* Nothing precedes anything in a queue of one message or of none.
LEMMA PrecedesFew ==
    ASSUME NEW S
    PROVE  /\ \A x, y : ~Precedes(<<>>, x, y)
           /\ \A m \in S : \A x, y : ~Precedes(<<m>>, x, y)
<1>1. ASSUME NEW x, NEW y
      PROVE  ~Precedes(<<>>, x, y)
  <2>1. DOMAIN <<>> = {}
    OBVIOUS
  <2>2. QED
    BY <2>1 DEF Precedes
<1>2. ASSUME NEW m \in S, NEW x, NEW y
      PROVE  ~Precedes(<<m>>, x, y)
  <2>1. DOMAIN <<m>> = {1}
    OBVIOUS
  <2>2. QED
    BY <2>1 DEF Precedes
<1>3. QED
  BY <1>1, <1>2

\* Numbers keep rising where a greater one is posted, or an older message is heard.
LEMMA RisingKept ==
    ASSUME NEW S, NEW q \in Seq(S), Rising(q)
    PROVE  /\ \A m \in S : Below(In(q), {m}) => Rising(Append(q, m))
           /\ q # <<>> => Rising(Tail(q)) /\ Below({Head(q)}, In(Tail(q)))
           /\ \A r \in Seq(S) : Rising(r) /\ Below(In(q), In(r)) => Rising(q \o r)
<1>1. ASSUME NEW m \in S, Below(In(q), {m})
      PROVE  Rising(Append(q, m))
  <2>1. SUFFICES ASSUME NEW x, NEW y, Precedes(Append(q, m), x, y), Counted(x), Counted(y)
                 PROVE  Number(x) < Number(y)
    BY DEF Rising
  <2>2. CASE Precedes(q, x, y)
    <3>1. x \in In(q) /\ y \in In(q)
      BY <2>2 DEF Precedes, In
    <3>2. QED
      BY <2>1, <2>2, <3>1 DEF Rising
  <2>3. CASE x \in In(q) /\ y = m
    BY <1>1, <2>1, <2>3 DEF Below
  <2>4. QED
    BY <2>1, <2>2, <2>3, PrecedesAppend
<1>2. ASSUME q # <<>>
      PROVE  Rising(Tail(q)) /\ Below({Head(q)}, In(Tail(q)))
  <2>1. In(Tail(q)) \subseteq In(q) /\ Head(q) \in In(q)
    BY <1>2, InTail
  <2>2. QED
    BY <1>2, <2>1, PrecedesTail DEF Rising, Below
<1>3. ASSUME NEW r \in Seq(S), Rising(r), Below(In(q), In(r))
      PROVE  Rising(q \o r)
  <2>1. SUFFICES ASSUME NEW x, NEW y, Precedes(q \o r, x, y), Counted(x), Counted(y)
                 PROVE  Number(x) < Number(y)
    BY DEF Rising
  <2>2. /\ Precedes(q, x, y) => x \in In(q) /\ y \in In(q)
        /\ Precedes(r, x, y) => x \in In(r) /\ y \in In(r)
    BY DEF Precedes, In
  <2>3. \/ Precedes(q, x, y)
        \/ Precedes(r, x, y)
        \/ x \in In(q) /\ y \in In(r)
    BY <2>1, PrecedesConcat
  <2>4. QED
    BY <1>3, <2>1, <2>2, <2>3 DEF Rising, Below
<1>4. QED
  BY <1>1, <1>2, <1>3


----------------------------------------------------------------------------
(* What is quiet is stored: a turn of the webview *)

\* Edits and answers are numbered, below the number the webview uses next.
LEMMA CountedFacts ==
    ASSUME Stored
    PROVE  /\ \A m \in In(toView) : m \in Inbox /\ m.type # "edit"
           /\ \A m \in Messages :
                 m \in Outbox /\ m.type \notin {"editAcknowledged", "editRejected"}
           /\ \A m \in Messages \cup In(toView) :
                 Counted(m) => Number(m) \in Nat /\ Number(m) < sync.nextEditId
           /\ sync.nextEditId \in Nat
           /\ sync.inFlight # Null =>
                 /\ sync.inFlight \in Requests
                 /\ sync.inFlight.editId \in Nat /\ sync.inFlight.baseRevision \in Nat
<1>1. Typed /\ Numbers
  BY DEF Stored
<1>2. \A m \in In(toView) : m \in Inbox /\ m.type # "edit"
  <2>1. \A m \in Inbox : m.type # "edit"
    BY DEF Inbox
  <2>2. QED
    BY <1>1, <2>1, HostFacts, InTyped
<1>3. \A m \in Messages :
         m \in Outbox /\ m.type \notin {"editAcknowledged", "editRejected"}
  <2>1. \A m \in Outbox : m.type \notin {"editAcknowledged", "editRejected"}
    BY DEF Outbox
  <2>2. QED
    BY <1>1, <2>1, CarriedTyped
<1>4. \A m \in In(toView) :
         Counted(m) => Number(m) \in Nat /\ Number(m) < sync.nextEditId
  BY <1>1, <1>2, InboxFields DEF Numbers, Counted, Number
<1>5. ASSUME NEW m \in Messages, Counted(m)
      PROVE  Number(m) \in Nat /\ Number(m) < sync.nextEditId
  <2>1. m.type = "edit" /\ m.request \in Carried
    BY <1>3, <1>5 DEF Counted, Carried
  <2>2. m.request.editId \in Nat
    BY <1>1, <2>1, CarriedTyped DEF Requests
  <2>3. QED
    BY <1>1, <2>1, <2>2 DEF Numbers, Number
<1>6. sync.nextEditId \in Nat
  BY <1>1, InFlightTyped
<1>7. sync.inFlight # Null =>
         /\ sync.inFlight \in Requests
         /\ sync.inFlight.editId \in Nat /\ sync.inFlight.baseRevision \in Nat
  BY <1>1, InFlightTyped DEF Requests
<1>8. QED
  BY <1>2, <1>3, <1>4, <1>5, <1>6, <1>7

\* The webview posts the edit it sent, if any, the answers to flushes and `posted`.
Says(posted) ==
    /\ posted \in Seq(Outbox) /\ \A m \in In(posted) : ~Counted(m)
    /\ \E known \in SUBSET Mutations :
          toHost' = toHost \o Edits(sync, sync', known)
                           \o Answers(sync, sync', MaxFlushes) \o posted
    /\ UNCHANGED <<host, doc>>
    /\ toView' = toView \/ (toView # <<>> /\ toView' = Tail(toView))

IsAnswer(m) == m.type \in {"flushComplete", "flushFailed"}

\* Messages without a number may follow any others.
LEMMA RisingOn ==
    ASSUME NEW S, NEW q \in Seq(S), NEW r \in Seq(S), Rising(q),
           \A m \in In(r) : ~Counted(m)
    PROVE  /\ Rising(q \o r) /\ In(q \o r) = In(q) \cup In(r) /\ q \o r \in Seq(S)
<1>1. Rising(r) /\ Below(In(q), In(r))
  BY DEF Rising, Below
<1>2. QED
  BY <1>1, RisingKept, PrecedesConcat, InConcat

\* A turn leaves edits and answers in line: the edit it sends is the newest.
LEMMA TurnLined ==
    ASSUME Stored, Lined, Stored', Keeps(sync, sync'), NEW posted, Says(posted)
    PROVE  /\ Lined'
           /\ In(toView') \subseteq In(toView) /\ Messages \subseteq Messages'
           /\ \A m \in Messages' : \/ m \in Messages
                                   \/ EditOf(m, sync')
                                   \/ ~Counted(m) /\ (m \in In(posted) \/ IsAnswer(m))
           /\ sync'.nextEditId # sync.nextEditId =>
                 /\ sync'.nextEditId = sync.nextEditId + 1
                 /\ sync'.inFlight # Null /\ sync'.inFlight.editId = sync.nextEditId
                 /\ sync'.inFlight \in Carried'
<1>1. /\ Typed /\ Typed'
      /\ toHost \in Seq(Outbox) /\ toView \in Seq(Inbox)
      /\ sync.nextEditId \in Nat /\ sync'.nextEditId \in Nat
  <2>1. Typed /\ Typed'
    BY DEF Stored
  <2>2. QED
    BY <2>1, HostFacts, InFlightTyped DEF Typed, TypeOK, SyncStates
<1>2. PICK known \in SUBSET Mutations :
         toHost' = toHost \o Edits(sync, sync', known)
                          \o Answers(sync, sync', MaxFlushes) \o posted
  BY DEF Says
<1> DEFINE edits == Edits(sync, sync', known)
           answers == Answers(sync, sync', MaxFlushes)
           e == [type |-> "edit", request |-> sync'.inFlight, over |-> known]
<1>3. toHost' = ((toHost \o edits) \o answers) \o posted
  BY <1>2
<1>4. /\ sync'.nextEditId # sync.nextEditId =>
            /\ sync'.nextEditId = sync.nextEditId + 1
            /\ sync'.inFlight # Null /\ sync'.inFlight \in Requests
            /\ sync'.inFlight.editId = sync.nextEditId
      /\ Sends(sync, sync') <=> sync'.nextEditId # sync.nextEditId
  <2>1. sync'.inFlight \in Requests \cup {Null}
    BY <1>1 DEF Typed, TypeOK, SyncStates
  <2>2. QED
    BY <1>1, <2>1 DEF Keeps, Travels, Sends
<1>5. Sends(sync, sync') => /\ edits = <<e>> /\ e \in Outbox /\ EditOf(e, sync')
                            /\ Counted(e) /\ Number(e) = sync.nextEditId
                            /\ e.request = sync'.inFlight /\ e.type = "edit"
  BY <1>1, <1>4 DEF Edits, Outbox, EditOf, Counted, Number
<1>6. ~Sends(sync, sync') => edits = <<>>
  BY DEF Edits
<1>7. answers \in Seq(Outbox)
      /\ \A m \in In(answers) : ~Counted(m) /\ IsAnswer(m)
  <2>1. FlushMessages(MaxFlushes) \subseteq Outbox
    BY DEF FlushMessages, Outbox
  <2>2. /\ answers \in Seq(FlushMessages(MaxFlushes))
        /\ \A m \in In(answers) : m.type \in {"flushComplete", "flushFailed"}
    BY AnswersTyped, SessionAssumption
  <2> HIDE DEF answers
  <2>3. QED
    BY <2>1, <2>2, SeqMonotonic DEF Counted, IsAnswer
<1> HIDE DEF edits, answers, e
<1>8. /\ edits \in Seq(Outbox) /\ Rising(edits)
      /\ In(edits) = IF Sends(sync, sync') THEN {e} ELSE {}
  <2>1. CASE Sends(sync, sync')
    <3>1. edits = <<e>> /\ e \in Outbox
      BY <1>5, <2>1
    <3>2. \A x, y : ~Precedes(<<e>>, x, y)
      BY <3>1, PrecedesFew
    <3>3. <<e>> \in Seq(Outbox) /\ In(<<e>>) = {e} /\ Rising(<<e>>)
      BY <3>1, <3>2, InFew DEF Rising
    <3>4. QED
      BY <2>1, <3>1, <3>3
  <2>2. CASE ~Sends(sync, sync')
    BY <1>6, <2>2, InFew, PrecedesFew DEF Rising
  <2>3. QED
    BY <2>1, <2>2
<1>9. \A x \in Messages \cup In(toView), y \in In(edits) :
         Counted(x) /\ Counted(y) => Number(x) < Number(y)
  BY <1>5, <1>8, CountedFacts
<1>10. In(toHost) \subseteq Messages /\ Rising(toHost)
  BY DEF Messages, Lined
<1>11. Rising(toHost \o edits) /\ toHost \o edits \in Seq(Outbox)
       /\ In(toHost \o edits) = In(toHost) \cup In(edits)
  <2>1. Below(In(toHost), In(edits))
    BY <1>9, <1>10 DEF Below
  <2>2. QED
    BY <1>1, <1>8, <1>10, <2>1, RisingKept, PrecedesConcat, InConcat
<1> DEFINE sent == toHost \o edits
           told == sent \o answers
<1> HIDE DEF sent, told
<1>12. /\ Rising(told) /\ told \in Seq(Outbox)
       /\ In(told) = In(toHost) \cup In(edits) \cup In(answers)
  <2>1. Rising(sent) /\ sent \in Seq(Outbox) /\ In(sent) = In(toHost) \cup In(edits)
    BY <1>11 DEF sent
  <2>2. /\ Rising(sent \o answers) /\ sent \o answers \in Seq(Outbox)
        /\ In(sent \o answers) = In(sent) \cup In(answers)
    BY <1>7, <2>1, RisingOn
  <2>3. QED
    BY <2>1, <2>2 DEF told
<1>13. /\ Rising(toHost')
       /\ In(toHost') = In(toHost) \cup In(edits) \cup In(answers) \cup In(posted)
  <2>1. posted \in Seq(Outbox) /\ \A m \in In(posted) : ~Counted(m)
    BY DEF Says
  <2>2. Rising(told \o posted) /\ In(told \o posted) = In(told) \cup In(posted)
    BY <1>12, <2>1, RisingOn
  <2>3. toHost' = told \o posted
    BY <1>3 DEF told, sent
  <2>4. QED
    BY <1>12, <2>2, <2>3
<1>14. /\ Tasked' = Tasked /\ In(host'.queue) = In(host.queue) /\ host' = host
       /\ Messages' = Messages \cup In(edits) \cup In(answers) \cup In(posted)
  BY <1>13 DEF Says, Tasked, Messages
<1>15. In(toView') \subseteq In(toView) /\ Rising(toView')
  <2>1. Rising(toView)
    BY DEF Lined
  <2>2. QED
    BY <1>1, <2>1, RisingKept, InTail DEF Says
<1>16. \A m \in In(answers) \cup In(posted) : ~Counted(m)
  BY <1>7 DEF Says
<1>17. Lined'
  <2>1. Below(In(toView'), Messages')
    BY <1>9, <1>14, <1>15, <1>16 DEF Lined, Below
  <2>2. Below(Tasked', In(host'.queue) \cup In(toHost'))
    BY <1>9, <1>13, <1>14, <1>16 DEF Lined, Below, Messages
  <2>3. Below(In(host'.queue), In(toHost'))
    BY <1>9, <1>13, <1>14, <1>16 DEF Lined, Below, Messages
  <2>4. Rising(host'.queue)
    BY <1>14 DEF Lined
  <2>5. QED
    BY <1>13, <1>15, <2>1, <2>2, <2>3, <2>4 DEF Lined
<1>18. \A m \in Messages' : \/ m \in Messages
                            \/ EditOf(m, sync')
                            \/ ~Counted(m) /\ (m \in In(posted) \/ IsAnswer(m))
  BY <1>5, <1>7, <1>8, <1>14, <1>16
<1>19. Sends(sync, sync') => sync'.inFlight \in Carried'
  BY <1>5, <1>8, <1>14 DEF Carried
<1>20. QED
  BY <1>4, <1>14, <1>15, <1>17, <1>18, <1>19

\* The answer to the request in flight is the last of the numbered messages.
LEMMA HeadSettles ==
    ASSUME Stored, Lined, Newest, toView # <<>>, Head(toView) \in Settling
    PROVE  /\ \A m \in Messages \cup In(Tail(toView)) : ~Counted(m)
           /\ Settling = {Head(toView)}
<1> DEFINE head == Head(toView)
<1>1. toView \in Seq(Inbox)
  BY HostFacts DEF Stored
<1>2. /\ head \in In(toView) /\ In(Tail(toView)) \subseteq In(toView)
      /\ In(toView) \subseteq {head} \cup In(Tail(toView))
      /\ Below({head}, In(Tail(toView)))
  BY <1>1, InTail, PrecedesTail, RisingKept DEF Lined
<1>3. /\ Counted(head) /\ sync.inFlight # Null /\ Number(head) = sync.inFlight.editId
  BY DEF Settling, Counted, Number
<1>4. ASSUME NEW m \in Messages \cup In(Tail(toView)), Counted(m)
      PROVE  FALSE
  <2>1. Number(head) < Number(m)
    BY <1>2, <1>3, <1>4 DEF Lined, Below
  <2>2. Number(m) <= sync.inFlight.editId
    BY <1>2, <1>4 DEF Newest
  <2>3. Number(m) \in Nat /\ Number(head) \in Nat
    BY <1>2, <1>3, <1>4, CountedFacts
  <2>4. QED
    BY <1>3, <2>1, <2>2, <2>3
<1>5. \A m \in Settling : m \in In(toView) /\ Counted(m)
  BY DEF Settling, Counted
<1>6. QED
  BY <1>2, <1>4, <1>5

\* A turn keeps Newest if it sends, leaves the request and its answers alone, or
\* took the last of the numbered messages.
LEMMA TurnNewest ==
    ASSUME Stored, Lined, Newest, Stored', Keeps(sync, sync'), NEW posted, Says(posted)
    PROVE  /\ sync'.nextEditId # sync.nextEditId => Newest' /\ Settling' = {}
           /\ /\ sync'.nextEditId = sync.nextEditId /\ sync'.inFlight = sync.inFlight
              /\ toView' = toView \/ Head(toView) \notin Settling
              => Newest' /\ Settling' = Settling
           /\ /\ sync'.nextEditId = sync.nextEditId /\ sync'.inFlight = Null
              /\ \A m \in Messages \cup In(toView') : ~Counted(m)
              => Newest' /\ Settling' = {}
<1>1. /\ In(toView') \subseteq In(toView) /\ Messages \subseteq Messages'
      /\ \A m \in Messages' : m \in Messages \/ EditOf(m, sync') \/ ~Counted(m)
      /\ sync'.nextEditId # sync.nextEditId =>
            /\ sync'.nextEditId = sync.nextEditId + 1
            /\ sync'.inFlight # Null /\ sync'.inFlight.editId = sync.nextEditId
            /\ sync'.inFlight \in Carried'
  BY TurnLined
<1>2. toView \in Seq(Inbox) /\ sync.nextEditId \in Nat
  BY HostFacts, InFlightTyped DEF Stored
<1>3. /\ \A m \in Messages \cup In(toView) :
            Counted(m) => Number(m) \in Nat /\ Number(m) < sync.nextEditId
      /\ \A m \in In(toView) : m \in Inbox
  BY CountedFacts
<1>4. \A m \in In(toView) : m.type \in {"editAcknowledged", "editRejected"}
                               => Counted(m) /\ Number(m) = m.editId
  BY DEF Counted, Number
<1>5. ASSUME sync'.nextEditId # sync.nextEditId
      PROVE  Newest' /\ Settling' = {}
  <2>1. ASSUME NEW m \in Messages' \cup In(toView'), Counted(m)
        PROVE  Number(m) <= sync'.inFlight.editId
    <3>1. CASE m \in Messages \cup In(toView)
      BY <1>1, <1>2, <1>3, <1>5, <2>1, <3>1
    <3>2. CASE EditOf(m, sync')
      BY <1>1, <1>2, <1>5, <3>2 DEF EditOf, Number
    <3>3. QED
      BY <1>1, <2>1, <3>1, <3>2
  <2>2. ASSUME NEW m \in Settling'
        PROVE  FALSE
    <3>1. m \in In(toView) /\ Counted(m) /\ Number(m) = sync'.inFlight.editId
      BY <1>1, <1>4, <2>2 DEF Settling
    <3>2. QED
      BY <1>1, <1>2, <1>3, <1>5, <3>1
  <2>3. QED
    BY <1>1, <1>5, <2>1, <2>2 DEF Newest
<1>6. ASSUME sync'.nextEditId = sync.nextEditId, sync'.inFlight = sync.inFlight,
             toView' = toView \/ Head(toView) \notin Settling
      PROVE  Newest' /\ Settling' = Settling
  <2>1. Settling \subseteq In(toView')
    <3>1. toView' # toView => /\ toView # <<>> /\ toView' = Tail(toView)
                              /\ In(toView) \subseteq {Head(toView)} \cup In(Tail(toView))
      BY <1>2, PrecedesTail DEF Says
    <3>2. Settling \subseteq In(toView)
      BY DEF Settling
    <3>3. QED
      BY <1>6, <3>1, <3>2
  <2>2. Settling' = Settling
    BY <1>1, <1>6, <2>1 DEF Settling
  <2>3. \A m \in Messages' \cup In(toView') : Counted(m) => m \in Messages \cup In(toView)
    BY <1>1, <1>6 DEF EditOf
  <2>4. Carried \subseteq Carried'
    BY <1>1 DEF Carried
  <2>5. QED
    BY <1>6, <2>2, <2>3, <2>4 DEF Newest
<1>7. ASSUME sync'.nextEditId = sync.nextEditId, sync'.inFlight = Null,
             \A m \in Messages \cup In(toView') : ~Counted(m)
      PROVE  Newest' /\ Settling' = {}
  <2>1. \A m \in Messages' \cup In(toView') : ~Counted(m)
    BY <1>1, <1>7 DEF EditOf
  <2>2. QED
    BY <1>7, <2>1 DEF Newest, Settling
<1>8. QED
  BY <1>5, <1>6, <1>7

\* A turn leaves host and document alone, and the messages in their order.
LEMMA TurnOrder ==
    ASSUME Stored, Stored', Writes, Ordered, Lined, Keeps(sync, sync'),
           NEW posted, Says(posted),
           \A m \in In(posted) : m.type # "externalChangeAdopted"
    PROVE  /\ Writes' /\ (Unreported' <=> Unreported)
           /\ In(toView') \subseteq In(toView)
           /\ \A x, y \in In(toView') :
                 Precedes(toView', x, y) /\ Dated(x) /\ Dated(y) => After(y, x.revision)
           /\ toView' # toView =>
                 /\ toView # <<>> /\ toView' = Tail(toView)
                 /\ In(toView) \subseteq {Head(toView)} \cup In(toView')
                 /\ Dated(Head(toView)) =>
                       \A m \in In(toView') : Dated(m) => After(m, Head(toView).revision)
<1>1. host' = host /\ doc' = doc /\ Tasked' = Tasked
  BY DEF Says, Tasked
<1>2. \A m \in Messages' : \/ m \in Messages \/ m \in In(posted)
                           \/ m.type \in {"edit", "flushComplete", "flushFailed"}
  BY TurnLined DEF EditOf, IsAnswer
<1>3. Writes' /\ (Unreported' <=> Unreported)
  BY <1>1, <1>2 DEF Writes, Unreported
<1>4. toView \in Seq(Inbox)
  BY HostFacts DEF Stored
<1>5. CASE toView' = toView
  BY <1>3, <1>5 DEF Ordered
<1>6. CASE toView' # toView
  <2>1. toView # <<>> /\ toView' = Tail(toView)
    BY <1>6 DEF Says
  <2>2. /\ \A x, y : Precedes(toView', x, y) => Precedes(toView, x, y)
        /\ \A y \in In(toView') : Precedes(toView, Head(toView), y)
        /\ In(toView) \subseteq {Head(toView)} \cup In(toView')
        /\ In(toView') \subseteq In(toView) /\ Head(toView) \in In(toView)
    BY <1>4, <2>1, PrecedesTail, InTail
  <2>3. \A m \in In(toView') :
           Dated(Head(toView)) /\ Dated(m) => After(m, Head(toView).revision)
    BY <2>2 DEF Ordered
  <2>4. \A x, y \in In(toView') :
           Precedes(toView', x, y) /\ Dated(x) /\ Dated(y) => After(y, x.revision)
    BY <2>2 DEF Ordered
  <2>5. QED
    BY <1>3, <2>1, <2>2, <2>3, <2>4
<1>7. QED
  BY <1>5, <1>6

\* The coordinator and the editor after a step of the webview.
LEMMA StepSays ==
    ASSUME Stored, NEW t, NEW v \in Views, NEW known \in SUBSET Mutations,
           NEW posted \in Seq(Outbox), \A m \in In(posted) : ~Counted(m),
           ViewStep(t, v, known, posted), UNCHANGED <<host, doc>>,
           toView' = toView \/ (toView # <<>> /\ toView' = Tail(toView))
    PROVE  /\ Says(posted) /\ sync' = t
           /\ view'.content = v.content /\ view'.tracked = v.tracked
           /\ view'.typed = v.typed /\ view'.notice = v.notice
<1> DEFINE keeping == v.keeping /\ v.notice # Null /\ Waiting(sync')
<1>1. Says(posted) /\ sync' = t
  BY DEF ViewStep, Says
<1>2. view' = [v EXCEPT !.keeping = keeping]
  BY DEF ViewStep
<1> HIDE DEF keeping
<1>3. QED
  BY <1>1, <1>2 DEF Views

\* A turn that only submits and sends keeps everything in order.
LEMMA ProceedingOrderly ==
    ASSUME Stored, Orderly, Stored', Keeps(sync, sync'), NEW posted, Says(posted),
           \A m \in In(posted) : m.type # "externalChangeAdopted",
           Proceeds(sync, sync'), view'.notice = view.notice, Shows',
           toView' # toView => ~Informs(Head(toView)) /\ Head(toView) \notin Settling
    PROVE  Orderly'
<1>1. /\ Waits /\ Writes /\ Secret /\ Ordered /\ Lined /\ Newest
      /\ Informed /\ Noticed /\ Quoted /\ Matched
      /\ sync.nextEditId \in Nat
      /\ host' = host /\ doc' = doc
  BY InFlightTyped DEF Orderly, Says, Stored
<1>2. /\ Writes' /\ (Unreported' <=> Unreported)
      /\ In(toView') \subseteq In(toView)
      /\ \A x, y \in In(toView') :
            Precedes(toView', x, y) /\ Dated(x) /\ Dated(y) => After(y, x.revision)
      /\ toView' # toView => In(toView) \subseteq {Head(toView)} \cup In(toView')
  BY <1>1, TurnOrder
<1>3. /\ sync'.acknowledgedRevision = sync.acknowledgedRevision
      /\ sync'.externalChange = sync.externalChange
      /\ ErrorWaits(sync')
  BY DEF Proceeds
<1>4. \A m \in In(toView) : Informs(m) => m \in In(toView')
  BY <1>2
<1>5. \/ /\ sync'.nextEditId = sync.nextEditId /\ sync'.inFlight = sync.inFlight
         /\ Newest' /\ Settling' = Settling
         /\ sync.error # Null => sync'.error # Null
         /\ sync'.pending = Null => /\ sync.pending = Null
                                    /\ sync'.localMutation = sync.localMutation
      \/ /\ sync.inFlight = Null /\ sync'.inFlight # Null
         /\ sync'.inFlight.baseRevision = sync.acknowledgedRevision
         /\ Newest' /\ Settling' = {}
  <2>2. CASE sync'.nextEditId = sync.nextEditId /\ sync'.inFlight = sync.inFlight
    BY <1>1, <2>2, TurnNewest DEF Proceeds
  <2>3. CASE sync'.nextEditId = sync.nextEditId + 1
    BY <1>1, <2>3, TurnNewest DEF Proceeds
  <2>4. QED
    BY <2>2, <2>3 DEF Proceeds
<1>6. Lined'
  BY <1>1, TurnLined
<1>7. Waits'
  <2>1. sync.acknowledgedRevision \in Nat
    BY TypedFacts DEF Stored, SyncStates
  <2>2. QED
    BY <1>1, <1>3, <1>5, <2>1 DEF Waits
<1>8. Secret'
  BY <1>1, <1>2, <1>3 DEF Secret
<1>9. Ordered'
  BY <1>1, <1>2, <1>3 DEF Ordered
<1>10. Informed'
  <2>1. Doomed => Doomed'
    BY <1>1, <1>5 DEF Doomed
  <2>2. \A m \in In(toView) : Informs(m) => m \in In(toView') /\ Informs(m)'
    <3>1. \A m \in Settling : sync.inFlight # Null
      BY DEF Settling
    <3>2. QED
      BY <1>4, <1>5, <3>1 DEF Informs
  <2>3. QED
    BY <1>1, <1>2, <1>3, <2>1, <2>2 DEF Informed
<1>11. Noticed' /\ Quoted'
  <2>1. \A m \in In(toView) : m.type = "externalChange" => m \in In(toView')
    BY <1>4 DEF Informs
  <2>2. Noticed'
    BY <1>1, <1>3, <1>5, <2>1 DEF Noticed
  <2>3. QED
    BY <1>1, <1>2, <2>2 DEF Quoted
<1>12. Matched'
  BY <1>1, <1>5 DEF Matched
<1>13. QED
  BY <1>2, <1>5, <1>6, <1>7, <1>8, <1>9, <1>10, <1>11, <1>12 DEF Orderly

----------------------------------------------------------------------------
(* What is quiet is stored: the user and the editor *)

\* What the actions may use of a state that is in order.
LEMMA OrderlyFacts ==
    ASSUME Stored, Orderly
    PROVE  /\ Typed /\ Sound(sync) /\ ErrorWaits(sync)
           /\ sync \in SyncStates /\ sync.acknowledgedRevision \in Nat
           /\ sync.localMutation # Null /\ sync.localMutation \in Mutations
           /\ sync.localMutation.content \in Contents
           /\ view \in Views /\ ledger.known \in SUBSET Mutations
           /\ <<>> \in Seq(Outbox) /\ In(<<>>) = {}
<1>1. Typed
  BY DEF Stored
<1>2. sync \in SyncStates /\ sync.acknowledgedRevision \in Nat
  BY <1>1, TypedFacts DEF SyncStates
<1>3. sync.localMutation \in Mutations /\ sync.localMutation.content \in Contents
  BY <1>1, TypedFacts DEF Mutations
<1>4. QED
  BY <1>1, <1>2, <1>3, TypedFacts, InFew DEF Orderly, Waits

\* captureIfChanged submits what the editor shows, if the coordinator lacks it.
LEMMA CapturedProceeds ==
    ASSUME Stored, Orderly
    PROVE  /\ Proceeds(sync, Captured(view)) /\ Sound(Captured(view))
           /\ Captured(view).localMutation.content = CapturedView(view).tracked
           /\ CapturedView(view) \in Views
           /\ CapturedView(view).notice = view.notice
           /\ CapturedView(view).content = view.content
           /\ ~CapturedView(view).typed
           /\ view.content = CapturedView(view).tracked
<1> DEFINE mutation == Draft(view.content)
           changed == Differing(sync, mutation) \cup {"content"}
           tracked == IF view.typed THEN view.content ELSE view.tracked
           v == CapturedView(view)
<1>1. view \in Views /\ Shows /\ Typed
  BY OrderlyFacts DEF Orderly
<1>2. v = [view EXCEPT !.typed = FALSE, !.tracked = tracked]
  BY <1>1 DEF CapturedView, Views
<1>3. tracked = view.content
  BY <1>1 DEF Shows
<1>4. /\ v \in Views /\ v.notice = view.notice /\ v.content = view.content
      /\ v.typed = FALSE /\ v.tracked = view.content
  BY <1>1, <1>2, <1>3, CapturedViewTyped DEF Views
<1>5. Sound(Captured(view))
  BY <1>1, CapturedGood
<1>6. mutation \in Mutations /\ mutation.content = view.content
  BY <1>1, DraftTyped, TypedFacts DEF Views, Draft, Mutations
<1> HIDE DEF mutation, v, tracked
<1>7. CASE view.typed /\ view.content # view.tracked
  <2>1. Captured(view) = SubmitComponents(sync, mutation, changed)
    BY <1>7 DEF Captured, SubmitContent, mutation
  <2>2. "content" \in changed
    OBVIOUS
  <2> HIDE DEF changed
  <2>3. /\ Proceeds(sync, Captured(view))
        /\ Captured(view).localMutation.content = mutation.content
    BY <1>6, <2>1, <2>2, OrderlyFacts, SubmitProceeds
  <2>4. QED
    BY <1>4, <1>5, <1>6, <2>3 DEF v
<1>8. CASE ~(view.typed /\ view.content # view.tracked)
  <2>1. Captured(view) = sync
    BY <1>8 DEF Captured
  <2>2. sync.localMutation.content = view.content
    BY <1>1, <1>8 DEF Shows
  <2>3. Proceeds(sync, sync)
    BY OrderlyFacts DEF Proceeds
  <2>4. QED
    BY <1>4, <1>5, <2>1, <2>2, <2>3 DEF v
<1>9. QED
  BY <1>7, <1>8

\* A step after which the editor shows what the coordinator holds.
LEMMA ShownAfter ==
    ASSUME Orderly, view'.notice = view.notice,
           sync'.acknowledgedRevision = sync.acknowledgedRevision,
           sync'.externalChange = sync.externalChange,
           view'.tracked = sync'.localMutation.content,
           view'.typed \/ view'.content = view'.tracked
    PROVE  Shows'
BY DEF Orderly, Shows

\* The debounce.
LEMMA DebounceOrderly ==
    ASSUME Stored, Orderly, Stored', Debounce
    PROVE  Orderly'
<1> DEFINE t == Captured(view)
           v == CapturedView(view)
<1>1. /\ ViewStep(t, v, ledger.known, <<>>)
      /\ UNCHANGED <<host, doc, toView>>
  BY DEF Debounce, HostUnchanged
<1>2. Keeps(sync, sync')
  BY OrderlyFacts, DebounceTurns DEF Turns, Turned
<1>3. /\ Proceeds(sync, t) /\ t.localMutation.content = v.tracked
      /\ v \in Views /\ v.notice = view.notice
      /\ v.content = v.tracked
  BY CapturedProceeds
<1> HIDE DEF t, v
<1>4. /\ Says(<<>>) /\ sync' = t
      /\ view'.content = v.content /\ view'.tracked = v.tracked
      /\ view'.typed = v.typed /\ view'.notice = v.notice
  BY <1>1, <1>3, OrderlyFacts, StepSays
<1>5. Shows'
  BY <1>3, <1>4, ShownAfter DEF Proceeds
<1>6. QED
  BY <1>1, <1>2, <1>3, <1>4, <1>5, OrderlyFacts, ProceedingOrderly

\* A field of the metadata.
LEMMA MetadataOrderly ==
    ASSUME Stored, Orderly, Stored', EditMetadata
    PROVE  Orderly'
<1>1. PICK meta \in Metas :
         ViewStep(SubmitMetadata(sync, meta), view, ledger.known, <<>>)
  BY DEF EditMetadata
<1>2. UNCHANGED <<host, doc, toView>>
  BY DEF EditMetadata, HostUnchanged
<1>3. Keeps(sync, sync')
  BY OrderlyFacts, MetadataTurns DEF Turns, Turned
<1> DEFINE mutation == [sync.localMutation EXCEPT !.metadata = meta]
           t == SubmitMetadata(sync, meta)
<1>4. mutation \in Mutations /\ mutation.content = sync.localMutation.content
  BY OrderlyFacts DEF Mutations
<1>5. t = SubmitComponents(sync, mutation, Differing(sync, mutation))
  BY OrderlyFacts DEF SubmitMetadata
<1> HIDE DEF mutation, t
<1>6. Proceeds(sync, t) /\ t.localMutation.content = sync.localMutation.content
  BY <1>4, <1>5, OrderlyFacts, SubmitProceeds
<1>7. /\ Says(<<>>) /\ sync' = t
      /\ view'.content = view.content /\ view'.tracked = view.tracked
      /\ view'.typed = view.typed /\ view'.notice = view.notice
  BY <1>1, <1>2, OrderlyFacts, StepSays DEF t
<1>8. Shows'
  BY <1>6, <1>7, ShownAfter DEF Proceeds, Orderly, Shows
<1>9. QED
  BY <1>2, <1>3, <1>6, <1>7, <1>8, OrderlyFacts, ProceedingOrderly

\* "Retry".
LEMMA RetryOrderly ==
    ASSUME Stored, Orderly, Stored', RetrySave
    PROVE  Orderly'
<1> DEFINE t == Retry(sync, Null)
<1>1. /\ ViewStep(t, view, ledger.known, <<>>)
      /\ UNCHANGED <<host, doc, toView>>
  BY DEF RetrySave, HostUnchanged
<1>2. Keeps(sync, sync')
  BY OrderlyFacts, RetryTurns DEF Turns, Turned
<1>3. Proceeds(sync, t) /\ t.localMutation = sync.localMutation
  BY OrderlyFacts, RetryProceeds DEF RetrySave
<1> HIDE DEF t
<1>4. /\ Says(<<>>) /\ sync' = t
      /\ view'.content = view.content /\ view'.tracked = view.tracked
      /\ view'.typed = view.typed /\ view'.notice = view.notice
  BY <1>1, OrderlyFacts, StepSays
<1>5. Shows'
  BY <1>3, <1>4, ShownAfter DEF Proceeds, Orderly, Shows
<1>6. QED
  BY <1>1, <1>2, <1>3, <1>4, <1>5, OrderlyFacts, ProceedingOrderly

\* A flush: what is typed is submitted, a failed save tried again, and the
\* barrier put up or answered at once.
LEMMA HearFlushOrderly ==
    ASSUME Stored, Orderly, Stored', HearFlush
    PROVE  Orderly'
<1> DEFINE flush == Head(toView).flush
           captured == Captured(view)
           v == CapturedView(view)
           asked == RetryBeforeSave(captured)
           t == FlushThrough(asked, flush, asked.localGeneration)
           posted == AnswersAtOnce(asked, flush)
<1>1. /\ ViewStep(t, v, ledger.known, posted)
      /\ UNCHANGED <<host, doc>>
      /\ toView # <<>> /\ toView' = Tail(toView)
      /\ Head(toView).type = "requestFlush"
  BY DEF HearFlush, AfterAcknowledged, Heard, Hears
<1>2. Keeps(sync, sync')
  BY OrderlyFacts, FlushTurns DEF Turns, Turned
<1>3. flush \in 1 .. MaxFlushes /\ flush \in Nat
  BY OrderlyFacts, HeardMessage, InboxFields, SessionAssumption DEF HearFlush
<1>4. posted \in Seq(Outbox) /\ \A m \in In(posted) : IsAnswer(m)
  <2> DEFINE yes == FlushAnswer(flush, TRUE)
             no == FlushAnswer(flush, FALSE)
  <2>1. posted = <<yes>> \/ posted = <<no>> \/ posted = <<>>
    BY DEF AnswersAtOnce
  <2>2. yes \in Outbox /\ no \in Outbox /\ IsAnswer(yes) /\ IsAnswer(no)
    BY <1>3 DEF FlushAnswer, Outbox, IsAnswer
  <2> HIDE DEF yes, no, posted
  <2>3. QED
    BY <2>1, <2>2, InFew
<1>5. \A m \in In(posted) : ~Counted(m) /\ m.type # "externalChangeAdopted"
  BY <1>4 DEF IsAnswer, Counted
<1>6. /\ Proceeds(sync, captured) /\ Sound(captured)
      /\ captured.localMutation.content = v.tracked
      /\ v \in Views /\ v.notice = view.notice
      /\ v.content = v.tracked
  BY CapturedProceeds
<1> HIDE DEF captured, v, posted, flush
<1>7. /\ Proceeds(sync, asked) /\ Sound(asked)
      /\ asked.localMutation = captured.localMutation
  <2>1. CASE CanRetry(captured)
    <3>1. asked = Retry(captured, Null)
      BY <2>1 DEF RetryBeforeSave
    <3>2. ErrorWaits(captured)
      BY <1>6 DEF Proceeds
    <3>3. /\ Proceeds(captured, asked) /\ Sound(asked)
          /\ asked.localMutation = captured.localMutation
      BY <1>6, <2>1, <3>1, <3>2, RetryProceeds, RetrySound
    <3> HIDE DEF asked
    <3>4. Proceeds(sync, asked)
      BY <1>6, <3>3, OrderlyFacts, ProceedsOn DEF Sound, Consistent
    <3>5. QED
      BY <3>3, <3>4
  <2>2. CASE ~CanRetry(captured)
    BY <1>6, <2>2 DEF RetryBeforeSave
  <2>3. QED
    BY <2>1, <2>2
<1> HIDE DEF asked
<1>8. Proceeds(sync, t) /\ t.localMutation = captured.localMutation
  <2>1. ErrorWaits(asked)
    BY <1>7 DEF Proceeds
  <2>2. Sound(t)
    BY <1>3, <1>7, FlushSound
  <2>3. Proceeds(asked, t) /\ t.localMutation = asked.localMutation
    BY <1>7, <2>1, FlushProceeds
  <2> HIDE DEF t
  <2>4. QED
    BY <1>7, <2>2, <2>3, OrderlyFacts, ProceedsOn DEF Sound, Consistent
<1> HIDE DEF t
<1>9. /\ Says(posted) /\ sync' = t
      /\ view'.content = v.content /\ view'.tracked = v.tracked
      /\ view'.typed = v.typed /\ view'.notice = v.notice
  BY <1>1, <1>4, <1>5, <1>6, OrderlyFacts, StepSays
<1>10. Shows'
  BY <1>6, <1>8, <1>9, ShownAfter DEF Proceeds
<1>11. ~Informs(Head(toView)) /\ Head(toView) \notin Settling
  BY <1>1 DEF Informs, Settling
<1>12. QED
  BY <1>1, <1>2, <1>5, <1>6, <1>8, <1>9, <1>10, <1>11, ProceedingOrderly

\* Nothing but the editor's own content changes.
LEMMA SameOrderly ==
    ASSUME Orderly, UNCHANGED <<sync, toHost, toView, host, doc>>,
           view'.notice = view.notice, Shows'
    PROVE  Orderly'
<1>1. Messages' = Messages /\ Tasked' = Tasked
  BY DEF Messages, Tasked
<1>2. Waits' /\ Writes' /\ (Unreported' <=> Unreported)
  BY <1>1 DEF Orderly, Waits, Writes, Unreported
<1>3. Secret' /\ Ordered'
  BY <1>2 DEF Orderly, Secret, Ordered
<1>4. Lined'
  BY <1>1 DEF Orderly, Lined
<1>5. Settling' = Settling /\ Carried' = Carried
  BY <1>1 DEF Settling, Carried
<1>6. Newest'
  BY <1>1, <1>5 DEF Orderly, Newest
<1>7. Informed'
  BY <1>2, <1>5 DEF Orderly, Informed, Doomed, Informs
<1>8. Noticed' /\ Quoted' /\ Matched'
  BY <1>5 DEF Orderly, Noticed, Quoted, Matched
<1>9. QED
  BY <1>2, <1>3, <1>4, <1>6, <1>7, <1>8 DEF Orderly

\* The user types.
LEMMA TypeOrderly ==
    ASSUME Stored, Orderly, Type
    PROVE  Orderly'
<1>1. PICK content \in Contents :
         view' = [view EXCEPT !.content = content, !.typed = TRUE]
  BY DEF Type
<1>2. /\ UNCHANGED <<sync, toHost, toView, host, doc>>
      /\ view'.typed /\ view'.tracked = view.tracked /\ view'.notice = view.notice
  BY <1>1, OrderlyFacts DEF Type, HostUnchanged, Views
<1>3. Shows'
  BY <1>2 DEF Orderly, Shows
<1>4. QED
  BY <1>2, <1>3, SameOrderly

\* "Keep mine": the draft goes out on the revision on display, and is rejected
\* if the document is further already.
LEMMA KeepMineOrderly ==
    ASSUME Stored, Orderly, Stored', KeepMine
    PROVE  Orderly'
<1> DEFINE revision == view.notice.revision
           kept == KeepLocal(sync, revision)
           t == FlushThrough(kept, 0, kept.localGeneration)
           v == [view EXCEPT !.keeping = TRUE]
           known == ledger.known \cup {view.notice.hostSnapshot}
<1>1. /\ view.notice # Null /\ view.notice \in Snapshots /\ revision <= doc.version
      /\ ViewStep(t, v, known, <<>>)
      /\ UNCHANGED <<host, doc, toView>>
  BY OrderlyFacts, TypedFacts DEF KeepMine, KeepLocalThroughAcknowledgement, HostUnchanged
<1>2. Keeps(sync, sync')
  BY OrderlyFacts, KeepMineTurns DEF Turns, Turned
<1>3. /\ revision \in Nat /\ known \in SUBSET Mutations
      /\ v \in Views /\ v.content = view.content /\ v.tracked = view.tracked
      /\ v.typed = view.typed /\ v.notice = view.notice
  BY <1>1, OrderlyFacts DEF Snapshots, Views
<1>4. revision = view.notice.revision
  OBVIOUS
<1> HIDE DEF revision, v, known
<1>5. /\ kept.acknowledgedRevision = revision
      /\ kept.externalChange = Null /\ kept.error = Null
      /\ kept.localMutation = sync.localMutation
      /\ kept.nextEditId = sync.nextEditId + 1
      /\ kept.inFlight # Null /\ kept.inFlight.baseRevision = revision
      /\ Sound(kept)
  BY <1>3, OrderlyFacts, KeepLocalEffect, KeepLocalSound
<1> HIDE DEF kept
<1>6. /\ t.acknowledgedRevision = revision
      /\ t.externalChange = Null /\ t.error = Null
      /\ t.localMutation = sync.localMutation
      /\ t.nextEditId = sync.nextEditId + 1
      /\ t.inFlight # Null /\ t.inFlight.baseRevision = revision
  BY <1>5, FlushProceeds DEF Proceeds, ErrorWaits
<1> HIDE DEF t
<1>7. /\ Says(<<>>) /\ sync' = t
      /\ view'.content = view.content /\ view'.tracked = view.tracked
      /\ view'.typed = view.typed /\ view'.notice = view.notice
  BY <1>1, <1>3, OrderlyFacts, StepSays
<1>8. /\ Writes /\ Secret /\ Ordered /\ Lined /\ Newest /\ Quoted /\ Shows
      /\ sync.nextEditId \in Nat
  BY OrderlyFacts, InFlightTyped DEF Orderly
<1>9. Writes' /\ (Unreported' <=> Unreported)
  BY <1>2, <1>7, <1>8, OrderlyFacts, TurnOrder
<1>10. Lined' /\ Newest' /\ Settling' = {}
  BY <1>2, <1>6, <1>7, <1>8, TurnLined, TurnNewest
<1>11. Shows' /\ Waits'
  BY <1>3, <1>4, <1>6, <1>7, <1>8 DEF Shows, Waits, ErrorWaits
<1>12. Secret' /\ Ordered'
  BY <1>1, <1>4, <1>6, <1>7, <1>8, <1>9 DEF Secret, Ordered
<1>13. Informed'
  <2>1. doc.version \in Nat
    BY OrderlyFacts, TypedFacts
  <2>2. CASE revision = doc.version
    BY <1>1, <1>6, <1>7, <2>2 DEF Informed
  <2>3. CASE revision # doc.version
    BY <1>1, <1>3, <1>6, <1>7, <1>10, <2>1, <2>3 DEF Informed, Doomed
  <2>4. QED
    BY <2>2, <2>3
<1>14. Noticed' /\ Quoted' /\ Matched'
  BY <1>1, <1>6, <1>7, <1>8, <1>10 DEF Noticed, Quoted, Matched
<1>15. QED
  BY <1>9, <1>10, <1>11, <1>12, <1>13, <1>14 DEF Orderly

----------------------------------------------------------------------------
(* What is quiet is stored: what the webview hears *)

\* The oldest message is not older than anything the webview knows.
LEMMA HeardOrderly ==
    ASSUME Stored, Orderly, NEW type, type # "requestFlush", Hears(type), Heard
    PROVE  LET m == Head(toView)
           IN  /\ toView # <<>> /\ toView' = Tail(toView)
               /\ UNCHANGED <<host, doc>>
               /\ m \in In(toView) /\ m \in Inbox /\ m.type = type
               /\ m.revision \in Nat /\ doc.version \in Nat
               /\ sync.acknowledgedRevision <= m.revision /\ m.revision <= doc.version
               /\ type \in News => sync.acknowledgedRevision < m.revision
               /\ view.notice # Null =>
                     /\ view.notice.revision \in Nat /\ view.notice.revision <= m.revision
                     /\ type \in News => view.notice.revision < m.revision
               /\ Unreported => m.revision < doc.version
<1> DEFINE m == Head(toView)
<1>1. /\ toView # <<>> /\ toView' = Tail(toView) /\ UNCHANGED <<host, doc>>
      /\ m \in In(toView) /\ m \in Inbox /\ m.type = type /\ m.revision <= doc.version
  BY OrderlyFacts, HeardMessage DEF Heard
<1>2. m.revision \in Nat
  <2>1. \A x \in Inbox : x.type # "requestFlush" => x.revision \in Nat
    BY DEF Inbox
  <2>2. QED
    BY <1>1, <2>1
<1>3. /\ After(m, sync.acknowledgedRevision)
      /\ view.notice # Null => After(m, view.notice.revision)
      /\ Unreported => m.revision < doc.version
  BY <1>1 DEF Orderly, Ordered, Secret, Dated
<1>4. view.notice # Null => view.notice.revision \in Nat
  BY OrderlyFacts, TypedFacts DEF Snapshots
<1>5. doc.version \in Nat
  BY OrderlyFacts, TypedFacts
<1>6. QED
  BY <1>1, <1>2, <1>3, <1>4, <1>5 DEF After

\* A turn that leaves the webview at a newer revision, with no notice left.
LEMMA AdvancingOrderly ==
    ASSUME Stored, Orderly, Stored', Keeps(sync, sync'), Says(<<>>),
           NEW m, m = Head(toView), toView # <<>>, toView' = Tail(toView),
           m.type \in {"externalChange", "documentRevisionAdvanced"},
           m \in In(toView), m.revision \in Nat, m.revision <= doc.version,
           sync.acknowledgedRevision < m.revision,
           view.notice # Null => view.notice.revision < m.revision,
           Unreported => m.revision < doc.version,
           m.type = "externalChange" => m.snapshot = sync.localMutation,
           sync' = AdvanceAcknowledgedRevision(sync, m.revision),
           view'.content = view.content, view'.tracked = view.tracked,
           view'.typed = view.typed, view'.notice = sync'.externalChange
    PROVE  Orderly'
<1>1. /\ Shows /\ Waits /\ Writes /\ Secret /\ Ordered /\ Lined /\ Newest
      /\ Informed /\ Noticed /\ Quoted /\ Matched
      /\ sync.nextEditId \in Nat /\ sync.acknowledgedRevision \in Nat
      /\ doc.version \in Nat
      /\ host' = host /\ doc' = doc
  BY OrderlyFacts, InFlightTyped, TypedFacts DEF Orderly, Says
<1>2. sync.externalChange # Null =>
         /\ sync.externalChange.revision \in Nat
         /\ sync.externalChange.revision < m.revision
  BY <1>1, OrderlyFacts DEF Shows, SyncStates, Snapshots
<1>3. NoticeNewerThan(sync, m.revision) = Null
  BY <1>2 DEF NoticeNewerThan
<1>4. /\ sync'.acknowledgedRevision = m.revision
      /\ sync'.externalChange = Null
      /\ ErrorWaits(sync')
      /\ sync'.error = sync.error
      /\ sync'.localMutation = sync.localMutation
      /\ \/ /\ sync'.nextEditId = sync.nextEditId
            /\ sync'.inFlight = sync.inFlight /\ sync'.pending = sync.pending
            /\ sync.inFlight = Null /\ sync.error = Null => sync.pending = Null
         \/ /\ sync'.nextEditId = sync.nextEditId + 1
            /\ sync.inFlight = Null /\ sync'.inFlight # Null
            /\ sync'.inFlight.baseRevision = m.revision
  BY <1>3, OrderlyFacts, AdvanceEffect
<1>5. In(<<>>) = {}
  BY InFew
<1>6. /\ Writes' /\ (Unreported' <=> Unreported)
      /\ In(toView') \subseteq In(toView)
      /\ \A x, y \in In(toView') :
            Precedes(toView', x, y) /\ Dated(x) /\ Dated(y) => After(y, x.revision)
  BY <1>1, <1>5, TurnOrder
<1>7. /\ In(toView) \subseteq {m} \cup In(toView')
      /\ \A x \in In(toView') : Dated(x) => After(x, m.revision)
  <2>1. /\ In(toView) \subseteq {m} \cup In(toView')
        /\ \A y \in In(toView') : Precedes(toView, m, y) /\ y \in In(toView)
    BY OrderlyFacts, HostFacts, PrecedesTail, InTail
  <2>2. QED
    BY <1>1, <2>1 DEF Ordered, Dated
<1>8. Lined'
  BY <1>1, TurnLined
<1>9. m \notin Settling
  BY DEF Settling
<1>10. \/ /\ sync'.inFlight = sync.inFlight /\ sync'.pending = sync.pending
          /\ sync.inFlight = Null /\ sync.error = Null => sync.pending = Null
          /\ Newest' /\ Settling' = Settling
       \/ /\ sync.inFlight = Null /\ sync'.inFlight # Null
          /\ sync'.inFlight.baseRevision = m.revision
          /\ Newest' /\ Settling' = {}
  <2>1. CASE sync'.nextEditId = sync.nextEditId
    BY <1>1, <1>4, <1>9, <2>1, TurnNewest
  <2>2. CASE sync'.nextEditId # sync.nextEditId
    BY <1>1, <1>4, <2>2, TurnNewest
  <2>3. QED
    BY <2>1, <2>2
<1>11. Shows'
  BY <1>1, <1>4 DEF Shows
<1>12. Waits'
  <2>1. sync.inFlight # Null => sync.inFlight.baseRevision \in Nat
    BY CountedFacts
  <2>2. QED
    BY <1>1, <1>4, <1>10, <2>1 DEF Waits
<1>13. Secret' /\ Ordered'
  BY <1>1, <1>4, <1>6, <1>7 DEF Secret, Ordered
<1>14. Informed'
  <2>1. Doomed => Doomed'
    BY <1>1, <1>10 DEF Doomed
  <2>2. ASSUME NEW x \in In(toView), Informs(x), x.revision = doc.version
        PROVE  \/ sync'.acknowledgedRevision = doc.version
               \/ x \in In(toView') /\ Informs(x)'
    <3>1. x \in Settling => sync.inFlight # Null
      BY DEF Settling
    <3>2. QED
      BY <1>4, <1>7, <1>10, <2>2, <3>1 DEF Informs
  <2>3. QED
    BY <1>1, <1>2, <1>4, <1>6, <2>1, <2>2 DEF Informed
<1>15. Noticed'
  <2>1. CASE doc.text = host.lastLocal
    BY <1>1, <2>1 DEF Noticed
  <2>2. ASSUME NEW x \in In(toView), x.type = "externalChange", x.revision = doc.version
        PROVE  Noticed'
    <3>1. CASE x \in In(toView')
      BY <1>1, <2>2, <3>1 DEF Noticed
    <3>2. CASE x = m
      <4>1. sync.localMutation = doc.text
        BY <1>1, <2>2, <3>2 DEF Quoted
      <4>2. CASE sync'.inFlight # Null
        <5>1. ASSUME NEW y \in Settling', y.type = "editAcknowledged"
              PROVE  FALSE
          <6>1. y \in In(toView') /\ Dated(y) /\ y.type \in News
            BY <5>1 DEF Settling, Dated, News
          <6>2. m.revision < y.revision
            BY <1>7, <6>1 DEF After
          <6>3. y \in Inbox /\ y.revision <= doc.version
            BY <1>6, <6>1, CountedFacts, OrderlyFacts DEF Typed, Recent, Dated
          <6>4. y.revision \in Nat
            BY <5>1, <6>3, InboxFields
          <6>5. QED
            BY <1>1, <2>2, <3>2, <6>2, <6>3, <6>4
        <5>2. QED
          BY <4>2, <5>1 DEF Noticed
      <4>3. CASE sync'.inFlight = Null
        <5>1. CASE sync.error # Null
          BY <1>4, <5>1 DEF Noticed
        <5>2. CASE sync.error = Null
          <6>1. sync.inFlight = Null /\ sync.pending = Null
            BY <1>10, <4>3, <5>2
          <6>2. host.lastLocal = sync.localMutation
            BY <1>1, <6>1 DEF Matched
          <6>3. QED
            BY <1>1, <4>1, <6>2 DEF Noticed
        <5>3. QED
          BY <5>1, <5>2
      <4>4. QED
        BY <4>2, <4>3
    <3>3. QED
      BY <1>7, <3>1, <3>2
  <2>3. CASE sync.externalChange # Null /\ sync.externalChange.revision = doc.version
    BY <1>1, <1>2, <2>3
  <2>4. CASE sync.error # Null
    BY <1>4, <2>4 DEF Noticed
  <2>5. CASE sync.inFlight # Null /\ \A x \in Settling : x.type # "editAcknowledged"
    BY <1>10, <2>5 DEF Noticed
  <2>6. QED
    BY <1>1, <2>1, <2>2, <2>3, <2>4, <2>5 DEF Noticed
<1>16. Quoted' /\ Matched'
  BY <1>1, <1>4, <1>6, <1>10 DEF Quoted, Matched
<1>17. QED
  BY <1>6, <1>8, <1>10, <1>11, <1>12, <1>13, <1>14, <1>15, <1>16 DEF Orderly

\* A newer revision of the text the host has stored.
LEMMA AdvancedOrderly ==
    ASSUME Stored, Orderly, Stored', HearRevisionAdvanced
    PROVE  Orderly'
<1> DEFINE m == Head(toView)
           t == AdvanceAcknowledgedRevision(sync, m.revision)
           v == [view EXCEPT !.revision = m.revision, !.notice = Shown(t)]
<1>1. Hears("documentRevisionAdvanced") /\ Heard
  BY DEF HearRevisionAdvanced
<1>2. /\ toView # <<>> /\ toView' = Tail(toView)
      /\ UNCHANGED <<host, doc>>
      /\ m \in In(toView) /\ m.type = "documentRevisionAdvanced"
      /\ m.revision \in Nat /\ m.revision <= doc.version
      /\ sync.acknowledgedRevision < m.revision
      /\ view.notice # Null => view.notice.revision < m.revision
      /\ Unreported => m.revision < doc.version
  BY <1>1, HeardOrderly DEF News
<1>3. m.revision > sync.acknowledgedRevision
  BY <1>2, OrderlyFacts
<1>4. ViewStep(t, v, ledger.known, <<>>)
  BY <1>3 DEF HearRevisionAdvanced
<1>5. Keeps(sync, sync')
  BY <1>1, OrderlyFacts, RevisionAdvancedTurns DEF Turns, Turned
<1> HIDE DEF m
<1>6. Sound(t)
  BY <1>2, OrderlyFacts, AdvanceSound
<1> HIDE DEF t
<1>7. /\ v \in Views /\ v.content = view.content /\ v.tracked = view.tracked
      /\ v.typed = view.typed /\ v.notice = t.externalChange
  BY <1>2, <1>6, OrderlyFacts DEF Views, Shown, Sound, Consistent, SyncStates
<1> HIDE DEF v
<1>8. /\ Says(<<>>) /\ sync' = t
      /\ view'.content = view.content /\ view'.tracked = view.tracked
      /\ view'.typed = view.typed /\ view'.notice = t.externalChange
  BY <1>2, <1>4, <1>7, OrderlyFacts, StepSays
<1>9. m = Head(toView) /\ sync' = AdvanceAcknowledgedRevision(sync, m.revision)
  BY <1>8 DEF m, t
<1>10. QED
  BY <1>2, <1>5, <1>8, <1>9, AdvancingOrderly

\* Somebody else's text: a notice, unless the editor holds that very text.
LEMMA ExternalChangeOrderly ==
    ASSUME Stored, Orderly, Stored', HearExternalChange
    PROVE  Orderly'
<1> DEFINE m == Head(toView)
           t == ObserveExternalChange(sync, m.revision, m.snapshot)
           known == IF sync.localMutation = m.snapshot
                    THEN ledger.known \cup {m.snapshot} ELSE ledger.known
           reached == IF t.acknowledgedRevision >= m.revision
                      THEN Larger(view.revision, m.revision) ELSE view.revision
           notice == IF sync.localMutation # m.snapshot
                     THEN [revision |-> m.revision, hostSnapshot |-> m.snapshot]
                     ELSE Shown(t)
           v == [view EXCEPT !.notice = notice, !.revision = reached]
<1>1. Hears("externalChange") /\ Heard
  BY DEF HearExternalChange
<1>2. /\ toView # <<>> /\ toView' = Tail(toView)
      /\ UNCHANGED <<host, doc>>
      /\ m \in In(toView) /\ m \in Inbox /\ m.type = "externalChange"
      /\ m.revision \in Nat /\ m.revision <= doc.version
      /\ sync.acknowledgedRevision < m.revision
      /\ view.notice # Null => view.notice.revision < m.revision
      /\ Unreported => m.revision < doc.version
  BY <1>1, HeardOrderly DEF News
<1>3. m.revision > sync.acknowledgedRevision /\ m.snapshot \in Mutations
  BY <1>2, OrderlyFacts, InboxFields
<1>4. ViewStep(t, v, known, <<>>)
  BY <1>3, OrderlyFacts DEF HearExternalChange, Views
<1>5. Keeps(sync, sync')
  BY <1>1, OrderlyFacts, ExternalChangeTurns DEF Turns, Turned
<1> HIDE DEF m
<1>6. Sound(t)
  BY <1>2, <1>3, OrderlyFacts, ObserveSound
<1> HIDE DEF t
<1>7. reached \in Nat /\ notice \in Snapshots \cup {Null} /\ known \in SUBSET Mutations
  BY <1>2, <1>3, <1>6, OrderlyFacts
     DEF Views, Larger, Snapshots, Shown, Sound, Consistent, SyncStates
<1>8. /\ sync.localMutation = m.snapshot => notice = t.externalChange
      /\ sync.localMutation # m.snapshot =>
            notice = [revision |-> m.revision, hostSnapshot |-> m.snapshot]
  BY DEF Shown
<1> HIDE DEF reached, notice, known
<1>9. /\ v \in Views /\ v.content = view.content /\ v.tracked = view.tracked
      /\ v.typed = view.typed /\ v.notice = notice
  BY <1>7, OrderlyFacts DEF Views
<1> HIDE DEF v
<1>10. /\ Says(<<>>) /\ sync' = t
       /\ view'.content = view.content /\ view'.tracked = view.tracked
       /\ view'.typed = view.typed /\ view'.notice = notice
  BY <1>2, <1>4, <1>7, <1>9, OrderlyFacts, StepSays
<1>11. CASE sync.localMutation = m.snapshot
  <2>1. t = AdvanceAcknowledgedRevision(sync, m.revision)
    BY <1>11 DEF t, ObserveExternalChange, m
  <2>2. m = Head(toView) /\ m.snapshot = sync.localMutation
    BY <1>11 DEF m
  <2>3. QED
    BY <1>2, <1>5, <1>8, <1>10, <1>11, <2>1, <2>2, AdvancingOrderly
<1>12. CASE sync.localMutation # m.snapshot
  <2> DEFINE change == [revision |-> m.revision, hostSnapshot |-> m.snapshot]
  <2>1. /\ t.acknowledgedRevision = sync.acknowledgedRevision
        /\ t.externalChange = change
        /\ t.error = sync.error /\ t.inFlight = sync.inFlight
        /\ t.pending = sync.pending
        /\ t.localMutation = sync.localMutation
        /\ t.nextEditId = sync.nextEditId
    BY <1>2, <1>3, <1>12, OrderlyFacts, ObserveEffect DEF t
  <2>2. notice = change /\ change.revision = m.revision /\ change # Null
    <3>1. change \in Snapshots
      BY <1>2, <1>3 DEF Snapshots
    <3>2. QED
      BY <1>8, <1>12, <3>1, NullAssumption
  <2> HIDE DEF change
  <2>3. /\ Shows /\ Waits /\ Writes /\ Secret /\ Ordered /\ Lined /\ Newest
        /\ Informed /\ Noticed /\ Quoted /\ Matched
        /\ sync.acknowledgedRevision \in Nat /\ doc.version \in Nat
        /\ host' = host /\ doc' = doc
    BY <1>2, OrderlyFacts, TypedFacts DEF Orderly
  <2>4. m \notin Settling
    BY <1>2 DEF Settling
  <2>5. In(<<>>) = {}
    BY InFew
  <2>6. /\ Writes' /\ (Unreported' <=> Unreported)
        /\ In(toView') \subseteq In(toView)
        /\ \A x, y \in In(toView') :
              Precedes(toView', x, y) /\ Dated(x) /\ Dated(y) => After(y, x.revision)
    BY <1>5, <1>10, <2>3, <2>5, TurnOrder
  <2>7. /\ In(toView) \subseteq {m} \cup In(toView')
        /\ \A x \in In(toView') : Dated(x) => After(x, m.revision)
    <3>1. /\ In(toView) \subseteq {m} \cup In(toView')
          /\ \A y \in In(toView') : Precedes(toView, m, y) /\ y \in In(toView)
      BY <1>2, OrderlyFacts, HostFacts, PrecedesTail, InTail DEF m
    <3>2. QED
      BY <1>2, <2>3, <3>1 DEF Ordered, Dated
  <2>8. Lined' /\ Newest' /\ Settling' = Settling
    <3>1. Head(toView) \notin Settling
      BY <2>4 DEF m
    <3>2. QED
      BY <1>5, <1>10, <2>1, <2>3, <3>1, TurnLined, TurnNewest
  <2>9. Shows' /\ Waits'
    BY <1>2, <1>10, <2>1, <2>2, <2>3 DEF Shows, Waits, ErrorWaits
  <2>10. Secret' /\ Ordered'
    BY <1>2, <1>10, <2>1, <2>2, <2>3, <2>6, <2>7 DEF Secret, Ordered
  <2>11. sync.externalChange # Null => sync.externalChange.revision # doc.version
    <3>1. sync.externalChange # Null => /\ sync.externalChange.revision < m.revision
                                        /\ sync.externalChange.revision \in Nat
      BY <1>2, <2>3, OrderlyFacts DEF Shows, SyncStates, Snapshots
    <3>2. QED
      BY <1>2, <2>3, <3>1
  <2>12. Informed'
    <3>1. Doomed => Doomed'
      BY <1>10, <2>1, <2>3, <2>8 DEF Doomed
    <3>2. ASSUME NEW x \in In(toView), Informs(x), x.revision = doc.version
          PROVE  \/ sync'.externalChange # Null
                    /\ sync'.externalChange.revision = doc.version
                 \/ x \in In(toView') /\ Informs(x)'
      BY <1>10, <2>1, <2>2, <2>7, <2>8, <3>2 DEF Informs
    <3>3. QED
      BY <1>10, <2>1, <2>3, <2>6, <2>11, <3>1, <3>2 DEF Informed
  <2>13. Noticed'
    BY <1>2, <1>10, <2>1, <2>2, <2>3, <2>7, <2>8, <2>11 DEF Noticed
  <2>14. Quoted' /\ Matched'
    BY <1>10, <2>1, <2>3, <2>6, <2>8 DEF Quoted, Matched
  <2>15. QED
    BY <2>6, <2>8, <2>9, <2>10, <2>12, <2>13, <2>14 DEF Orderly
<1>13. QED
  BY <1>11, <1>12

\* An answer to no request in flight is dropped.
LEMMA DroppedOrderly ==
    ASSUME Stored, Orderly, Stored', sync' = sync, Says(<<>>),
           toView # <<>>, toView' = Tail(toView),
           Head(toView).type \in {"editAcknowledged", "editRejected"},
           Head(toView).identity = Self, ~MatchesInFlight(sync, Head(toView)),
           view'.content = view.content, view'.tracked = view.tracked,
           view'.typed = view.typed, view'.notice = view.notice
    PROVE  Orderly'
<1>1. Keeps(sync, sync') /\ Proceeds(sync, sync')
  BY OrderlyFacts, TypedFacts DEF Proceeds
<1>2. Head(toView) \notin Settling /\ ~Informs(Head(toView))
  BY DEF Settling, MatchesInFlight, Informs
<1>3. Shows'
  BY ShownAfter DEF Orderly, Shows
<1>4. QED
  BY <1>1, <1>2, <1>3, OrderlyFacts, ProceedingOrderly

\* What is left when the request in flight is answered: no other edit or answer
\* is on its way, and later news is of later versions.
LEMMA AnsweredFacts ==
    ASSUME Stored, Orderly, Stored', Keeps(sync, sync'), Says(<<>>),
           toView # <<>>, toView' = Tail(toView), Head(toView) \in Settling,
           \/ sync'.nextEditId = sync.nextEditId /\ sync'.inFlight = Null
           \/ sync'.nextEditId # sync.nextEditId
    PROVE  /\ Writes' /\ (Unreported' <=> Unreported) /\ Lined'
           /\ Newest' /\ Settling' = {} /\ Settling = {Head(toView)}
           /\ In(toView') \subseteq In(toView)
           /\ In(toView) \subseteq {Head(toView)} \cup In(toView')
           /\ \A x, y \in In(toView') :
                 Precedes(toView', x, y) /\ Dated(x) /\ Dated(y) => After(y, x.revision)
           /\ \A x \in In(toView') : Dated(x) => After(x, Head(toView).revision)
<1>1. Writes /\ Ordered /\ Lined /\ Newest /\ toView \in Seq(Inbox)
  BY OrderlyFacts, HostFacts DEF Orderly
<1>2. Dated(Head(toView))
  BY DEF Settling, Dated
<1>3. /\ \A m \in Messages \cup In(toView') : ~Counted(m)
      /\ Settling = {Head(toView)}
  BY <1>1, HeadSettles
<1>4. /\ Writes' /\ (Unreported' <=> Unreported)
      /\ In(toView') \subseteq In(toView)
      /\ \A x, y \in In(toView') :
            Precedes(toView', x, y) /\ Dated(x) /\ Dated(y) => After(y, x.revision)
  BY <1>1, OrderlyFacts, TurnOrder
<1>5. /\ In(toView) \subseteq {Head(toView)} \cup In(toView')
      /\ \A x \in In(toView') : Dated(x) => After(x, Head(toView).revision)
  <2>1. /\ In(toView) \subseteq {Head(toView)} \cup In(toView')
        /\ \A y \in In(toView') : Precedes(toView, Head(toView), y) /\ y \in In(toView)
        /\ Head(toView) \in In(toView)
    BY <1>1, PrecedesTail, InTail
  <2>2. QED
    BY <1>1, <1>2, <2>1 DEF Ordered
<1>6. Lined' /\ Newest' /\ Settling' = {}
  BY <1>1, <1>3, TurnLined, TurnNewest
<1>7. QED
  BY <1>3, <1>4, <1>5, <1>6

\* An acknowledgement of the request in flight, or of an older one.
LEMMA AcknowledgementOrderly ==
    ASSUME Stored, Orderly, Stored', HearAcknowledgement
    PROVE  Orderly'
<1> DEFINE m == Head(toView)
           t == Acknowledge(sync, m)
<1>1. Hears("editAcknowledged") /\ Heard
  BY DEF HearAcknowledgement
<1>2. /\ toView # <<>> /\ toView' = Tail(toView)
      /\ UNCHANGED <<host, doc>>
      /\ m \in In(toView) /\ m \in Inbox /\ m.type = "editAcknowledged"
      /\ m.revision \in Nat /\ m.revision <= doc.version
      /\ sync.acknowledgedRevision < m.revision
      /\ view.notice # Null => view.notice.revision < m.revision
      /\ Unreported => m.revision < doc.version
  BY <1>1, HeardOrderly DEF News
<1>3. m.identity = Self
  BY <1>2 DEF Inbox
<1>4. Keeps(sync, sync')
  BY <1>1, OrderlyFacts, AcknowledgementTurns DEF Turns, Turned
<1>5. /\ Shows /\ Waits /\ Writes /\ Secret /\ Ordered /\ Lined /\ Newest
      /\ Informed /\ Noticed /\ Quoted /\ Matched
      /\ sync.acknowledgedRevision \in Nat /\ doc.version \in Nat
      /\ sync.nextEditId \in Nat
  BY OrderlyFacts, TypedFacts, InFlightTyped DEF Orderly
<1> HIDE DEF m
<1>6. CASE ~MatchesInFlight(sync, m)
  <2>1. t = sync /\ ~Acknowledges(sync, m)
    BY <1>6 DEF Acknowledge, Acknowledges
  <2>2. ViewStep(sync, view, ledger.known, <<>>)
    BY <2>1 DEF HearAcknowledgement, m
  <2>3. /\ Says(<<>>) /\ sync' = sync
        /\ view'.content = view.content /\ view'.tracked = view.tracked
        /\ view'.typed = view.typed /\ view'.notice = view.notice
    BY <1>2, <2>2, OrderlyFacts, StepSays
  <2>4. QED
    BY <1>2, <1>3, <1>6, <2>3, DroppedOrderly DEF m
<1>7. CASE MatchesInFlight(sync, m)
  <2> DEFINE known == {sync.inFlight.mutation}
             v == [view EXCEPT !.revision = m.revision, !.notice = Shown(t)]
  <2>1. sync.inFlight # Null /\ sync.inFlight \in Requests
    BY <1>7, CountedFacts DEF MatchesInFlight
  <2>2. Acknowledges(sync, m)
    BY <1>2, <1>5, <1>7, <2>1, CountedFacts DEF Acknowledges, Waits
  <2>3. ViewStep(t, v, known, <<>>)
    BY <2>2 DEF HearAcknowledgement, m
  <2>4. m \in Settling
    BY <1>2, <1>7 DEF Settling, MatchesInFlight
  <2>5. sync.externalChange # Null => /\ sync.externalChange.revision \in Nat
                                      /\ sync.externalChange.revision < m.revision
    BY <1>2, <1>5, OrderlyFacts DEF Shows, SyncStates, Snapshots
  <2>6. NoticeNewerThan(sync, m.revision) = Null
    BY <1>2, <2>5 DEF NoticeNewerThan
  <2>7. /\ t.acknowledgedRevision = m.revision
        /\ t.externalChange = Null /\ t.error = Null
        /\ t.localMutation = sync.localMutation
        /\ \/ /\ t.nextEditId = sync.nextEditId
              /\ t.inFlight = Null /\ t.pending = sync.pending
           \/ /\ t.nextEditId = sync.nextEditId + 1
              /\ t.inFlight # Null
              /\ t.inFlight.baseRevision = m.revision
    BY <1>2, <2>2, <2>6, OrderlyFacts, AcknowledgeEffect
  <2> HIDE DEF t
  <2>8. /\ v \in Views /\ v.content = view.content /\ v.tracked = view.tracked
        /\ v.typed = view.typed /\ v.notice = Null
        /\ known \in SUBSET Mutations
    BY <1>2, <2>1, <2>7, OrderlyFacts DEF Views, Shown, Requests
  <2> HIDE DEF v, known
  <2>9. /\ Says(<<>>) /\ sync' = t
        /\ view'.content = view.content /\ view'.tracked = view.tracked
        /\ view'.typed = view.typed /\ view'.notice = Null
    BY <1>2, <2>3, <2>8, OrderlyFacts, StepSays
  <2>10. /\ Writes' /\ (Unreported' <=> Unreported) /\ Lined'
         /\ Newest' /\ Settling' = {} /\ Settling = {m}
         /\ In(toView') \subseteq In(toView)
         /\ In(toView) \subseteq {m} \cup In(toView')
         /\ \A x, y \in In(toView') :
               Precedes(toView', x, y) /\ Dated(x) /\ Dated(y) => After(y, x.revision)
         /\ \A x \in In(toView') : Dated(x) => After(x, m.revision)
    <3>1. \/ sync'.nextEditId = sync.nextEditId /\ sync'.inFlight = Null
          \/ sync'.nextEditId # sync.nextEditId
      BY <1>5, <2>7, <2>9
    <3>2. QED
      BY <1>2, <1>4, <2>4, <2>9, <3>1, AnsweredFacts DEF m
  <2>11. Shows' /\ Waits'
    BY <1>2, <1>5, <2>7, <2>9 DEF Shows, Waits, ErrorWaits
  <2>12. Secret' /\ Ordered' /\ Quoted'
    BY <1>2, <1>5, <2>7, <2>9, <2>10 DEF Secret, Ordered, Quoted
  <2>13. Informed'
    <3>1. ~Doomed
      BY <2>4 DEF Doomed
    <3>2. ASSUME NEW x \in In(toView), Informs(x), x.revision = doc.version
          PROVE  \/ sync'.acknowledgedRevision = doc.version
                 \/ x \in In(toView') /\ Informs(x)'
      BY <2>7, <2>9, <2>10, <3>2 DEF Informs
    <3>3. QED
      BY <1>2, <1>5, <2>5, <2>10, <3>1, <3>2 DEF Informed
  <2>14. Noticed'
    <3>1. sync.error = Null
      BY <1>5, <2>1 DEF Waits, ErrorWaits
    <3>2. ~(sync.externalChange # Null /\ sync.externalChange.revision = doc.version)
      BY <1>2, <1>5, <2>5
    <3>3. QED
      BY <1>2, <1>5, <2>4, <2>10, <3>1, <3>2 DEF Noticed
  <2>15. Matched'
    <3>1. sync'.inFlight = Null /\ sync'.pending = Null =>
             sync.inFlight.mutation = sync.localMutation
      BY <2>1, <2>7, <2>9, OrderlyFacts DEF Sound, Consistent, Numbered
    <3>2. QED
      BY <1>2, <1>5, <2>4, <2>7, <2>9, <2>10, <3>1 DEF Matched
  <2>16. QED
    BY <2>10, <2>11, <2>12, <2>13, <2>14, <2>15 DEF Orderly
<1>8. QED
  BY <1>6, <1>7

\* A rejection of the request in flight, or of an older one.
LEMMA RejectionOrderly ==
    ASSUME Stored, Orderly, Stored', HearRejection
    PROVE  Orderly'
<1> DEFINE m == Head(toView)
           t == Reject(sync, m)
           v == IF MatchesInFlight(sync, m) /\ Shown(t) # Null
                THEN [view EXCEPT !.notice = Shown(t)] ELSE view
<1>1. Hears("editRejected") /\ Heard
  BY DEF HearRejection
<1>2. /\ toView # <<>> /\ toView' = Tail(toView)
      /\ UNCHANGED <<host, doc>>
      /\ m \in In(toView) /\ m \in Inbox /\ m.type = "editRejected"
      /\ m.revision \in Nat /\ m.revision <= doc.version
      /\ sync.acknowledgedRevision <= m.revision
      /\ view.notice # Null => /\ view.notice.revision \in Nat
                               /\ view.notice.revision <= m.revision
      /\ Unreported => m.revision < doc.version
  BY <1>1, HeardOrderly
<1>3. m.identity = Self
  BY <1>2 DEF Inbox
<1>4. ViewStep(t, v, ledger.known, <<>>)
  BY DEF HearRejection
<1>5. Keeps(sync, sync')
  BY OrderlyFacts, RejectionTurns DEF Turns, Turned
<1>6. /\ Shows /\ Waits /\ Writes /\ Secret /\ Ordered /\ Lined /\ Newest
      /\ Informed /\ Noticed /\ Quoted /\ Matched
      /\ sync.acknowledgedRevision \in Nat /\ doc.version \in Nat
      /\ sync.nextEditId \in Nat
  BY OrderlyFacts, TypedFacts, InFlightTyped DEF Orderly
<1>7. m.code \in ErrorCodes /\ m.hostSnapshot \in Mutations \cup {Null}
  BY <1>2, InboxFields
<1> HIDE DEF m
<1>8. CASE ~MatchesInFlight(sync, m)
  <2>1. t = sync /\ v = view
    BY <1>8 DEF Reject
  <2>2. ViewStep(sync, view, ledger.known, <<>>)
    BY <1>4, <2>1
  <2>3. /\ Says(<<>>) /\ sync' = sync
        /\ view'.content = view.content /\ view'.tracked = view.tracked
        /\ view'.typed = view.typed /\ view'.notice = view.notice
    BY <1>2, <2>2, OrderlyFacts, StepSays
  <2>4. QED
    BY <1>2, <1>3, <1>8, <2>3, DroppedOrderly DEF m
<1>9. CASE MatchesInFlight(sync, m)
  <2> DEFINE change == [revision |-> m.revision, hostSnapshot |-> m.hostSnapshot]
             notice == IF IsConflict(m) THEN change ELSE view.notice
  <2>1. sync.inFlight # Null /\ m \in Settling
    BY <1>2, <1>9 DEF Settling, MatchesInFlight
  <2>2. IsConflict(m) => change \in Snapshots /\ change # Null
    <3>1. IsConflict(m) => change \in Snapshots
      BY <1>2, <1>7 DEF Snapshots, IsConflict
    <3>2. QED
      BY <3>1, NullAssumption
  <2>3. /\ t.acknowledgedRevision = sync.acknowledgedRevision
        /\ t.externalChange = IF IsConflict(m) THEN change ELSE sync.externalChange
        /\ t.error # Null /\ t.inFlight = Null /\ t.pending # Null
        /\ t.localMutation = sync.localMutation
        /\ t.nextEditId = sync.nextEditId
    BY <1>7, <1>9, OrderlyFacts, RejectEffect
  <2>4. change.revision = m.revision
    OBVIOUS
  <2> HIDE DEF t, change
  <2>5. v = [view EXCEPT !.notice = notice]
    <3>1. CASE IsConflict(m)
      BY <1>9, <2>2, <2>3, <3>1 DEF Shown
    <3>2. CASE ~IsConflict(m)
      <4>1. sync.externalChange # Null => view.notice = sync.externalChange
        BY <1>6 DEF Shows
      <4>2. view = [view EXCEPT !.notice = view.notice]
        BY OrderlyFacts DEF Views
      <4>3. QED
        BY <1>9, <2>3, <3>2, <4>1, <4>2 DEF Shown
    <3>3. QED
      BY <3>1, <3>2
  <2>6. notice \in Snapshots \cup {Null}
    BY <2>2, OrderlyFacts DEF Views
  <2> HIDE DEF notice
  <2>7. /\ v \in Views /\ v.content = view.content /\ v.tracked = view.tracked
        /\ v.typed = view.typed /\ v.notice = notice
    BY <2>5, <2>6, OrderlyFacts DEF Views
  <2> HIDE DEF v
  <2>8. /\ Says(<<>>) /\ sync' = t
        /\ view'.content = view.content /\ view'.tracked = view.tracked
        /\ view'.typed = view.typed /\ view'.notice = notice
    BY <1>2, <1>4, <2>7, OrderlyFacts, StepSays
  <2>9. /\ notice # Null => /\ sync.acknowledgedRevision <= notice.revision
                            /\ notice.revision <= m.revision
        /\ IsConflict(m) => notice = change
        /\ ~IsConflict(m) => notice = view.notice
    BY <1>2, <1>6, <2>4 DEF notice, Shows
  <2>10. /\ Writes' /\ (Unreported' <=> Unreported) /\ Lined'
         /\ Newest' /\ Settling' = {} /\ Settling = {m}
         /\ In(toView') \subseteq In(toView)
         /\ In(toView) \subseteq {m} \cup In(toView')
         /\ \A x, y \in In(toView') :
               Precedes(toView', x, y) /\ Dated(x) /\ Dated(y) => After(y, x.revision)
         /\ \A x \in In(toView') : Dated(x) => After(x, m.revision)
    <3>1. sync'.nextEditId = sync.nextEditId /\ sync'.inFlight = Null
      BY <2>3, <2>8
    <3>2. QED
      BY <1>2, <1>5, <2>1, <2>8, <3>1, AnsweredFacts DEF m
  <2>11. Shows'
    BY <1>6, <2>3, <2>8, <2>9 DEF Shows
  <2>12. Waits'
    BY <2>3, <2>8 DEF Waits, ErrorWaits
  <2>13. Secret'
    <3>1. Unreported /\ notice # Null => notice.revision < doc.version
      BY <1>2, <1>6, <2>4, <2>9 DEF Secret
    <3>2. QED
      BY <1>2, <1>6, <2>3, <2>8, <2>10, <3>1 DEF Secret
  <2>14. Ordered'
    <3>1. \A x \in In(toView') : Dated(x) /\ notice # Null => After(x, notice.revision)
      BY <1>6, <2>4, <2>9, <2>10 DEF Ordered
    <3>2. QED
      BY <1>6, <2>3, <2>8, <2>10, <3>1 DEF Ordered
  <2>15. Informed'
    <3>1. ~Doomed
      BY <2>1 DEF Doomed
    <3>2. ASSUME NEW x \in In(toView), Informs(x), x.revision = doc.version
          PROVE  \/ sync'.externalChange # Null
                    /\ sync'.externalChange.revision = doc.version
                 \/ x \in In(toView') /\ Informs(x)'
      BY <1>2, <2>2, <2>3, <2>4, <2>8, <2>10, <3>2 DEF Informs
    <3>3. ASSUME sync.externalChange # Null, sync.externalChange.revision = doc.version
          PROVE  sync'.externalChange # Null /\ sync'.externalChange.revision = doc.version
      <4>1. view.notice = sync.externalChange
        BY <1>6, <3>3 DEF Shows
      <4>2. m.revision = doc.version
        BY <1>2, <1>6, <3>3, <4>1
      <4>3. QED
        BY <2>2, <2>3, <2>4, <2>8, <3>3, <4>2
    <3>4. QED
      BY <1>2, <1>6, <2>3, <2>8, <2>10, <3>1, <3>2, <3>3 DEF Informed
  <2>16. Noticed' /\ Quoted' /\ Matched'
    BY <1>2, <1>6, <2>3, <2>8, <2>10 DEF Noticed, Quoted, Matched
  <2>17. QED
    BY <2>10, <2>11, <2>12, <2>13, <2>14, <2>15, <2>16 DEF Orderly
<1>10. QED
  BY <1>8, <1>9

----------------------------------------------------------------------------
(* What is quiet is stored: a step of the host *)

\* While an edit is on its way the request in flight is not answered yet.
LEMMA UnansweredFacts ==
    ASSUME Stored, Lined, Newest, NEW x \in Messages, x.type = "edit"
    PROVE  /\ sync.inFlight # Null /\ Settling = {}
           /\ x.request \in Requests /\ x.request \in Carried
           /\ Counted(x) /\ Number(x) = x.request.editId
           /\ x.request.editId = sync.inFlight.editId => x.request = sync.inFlight
<1>1. x.request \in Carried /\ x.request \in Requests
  BY UnderWayFacts, OutboxFields
<1>2. Counted(x) /\ Number(x) = x.request.editId
  BY DEF Counted, Number
<1>3. sync.inFlight # Null /\ Number(x) <= sync.inFlight.editId
  BY <1>2 DEF Newest
<1>4. ASSUME NEW y \in Settling
      PROVE  FALSE
  <2>1. y \in In(toView) /\ Counted(y) /\ Number(y) = sync.inFlight.editId
    BY <1>4 DEF Settling, Counted, Number
  <2>2. Number(y) < Number(x)
    BY <1>2, <2>1 DEF Lined, Below
  <2>3. Number(y) \in Nat /\ Number(x) \in Nat
    BY <1>2, <2>1, CountedFacts
  <2>4. QED
    BY <1>3, <2>1, <2>2, <2>3
<1>5. x.request.editId = sync.inFlight.editId => x.request = sync.inFlight
  BY <1>1, <1>3 DEF Stored, Numbers
<1>6. QED
  BY <1>1, <1>2, <1>3, <1>4, <1>5

\* What the webview knows of is not newer than the document.
LEMMA KnownFacts ==
    ASSUME Stored, Secret
    PROVE  /\ doc.version \in Nat /\ sync.acknowledgedRevision \in Nat
           /\ sync.acknowledgedRevision <= doc.version
           /\ Unreported => sync.acknowledgedRevision < doc.version
           /\ view.notice # Null =>
                 /\ view.notice.revision \in Nat /\ view.notice.revision <= doc.version
                 /\ Unreported => view.notice.revision < doc.version
           /\ \A m \in In(toView) : Dated(m) =>
                 /\ m.revision \in Nat /\ m.revision <= doc.version
                 /\ Unreported => m.revision < doc.version
<1>1. Typed
  BY DEF Stored
<1>2. /\ doc.version \in Nat /\ sync.acknowledgedRevision \in Nat
      /\ sync.acknowledgedRevision <= doc.version
  BY <1>1, TypedFacts DEF SyncStates, Within
<1>3. view.notice # Null => view.notice.revision \in Nat /\ view.notice.revision <= doc.version
  BY <1>1, TypedFacts DEF Snapshots
<1>4. ASSUME NEW m \in In(toView), Dated(m)
      PROVE  m.revision \in Nat /\ m.revision <= doc.version
  <2>1. m \in Inbox
    BY CountedFacts
  <2>2. \A x \in Inbox : x.type # "requestFlush" => x.revision \in Nat
    BY DEF Inbox
  <2>3. QED
    BY <1>1, <1>4, <2>1, <2>2 DEF Dated, Typed, Recent
<1>5. QED
  BY <1>2, <1>3, <1>4 DEF Secret

\* A message of the document's version comes last.
LEMMA PostOrder ==
    ASSUME Stored, Ordered, Secret, UNCHANGED <<sync, view>>, NEW m \in Inbox, Post(m),
           Dated(m) => m.revision \in Nat /\ doc.version <= m.revision,
           m.type \in News => Unreported \/ doc.version < m.revision
    PROVE  Ordered' /\ In(toView') = In(toView) \cup {m}
<1>1. Typed /\ toView \in Seq(Inbox)
  BY HostFacts DEF Stored
<1>2. In(toView') = In(toView) \cup {m}
  BY <1>1, PostTyped
<1>3. ASSUME NEW r \in Nat, r <= doc.version, Unreported => r < doc.version, Dated(m)
      PROVE  After(m, r)
  BY <1>3, KnownFacts DEF After
<1>4. /\ Dated(m) => After(m, sync.acknowledgedRevision)
      /\ Dated(m) /\ view.notice # Null => After(m, view.notice.revision)
      /\ \A x \in In(toView) : Dated(x) /\ Dated(m) => After(m, x.revision)
  BY <1>3, KnownFacts
<1>5. ASSUME NEW x \in In(toView'), NEW y \in In(toView'),
             Precedes(toView', x, y), Dated(x), Dated(y)
      PROVE  After(y, x.revision)
  <2>1. Precedes(toView, x, y) \/ (x \in In(toView) /\ y = m)
    BY <1>1, <1>5, PrecedesAppend DEF Post
  <2>2. Precedes(toView, x, y) => x \in In(toView) /\ y \in In(toView)
    BY DEF Precedes, In
  <2>3. QED
    BY <1>4, <1>5, <2>1, <2>2 DEF Ordered
<1>6. QED
  BY <1>2, <1>4, <1>5 DEF Ordered

\* A step of the host that answers no edit.
LEMMA OtherNewest ==
    ASSUME Newest, sync' = sync,
           \A x \in Messages' \cup In(toView') : Counted(x) => x \in Messages \cup In(toView),
           Carried \subseteq Carried', In(toView) \subseteq In(toView'),
           \A x \in In(toView') : Counted(x) => x \in In(toView)
    PROVE  Newest' /\ Settling' = Settling
<1>1. Settling' = Settling
  BY DEF Settling, Counted
<1>2. QED
  BY <1>1 DEF Newest

\* A step of the host that answers the edit x.
LEMMA AnswerLined ==
    ASSUME Stored, Lined, Newest, UNCHANGED <<sync, toHost>>,
           NEW x \in Messages, x.type = "edit",
           NEW m \in Inbox, Post(m), m.type \in {"editAcknowledged", "editRejected"},
           m.editId = x.request.editId, Tasked' = {},
           host'.queue \in Seq(Outbox), Rising(host'.queue),
           Messages \subseteq Messages' \cup {x},
           In(host'.queue) \subseteq In(host.queue),
           Below({x}, In(host'.queue) \cup In(toHost))
    PROVE  /\ Lined' /\ Newest'
           /\ Settling' = IF x.request = sync.inFlight THEN {m} ELSE {}
<1>1. toView \in Seq(Inbox) /\ Typed
  BY HostFacts DEF Stored
<1>2. /\ Messages' = In(toHost) \cup In(host'.queue) /\ Messages' \subseteq Messages
      /\ In(toView') = In(toView) \cup {m}
  BY <1>1, PostTyped DEF Messages
<1>3. /\ sync.inFlight # Null /\ Settling = {}
      /\ Counted(x) /\ Number(x) = x.request.editId
      /\ x.request.editId = sync.inFlight.editId => x.request = sync.inFlight
      /\ Counted(m) /\ Number(m) = Number(x)
  BY UnansweredFacts DEF Counted, Number
<1>4. Settling' = IF x.request = sync.inFlight THEN {m} ELSE {}
  BY <1>2, <1>3 DEF Settling
<1>5. Lined'
  <2>1. Below(In(toView), {m})
    BY <1>3 DEF Lined, Below
  <2>2. Rising(toView')
    BY <1>1, <2>1, RisingKept DEF Lined, Post
  <2>3. Below(In(toView'), Messages')
    BY <1>2, <1>3 DEF Lined, Below
  <2>4. Below(In(host'.queue), In(toHost))
    BY DEF Lined, Below
  <2>5. QED
    BY <2>2, <2>3, <2>4 DEF Lined, Below
<1>6. Newest'
  <2>1. \A y \in Messages' \cup In(toView') : Counted(y) => Number(y) <= sync.inFlight.editId
    BY <1>2, <1>3 DEF Newest
  <2>2. sync.inFlight \in Carried' \/ Settling' # {}
    <3>1. PICK y \in Messages : y.type = "edit" /\ y.request = sync.inFlight
      BY <1>3 DEF Newest, Carried
    <3>2. QED
      BY <1>4, <3>1 DEF Carried
  <2>3. QED
    BY <1>3, <2>1, <2>2 DEF Newest
<1>7. QED
  BY <1>4, <1>5, <1>6

\* The answer to the edit x: the acknowledgement of a text nobody has heard of, or
\* a rejection that says why.
LEMMA AnsweredOrderly ==
    ASSUME Stored, Orderly, UNCHANGED <<sync, view, toHost, doc>>,
           NEW x \in Messages, x.type = "edit",
           NEW m \in Inbox, Post(m), m.type \in {"editAcknowledged", "editRejected"},
           m.editId = x.request.editId, m.revision = doc.version,
           host'.applying = Null, host'.blocked = host.blocked,
           host'.queue \in Seq(Outbox), Rising(host'.queue),
           Messages \subseteq Messages' \cup {x},
           In(host'.queue) \subseteq In(host.queue),
           Below({x}, In(host'.queue) \cup In(toHost)),
           m.type = "editAcknowledged" =>
              /\ Unreported
              /\ host'.lastLocal = doc.text /\ host'.lastLocal = x.request.mutation,
           m.type = "editRejected" =>
              /\ ~Unreported
              /\ host'.lastLocal = host.lastLocal
              /\ IsConflict(m) \/ x.request.baseRevision = doc.version
    PROVE  Orderly'
<1>1. /\ Shows /\ Waits /\ Writes /\ Secret /\ Ordered /\ Lined /\ Newest
      /\ Informed /\ Noticed /\ Quoted /\ Matched
  BY DEF Orderly
<1>2. /\ Tasked' = {} /\ ~Unreported'
      /\ Messages' = In(toHost) \cup In(host'.queue) /\ Messages' \subseteq Messages
  BY DEF Tasked, Messages, Unreported
<1>3. /\ Lined' /\ Newest'
      /\ Settling' = IF x.request = sync.inFlight THEN {m} ELSE {}
  BY <1>1, <1>2, AnswerLined
<1>4. /\ sync.inFlight # Null /\ Settling = {}
      /\ x.request \in Requests /\ x.request.baseRevision \in Nat
      /\ sync.inFlight.baseRevision \in Nat
  BY <1>1, UnansweredFacts, CountedFacts DEF Requests
<1>5. /\ doc.version \in Nat /\ sync.acknowledgedRevision \in Nat
      /\ Unreported => sync.acknowledgedRevision < doc.version
  BY <1>1, KnownFacts
<1>6. Ordered' /\ In(toView') = In(toView) \cup {m}
  BY <1>1, <1>5, PostOrder DEF News
<1>7. Shows' /\ Waits' /\ Writes' /\ Secret'
  BY <1>1, <1>2 DEF Shows, Waits, Writes, Secret
<1>8. Informed'
  <2>1. CASE m.type = "editAcknowledged"
    <3>1. CASE x.request = sync.inFlight
      <4>1. m \in Settling' /\ m \in In(toView')
        BY <1>3, <1>6, <3>1
      <4>2. Informs(m)'
        BY <2>1, <4>1 DEF Informs
      <4>3. QED
        BY <4>1, <4>2 DEF Informed
    <3>2. CASE x.request # sync.inFlight
      <4>1. sync.inFlight.baseRevision < doc.version
        BY <1>1, <1>4, <1>5, <2>1 DEF Waits
      <4>2. Doomed'
        BY <1>3, <1>4, <3>2, <4>1 DEF Doomed
      <4>3. QED
        BY <4>2 DEF Informed
    <3>3. QED
      BY <3>1, <3>2
  <2>2. CASE m.type = "editRejected"
    <3>1. Doomed => Informed'
      <4>1. CASE x.request = sync.inFlight
        <5>1. m \in Settling' /\ m \in In(toView')
          BY <1>3, <1>6, <4>1
        <5>2. Doomed => Informs(m)'
          BY <1>4, <1>5, <2>2, <4>1, <5>1 DEF Informs, Doomed, IsConflict
        <5>3. QED
          BY <5>1, <5>2 DEF Informed
      <4>2. CASE x.request # sync.inFlight
        BY <1>3, <4>2 DEF Doomed, Informed
      <4>3. QED
        BY <4>1, <4>2
    <3>2. \A y \in In(toView) : Informs(y) => y \in In(toView') /\ Informs(y)'
      BY <1>4, <1>6 DEF Informs
    <3>3. QED
      BY <1>1, <2>2, <3>1, <3>2 DEF Informed
  <2>3. QED
    BY <2>1, <2>2
<1>9. Noticed' /\ Matched'
  BY <1>3, <1>4 DEF Noticed, Matched
<1>10. Quoted'
  BY <1>1, <1>6 DEF Quoted
<1>11. QED
  BY <1>3, <1>6, <1>7, <1>8, <1>9, <1>10 DEF Orderly

\* A rejection for a document that has changed carries its text.
LEMMA RejectedFacts ==
    ASSUME Stored, Writes, NEW request \in Requests, NEW code \in ErrorCodes
    PROVE  LET m == Rejected(request, code)
           IN  /\ m \in Inbox /\ m.type = "editRejected"
               /\ m.editId = request.editId /\ m.revision = doc.version
               /\ code = "STALE_REVISION" => IsConflict(m)
<1> DEFINE m == Rejected(request, code)
<1>1. /\ m \in Inbox /\ m.type = "editRejected"
      /\ m.editId = request.editId /\ m.revision = doc.version
  BY AnswersOfHostTyped DEF Stored
<1>2. doc.text \in Mutations
  BY HostFacts DEF Stored, Writes, Texts
<1>3. m.code = code /\ m.hostSnapshot = doc.text
  BY DEF Rejected, ReadMutation, Writes
<1>4. m.hostSnapshot # Null
  BY <1>2, <1>3, NullAssumption
<1>5. QED
  BY <1>1, <1>3, <1>4 DEF IsConflict, ConflictCodes

\* The oldest task of the queue, and what is left of it.
LEMMA DequeuedFacts ==
    ASSUME Stored, Lined, host.queue # <<>>, host.applying = Null
    PROVE  LET x == Head(host.queue)
           IN  /\ x \in Messages /\ x \in Outbox
               /\ Dequeued.queue = Tail(host.queue) /\ Dequeued.applying = Null
               /\ Dequeued.blocked = host.blocked /\ Dequeued.lastLocal = host.lastLocal
               /\ Tail(host.queue) \in Seq(Outbox) /\ Rising(Tail(host.queue))
               /\ In(Tail(host.queue)) \subseteq In(host.queue)
               /\ In(host.queue) \subseteq {x} \cup In(Tail(host.queue))
               /\ Below({x}, In(Tail(host.queue)) \cup In(toHost))
               /\ Messages = {x} \cup In(Tail(host.queue)) \cup In(toHost)
<1> DEFINE x == Head(host.queue)
<1>1. Typed /\ host \in Hosts /\ host.queue \in Seq(Outbox)
  BY HostFacts DEF Stored
<1>2. /\ Dequeued.queue = Tail(host.queue) /\ Dequeued.applying = Null
      /\ In(Tail(host.queue)) \subseteq In(host.queue)
      /\ x \in Outbox /\ x \in In(host.queue)
  BY <1>1, DequeuedTyped
<1>3. Dequeued.blocked = host.blocked /\ Dequeued.lastLocal = host.lastLocal
  BY <1>1 DEF Dequeued, Hosts
<1>4. /\ Tail(host.queue) \in Seq(Outbox)
      /\ In(host.queue) \subseteq {x} \cup In(Tail(host.queue))
      /\ Rising(Tail(host.queue)) /\ Below({x}, In(Tail(host.queue)))
  BY <1>1, InTail, PrecedesTail, RisingKept DEF Lined
<1>5. Below({x}, In(toHost))
  BY <1>2 DEF Lined, Below
<1>6. Messages = {x} \cup In(Tail(host.queue)) \cup In(toHost)
  BY <1>2, <1>4 DEF Messages, Tasked
<1>7. QED
  BY <1>1, <1>2, <1>3, <1>4, <1>5, <1>6 DEF Below

\* An edit written on another version is rejected.
LEMMA StaleOrderly ==
    ASSUME Stored, Orderly, HandleEdit, ~IsCurrent(Head(host.queue).request)
    PROVE  Orderly'
<1> DEFINE x == Head(host.queue)
           m == Rejected(x.request, "STALE_REVISION")
<1>1. /\ host.queue # <<>> /\ host.applying = Null /\ x.type = "edit"
      /\ host' = [Dequeued EXCEPT !.cache = Null] /\ Post(m)
      /\ UNCHANGED <<sync, view, toHost, doc>>
  BY DEF HandleEdit, Handles, ViewUnchanged
<1>2. Lined /\ Newest /\ Writes
  BY DEF Orderly
<1>3. /\ x \in Messages
      /\ host'.queue = Tail(host.queue) /\ host'.applying = Null
      /\ host'.blocked = host.blocked /\ host'.lastLocal = host.lastLocal
      /\ Tail(host.queue) \in Seq(Outbox) /\ Rising(Tail(host.queue))
      /\ In(Tail(host.queue)) \subseteq In(host.queue)
      /\ Below({x}, In(Tail(host.queue)) \cup In(toHost))
      /\ Messages = {x} \cup In(Tail(host.queue)) \cup In(toHost)
  BY <1>1, <1>2, DequeuedTyped, DequeuedFacts DEF Hosts
<1>4. x.request \in Requests
  BY <1>1, <1>2, <1>3, UnansweredFacts
<1>5. /\ m \in Inbox /\ m.type = "editRejected"
      /\ m.editId = x.request.editId /\ m.revision = doc.version
      /\ IsConflict(m)
  BY <1>2, <1>4, RejectedFacts DEF ErrorCodes
<1>6. Messages \subseteq Messages' \cup {x}
  BY <1>1, <1>3 DEF Messages
<1>7. ~Unreported
  BY <1>1 DEF Unreported
<1> HIDE DEF x, m
<1>8. QED
  BY <1>1, <1>3, <1>5, <1>6, <1>7, AnsweredOrderly

\* The task answers the webview.
LEMMA ResumeOrderly ==
    ASSUME Stored, Orderly, Resume
    PROVE  Orderly'
<1> DEFINE task == host.applying
           x == task.message
           done == [host EXCEPT !.applying = Null, !.cache = Null]
<1>1. /\ task # Null /\ task \in Tasks /\ task.outcome \in {"applied", "refused"}
      /\ x \in Messages /\ x.type = "edit"
      /\ UNCHANGED <<sync, view, toHost, doc>>
  BY UnderWayFacts, HostFacts DEF Resume, ViewUnchanged, Tasks
<1>2. Lined /\ Newest /\ Writes /\ Secret /\ doc.version \in Nat
  BY KnownFacts DEF Orderly
<1>3. x.request \in Requests
  BY <1>1, <1>2, UnansweredFacts
<1>4. /\ task.source = x.request.baseRevision /\ task.source \in Nat
      /\ task.source <= doc.version
      /\ task.outcome = "applied" => task.source < doc.version
      /\ task.text = x.request.mutation
  BY <1>1, <1>2 DEF Writes, Stored, Whole, Tasks
<1>5. Confirmed(task) <=> Unreported
  BY <1>1 DEF Confirmed, Unreported
<1>6. /\ done.queue = host.queue /\ done.applying = Null
      /\ done.blocked = host.blocked /\ done.lastLocal = host.lastLocal
      /\ done \in Hosts
  BY UnderWayFacts, HostFacts DEF Hosts
<1>7. /\ host.queue \in Seq(Outbox) /\ Rising(host.queue)
      /\ Below({x}, In(host.queue) \cup In(toHost))
      /\ Messages = {x} \cup In(host.queue) \cup In(toHost)
  BY <1>1, <1>2, UnderWayFacts, HostFacts DEF Lined, Messages, Tasked
<1>8. CASE Confirmed(task)
  <2> DEFINE m == [type |-> "editAcknowledged", identity |-> Self,
                   editId |-> x.request.editId, revision |-> doc.version]
             cache == CacheOf(doc.version, x.request, task.text)
  <2>1. /\ host' = [done EXCEPT !.lastLocal = task.text, !.cache = cache]
        /\ Post(m)
    BY <1>1, <1>8 DEF Resume
  <2>2. /\ m \in Inbox /\ m.type = "editAcknowledged"
        /\ m.editId = x.request.editId /\ m.revision = doc.version
    BY <1>2, <1>3 DEF Inbox, Requests
  <2> HIDE DEF m, cache, done
  <2>3. /\ host'.queue = host.queue /\ host'.applying = Null
        /\ host'.blocked = host.blocked /\ host'.lastLocal = task.text
    BY <1>6, <2>1 DEF Hosts
  <2>4. Unreported /\ doc.text = task.text
    BY <1>2, <1>5, <1>8 DEF Secret
  <2>5. Messages \subseteq Messages' \cup {x}
    BY <1>1, <1>7, <2>3 DEF Messages
  <2> HIDE DEF task, x
  <2>6. QED
    BY <1>1, <1>4, <1>7, <2>1, <2>2, <2>3, <2>4, <2>5, AnsweredOrderly
<1>9. CASE ~Confirmed(task)
  <2> DEFINE code == FailureCode(task)
             m == Rejected(x.request, code)
  <2>1. host' = done /\ Post(m)
    BY <1>1, <1>9 DEF Resume
  <2>2. /\ code \in ErrorCodes
        /\ code = "STALE_REVISION" \/ task.source = doc.version
    BY DEF FailureCode, ErrorCodes
  <2> HIDE DEF code
  <2>3. /\ m \in Inbox /\ m.type = "editRejected"
        /\ m.editId = x.request.editId /\ m.revision = doc.version
        /\ IsConflict(m) \/ x.request.baseRevision = doc.version
    BY <1>2, <1>3, <1>4, <2>2, RejectedFacts
  <2> HIDE DEF m, done
  <2>4. Messages \subseteq Messages' \cup {x}
    BY <1>1, <1>6, <1>7, <2>1 DEF Messages
  <2> HIDE DEF task, x
  <2>5. QED
    BY <1>1, <1>5, <1>6, <1>7, <1>9, <2>1, <2>3, <2>4, AnsweredOrderly
<1>10. QED
  BY <1>8, <1>9

\* A message that is neither an edit nor an answer leaves the line as it is.
LEMMA PostLined ==
    ASSUME Stored, Lined, NEW m \in Inbox, Post(m), ~Counted(m),
           Messages' = Messages, Tasked' = Tasked,
           host'.queue = host.queue, toHost' = toHost
    PROVE  Lined'
<1>1. toView \in Seq(Inbox) /\ In(toView') = In(toView) \cup {m}
  BY HostFacts, PostTyped DEF Stored
<1>2. Below(In(toView), {m})
  BY DEF Below
<1>3. Rising(toView')
  BY <1>1, <1>2, RisingKept DEF Lined, Post
<1>4. Below(In(toView'), Messages')
  BY <1>1 DEF Lined, Below
<1>5. QED
  BY <1>3, <1>4 DEF Lined

\* A step of the host that answers no edit and writes nothing.
LEMMA MovedOrderly ==
    ASSUME Stored, Orderly, UNCHANGED <<sync, view, doc>>,
           host'.lastLocal = host.lastLocal, Writes', Lined',
           Unreported' <=> Unreported,
           Unreported' => host'.applying.text = host.applying.text,
           Messages' \subseteq Messages, Carried \subseteq Carried',
           \/ toView' = toView
           \/ \E m \in Inbox : Post(m) /\ m.type = "requestFlush"
    PROVE  Orderly'
<1>1. /\ Shows /\ Waits /\ Writes /\ Secret /\ Ordered /\ Lined /\ Newest
      /\ Informed /\ Noticed /\ Quoted /\ Matched
  BY DEF Orderly
<1>2. /\ Ordered' /\ In(toView) \subseteq In(toView')
      /\ \A x \in In(toView') : x \in In(toView) \/ x.type = "requestFlush"
  <2>1. CASE toView' = toView
    BY <1>1, <2>1 DEF Ordered
  <2>2. ASSUME NEW m \in Inbox, Post(m), m.type = "requestFlush"
        PROVE  /\ Ordered' /\ In(toView) \subseteq In(toView')
               /\ \A x \in In(toView') : x \in In(toView) \/ x.type = "requestFlush"
    BY <1>1, <2>2, PostOrder DEF Dated, News
  <2>3. QED
    BY <2>1, <2>2
<1>3. Newest' /\ Settling' = Settling
  <2>1. \A x \in In(toView') : Counted(x) => x \in In(toView)
    BY <1>2 DEF Counted
  <2>2. QED
    BY <1>1, <1>2, <2>1, OtherNewest
<1>4. Shows' /\ Waits'
  BY <1>1 DEF Shows, Waits
<1>5. Secret'
  BY <1>1, <1>2 DEF Secret, Dated
<1>6. Informed'
  BY <1>1, <1>2, <1>3 DEF Informed, Doomed, Informs
<1>7. Noticed' /\ Quoted' /\ Matched'
  BY <1>1, <1>2, <1>3 DEF Noticed, Quoted, Matched
<1>8. QED
  BY <1>2, <1>3, <1>4, <1>5, <1>6, <1>7 DEF Orderly

\* A message reaches the host.
LEMMA ArriveOrderly ==
    ASSUME Stored, Orderly, Arrive
    PROVE  Orderly'
<1> DEFINE message == Head(toHost)
<1>1. /\ toHost # <<>> /\ toHost' = Tail(toHost) /\ ~host.blocked
      /\ UNCHANGED <<sync, view, doc>>
  BY DEF Arrive, Orderly, Writes
<1>2. Lined /\ Writes
  BY DEF Orderly
<1>3. /\ toHost \in Seq(Outbox) /\ host.queue \in Seq(Outbox) /\ host \in Hosts
  BY HostFacts DEF Stored
<1>4. /\ message \in Outbox /\ message \in In(toHost)
      /\ In(toHost') \subseteq In(toHost) /\ toHost' \in Seq(Outbox)
      /\ In(toHost) \subseteq {message} \cup In(toHost')
      /\ Rising(toHost') /\ Below({message}, In(toHost'))
  BY <1>1, <1>2, <1>3, InTail, PrecedesTail, RisingKept DEF Lined
<1>5. CASE message.type \in {"flushComplete", "flushFailed"} /\ UNCHANGED <<host, toView>>
  <2>1. /\ Tasked' = Tasked /\ Messages' \subseteq Messages
        /\ Messages \subseteq Messages' \cup {message}
    BY <1>4, <1>5 DEF Tasked, Messages
  <2>2. Carried \subseteq Carried'
    BY <1>5, <2>1 DEF Carried
  <2>3. Lined'
    BY <1>2, <1>4, <1>5, <2>1 DEF Lined, Below
  <2>4. Writes' /\ (Unreported' <=> Unreported)
    BY <1>1, <1>2, <1>5, <2>1 DEF Writes, Unreported
  <2>5. QED
    BY <1>1, <1>5, <2>1, <2>2, <2>3, <2>4, MovedOrderly
<1>6. CASE /\ host' = [host EXCEPT !.queue = Append(@, message)]
           /\ UNCHANGED toView
  <2>1. In(Append(host.queue, message)) = In(host.queue) \cup {message}
    BY <1>3, <1>4, InAppend
  <2>2. /\ host'.queue = Append(host.queue, message)
        /\ host'.applying = host.applying /\ host'.blocked = host.blocked
        /\ host'.lastLocal = host.lastLocal
    BY <1>3, <1>6 DEF Hosts
  <2>3. Tasked' = Tasked /\ Messages' = Messages
    BY <1>4, <2>1, <2>2 DEF Tasked, Messages
  <2>4. Carried' = Carried
    BY <2>3 DEF Carried
  <2>5. Rising(host'.queue)
    <3>1. Below(In(host.queue), {message})
      BY <1>2, <1>4 DEF Lined, Below
    <3>2. QED
      BY <1>2, <1>3, <1>4, <2>2, <3>1, RisingKept DEF Lined
  <2>6. Below(In(host'.queue), In(toHost'))
    BY <1>2, <1>4, <2>1, <2>2 DEF Lined, Below
  <2>7. Below(Tasked', In(host'.queue) \cup In(toHost'))
    BY <1>2, <1>4, <2>1, <2>2, <2>3 DEF Lined, Below
  <2>8. Lined'
    BY <1>2, <1>4, <1>6, <2>3, <2>5, <2>6, <2>7 DEF Lined
  <2>9. Writes' /\ (Unreported' <=> Unreported)
    BY <1>1, <1>2, <2>2, <2>3 DEF Writes, Unreported
  <2> HIDE DEF message
  <2>10. QED
    BY <1>1, <1>6, <2>2, <2>3, <2>4, <2>8, <2>9, MovedOrderly
<1>7. QED
  BY <1>1, <1>5, <1>6 DEF Arrive

\* A current edit becomes the running task.
LEMMA CurrentOrderly ==
    ASSUME Stored, Orderly, HandleEdit, IsCurrent(Head(host.queue).request)
    PROVE  Orderly'
<1> DEFINE x == Head(host.queue)
<1>1. /\ host.queue # <<>> /\ host.applying = Null /\ x.type = "edit"
      /\ host' = Applying(x)
      /\ x.request.baseRevision = doc.version
      /\ UNCHANGED <<sync, view, toHost, toView, doc>>
  BY DEF HandleEdit, Handles, ViewUnchanged, IsCurrent
<1>2. Lined /\ Newest /\ Writes /\ doc.version \in Nat
  BY KnownFacts DEF Orderly
<1>3. /\ x \in Messages /\ x \in Outbox
      /\ Dequeued.queue = Tail(host.queue)
      /\ Dequeued.blocked = host.blocked /\ Dequeued.lastLocal = host.lastLocal
      /\ Tail(host.queue) \in Seq(Outbox) /\ Rising(Tail(host.queue))
      /\ In(Tail(host.queue)) \subseteq In(host.queue)
      /\ In(host.queue) \subseteq {x} \cup In(Tail(host.queue))
      /\ Below({x}, In(Tail(host.queue)) \cup In(toHost))
      /\ Messages = {x} \cup In(Tail(host.queue)) \cup In(toHost)
  BY <1>1, <1>2, DequeuedFacts
<1>4. Dequeued \in Hosts
  BY <1>1, DequeuedTyped DEF Stored
<1> HIDE DEF x
<1>5. x \in EditMessages
  BY <1>1, <1>3, OutboxFields
<1> DEFINE text == Persisted(host.cache, doc.version, x.request)
           task == [message |-> x, source |-> doc.version, text |-> text,
                    outcome |-> "unknown"]
<1>6. host' = [Dequeued EXCEPT !.applying = task]
  BY <1>1 DEF Applying
<1>7. task \in Tasks /\ task # Null
  <2>1. text \in Mutations
    BY <1>1, <1>3, OutboxFields, HostFacts, PersistedTyped DEF Stored
  <2> HIDE DEF text
  <2>2. task \in Tasks
    BY <1>2, <1>5, <2>1 DEF Tasks, EditMessages
  <2>3. QED
    BY <2>2, SessionAssumption
<1>8. /\ task.message = x /\ task.source = doc.version /\ task.outcome = "unknown"
  OBVIOUS
<1> HIDE DEF task, text
<1>9. /\ host'.queue = Tail(host.queue) /\ host'.applying = task
      /\ host'.blocked = host.blocked /\ host'.lastLocal = host.lastLocal
  BY <1>3, <1>4, <1>6 DEF Hosts
<1>10. Tasked' = {x} /\ Messages' = Messages
  BY <1>1, <1>3, <1>7, <1>8, <1>9 DEF Tasked, Messages
<1>11. Carried' = Carried
  BY <1>10 DEF Carried
<1>12. Lined'
  <2>1. Below(Tasked', In(host'.queue) \cup In(toHost'))
    BY <1>1, <1>3, <1>9, <1>10
  <2>2. Below(In(host'.queue), In(toHost'))
    BY <1>1, <1>2, <1>3, <1>9 DEF Lined, Below
  <2>3. QED
    BY <1>1, <1>2, <1>3, <1>9, <1>10, <2>1, <2>2 DEF Lined
<1>13. ~Unreported /\ ~Unreported'
  BY <1>1, <1>8, <1>9 DEF Unreported
<1>14. Writes'
  BY <1>1, <1>2, <1>8, <1>9, <1>10 DEF Writes
<1>15. QED
  BY <1>1, <1>9, <1>10, <1>11, <1>12, <1>13, <1>14, MovedOrderly

\* The tasks of the serial queue.
LEMMA HandleOrderly ==
    ASSUME Stored, Orderly, Handle
    PROVE  Orderly'
<1>1. CASE HandleEdit
  BY <1>1, StaleOrderly, CurrentOrderly
<1>2. CASE HandleAdopted \/ HandleRecover \/ HandleReady
  <2>1. host.queue # <<>> /\ host.applying = Null
    BY <1>2 DEF HandleAdopted, HandleRecover, HandleReady, Handles
  <2>2. Head(host.queue) \in Messages
    BY <2>1, DequeuedFacts DEF Orderly
  <2>3. Head(host.queue).type \notin
           {"externalChangeAdopted", "recoverInvalidDocument", "ready"}
    BY <2>2, UnderWayFacts DEF Orderly, Writes
  <2>4. QED
    BY <1>2, <2>3 DEF HandleAdopted, HandleRecover, HandleReady, Handles
<1>3. QED
  BY <1>1, <1>2 DEF Handle

\* The flushes of the host.
LEMMA FlushesOrderly ==
    ASSUME Stored, Orderly, RequestFlush \/ FlushTimesOut
    PROVE  Orderly'
<1>1. UNCHANGED <<sync, view, toHost, doc, host>>
  BY DEF RequestFlush, FlushTimesOut, ViewUnchanged
<1>2. Tasked' = Tasked /\ Messages' = Messages
  BY <1>1 DEF Tasked, Messages
<1>3. /\ Carried' = Carried /\ Lined /\ Writes' /\ (Unreported' <=> Unreported)
  BY <1>1, <1>2 DEF Carried, Orderly, Writes, Unreported
<1>4. \/ toView' = toView
      \/ \E m \in Inbox : Post(m) /\ m.type = "requestFlush"
  <2>1. CASE RequestFlush
    <3> DEFINE m == [type |-> "requestFlush", flush |-> Len(flushes) + 1]
    <3>1. Len(flushes) < MaxFlushes /\ Post(m)
      BY <2>1 DEF RequestFlush
    <3>2. Len(flushes) \in Nat /\ MaxFlushes \in Nat
      BY HostFacts, LenProperties, SessionAssumption DEF Stored
    <3>3. Len(flushes) + 1 \in 1 .. MaxFlushes
      BY <3>1, <3>2
    <3>4. m \in Inbox /\ m.type = "requestFlush"
      BY <3>3 DEF Inbox
    <3>5. QED
      BY <3>1, <3>4
  <2>2. CASE FlushTimesOut
    BY <2>2 DEF FlushTimesOut
  <2>3. QED
    BY <2>1, <2>2
<1>5. Lined'
  <2>1. CASE toView' = toView
    BY <1>1, <1>2, <1>3, <2>1 DEF Lined
  <2>2. ASSUME NEW m \in Inbox, Post(m), m.type = "requestFlush"
        PROVE  Lined'
    BY <1>1, <1>2, <1>3, <2>2, PostLined DEF Counted
  <2>3. QED
    BY <1>4, <2>1, <2>2
<1>6. QED
  BY <1>1, <1>2, <1>3, <1>4, <1>5, MovedOrderly

\* VS Code applies the edit, or refuses it.
LEMMA ApplyEditOrderly ==
    ASSUME Stored, Orderly, ApplyEdit
    PROVE  Orderly'
<1> DEFINE task == host.applying
           applied == [task EXCEPT !.outcome = "applied"]
           refused == [task EXCEPT !.outcome = "refused"]
<1>1. /\ task # Null /\ task \in Tasks /\ task.outcome = "unknown"
      /\ task.message \in Messages /\ task.message.type = "edit"
      /\ host \in Hosts
      /\ UNCHANGED <<sync, view, toHost, toView>>
  BY UnderWayFacts, HostFacts DEF ApplyEdit, ViewUnchanged
<1>2. /\ Shows /\ Waits /\ Writes /\ Secret /\ Ordered /\ Lined /\ Newest
      /\ Informed /\ Noticed /\ Quoted /\ Matched
      /\ doc.version \in Nat /\ task.source \in Nat
  BY <1>1, KnownFacts DEF Orderly, Tasks
<1>3. \/ /\ doc.version = task.source
         /\ doc' = [version |-> doc.version + 1, text |-> task.text]
         /\ host' = [host EXCEPT !.applying = applied]
      \/ doc' = doc /\ \E n : host' = [host EXCEPT !.applying = refused, !.refusals = n]
  <2>1. /\ [host EXCEPT !.applying.outcome = "applied"] = [host EXCEPT !.applying = applied]
        /\ [host EXCEPT !.applying.outcome = "refused"]
              = [host EXCEPT !.applying = refused, !.refusals = host.refusals]
        /\ [host EXCEPT !.applying.outcome = "refused", !.refusals = @ + 1]
              = [host EXCEPT !.applying = refused, !.refusals = host.refusals + 1]
    BY <1>1 DEF Hosts
  <2>2. QED
    BY <2>1 DEF ApplyEdit
<1>4. /\ applied.outcome = "applied" /\ refused.outcome = "refused"
      /\ \A t \in {applied, refused} :
            /\ t \in Tasks
            /\ t.message = task.message /\ t.source = task.source /\ t.text = task.text
  BY <1>1 DEF Tasks
<1>5. applied # Null /\ refused # Null
  BY <1>4, SessionAssumption
<1> HIDE DEF applied, refused
<1>6. /\ host'.queue = host.queue /\ host'.lastLocal = host.lastLocal
      /\ host'.blocked = host.blocked
      /\ \/ /\ host'.applying = applied
            /\ doc.version = task.source
            /\ doc' = [version |-> doc.version + 1, text |-> task.text]
         \/ host'.applying = refused /\ doc' = doc
  BY <1>1, <1>3 DEF Hosts
<1>7. /\ host'.applying # Null
      /\ host'.applying.message = task.message
      /\ host'.applying.source = task.source
      /\ host'.applying.text = task.text
  BY <1>4, <1>5, <1>6
<1>8. Tasked' = Tasked /\ Messages' = Messages
  BY <1>1, <1>6, <1>7 DEF Tasked, Messages
<1>9. Carried' = Carried /\ Lined'
  BY <1>1, <1>2, <1>6, <1>8 DEF Carried, Lined
<1>10. ~Unreported
  BY <1>1 DEF Unreported
<1>11. CASE host'.applying = refused /\ doc' = doc
  <2>1. ~Unreported'
    BY <1>4, <1>11 DEF Unreported
  <2>2. Writes'
    <3>1. host'.applying.outcome = "refused"
      BY <1>4, <1>11
    <3>2. task.source = task.message.request.baseRevision /\ task.source <= doc.version
      BY <1>1, <1>2 DEF Writes
    <3>3. host'.blocked = FALSE /\ doc.text # Invalid
          /\ \A m \in Messages : m.type # "externalChangeAdopted"
      BY <1>2, <1>6 DEF Writes
    <3> HIDE DEF task
    <3>4. QED
      BY <1>6, <1>7, <1>8, <1>11, <3>1, <3>2, <3>3 DEF Writes
  <2>3. QED
    BY <1>1, <1>6, <1>8, <1>9, <1>10, <1>11, <2>1, <2>2, MovedOrderly
<1>12. CASE /\ host'.applying = applied /\ doc.version = task.source
            /\ doc' = [version |-> doc.version + 1, text |-> task.text]
  <2>1. doc'.version = doc.version + 1 /\ doc'.text = task.text
    BY <1>12
  <2>2. Unreported'
    BY <1>4, <1>7, <1>12, <2>1 DEF Unreported
  <2>3. Writes'
    <3>1. doc'.text # Invalid
      BY <1>1, <2>1, SessionAssumption DEF Tasks
    <3>2. QED
      BY <1>1, <1>2, <1>6, <1>7, <1>8, <1>12, <2>1, <3>1 DEF Writes
  <2>4. Newest' /\ Settling' = Settling
    BY <1>1, <1>2, <1>8, <1>9, OtherNewest
  <2>5. Secret'
    BY <1>1, <1>2, <1>7, <2>1, KnownFacts DEF Secret
  <2>6. Quoted'
    BY <1>1, <1>2, <2>1, KnownFacts DEF Quoted, Dated
  <2>7. sync.inFlight # Null /\ Settling = {}
    BY <1>1, <1>2, UnansweredFacts
  <2>8. Informed' /\ Noticed' /\ Matched'
    BY <1>1, <2>2, <2>4, <2>7 DEF Informed, Noticed, Matched
  <2>9. Shows' /\ Waits' /\ Ordered'
    BY <1>1, <1>2 DEF Shows, Waits, Ordered
  <2>10. QED
    BY <1>9, <2>3, <2>4, <2>5, <2>6, <2>8, <2>9 DEF Orderly
<1>13. QED
  BY <1>6, <1>11, <1>12

\* Another writer's text, which satisfies the contract.
LEMMA ExternalWriteOrderly ==
    ASSUME Stored, Orderly, ExternalWrite, doc'.text # Invalid
    PROVE  Orderly'
<1>1. PICK text \in ExternalTexts :
         LET d == [version |-> doc.version + 1, text |-> text]
         IN  doc' = d /\ PostExternalChange(host, d)
  BY DEF ExternalWrite
<1>2. /\ doc'.version = doc.version + 1 /\ doc'.text = text
      /\ UNCHANGED <<sync, view, toHost>>
  BY <1>1 DEF ExternalWrite, ViewUnchanged
<1> DEFINE same == [type |-> "documentRevisionAdvanced", revision |-> doc'.version]
           news == [type |-> "externalChange", revision |-> doc'.version,
                    snapshot |-> doc'.text]
           message == IF host.lastLocal = doc'.text THEN same ELSE news
<1>3. PICK m : /\ m = message
              /\ host' = [host EXCEPT !.blocked = FALSE, !.cache = Null]
              /\ Post(m)
  BY <1>1, <1>2 DEF PostExternalChange
<1>4. /\ Shows /\ Waits /\ Writes /\ Secret /\ Ordered /\ Lined /\ Newest
      /\ Informed /\ Noticed /\ Quoted /\ Matched
      /\ doc.version \in Nat /\ doc'.version \in Nat
  BY <1>2, KnownFacts DEF Orderly
<1>5. /\ m \in Inbox /\ m.revision = doc'.version
      /\ m.type \in {"documentRevisionAdvanced", "externalChange"}
      /\ m.type = "externalChange" => m.snapshot = doc'.text
      /\ m.type # "externalChange" => host.lastLocal = doc'.text
  <2>1. doc'.text \in Mutations
    BY <1>2, SessionAssumption DEF Texts
  <2>2. /\ same \in Inbox /\ same.revision = doc'.version
        /\ same.type = "documentRevisionAdvanced"
    BY <1>4 DEF Inbox
  <2>3. /\ news \in Inbox /\ news.revision = doc'.version
        /\ news.type = "externalChange" /\ news.snapshot = doc'.text
    BY <1>4, <2>1 DEF Inbox
  <2> HIDE DEF same, news
  <2>4. QED
    BY <1>3, <2>2, <2>3
<1> HIDE DEF message
<1>6. /\ host'.queue = host.queue /\ host'.applying = host.applying
      /\ host'.lastLocal = host.lastLocal /\ host'.blocked = FALSE
  BY <1>3, HostFacts DEF Stored, Hosts
<1>7. Tasked' = Tasked /\ Messages' = Messages
  BY <1>2, <1>6 DEF Tasked, Messages
<1>8. Ordered' /\ In(toView') = In(toView) \cup {m}
  BY <1>2, <1>3, <1>4, <1>5, PostOrder
<1>9. Lined'
  BY <1>2, <1>3, <1>4, <1>5, <1>6, <1>7, PostLined DEF Counted
<1>10. Newest' /\ Settling' = Settling
  <2>1. Carried' = Carried /\ ~Counted(m)
    BY <1>5, <1>7 DEF Carried, Counted
  <2>2. QED
    BY <1>2, <1>4, <1>7, <1>8, <2>1, OtherNewest
<1>11. Writes' /\ ~Unreported'
  <2>1. host.applying # Null => host.applying.source \in Nat
    BY HostFacts DEF Stored, Tasks
  <2>2. QED
    BY <1>2, <1>4, <1>6, <1>7, <2>1 DEF Writes, Unreported
<1>12. Shows' /\ Waits' /\ Secret' /\ Matched'
  BY <1>2, <1>4, <1>6, <1>10, <1>11 DEF Shows, Waits, Secret, Matched
<1>13. Informed' /\ Noticed'
  <2>1. m \in In(toView') /\ Informs(m)'
    BY <1>5, <1>8 DEF Informs
  <2>2. QED
    BY <1>5, <1>6, <2>1 DEF Informed, Noticed
<1>14. Quoted'
  BY <1>2, <1>4, <1>5, <1>8, KnownFacts DEF Quoted, Dated
<1>15. QED
  BY <1>8, <1>9, <1>10, <1>11, <1>12, <1>13, <1>14 DEF Orderly

----------------------------------------------------------------------------
(* What is quiet is stored: the theorem *)

\* Access is not in the fields that a turn sets last.
LEMMA StepAccess ==
    ASSUME NEW t, NEW v, NEW known, NEW posted, "access" \in DOMAIN v,
           ViewStep(t, v, known, posted)
    PROVE  view'.access = v.access
BY DEF ViewStep

\* Most turns leave access alone.
LEMMA SameAccess ==
    ASSUME Typed
    PROVE  /\ "access" \in DOMAIN view
           /\ \A n : LET v == [view EXCEPT !.notice = n]
                     IN  "access" \in DOMAIN v /\ v.access = view.access
           /\ LET v == [view EXCEPT !.keeping = TRUE]
              IN  "access" \in DOMAIN v /\ v.access = view.access
           /\ "access" \in DOMAIN CapturedView(view)
           /\ CapturedView(view).access = view.access
<1>1. view \in Views
  BY DEF Typed, TypeOK
<1>2. "access" \in DOMAIN view
  BY <1>1 DEF Views
<1>3. /\ "access" \in DOMAIN CapturedView(view)
      /\ CapturedView(view).access = view.access
  BY <1>2 DEF CapturedView
<1>4. QED
  BY <1>2, <1>3

\* The same of the turns that note a revision and a notice.
LEMMA AccessKept ==
    ASSUME Typed, NEW t, NEW known, NEW r, NEW n,
           \/ ViewStep(t, view, known, <<>>)
           \/ ViewStep(t, [view EXCEPT !.revision = r, !.notice = n], known, <<>>)
           \/ ViewStep(t, [view EXCEPT !.notice = n, !.revision = r], known, <<>>)
    PROVE  view'.access = view.access
<1> DEFINE v == [view EXCEPT !.revision = r, !.notice = n]
           w == [view EXCEPT !.notice = n, !.revision = r]
<1>1. view \in Views
  BY DEF Typed, TypeOK
<1>2. /\ "access" \in DOMAIN view
      /\ "access" \in DOMAIN v /\ v.access = view.access
      /\ "access" \in DOMAIN w /\ w.access = view.access
  BY <1>1 DEF Views
<1> HIDE DEF v, w
<1>3. \/ ViewStep(t, view, known, <<>>) \/ ViewStep(t, v, known, <<>>)
      \/ ViewStep(t, w, known, <<>>)
  BY DEF v, w
<1>4. QED
  BY <1>2, <1>3, StepAccess

\* A user who perseveres does not reopen the editor.
LEMMA UserAccess ==
    ASSUME Persevering, Typed, User \/ Debounce
    PROVE  toView' = toView /\ (view'.access = "editable" => view.access = "editable")
<1>1. CASE Type \/ EditMetadata
  BY <1>1 DEF Type, EditMetadata, HostUnchanged
<1>2. CASE Debounce
  BY <1>2, SameAccess, StepAccess DEF Debounce, HostUnchanged
<1>3. CASE KeepMine
  <2>1. PICK t, known :
           /\ ViewStep(t, [view EXCEPT !.keeping = TRUE], known, <<>>)
           /\ toView' = toView
    BY <1>3 DEF KeepMine, HostUnchanged
  <2>2. QED
    BY <2>1, SameAccess, StepAccess
<1>4. CASE RetrySave
  BY <1>4, SameAccess, StepAccess DEF RetrySave, HostUnchanged
<1>5. CASE Reload \/ RecoverFromLocal \/ Revalidate
  BY <1>5 DEF Reload, RecoverFromLocal, Revalidate, Persevering
<1>6. QED
  BY <1>1, <1>2, <1>3, <1>4, <1>5 DEF User

\* What the webview hears does not reopen it either.
LEMMA HearAccess ==
    ASSUME Stored, Hear, view'.access = "editable"
    PROVE  /\ view.access = "editable"
           /\ ~HearInvalid /\ ~HearRecovery
           /\ toView # <<>> /\ toView' = Tail(toView)
           /\ Head(toView).type # "externalInvalidDocument"
<1>1. Typed /\ Plain
  BY DEF Stored
<1>2. CASE HearAcknowledgement
  <2>1. \E t, known : \/ ViewStep(t, view, known, <<>>)
                       \/ \E r, n : ViewStep(t, [view EXCEPT !.revision = r, !.notice = n],
                                             known, <<>>)
    <3>1. CASE Acknowledges(sync, Head(toView))
      BY <1>2, <3>1 DEF HearAcknowledgement
    <3>2. CASE ~Acknowledges(sync, Head(toView))
      BY <1>2, <3>2 DEF HearAcknowledgement
    <3>3. QED
      BY <3>1, <3>2
  <2>2. view'.access = view.access
    BY <1>1, <2>1, AccessKept
  <2>3. QED
    BY <1>2, <2>2 DEF HearAcknowledgement, HearInvalid, HearRecovery, Hears, Heard
<1>3. CASE HearRejection
  <2>1. PICK t, v, known :
           /\ ViewStep(t, v, known, <<>>)
           /\ v = view \/ \E n : v = [view EXCEPT !.notice = n]
    BY <1>3 DEF HearRejection
  <2>2. view'.access = view.access
    BY <1>1, <2>1, SameAccess, StepAccess
  <2>3. QED
    BY <1>3, <2>2 DEF HearRejection, HearInvalid, HearRecovery, Hears, Heard
<1>4. CASE HearExternalChange
  <2>1. \E t, known, r, n :
           ViewStep(t, [view EXCEPT !.notice = n, !.revision = r], known, <<>>)
    BY <1>4 DEF HearExternalChange
  <2>2. view'.access = view.access
    BY <1>1, <2>1, AccessKept
  <2>3. QED
    BY <1>4, <2>2 DEF HearExternalChange, HearInvalid, HearRecovery, Hears, Heard
<1>5. CASE HearRevisionAdvanced
  <2>1. \E t, known : \/ ViewStep(t, view, known, <<>>)
                       \/ \E r, n : ViewStep(t, [view EXCEPT !.revision = r, !.notice = n],
                                             known, <<>>)
    <3>1. CASE Head(toView).revision > sync.acknowledgedRevision
      BY <1>5, <3>1 DEF HearRevisionAdvanced
    <3>2. CASE ~(Head(toView).revision > sync.acknowledgedRevision)
      BY <1>5, <3>2 DEF HearRevisionAdvanced
    <3>3. QED
      BY <3>1, <3>2
  <2>2. view'.access = view.access
    BY <1>1, <2>1, AccessKept
  <2>3. QED
    BY <1>5, <2>2 DEF HearRevisionAdvanced, HearInvalid, HearRecovery, Hears, Heard
<1>6. CASE HearFlush
  <2>1. PICK t, known, posted : ViewStep(t, CapturedView(view), known, posted)
    BY <1>6 DEF HearFlush
  <2>2. view'.access = view.access
    BY <1>1, <2>1, SameAccess, StepAccess
  <2>3. QED
    BY <1>6, <2>2 DEF HearFlush, HearInvalid, HearRecovery, Hears, Heard
<1>7. CASE HearInvalid
  <2>1. PICK v, known : /\ ViewStep(sync, v, known, <<>>)
                        /\ \E r : v = [view EXCEPT !.revision = r, !.notice = Null,
                                                   !.access = "invalid-external"]
    BY <1>7 DEF HearInvalid
  <2>2. "access" \in DOMAIN v /\ v.access = "invalid-external"
    BY <1>1, <2>1, SameAccess
  <2>3. QED
    BY <2>1, <2>2, StepAccess
<1>8. CASE HearRecovery
  BY <1>1, <1>8, HeardMessage DEF HearRecovery, Plain
<1>9. QED
  BY <1>2, <1>3, <1>4, <1>5, <1>6, <1>7, <1>8 DEF Hear

\* The host only adds to what it posted.
LEMMA HostPosts ==
    ASSUME Typed,
           \/ Arrive \/ Handle \/ ApplyEdit \/ Resume
           \/ ExternalWrite \/ RequestFlush \/ FlushTimesOut
    PROVE  view' = view /\ In(toView) \subseteq In(toView')
<1>1. toView \in Seq(Inbox)
  BY HostFacts
<1>2. \A m : Post(m) => In(toView) \subseteq In(toView')
  BY <1>1 DEF Post, In
<1>3. CASE Arrive
  BY <1>2, <1>3 DEF Arrive
<1>4. CASE Handle
  BY <1>2, <1>4 DEF Handle, HandleEdit, HandleAdopted, HandleRecover, HandleReady,
                    PostExternalChange, ViewUnchanged
<1>5. CASE ApplyEdit
  BY <1>5 DEF ApplyEdit, ViewUnchanged
<1>6. CASE Resume
  BY <1>2, <1>6 DEF Resume, ViewUnchanged
<1>7. CASE ExternalWrite
  BY <1>2, <1>7 DEF ExternalWrite, PostExternalChange, ViewUnchanged
<1>8. CASE RequestFlush \/ FlushTimesOut
  BY <1>2, <1>8 DEF RequestFlush, FlushTimesOut, ViewUnchanged
<1>9. QED
  BY <1>3, <1>4, <1>5, <1>6, <1>7, <1>8

\* A webview that is sane was sane.
LEMMA SaneBefore ==
    ASSUME Persevering, Stored, Next, Sane'
    PROVE  Sane
<1>1. Typed
  BY DEF Stored
<1>2. CASE User \/ Debounce
  BY <1>1, <1>2, UserAccess DEF Sane
<1>3. CASE Hear
  <2>1. toView \in Seq(Inbox)
    BY <1>1, HostFacts
  <2>2. /\ view.access = "editable"
        /\ toView # <<>> /\ toView' = Tail(toView)
        /\ Head(toView).type # "externalInvalidDocument"
    BY <1>3, HearAccess DEF Sane
  <2>3. In(toView) \subseteq {Head(toView)} \cup In(toView')
    BY <2>1, <2>2, PrecedesTail
  <2>4. QED
    BY <2>2, <2>3 DEF Sane
<1>4. CASE \/ Arrive \/ Handle \/ ApplyEdit \/ Resume
           \/ ExternalWrite \/ RequestFlush \/ FlushTimesOut
  BY <1>1, <1>4, HostPosts DEF Sane
<1>5. QED
  BY <1>2, <1>3, <1>4 DEF Next

\* A host that heard from another writer that the source is valid.
LEMMA ValidWrite ==
    ASSUME Typed, ExternalWrite, Sane'
    PROVE  doc'.text # Invalid
<1>1. PICK text : LET d == [version |-> doc.version + 1, text |-> text]
                  IN  doc' = d /\ PostExternalChange(host, d)
  BY DEF ExternalWrite
<1> DEFINE message == [type |-> "externalInvalidDocument", revision |-> doc.version + 1]
<1>2. ASSUME text = Invalid
      PROVE  FALSE
  <2>1. PICK m : m = message /\ Post(m)
    BY <1>1, <1>2 DEF PostExternalChange
  <2>2. m \in Inbox /\ m.type = "externalInvalidDocument"
    BY <2>1, HostFacts DEF Inbox
  <2>3. m \in In(toView')
    BY <2>1, <2>2, PostTyped
  <2>4. QED
    BY <2>2, <2>3 DEF Sane
<1>3. doc'.text = text
  BY <1>1
<1>4. QED
  BY <1>2, <1>3

\* The session starts with a stored draft.
LEMMA InitOrderly ==
    ASSUME Init
    PROVE  Orderly
<1>1. /\ sync.acknowledgedRevision = 1 /\ sync.localMutation = Start
      /\ sync.inFlight = Null /\ sync.error = Null /\ sync.externalChange = Null
  <2> DEFINE z == Created(1)
  <2>1. z \in SyncStates
    BY DEF Created, SyncStates
  <2> HIDE DEF z
  <2>2. LET s == AdoptReplacement(z, 1, Start, TRUE)
        IN  /\ s.acknowledgedRevision = 1 /\ s.localMutation = Start
            /\ s.inFlight = Null /\ s.error = Null /\ s.externalChange = Null
    BY <2>1 DEF AdoptReplacement, SettleFlushWaiters, SyncStates
  <2>3. QED
    BY <2>2 DEF Init, z
<1>2. /\ view.content = Start.content /\ view.tracked = Start.content /\ view.notice = Null
      /\ toHost = <<>> /\ toView = <<>>
      /\ host.queue = <<>> /\ host.applying = Null /\ ~host.blocked
      /\ host.lastLocal = Start
      /\ doc.version = 1 /\ doc.text = Start
  BY DEF Init
<1>3. In(toHost) = {} /\ In(toView) = {} /\ In(host.queue) = {} /\ Tasked = {}
  BY <1>2, InFew DEF Tasked
<1>4. Messages = {} /\ Settling = {}
  BY <1>3 DEF Messages, Settling
<1>5. Shows /\ Waits /\ Secret
  BY <1>1, <1>2 DEF Shows, Waits, ErrorWaits, Secret, Unreported
<1>6. Writes
  BY <1>2, <1>4, SessionAssumption DEF Writes
<1>7. Ordered /\ Lined /\ Quoted
  BY <1>2, <1>3, <1>4 DEF Ordered, Lined, Rising, Below, Quoted
<1>8. Newest /\ Informed /\ Noticed /\ Matched
  BY <1>1, <1>2, <1>3, <1>4 DEF Newest, Informed, Noticed, Matched
<1>9. QED
  BY <1>5, <1>6, <1>7, <1>8 DEF Orderly

\* Every action keeps what holds as long as the source is valid.
LEMMA NextOrderly ==
    ASSUME Persevering, Stored, Orderly, Stored', Next, Sane'
    PROVE  Orderly'
<1>1. Typed
  BY DEF Stored
<1>2. CASE User \/ Debounce
  <2>1. CASE Type \/ Debounce \/ EditMetadata
    BY <2>1, TypeOrderly, DebounceOrderly, MetadataOrderly
  <2>2. CASE KeepMine \/ RetrySave
    BY <2>2, KeepMineOrderly, RetryOrderly
  <2>3. CASE Reload \/ RecoverFromLocal \/ Revalidate
    BY <2>3 DEF Reload, RecoverFromLocal, Revalidate, Persevering
  <2>4. QED
    BY <1>2, <2>1, <2>2, <2>3 DEF User
<1>3. CASE Hear
  <2>1. ~HearInvalid /\ ~HearRecovery
    BY <1>3, HearAccess DEF Sane
  <2>2. CASE HearAcknowledgement \/ HearRejection
    BY <2>2, AcknowledgementOrderly, RejectionOrderly
  <2>3. CASE HearExternalChange \/ HearRevisionAdvanced \/ HearFlush
    BY <2>3, ExternalChangeOrderly, AdvancedOrderly, HearFlushOrderly
  <2>4. QED
    BY <1>3, <2>1, <2>2, <2>3 DEF Hear
<1>4. CASE Arrive \/ Handle \/ ApplyEdit \/ Resume
  BY <1>4, ArriveOrderly, HandleOrderly, ApplyEditOrderly, ResumeOrderly
<1>5. CASE ExternalWrite
  BY <1>1, <1>5, ValidWrite, ExternalWriteOrderly
<1>6. CASE RequestFlush \/ FlushTimesOut
  BY <1>6, FlushesOrderly
<1>7. QED
  BY <1>2, <1>3, <1>4, <1>5, <1>6 DEF Next

\* The third invariant holds where the user perseveres.
LEMMA SettledHolds ==
    ASSUME Persevering
    PROVE  Spec => []Settled
<1>1. Untouched
  BY DEF Persevering, Untouched
<1>2. Spec => []Stored
  BY <1>1, StoredHolds
<1>3. Init => (Sane => Orderly)
  BY InitOrderly
<1>4. Stored /\ Stored' /\ (Sane => Orderly) /\ [Next]_vars => (Sane => Orderly)'
  <2>1. ASSUME Stored, Stored', Sane => Orderly, Next, Sane'
        PROVE  Orderly'
    BY <2>1, SaneBefore, NextOrderly
  <2>2. ASSUME Sane => Orderly, UNCHANGED vars, Sane'
        PROVE  Orderly'
    <3>1. UNCHANGED <<sync, view, toHost, toView, host, doc>>
      BY <2>2 DEF vars
    <3>2. Orderly
      BY <2>2, <3>1 DEF Sane
    <3>3. Shows'
      BY <3>1, <3>2 DEF Orderly, Shows
    <3>4. QED
      BY <3>1, <3>2, <3>3, SameOrderly
  <2>3. QED
    BY <2>1, <2>2
<1>5. Stored /\ (Sane => Orderly) => Settled
  BY DEF Settled
<1>6. QED
  BY <1>2, <1>3, <1>4, <1>5, PTL DEF Spec

\* Nothing is under way, and nothing is reported: then all is told.
LEMMA QuietSettled ==
    ASSUME Settled, Quiet, view.access = "editable", view.notice = Null, sync.error = Null
    PROVE  /\ doc.text = sync.localMutation
           /\ doc.text = Draft(view.content)
           /\ doc.version = sync.acknowledgedRevision
           /\ ~host.blocked
<1>1. /\ toHost = <<>> /\ toView = <<>> /\ ~view.typed
      /\ host.queue = <<>> /\ host.applying = Null
  BY DEF Quiet
<1>2. In(toHost) = {} /\ In(toView) = {} /\ In(host.queue) = {} /\ Tasked = {}
  BY <1>1, InFew DEF Tasked
<1>3. Messages = {} /\ Carried = {} /\ Settling = {}
  BY <1>2 DEF Messages, Carried, Settling
<1>4. Stored /\ Orderly
  BY <1>2 DEF Settled, Sane
<1>5. /\ Shows /\ Writes /\ Newest /\ Informed /\ Noticed /\ Matched
      /\ Sound(sync) /\ Typed
  BY <1>4 DEF Orderly, Stored, Typed
<1>6. sync.inFlight = Null /\ sync.externalChange = Null
  BY <1>3, <1>5 DEF Newest, Shows
<1>7. sync.pending = Null
  BY <1>5, <1>6 DEF Sound, Awake
<1>8. ~Unreported
  BY <1>1 DEF Unreported
<1>9. doc.version = sync.acknowledgedRevision
  BY <1>2, <1>5, <1>6, <1>8 DEF Informed, Doomed
<1>10. doc.text = sync.localMutation
  BY <1>2, <1>5, <1>6, <1>7 DEF Noticed, Matched
<1>11. Draft(view.content) = sync.localMutation
  <2>1. view.content = sync.localMutation.content
    BY <1>1, <1>5 DEF Shows
  <2>2. sync.localMutation \in Mutations
    BY <1>5, TypedFacts
  <2>3. QED
    BY <2>1, <2>2 DEF Draft, Mutations
<1>12. ~host.blocked
  BY <1>5 DEF Writes
<1>13. QED
  BY <1>9, <1>10, <1>11, <1>12

\* The webview and updateDocument between them: whatever else writes the
\* document, whenever flushes are asked for and however often VS Code refuses,
\* once nothing is typed or under way and the editor reports neither an error
\* nor a conflict nor an invalid source, the document holds what the editor
\* shows, at the revision the next edit will be written on, and the host
\* accepts it.  The user keeps the draft and retries, but does not reload, nor
\* decide about an invalid source.  After a reload that is overtaken by another
\* writer who puts the editor's old text back it is false (session_reload_race
\* shows that race); the other two decisions are left to session_settles.
THEOREM QuietStored ==
    ASSUME Persevering
    PROVE  Spec => []QuietMeansStored
<1>1. Settled => QuietMeansStored
  BY QuietSettled DEF QuietMeansStored
<1>2. QED
  BY <1>1, SettledHolds, PTL

----------------------------------------------------------------------------
(* What an edit may replace: the invariant *)

\* The document is one of these texts, or the one the host last stored.
Seen(texts) == doc.text \in texts \cup {host.lastLocal}

\* A notice of the document's version shows its text.
Exact(notice) ==
    notice # Null /\ notice.revision = doc.version => notice.hostSnapshot = doc.text

\* A draft based on the document's version accounts for its text.
Aware ==
    /\ ErrorWaits(sync)
    /\ sync.acknowledgedRevision = doc.version => Seen(ledger.known)
    /\ Exact(sync.externalChange) /\ Exact(view.notice)

\* So does an edit.
Based ==
    \A m \in Messages : m.type = "edit" =>
        /\ m.request.baseRevision <= doc.version
        /\ m.request.baseRevision = doc.version => Seen(m.over)

\* What the host says of the document's version is so.
Faithful(m) ==
    m.type # "requestFlush" /\ m.revision = doc.version =>
        /\ m.type \in {"editAcknowledged", "documentRevisionAdvanced"}
              => doc.text = host.lastLocal
        /\ m.type = "invalidDocumentRecoveryResult" /\ m.recovered
              => doc.text = host.lastLocal
        /\ m.type = "externalChange" => m.snapshot = doc.text
        /\ m.type = "editRejected" /\ m.hostSnapshot # Null => m.hostSnapshot = doc.text

\* A task writes on the version it was planned on: an edit on the one it was
\* written on, a recovery on an invalid one.
Planned ==
    host.applying # Null =>
        /\ host.applying.source <= doc.version
        /\ host.applying.outcome = "applied" => host.applying.source < doc.version
        /\ Unreported => doc.text = host.applying.text
        /\ host.applying.message.type = "edit" =>
              host.applying.source = host.applying.message.request.baseRevision
        /\ host.applying.message.type # "edit" =>
              /\ host.applying.text = host.applying.message.mutation
              /\ host.applying.outcome # "applied" /\ doc.version = host.applying.source
                    => doc.text = Invalid

\* The source is invalid while the host refuses to write, or a recovery the host
\* has not reported yet repaired it.
Barred ==
    host.blocked =>
        doc.text = Invalid \/ (Unreported /\ host.applying.message.type # "edit")

\* The fourth inductive invariant.
Heeded ==
    /\ Typed /\ Aware /\ Based /\ Planned /\ Barred
    /\ \A m \in In(toView) : Faithful(m)

----------------------------------------------------------------------------
(* What an edit may replace: a turn of the webview *)

\* The webview posts the edit it sent, if any, with these texts, the answers to
\* flushes and `posted`, and the draft accounts for the same texts.
Accounts(known, posted) ==
    /\ posted \in Seq(Outbox) /\ \A m \in In(posted) : m.type # "edit"
    /\ known \in SUBSET Mutations
    /\ toHost' = toHost \o Edits(sync, sync', known)
                        \o Answers(sync, sync', MaxFlushes) \o posted
    /\ ledger'.known = known
    /\ UNCHANGED <<host, doc>>
    /\ toView' = toView \/ (toView # <<>> /\ toView' = Tail(toView))

\* The only new edit is the one sent, written on what the draft is based on.
LEMMA TurnAccounts ==
    ASSUME Typed, Typed', Keeps(sync, sync'), NEW known, NEW posted, Accounts(known, posted)
    PROVE  \A m \in Messages' : m.type = "edit" =>
              \/ m \in Messages
              \/ m.over = known /\ m.request.baseRevision = sync'.acknowledgedRevision
<1> DEFINE edits == Edits(sync, sync', known)
           answers == Answers(sync, sync', MaxFlushes)
           e == [type |-> "edit", request |-> sync'.inFlight, over |-> known]
<1>1. /\ toHost' = ((toHost \o edits) \o answers) \o posted
      /\ toHost \in Seq(Outbox) /\ posted \in Seq(Outbox)
      /\ sync \in SyncStates /\ sync' \in SyncStates
      /\ sync.nextEditId \in Nat /\ sync'.nextEditId \in Nat
      /\ Tasked' = Tasked /\ host' = host
  BY HostFacts DEF Accounts, Typed, TypeOK, SyncStates, Tasked
<1>2. edits \in Seq(Outbox) /\ \A m \in In(edits) :
         m.over = known /\ m.request.baseRevision = sync'.acknowledgedRevision
  <2>1. CASE Sends(sync, sync')
    <3>1. /\ sync'.inFlight # Null /\ sync'.inFlight \in Requests
          /\ sync'.inFlight.baseRevision = sync'.acknowledgedRevision
      BY <1>1, <2>1 DEF Keeps, Travels, Sends, SyncStates
    <3>2. e \in Outbox /\ e.over = known
          /\ e.request.baseRevision = sync'.acknowledgedRevision
      BY <3>1 DEF Outbox, Accounts
    <3>3. edits = <<e>>
      BY <2>1 DEF Edits
    <3> HIDE DEF e, edits
    <3>4. QED
      BY <3>2, <3>3, InFew
  <2>2. CASE ~Sends(sync, sync')
    <3>1. edits = <<>>
      BY <2>2 DEF Edits
    <3> HIDE DEF edits
    <3>2. QED
      BY <3>1, InFew
  <2>3. QED
    BY <2>1, <2>2
<1>3. answers \in Seq(Outbox) /\ \A m \in In(answers) : m.type # "edit"
  <2>1. FlushMessages(MaxFlushes) \subseteq Outbox
    BY DEF FlushMessages, Outbox
  <2>2. /\ answers \in Seq(FlushMessages(MaxFlushes))
        /\ \A m \in In(answers) : m.type \in {"flushComplete", "flushFailed"}
    BY <1>1, AnswersTyped, SessionAssumption
  <2> HIDE DEF answers
  <2>3. QED
    BY <2>1, <2>2, SeqMonotonic
<1> HIDE DEF edits, answers
<1>4. /\ toHost \o edits \in Seq(Outbox)
      /\ In(toHost \o edits) \subseteq In(toHost) \cup In(edits)
  BY <1>1, <1>2, InConcat
<1>5. /\ (toHost \o edits) \o answers \in Seq(Outbox)
      /\ In((toHost \o edits) \o answers) \subseteq In(toHost \o edits) \cup In(answers)
  BY <1>3, <1>4, InConcat
<1>6. In(toHost') \subseteq In((toHost \o edits) \o answers) \cup In(posted)
  BY <1>1, <1>5, InConcat
<1>7. Messages' \subseteq Messages \cup In(edits) \cup In(answers) \cup In(posted)
  BY <1>1, <1>4, <1>5, <1>6 DEF Messages
<1>8. QED
  BY <1>2, <1>3, <1>7 DEF Accounts

\* A turn keeps the invariant if the draft accounts for what it is based on.
LEMMA TurnHeeded ==
    ASSUME Heeded, Typed', Keeps(sync, sync'),
           NEW known, NEW posted, Accounts(known, posted), Aware'
    PROVE  Heeded'
<1>1. /\ host' = host /\ doc' = doc /\ ledger'.known = known
      /\ Typed /\ Based /\ Planned /\ Barred /\ \A m \in In(toView) : Faithful(m)
  BY DEF Accounts, Heeded
<1>2. Based'
  <2>1. SUFFICES ASSUME NEW m \in Messages', m.type = "edit"
                 PROVE  /\ m.request.baseRevision <= doc.version
                        /\ m.request.baseRevision = doc.version => Seen(m.over)
    BY <1>1 DEF Based, Seen
  <2>2. CASE m \in Messages
    BY <1>1, <2>1, <2>2 DEF Based
  <2>3. CASE m.over = known /\ m.request.baseRevision = sync'.acknowledgedRevision
    <3>1. sync'.acknowledgedRevision <= doc.version
      BY <1>1 DEF Typed, Recent, RevisionsBehindDocument
    <3>2. sync'.acknowledgedRevision = doc.version => Seen(known)
      BY <1>1 DEF Aware, Seen
    <3>3. QED
      BY <2>3, <3>1, <3>2
  <2>4. QED
    BY <1>1, <2>1, <2>2, <2>3, TurnAccounts
<1>3. Planned' /\ Barred'
  BY <1>1 DEF Planned, Barred, Unreported
<1>4. \A m \in In(toView') : Faithful(m)'
  <2>1. In(toView') \subseteq In(toView)
    BY <1>1, HostFacts, InTail DEF Accounts
  <2>2. QED
    BY <1>1, <2>1 DEF Faithful
<1>5. QED
  BY <1>2, <1>3, <1>4 DEF Heeded

\* A step of the webview hands over these texts.
LEMMA StepAccounts ==
    ASSUME Typed, NEW t, NEW v \in Views, NEW known \in SUBSET Mutations,
           NEW posted \in Seq(Outbox), \A m \in In(posted) : m.type # "edit",
           ViewStep(t, v, known, posted), ledger'.known = known, UNCHANGED <<host, doc>>,
           toView' = toView \/ (toView # <<>> /\ toView' = Tail(toView))
    PROVE  Accounts(known, posted) /\ sync' = t /\ view'.notice = v.notice
<1> DEFINE keeping == v.keeping /\ v.notice # Null /\ Waiting(sync')
<1>1. Accounts(known, posted) /\ sync' = t
  BY DEF ViewStep, Accounts
<1>2. view' = [v EXCEPT !.keeping = keeping]
  BY DEF ViewStep
<1> HIDE DEF keeping
<1>3. QED
  BY <1>1, <1>2 DEF Views

\* A turn that only submits and sends, and shows no other notice.
LEMMA ProceedingHeeded ==
    ASSUME Heeded, Typed', Keeps(sync, sync'), Proceeds(sync, sync'),
           NEW posted, Accounts(ledger.known, posted),
           view'.notice \in {view.notice, Null}
    PROVE  Heeded'
<1>1. /\ host' = host /\ doc' = doc /\ ledger'.known = ledger.known /\ Aware
  BY DEF Accounts, Heeded
<1>2. Aware'
  BY <1>1 DEF Aware, Proceeds, Exact, Seen
<1>3. QED
  BY <1>2, TurnHeeded

----------------------------------------------------------------------------
(* What an edit may replace: the user and the editor *)

\* What a turn may use of the state before it.
LEMMA HeededFacts ==
    ASSUME Heeded
    PROVE  /\ Typed /\ Sound(sync) /\ ErrorWaits(sync)
           /\ sync \in SyncStates /\ sync.acknowledgedRevision \in Nat
           /\ sync.localMutation # Null /\ sync.localMutation \in Mutations
           /\ view \in Views /\ ledger.known \in SUBSET Mutations
           /\ doc.version \in Nat /\ doc.text \in Texts
           /\ <<>> \in Seq(Outbox) /\ In(<<>>) = {}
<1>1. Typed /\ Aware
  BY DEF Heeded
<1>2. sync \in SyncStates /\ sync.acknowledgedRevision \in Nat
  BY <1>1, TypedFacts DEF SyncStates
<1>3. QED
  BY <1>1, <1>2, TypedFacts, HostFacts, InFew DEF Aware

\* captureIfChanged only submits.
LEMMA CaptureProceeds ==
    ASSUME Typed, ErrorWaits(sync)
    PROVE  Proceeds(sync, Captured(view)) /\ Sound(Captured(view))
<1> DEFINE mutation == Draft(view.content)
           changed == Differing(sync, mutation) \cup {"content"}
<1>1. mutation \in Mutations
  BY TypedFacts, DraftTyped DEF Views
<1>2. Captured(view) = SubmitComponents(sync, mutation, changed) \/ Captured(view) = sync
  BY DEF Captured, SubmitContent
<1> HIDE DEF mutation, changed
<1>3. CASE Captured(view) = SubmitComponents(sync, mutation, changed)
  BY <1>1, <1>3, TypedFacts, SubmitProceeds, CapturedGood
<1>4. CASE Captured(view) = sync
  BY <1>4, CapturedGood DEF Proceeds
<1>5. QED
  BY <1>2, <1>3, <1>4

\* Typing, and what the webview does on its own, submits at most.
LEMMA TypeHeeded ==
    ASSUME Heeded, Typed', Type
    PROVE  Heeded'
<1>1. UNCHANGED <<sync, toHost, toView, ledger, host, doc>> /\ view'.notice = view.notice
  BY HeededFacts DEF Type, HostUnchanged, Views
<1>2. Aware' /\ Based' /\ Planned' /\ Barred' /\ \A m \in In(toView') : Faithful(m)'
  BY <1>1 DEF Heeded, Aware, Exact, Seen, Based, Messages, Tasked, Planned, Barred,
              Unreported, Faithful
<1>3. QED
  BY <1>2 DEF Heeded

LEMMA DebounceHeeded ==
    ASSUME Heeded, Typed', Debounce
    PROVE  Heeded'
<1> DEFINE t == Captured(view)
           v == CapturedView(view)
<1>1. /\ ViewStep(t, v, ledger.known, <<>>) /\ ledger' = ledger
      /\ UNCHANGED <<host, doc, toView>>
  BY DEF Debounce, HostUnchanged
<1>2. Keeps(sync, sync')
  BY HeededFacts, DebounceTurns DEF Turns, Turned
<1>3. Proceeds(sync, t) /\ v \in Views /\ v.notice = view.notice
  BY HeededFacts, CaptureProceeds, CapturedViewTyped
<1> HIDE DEF t, v
<1>4. Accounts(ledger.known, <<>>) /\ sync' = t /\ view'.notice = v.notice
  BY <1>1, <1>3, HeededFacts, StepAccounts
<1>5. QED
  BY <1>2, <1>3, <1>4, ProceedingHeeded

LEMMA MetadataHeeded ==
    ASSUME Heeded, Typed', EditMetadata
    PROVE  Heeded'
<1>1. PICK meta \in Metas :
         ViewStep(SubmitMetadata(sync, meta), view, ledger.known, <<>>)
  BY DEF EditMetadata
<1>2. UNCHANGED <<host, doc, toView, ledger>>
  BY DEF EditMetadata, HostUnchanged
<1>3. Keeps(sync, sync')
  BY HeededFacts, MetadataTurns DEF Turns, Turned
<1> DEFINE mutation == [sync.localMutation EXCEPT !.metadata = meta]
           t == SubmitMetadata(sync, meta)
<1>4. mutation \in Mutations
  BY HeededFacts DEF Mutations
<1>5. t = SubmitComponents(sync, mutation, Differing(sync, mutation))
  BY HeededFacts DEF SubmitMetadata
<1> HIDE DEF mutation, t
<1>6. Proceeds(sync, t)
  BY <1>4, <1>5, HeededFacts, SubmitProceeds
<1>7. Accounts(ledger.known, <<>>) /\ sync' = t /\ view'.notice = view.notice
  BY <1>1, <1>2, HeededFacts, StepAccounts DEF t
<1>8. QED
  BY <1>3, <1>6, <1>7, ProceedingHeeded

LEMMA RetryHeeded ==
    ASSUME Heeded, Typed', RetrySave
    PROVE  Heeded'
<1> DEFINE t == Retry(sync, Null)
<1>1. /\ ViewStep(t, view, ledger.known, <<>>) /\ ledger' = ledger
      /\ UNCHANGED <<host, doc, toView>>
  BY DEF RetrySave, HostUnchanged
<1>2. Keeps(sync, sync')
  BY HeededFacts, RetryTurns DEF Turns, Turned
<1>3. Proceeds(sync, t)
  BY HeededFacts, RetryProceeds DEF RetrySave
<1> HIDE DEF t
<1>4. Accounts(ledger.known, <<>>) /\ sync' = t /\ view'.notice = view.notice
  BY <1>1, HeededFacts, StepAccounts
<1>5. QED
  BY <1>2, <1>3, <1>4, ProceedingHeeded

\* Whoever leaves the coordinator alone proceeds.
LEMMA SameProceeds ==
    ASSUME Heeded
    PROVE  Proceeds(sync, sync) /\ Keeps(sync, sync)
BY HeededFacts, TypedFacts DEF Proceeds

\* The two decisions for an invalid source.
LEMMA InvalidSourceHeeded ==
    ASSUME Heeded, Typed', RecoverFromLocal \/ Revalidate
    PROVE  Heeded'
<1> DEFINE m == [type |-> "recoverInvalidDocument", baseRevision |-> view.revision,
                 mutation |-> Draft(view.content)]
           r == [type |-> "ready"]
           v == [view EXCEPT !.recovering = TRUE]
<1>1. ledger' = ledger /\ UNCHANGED <<host, doc, toView>>
  BY DEF RecoverFromLocal, Revalidate, HostUnchanged
<1>2. m \in Outbox /\ r \in Outbox /\ m.type # "edit" /\ r.type # "edit"
  BY HeededFacts, DraftTyped DEF Outbox, Views
<1>3. v \in Views /\ v.notice = view.notice
  BY HeededFacts DEF Views
<1>4. \/ ViewStep(sync, v, ledger.known, <<m>>)
      \/ ViewStep(sync, view, ledger.known, <<r>>)
  BY DEF RecoverFromLocal, Revalidate
<1> HIDE DEF m, r, v
<1>5. ASSUME NEW w \in Views, w.notice = view.notice, NEW posted \in Outbox,
             posted.type # "edit", ViewStep(sync, w, ledger.known, <<posted>>)
      PROVE  Heeded'
  <2>1. <<posted>> \in Seq(Outbox) /\ In(<<posted>>) = {posted}
    BY <1>5, InFew
  <2>2. Accounts(ledger.known, <<posted>>) /\ sync' = sync /\ view'.notice = view.notice
    BY <1>1, <1>5, <2>1, HeededFacts, StepAccounts
  <2>3. QED
    BY <2>2, SameProceeds, ProceedingHeeded
<1>6. QED
  BY <1>2, <1>3, <1>4, <1>5, HeededFacts

\* "Keep mine": the draft is based on the text of the notice.
LEMMA KeepMineHeeded ==
    ASSUME Heeded, Typed', KeepMine
    PROVE  Heeded'
<1> DEFINE revision == view.notice.revision
           snapshot == view.notice.hostSnapshot
           kept == KeepLocal(sync, revision)
           t == FlushThrough(kept, 0, kept.localGeneration)
           v == [view EXCEPT !.keeping = TRUE]
           known == ledger.known \cup {snapshot}
<1>1. /\ view.notice # Null /\ ViewStep(t, v, known, <<>>)
      /\ ledger' = [ledger EXCEPT !.known = known]
      /\ UNCHANGED <<host, doc, toView>>
  BY TypedFacts, HeededFacts
     DEF KeepMine, HostUnchanged, KeepLocalThroughAcknowledgement, Ledgers
<1>2. Keeps(sync, sync')
  BY HeededFacts, KeepMineTurns DEF Turns, Turned
<1>3. revision \in Nat /\ snapshot \in Mutations
  BY <1>1, HeededFacts, TypedFacts DEF Snapshots
<1>4. revision = doc.version => snapshot = doc.text
  BY <1>1 DEF Heeded, Aware, Exact
<1> HIDE DEF revision, snapshot
<1>5. /\ Sound(kept) /\ kept.acknowledgedRevision = revision
      /\ kept.externalChange = Null /\ kept.error = Null
  BY <1>3, HeededFacts, KeepLocalEffect, KeepLocalSound
<1> HIDE DEF kept
<1>6. t.acknowledgedRevision = revision /\ t.externalChange = Null /\ t.error = Null
  BY <1>5, FlushProceeds DEF Proceeds, ErrorWaits
<1> HIDE DEF t
<1>7. /\ v \in Views /\ v.notice = view.notice /\ known \in SUBSET Mutations
      /\ ledger'.known = known
  BY <1>1, <1>3, HeededFacts, TypedFacts DEF Views, Ledgers
<1> HIDE DEF v, known
<1>8. Accounts(known, <<>>) /\ sync' = t /\ view'.notice = view.notice
  BY <1>1, <1>7, HeededFacts, StepAccounts
<1>9. Aware'
  BY <1>1, <1>4, <1>6, <1>7, <1>8
     DEF Heeded, Aware, Exact, Seen, ErrorWaits, known
<1>10. QED
  BY <1>2, <1>8, <1>9, TurnHeeded

\* A replacement is based on the text it takes over.
LEMMA AdoptEffect ==
    ASSUME NEW s \in SyncStates, NEW revision \in Nat, NEW mutation \in Mutations
    PROVE  LET t == AdoptReplacement(s, revision, mutation, TRUE)
           IN  /\ t.acknowledgedRevision = revision
               /\ t.externalChange = Null /\ t.error = Null
BY DEF AdoptReplacement, SettleFlushWaiters, SyncStates

\* "Reload": the draft is the text of the notice.
LEMMA ReloadHeeded ==
    ASSUME Heeded, Typed', Reload
    PROVE  Heeded'
<1> DEFINE revision == view.notice.revision
           snapshot == view.notice.hostSnapshot
           t == AdoptReplacement(sync, revision, snapshot, TRUE)
           v == [Replaced(view, snapshot.content) EXCEPT
                   !.revision = revision, !.notice = Null, !.access = "editable"]
           m == [type |-> "externalChangeAdopted", revision |-> revision]
<1>1. /\ view.notice # Null /\ ViewStep(t, v, {snapshot}, <<m>>)
      /\ ledger'.known = {snapshot}
      /\ UNCHANGED <<host, doc, toView>>
  BY HeededFacts, TypedFacts DEF Reload, HostUnchanged, Ledgers
<1>2. Keeps(sync, sync')
  BY HeededFacts, ReloadTurns DEF Turns, Turned
<1>3. revision \in Nat /\ snapshot \in Mutations
  BY <1>1, HeededFacts, TypedFacts DEF Snapshots
<1>4. revision = doc.version => snapshot = doc.text
  BY <1>1 DEF Heeded, Aware, Exact
<1> HIDE DEF revision, snapshot
<1>5. t.acknowledgedRevision = revision /\ t.externalChange = Null /\ t.error = Null
  BY <1>3, HeededFacts, AdoptEffect
<1>6. v \in Views /\ v.notice = Null
  BY <1>3, HeededFacts, ReplacedTyped DEF Mutations
<1>7. m \in Outbox /\ m.type # "edit"
  BY <1>3 DEF Outbox
<1> HIDE DEF t, v, m
<1>8. <<m>> \in Seq(Outbox) /\ In(<<m>>) = {m}
  BY <1>7, InFew
<1>9. Accounts({snapshot}, <<m>>) /\ sync' = t /\ view'.notice = Null
  BY <1>1, <1>3, <1>6, <1>7, <1>8, HeededFacts, StepAccounts
<1>10. Aware'
  BY <1>1, <1>4, <1>5, <1>9 DEF Aware, Exact, Seen, ErrorWaits
<1>11. QED
  BY <1>2, <1>9, <1>10, TurnHeeded

----------------------------------------------------------------------------
(* What an edit may replace: what the webview hears *)

\* What the oldest message says is so.
LEMMA HeardHeeded ==
    ASSUME Heeded, NEW type, Hears(type), Heard
    PROVE  LET m == Head(toView)
           IN  /\ toView # <<>> /\ toView' = Tail(toView)
               /\ UNCHANGED <<host, doc>>
               /\ m \in Inbox /\ m.type = type /\ Faithful(m)
               /\ type # "requestFlush" => m.revision \in Nat
<1> DEFINE m == Head(toView)
<1>1. /\ toView # <<>> /\ toView' = Tail(toView) /\ UNCHANGED <<host, doc>>
      /\ m \in In(toView) /\ m \in Inbox /\ m.type = type
  BY HeededFacts, HeardMessage DEF Heard
<1>2. Faithful(m)
  BY <1>1 DEF Heeded
<1>3. \A x \in Inbox : x.type # "requestFlush" => x.revision \in Nat
  BY DEF Inbox
<1>4. QED
  BY <1>1, <1>2, <1>3

\* A message that finds nothing to do.
LEMMA IgnoredHeeded ==
    ASSUME Heeded, Typed', NEW v \in Views, v.notice \in {view.notice, Null},
           ViewStep(sync, v, ledger.known, <<>>), ledger'.known = ledger.known,
           UNCHANGED <<host, doc>>, toView # <<>>, toView' = Tail(toView)
    PROVE  Heeded'
<1>1. Accounts(ledger.known, <<>>) /\ sync' = sync /\ view'.notice = v.notice
  BY HeededFacts, StepAccounts
<1>2. QED
  BY <1>1, SameProceeds, ProceedingHeeded

\* A notice that is still shown is one of those known.
LEMMA NoticeExact ==
    ASSUME Heeded, NEW revision
    PROVE  /\ Exact(NoticeNewerThan(sync, revision))
           /\ NoticeNewerThan(sync, revision) \in Snapshots \cup {Null}
BY HeededFacts, NoticeTyped DEF Heeded, Aware, Exact, NoticeNewerThan

\* The stored draft is the text the next one is based on.
LEMMA AcknowledgementHeeded ==
    ASSUME Heeded, Typed', HearAcknowledgement
    PROVE  Heeded'
<1> DEFINE m == Head(toView)
           t == Acknowledge(sync, m)
<1>1. /\ toView # <<>> /\ toView' = Tail(toView) /\ UNCHANGED <<host, doc>>
      /\ m \in Inbox /\ m.type = "editAcknowledged" /\ Faithful(m) /\ m.revision \in Nat
  BY HeardHeeded DEF HearAcknowledgement
<1>2. Keeps(sync, sync')
  BY HeededFacts, AcknowledgementTurns DEF Turns, Turned
<1>3. CASE Acknowledges(sync, m)
  <2> DEFINE v == [view EXCEPT !.revision = m.revision, !.notice = t.externalChange]
             stored == sync.inFlight.mutation
  <2>1. ViewStep(t, v, {stored}, <<>>) /\ ledger' = [ledger EXCEPT !.known = {stored}]
    BY <1>3 DEF HearAcknowledgement, Shown
  <2>2. stored \in Mutations
    BY <1>3, HeededFacts DEF Acknowledges, MatchesInFlight, SyncStates, Requests
  <2>3. /\ t.acknowledgedRevision = m.revision /\ t.error = Null
        /\ t.externalChange = NoticeNewerThan(sync, m.revision)
    BY <1>1, <1>3, HeededFacts, AcknowledgeEffect
  <2> HIDE DEF t, stored
  <2>4. v \in Views /\ v.notice = t.externalChange
    BY <1>1, <2>3, HeededFacts, NoticeExact DEF Views
  <2>5. ledger'.known = {stored}
    BY <2>1, TypedFacts, HeededFacts DEF Ledgers
  <2> HIDE DEF v
  <2>6. Accounts({stored}, <<>>) /\ sync' = t /\ view'.notice = t.externalChange
    BY <1>1, <2>1, <2>2, <2>4, <2>5, HeededFacts, StepAccounts
  <2>7. Exact(t.externalChange)
    BY <2>3, NoticeExact
  <2>8. m.revision = doc.version => doc.text = host.lastLocal
    BY <1>1 DEF Faithful
  <2> HIDE DEF m
  <2>9. Aware'
    BY <1>1, <2>3, <2>5, <2>6, <2>7, <2>8 DEF Aware, ErrorWaits, Seen, Exact
  <2>10. QED
    BY <1>2, <2>6, <2>9, TurnHeeded
<1>4. CASE ~Acknowledges(sync, m)
  <2>1. ViewStep(sync, view, ledger.known, <<>>) /\ ledger' = ledger
    BY <1>4 DEF HearAcknowledgement, Acknowledge
  <2>2. QED
    BY <1>1, <2>1, HeededFacts, IgnoredHeeded
<1>5. QED
  BY <1>3, <1>4

\* A rejection shows the text the document has, if any.
LEMMA RejectionHeeded ==
    ASSUME Heeded, Typed', HearRejection
    PROVE  Heeded'
<1> DEFINE m == Head(toView)
           t == Reject(sync, m)
           v == IF MatchesInFlight(sync, m) /\ t.externalChange # Null
                THEN [view EXCEPT !.notice = t.externalChange] ELSE view
<1>1. /\ toView # <<>> /\ toView' = Tail(toView) /\ UNCHANGED <<host, doc>>
      /\ m \in Inbox /\ m.type = "editRejected" /\ Faithful(m) /\ m.revision \in Nat
  BY HeardHeeded DEF HearRejection
<1>2. Keeps(sync, sync')
  BY HeededFacts, RejectionTurns DEF Turns, Turned
<1>3. ViewStep(t, v, ledger.known, <<>>) /\ ledger' = ledger
  BY DEF HearRejection, Shown
<1>4. CASE MatchesInFlight(sync, m)
  <2> DEFINE shown == [revision |-> m.revision, hostSnapshot |-> m.hostSnapshot]
  <2>1. m.code \in ErrorCodes /\ m.hostSnapshot \in Mutations \cup {Null}
    BY <1>1, InboxFields
  <2>2. /\ t.acknowledgedRevision = sync.acknowledgedRevision
        /\ t.externalChange = IF IsConflict(m) THEN shown ELSE sync.externalChange
        /\ t.inFlight = Null /\ t.pending # Null
    BY <1>4, <2>1, HeededFacts, RejectEffect
  <2>3. IsConflict(m) => shown \in Snapshots
    BY <1>1, <2>1 DEF IsConflict, Snapshots
  <2>4. IsConflict(m) => Exact(shown)
    BY <1>1 DEF IsConflict, Exact, Faithful
  <2> HIDE DEF shown
  <2>5. t.externalChange \in Snapshots \cup {Null} /\ Exact(t.externalChange)
    <3>1. sync.externalChange \in Snapshots \cup {Null} /\ Exact(sync.externalChange)
      BY HeededFacts DEF SyncStates, Heeded, Aware
    <3>2. QED
      BY <2>2, <2>3, <2>4, <3>1
  <2> HIDE DEF t
  <2>6. v \in Views /\ v.notice \in {view.notice, t.externalChange}
    BY <2>5, HeededFacts DEF Views
  <2> HIDE DEF v, m
  <2>7. Accounts(ledger.known, <<>>) /\ sync' = t /\ view'.notice = v.notice
    BY <1>1, <1>3, <2>6, HeededFacts, StepAccounts
  <2>8. Aware'
    <3>1. Aware
      BY DEF Heeded
    <3>2. Exact(view'.notice)
      BY <2>5, <2>6, <2>7, <3>1 DEF Aware
    <3>3. QED
      BY <1>1, <1>3, <2>2, <2>5, <2>7, <3>1, <3>2 DEF Aware, ErrorWaits, Seen, Exact
  <2>9. QED
    BY <1>2, <2>7, <2>8, TurnHeeded
<1>5. CASE ~MatchesInFlight(sync, m)
  <2>1. t = sync /\ v = view
    BY <1>5 DEF Reject
  <2> HIDE DEF t, v
  <2>2. QED
    BY <1>1, <1>3, <2>1, HeededFacts, IgnoredHeeded
<1>6. QED
  BY <1>4, <1>5

\* Another writer's text is shown as it is, or is what the editor holds anyway.
LEMMA ExternalChangeHeeded ==
    ASSUME Heeded, Typed', HearExternalChange
    PROVE  Heeded'
<1> DEFINE m == Head(toView)
           t == ObserveExternalChange(sync, m.revision, m.snapshot)
           news == m.revision > sync.acknowledgedRevision
           shown == [revision |-> m.revision, hostSnapshot |-> m.snapshot]
           notice == IF news /\ sync.localMutation # m.snapshot
                     THEN shown ELSE t.externalChange
           revision == IF t.acknowledgedRevision >= m.revision
                       THEN Larger(view.revision, m.revision) ELSE view.revision
           v == [view EXCEPT !.notice = notice, !.revision = revision]
           known == IF news /\ sync.localMutation = m.snapshot
                    THEN ledger.known \cup {m.snapshot} ELSE ledger.known
<1>1. /\ toView # <<>> /\ toView' = Tail(toView) /\ UNCHANGED <<host, doc>>
      /\ m \in Inbox /\ m.type = "externalChange" /\ Faithful(m) /\ m.revision \in Nat
  BY HeardHeeded DEF HearExternalChange
<1>2. m.snapshot \in Mutations /\ (m.revision = doc.version => m.snapshot = doc.text)
  BY <1>1, InboxFields DEF Faithful
<1>3. Keeps(sync, sync')
  BY HeededFacts, ExternalChangeTurns DEF Turns, Turned
<1>4. ViewStep(t, v, known, <<>>) /\ ledger' = [ledger EXCEPT !.known = known]
  BY HeededFacts DEF HearExternalChange, Shown, Views
<1>5. known \in SUBSET Mutations /\ ledger'.known = known
  BY <1>2, <1>4, HeededFacts, TypedFacts DEF Ledgers
<1>6. shown \in Snapshots /\ Exact(shown)
  BY <1>1, <1>2 DEF Snapshots, Exact
<1>7. /\ ErrorWaits(t)
      /\ t.externalChange \in Snapshots \cup {Null} /\ Exact(t.externalChange)
      /\ t.acknowledgedRevision = doc.version => Seen(known)
  <2>1. Aware /\ sync.externalChange \in Snapshots \cup {Null}
    BY HeededFacts DEF Heeded, SyncStates
  <2>2. CASE news /\ sync.localMutation # m.snapshot
    <3>1. /\ t.acknowledgedRevision = sync.acknowledgedRevision
          /\ t.externalChange = shown
          /\ t.error = sync.error /\ t.inFlight = sync.inFlight
          /\ t.pending = sync.pending
      BY <1>1, <2>2, HeededFacts, ObserveEffect
    <3>2. known = ledger.known
      BY <2>2
    <3> HIDE DEF t, shown, known
    <3>3. QED
      BY <1>6, <2>1, <3>1, <3>2 DEF Aware, ErrorWaits
  <2>3. CASE news /\ sync.localMutation = m.snapshot
    <3>1. t = AdvanceAcknowledgedRevision(sync, m.revision)
      BY <2>3 DEF ObserveExternalChange
    <3>2. /\ t.acknowledgedRevision = m.revision
          /\ t.externalChange = NoticeNewerThan(sync, m.revision)
          /\ ErrorWaits(t)
      BY <1>1, <2>3, <3>1, HeededFacts, AdvanceEffect
    <3>3. m.snapshot \in known
      BY <2>3
    <3> HIDE DEF t, known
    <3>4. QED
      BY <1>2, <3>2, <3>3, NoticeExact DEF Seen
  <2>4. CASE ~news
    <3>1. t = sync /\ known = ledger.known
      BY <2>4 DEF ObserveExternalChange, AdvanceAcknowledgedRevision
    <3> HIDE DEF t, known
    <3>2. QED
      BY <2>1, <3>1 DEF Aware
  <2>5. QED
    BY <2>2, <2>3, <2>4
<1>8. revision \in Nat
  BY <1>1, HeededFacts DEF Larger, Views
<1>9. notice \in Snapshots \cup {Null} /\ Exact(notice)
  BY <1>6, <1>7
<1> HIDE DEF notice, revision, t, known, news, shown
<1>10. v \in Views /\ v.notice = notice
  BY <1>8, <1>9, HeededFacts DEF Views
<1> HIDE DEF v
<1>11. Accounts(known, <<>>) /\ sync' = t /\ view'.notice = notice
  BY <1>1, <1>4, <1>5, <1>10, HeededFacts, StepAccounts
<1>12. Aware'
  BY <1>1, <1>5, <1>7, <1>9, <1>11 DEF Aware, Exact, Seen
<1>13. QED
  BY <1>3, <1>11, <1>12, TurnHeeded

\* A newer revision has the text the host last stored.
LEMMA RevisionAdvancedHeeded ==
    ASSUME Heeded, Typed', HearRevisionAdvanced
    PROVE  Heeded'
<1> DEFINE m == Head(toView)
           t == AdvanceAcknowledgedRevision(sync, m.revision)
<1>1. /\ toView # <<>> /\ toView' = Tail(toView) /\ UNCHANGED <<host, doc>>
      /\ m \in Inbox /\ m.type = "documentRevisionAdvanced" /\ Faithful(m)
      /\ m.revision \in Nat /\ ledger' = ledger
  BY HeardHeeded DEF HearRevisionAdvanced
<1>2. Keeps(sync, sync')
  BY HeededFacts, RevisionAdvancedTurns DEF Turns, Turned
<1>3. CASE m.revision > sync.acknowledgedRevision
  <2> DEFINE v == [view EXCEPT !.revision = m.revision, !.notice = t.externalChange]
  <2>1. ViewStep(t, v, ledger.known, <<>>)
    BY <1>3 DEF HearRevisionAdvanced, Shown
  <2>2. /\ t.acknowledgedRevision = m.revision /\ ErrorWaits(t)
        /\ t.externalChange = NoticeNewerThan(sync, m.revision)
    BY <1>1, <1>3, HeededFacts, AdvanceEffect
  <2> HIDE DEF t
  <2>3. v \in Views /\ v.notice = t.externalChange
    BY <1>1, <2>2, HeededFacts, NoticeExact DEF Views
  <2> HIDE DEF v
  <2>4. Accounts(ledger.known, <<>>) /\ sync' = t /\ view'.notice = t.externalChange
    BY <1>1, <2>1, <2>3, HeededFacts, StepAccounts
  <2>5. Exact(t.externalChange)
    BY <2>2, NoticeExact
  <2>6. m.revision = doc.version => doc.text = host.lastLocal
    BY <1>1 DEF Faithful
  <2> HIDE DEF m
  <2>7. Aware'
    BY <1>1, <2>2, <2>4, <2>5, <2>6 DEF Aware, Seen, Exact
  <2>8. QED
    BY <1>2, <2>4, <2>7, TurnHeeded
<1>4. CASE ~(m.revision > sync.acknowledgedRevision)
  <2>1. ViewStep(sync, view, ledger.known, <<>>)
    BY <1>4 DEF HearRevisionAdvanced, AdvanceAcknowledgedRevision
  <2>2. QED
    BY <1>1, <2>1, HeededFacts, IgnoredHeeded
<1>5. QED
  BY <1>3, <1>4

\* A broken source takes the notice away.
LEMMA InvalidHeeded ==
    ASSUME Heeded, Typed', HearInvalid
    PROVE  Heeded'
<1> DEFINE m == Head(toView)
           v == [view EXCEPT !.revision = m.revision, !.notice = Null,
                             !.access = "invalid-external"]
<1>1. /\ toView # <<>> /\ toView' = Tail(toView) /\ UNCHANGED <<host, doc>>
      /\ m.revision \in Nat
  BY HeardHeeded DEF HearInvalid
<1>2. ViewStep(sync, v, ledger.known, <<>>) /\ ledger' = ledger
  BY DEF HearInvalid
<1> HIDE DEF m
<1>3. v \in Views /\ v.notice = Null
  BY <1>1, HeededFacts DEF Views
<1> HIDE DEF v
<1>4. QED
  BY <1>1, <1>2, <1>3, IgnoredHeeded

\* A recovered document is what the host stored.
LEMMA RecoveryHeeded ==
    ASSUME Heeded, Typed', HearRecovery
    PROVE  Heeded'
<1> DEFINE m == Head(toView)
           draft == Draft(view.content)
           t == AdoptReplacement(sync, m.revision, draft, TRUE)
<1>1. /\ toView # <<>> /\ toView' = Tail(toView) /\ UNCHANGED <<host, doc>>
      /\ m.type = "invalidDocumentRecoveryResult" /\ Faithful(m) /\ m.revision \in Nat
  BY HeardHeeded DEF HearRecovery
<1>2. draft \in Mutations
  BY HeededFacts, DraftTyped DEF Views
<1>3. CASE view.recovering /\ m.recovered
  <2> DEFINE v == [view EXCEPT !.recovering = FALSE, !.revision = m.revision,
                               !.access = "editable"]
  <2>1. ViewStep(t, v, {draft}, <<>>) /\ ledger'.known = {draft}
    BY <1>3, HeededFacts, TypedFacts DEF HearRecovery, Ledgers
  <2>2. m.revision = doc.version => doc.text = host.lastLocal
    BY <1>1, <1>3 DEF Faithful
  <2> HIDE DEF m, draft
  <2>3. Keeps(sync, t)
    BY <1>1, <1>2, HeededFacts, AdoptKeeps
  <2>4. t.acknowledgedRevision = m.revision /\ t.externalChange = Null /\ t.error = Null
    BY <1>1, <1>2, HeededFacts, AdoptEffect
  <2> HIDE DEF t
  <2>5. v \in Views /\ v.notice = view.notice
    BY <1>1, HeededFacts DEF Views
  <2> HIDE DEF v
  <2>6. Accounts({draft}, <<>>) /\ sync' = t /\ view'.notice = view.notice
    BY <1>1, <1>2, <2>1, <2>5, HeededFacts, StepAccounts
  <2>7. Aware'
    BY <1>1, <2>1, <2>2, <2>4, <2>6 DEF Heeded, Aware, Seen, Exact, ErrorWaits
  <2>8. QED
    BY <2>3, <2>6, <2>7, TurnHeeded
<1>4. CASE ~(view.recovering /\ m.recovered)
  <2> DEFINE v == [view EXCEPT !.recovering = FALSE]
  <2>1. ViewStep(sync, v, ledger.known, <<>>) /\ ledger' = ledger
    BY <1>4 DEF HearRecovery
  <2>2. v \in Views /\ v.notice = view.notice
    BY HeededFacts DEF Views
  <2> HIDE DEF v
  <2>3. QED
    BY <1>1, <2>1, <2>2, IgnoredHeeded
<1>5. QED
  BY <1>3, <1>4

\* A flush submits what is typed and tries a failed save again.
LEMMA FlushHeeded ==
    ASSUME Heeded, Typed', HearFlush
    PROVE  Heeded'
<1> DEFINE flush == Head(toView).flush
           captured == Captured(view)
           v == CapturedView(view)
           asked == RetryBeforeSave(captured)
           t == FlushThrough(asked, flush, asked.localGeneration)
           posted == AnswersAtOnce(asked, flush)
<1>1. /\ ViewStep(t, v, ledger.known, posted)
      /\ ledger' = [ledger EXCEPT !.asked[flush] = asked.localGeneration]
  BY DEF HearFlush, AfterAcknowledged
<1>2. /\ toView # <<>> /\ toView' = Tail(toView) /\ UNCHANGED <<host, doc>>
      /\ flush \in 1 .. MaxFlushes /\ flush \in Nat
  BY HeardHeeded, InboxFields, SessionAssumption DEF HearFlush
<1>3. Keeps(sync, sync')
  BY HeededFacts, FlushTurns DEF Turns, Turned
<1>4. posted \in Seq(Outbox) /\ \A m \in In(posted) : m.type # "edit"
  <2> DEFINE yes == FlushAnswer(flush, TRUE)
             no == FlushAnswer(flush, FALSE)
  <2>1. posted = <<yes>> \/ posted = <<no>> \/ posted = <<>>
    BY DEF AnswersAtOnce
  <2>2. yes \in Outbox /\ no \in Outbox /\ yes.type # "edit" /\ no.type # "edit"
    BY <1>2 DEF FlushAnswer, Outbox
  <2> HIDE DEF yes, no, posted
  <2>3. QED
    BY <2>1, <2>2, InFew
<1>5. Proceeds(sync, captured) /\ Sound(captured)
  BY HeededFacts, CaptureProceeds
<1>6. v \in Views /\ v.notice = view.notice
  BY HeededFacts, CapturedViewTyped
<1> HIDE DEF captured, v, posted, flush
<1>7. Proceeds(sync, asked) /\ Sound(asked)
  <2>1. CASE CanRetry(captured)
    <3>1. asked = Retry(captured, Null)
      BY <2>1 DEF RetryBeforeSave
    <3>2. ErrorWaits(captured)
      BY <1>5 DEF Proceeds
    <3>3. Proceeds(captured, asked) /\ Sound(asked)
      BY <1>5, <2>1, <3>1, <3>2, RetryProceeds, RetrySound
    <3> HIDE DEF asked
    <3>4. Proceeds(sync, asked)
      BY <1>5, <3>3, HeededFacts, ProceedsOn DEF Sound, Consistent
    <3>5. QED
      BY <3>3, <3>4
  <2>2. CASE ~CanRetry(captured)
    BY <1>5, <2>2 DEF RetryBeforeSave
  <2>3. QED
    BY <2>1, <2>2
<1> HIDE DEF asked
<1>8. Proceeds(sync, t)
  <2>1. ErrorWaits(asked)
    BY <1>7 DEF Proceeds
  <2>2. Sound(t)
    BY <1>2, <1>7, FlushSound
  <2>3. Proceeds(asked, t)
    BY <1>7, <2>1, FlushProceeds
  <2> HIDE DEF t
  <2>4. QED
    BY <1>7, <2>2, <2>3, HeededFacts, ProceedsOn DEF Sound, Consistent
<1> HIDE DEF t
<1>9. ledger'.known = ledger.known
  BY <1>1, HeededFacts, TypedFacts DEF Ledgers
<1>10. Accounts(ledger.known, posted) /\ sync' = t /\ view'.notice = v.notice
  BY <1>1, <1>2, <1>4, <1>6, <1>9, HeededFacts, StepAccounts
<1>11. QED
  BY <1>3, <1>6, <1>8, <1>10, ProceedingHeeded

----------------------------------------------------------------------------
(* What an edit may replace: a step of the host *)

\* A message posted by the host.
LEMMA PostedFaithful ==
    ASSUME Heeded, NEW m \in Inbox, Post(m), Faithful(m)',
           \A x \in In(toView) : Faithful(x)'
    PROVE  \A x \in In(toView') : Faithful(x)'
BY HeededFacts, PostTyped

\* The host goes on with the same document, which it now may hold for its own.
LEMMA MovedHeeded ==
    ASSUME Heeded, Typed', UNCHANGED <<sync, view, doc, ledger>>,
           host'.lastLocal \in {host.lastLocal, doc.text},
           \A m \in Messages' : m.type = "edit" => m \in Messages,
           Planned', Barred',
           toView' = toView \/ \E m \in Inbox : Post(m) /\ Faithful(m)'
    PROVE  Heeded'
<1>1. Aware /\ Based /\ \A m \in In(toView) : Faithful(m)
  BY DEF Heeded
<1>2. \A texts : Seen(texts) => Seen(texts)'
  BY DEF Seen
<1>3. Aware' /\ Based'
  BY <1>1, <1>2 DEF Aware, Based, Exact
<1>4. \A m \in In(toView) : Faithful(m)'
  BY <1>1 DEF Faithful
<1>5. \A m \in In(toView') : Faithful(m)'
  BY <1>4, PostedFaithful
<1>6. QED
  BY <1>3, <1>5 DEF Heeded

\* Nothing is said or written of a new version yet.
LEMMA WrittenHeeded ==
    ASSUME Heeded, Typed', UNCHANGED <<sync, view>>, doc'.version = doc.version + 1,
           Messages' = Messages, Planned', Barred',
           toView' = toView \/ \E m \in Inbox : Post(m) /\ Faithful(m)'
    PROVE  Heeded'
<1>1. /\ Aware /\ Based /\ doc.version \in Nat
      /\ sync.acknowledgedRevision \in Nat /\ sync.acknowledgedRevision <= doc.version
      /\ sync.externalChange # Null =>
            sync.externalChange.revision \in Nat /\ sync.externalChange.revision <= doc.version
      /\ view.notice # Null =>
            view.notice.revision \in Nat /\ view.notice.revision <= doc.version
  BY HeededFacts, TypedFacts DEF Heeded, Within, SyncStates, Snapshots
<1>2. Aware'
  BY <1>1 DEF Aware, Exact
<1>3. Based'
  <2>1. SUFFICES ASSUME NEW m \in Messages, m.type = "edit"
                 PROVE  /\ m.request.baseRevision <= doc'.version
                        /\ m.request.baseRevision # doc'.version
    BY DEF Based
  <2>2. m.request.baseRevision \in Nat
    BY <2>1, HeededFacts, CarriedTyped, OutboxFields DEF Requests
  <2>3. m.request.baseRevision <= doc.version
    BY <1>1, <2>1 DEF Based
  <2>4. QED
    BY <1>1, <2>2, <2>3
<1>4. \A m \in In(toView) : Faithful(m)'
  <2>1. SUFFICES ASSUME NEW m \in In(toView), m.type # "requestFlush"
                 PROVE  m.revision # doc'.version
    BY DEF Faithful
  <2>2. m \in Inbox /\ m.revision <= doc.version
    BY <2>1, HeededFacts, HostFacts, InTyped DEF Typed, Recent
  <2>3. m.revision \in Nat
    BY <2>1, <2>2 DEF Inbox
  <2>4. QED
    BY <1>1, <2>2, <2>3
<1>5. \A m \in In(toView') : Faithful(m)'
  BY <1>4, PostedFaithful
<1>6. QED
  BY <1>2, <1>3, <1>5 DEF Heeded

\* A rejection carries the text the document has; a refused recovery says nothing.
LEMMA AnswersFaithful ==
    ASSUME Heeded, doc' = doc
    PROVE  /\ \A request \in Requests, code \in ErrorCodes :
                 \E m \in Inbox : m = Rejected(request, code) /\ Faithful(m)'
           /\ \E m \in Inbox : m = Recovery(FALSE, Null) /\ Faithful(m)'
<1>1. ASSUME NEW request \in Requests, NEW code \in ErrorCodes
      PROVE  \E m \in Inbox : m = Rejected(request, code) /\ Faithful(m)'
  <2>1. PICK m : m = Rejected(request, code)
    OBVIOUS
  <2>2. m \in Inbox /\ m.type = "editRejected"
    BY <2>1, HeededFacts, AnswersOfHostTyped
  <2>3. m.hostSnapshot = ReadMutation(doc.text)
    BY <2>1 DEF Rejected
  <2>4. m.hostSnapshot # Null => m.hostSnapshot = doc.text
    BY <2>3 DEF ReadMutation
  <2>5. Faithful(m)'
    BY <2>2, <2>4 DEF Faithful
  <2>6. QED
    BY <2>1, <2>2, <2>5
<1>2. \E m \in Inbox : m = Recovery(FALSE, Null) /\ Faithful(m)'
  <2>1. PICK m : m = Recovery(FALSE, Null)
    OBVIOUS
  <2>2. m \in Inbox
    BY <2>1, HeededFacts, AnswersOfHostTyped
  <2>3. m.type = "invalidDocumentRecoveryResult" /\ m.recovered = FALSE
    BY <2>1 DEF Recovery
  <2>4. Faithful(m)'
    BY <2>3 DEF Faithful
  <2>5. QED
    BY <2>1, <2>2, <2>4
<1>3. QED
  BY <1>1, <1>2

\* postExternalChange says what the document is.
LEMMA ChangeFaithful ==
    ASSUME Typed, NEW h \in Hosts, NEW d \in Docs, doc' = d, PostExternalChange(h, d)
    PROVE  /\ host'.queue = h.queue /\ host'.applying = h.applying
           /\ host'.lastLocal = h.lastLocal
           /\ host'.blocked => d.text = Invalid
           /\ \E m \in Inbox : Post(m) /\ Faithful(m)'
<1>1. d.version \in Nat /\ d.text \in Texts
  BY DEF Docs
<1>2. CASE d.text = Invalid
  <2> DEFINE m == [type |-> "externalInvalidDocument", revision |-> d.version]
  <2>1. host' = [h EXCEPT !.blocked = TRUE, !.cache = Null] /\ Post(m)
    BY <1>2 DEF PostExternalChange
  <2>2. m \in Inbox
    BY <1>1 DEF Inbox
  <2>3. Faithful(m)'
    BY DEF Faithful
  <2> HIDE DEF m
  <2>4. QED
    BY <1>2, <2>1, <2>2, <2>3 DEF Hosts
<1>3. CASE d.text # Invalid
  <2> DEFINE same == [type |-> "documentRevisionAdvanced", revision |-> d.version]
             news == [type |-> "externalChange", revision |-> d.version,
                      snapshot |-> d.text]
             m == IF h.lastLocal = d.text THEN same ELSE news
  <2>1. host' = [h EXCEPT !.blocked = FALSE, !.cache = Null] /\ Post(m)
    BY <1>3 DEF PostExternalChange
  <2>2. /\ host'.queue = h.queue /\ host'.applying = h.applying
        /\ host'.lastLocal = h.lastLocal /\ ~host'.blocked
    BY <2>1 DEF Hosts
  <2>3. d.text \in Mutations
    BY <1>1, <1>3 DEF Texts
  <2>4. same \in Inbox /\ news \in Inbox
    BY <1>1, <2>3 DEF Inbox
  <2>5. h.lastLocal = d.text => Faithful(same)'
    BY <2>2 DEF Faithful
  <2>6. Faithful(news)'
    BY DEF Faithful
  <2> HIDE DEF same, news
  <2>7. m \in Inbox /\ Faithful(m)'
    BY <2>4, <2>5, <2>6
  <2> HIDE DEF m
  <2>8. QED
    BY <2>1, <2>2, <2>7
<1>4. QED
  BY <1>2, <1>3

\* What the running task carries.
LEMMA TaskFacts ==
    ASSUME Typed, host.applying # Null
    PROVE  LET task == host.applying
           IN  /\ task \in Tasks /\ task.source \in Nat /\ task.text \in Mutations
               /\ task.message \in Messages /\ Tasked = {task.message}
               /\ task.message.type \in {"edit", "recoverInvalidDocument"}
               /\ task.message.type = "edit" =>
                     task.message.request \in Requests /\ task.message.over \in SUBSET Mutations
               /\ task.message.type # "edit" => task.message.mutation \in Mutations
BY HostFacts DEF Tasks, Tasked, Messages

\* While no task runs, the host refuses to write only for an invalid source.
LEMMA IdleBarred ==
    ASSUME Heeded, ~Unreported, host.blocked
    PROVE  doc.text = Invalid
BY DEF Heeded, Barred

\* A message reaches the host.
LEMMA ArriveHeeded ==
    ASSUME Heeded, Typed', Arrive
    PROVE  Heeded'
<1> DEFINE message == Head(toHost)
<1>1. /\ toHost # <<>> /\ toHost' = Tail(toHost)
      /\ UNCHANGED <<sync, view, doc, ledger>> /\ Typed /\ Planned /\ Barred
  BY DEF Arrive, Heeded
<1>2. toHost \in Seq(Outbox) /\ host.queue \in Seq(Outbox) /\ host \in Hosts
  BY <1>1, HostFacts
<1>3. /\ message \in Outbox /\ message \in In(toHost)
      /\ In(toHost') \subseteq In(toHost) /\ toHost' \in Seq(Outbox)
  BY <1>1, <1>2, InTail
<1>4. CASE host' = host /\ (toView' = toView \/ \E m \in Inbox : Post(m) /\ Faithful(m)')
  <2>1. Messages' \subseteq Messages /\ Planned' /\ Barred'
    BY <1>1, <1>3, <1>4 DEF Messages, Tasked, Planned, Barred, Unreported
  <2>2. QED
    BY <1>1, <1>4, <2>1, MovedHeeded
<1>5. CASE host' = [host EXCEPT !.queue = Append(@, message)] /\ toView' = toView
  <2>1. /\ host'.queue = Append(host.queue, message)
        /\ host'.applying = host.applying /\ host'.blocked = host.blocked
        /\ host'.lastLocal = host.lastLocal
    BY <1>2, <1>5 DEF Hosts
  <2>2. In(host'.queue) = In(host.queue) \cup {message}
    BY <1>2, <1>3, <2>1, InAppend
  <2>3. Messages' \subseteq Messages /\ Planned' /\ Barred'
    BY <1>1, <1>3, <2>1, <2>2 DEF Messages, Tasked, Planned, Barred, Unreported
  <2>4. QED
    BY <1>1, <1>5, <2>1, <2>3, MovedHeeded
<1>6. ASSUME message.type = "edit", Post(Rejected(message.request, "INVALID_DOCUMENT"))
      PROVE  \E m \in Inbox : Post(m) /\ Faithful(m)'
  <2>1. message.request \in Requests
    BY <1>3, <1>6, OutboxFields
  <2>2. PICK m \in Inbox :
           m = Rejected(message.request, "INVALID_DOCUMENT") /\ Faithful(m)'
    BY <1>1, <2>1, AnswersFaithful DEF ErrorCodes
  <2>3. QED
    BY <1>6, <2>2
<1>7. QED
  BY <1>4, <1>5, <1>6 DEF Arrive

\* The oldest task of the queue is taken, and the host stays as it is but for these.
LEMMA TakenHeeded ==
    ASSUME Heeded, Typed', UNCHANGED <<sync, view, toHost, doc, ledger>>,
           host.applying = Null, host.queue # <<>>,
           host'.queue = Tail(host.queue),
           \/ host'.applying = Null
           \/ host'.applying.message = Head(host.queue) /\ Planned',
           host'.lastLocal \in {host.lastLocal, doc.text},
           host'.blocked => host.blocked \/ doc.text = Invalid,
           toView' = toView \/ \E m \in Inbox : Post(m) /\ Faithful(m)'
    PROVE  Heeded'
<1>1. /\ In(Tail(host.queue)) \subseteq In(host.queue)
      /\ Head(host.queue) \in In(host.queue)
  BY HeededFacts, DequeuedTyped
<1>2. Messages' \subseteq Messages
  BY <1>1 DEF Messages, Tasked
<1>3. Planned'
  BY DEF Planned
<1>4. Barred'
  BY IdleBarred DEF Barred, Unreported
<1>5. QED
  BY <1>2, <1>3, <1>4, MovedHeeded

LEMMA HandleEditHeeded ==
    ASSUME Heeded, Typed', HandleEdit
    PROVE  Heeded'
<1> DEFINE x == Head(host.queue)
<1>1. /\ host.queue # <<>> /\ host.applying = Null /\ x.type = "edit"
      /\ UNCHANGED <<sync, view, toHost, doc, ledger>>
  BY DEF HandleEdit, Handles, ViewUnchanged
<1>2. /\ Typed /\ doc.version \in Nat
      /\ x \in Outbox /\ x.request \in Requests /\ x \in EditMessages
      /\ Dequeued \in Hosts /\ Dequeued.queue = Tail(host.queue)
      /\ Dequeued.applying = Null
      /\ Dequeued.blocked = host.blocked /\ Dequeued.lastLocal = host.lastLocal
  BY <1>1, HeededFacts, HostFacts, DequeuedTyped, OutboxFields DEF Dequeued, Hosts
<1> HIDE DEF x
<1>3. CASE ~IsCurrent(x.request)
  <2>1. /\ host' = [Dequeued EXCEPT !.cache = Null]
        /\ Post(Rejected(x.request, "STALE_REVISION"))
    BY <1>3 DEF HandleEdit, x
  <2>2. PICK m \in Inbox : m = Rejected(x.request, "STALE_REVISION") /\ Faithful(m)'
    BY <1>1, <1>2, AnswersFaithful DEF ErrorCodes
  <2>3. /\ host'.queue = Tail(host.queue) /\ host'.applying = Null
        /\ host'.blocked = host.blocked /\ host'.lastLocal = host.lastLocal
    BY <1>2, <2>1 DEF Hosts
  <2>4. QED
    BY <1>1, <1>2, <2>1, <2>2, <2>3, TakenHeeded
<1>4. CASE IsCurrent(x.request)
  <2> DEFINE text == Persisted(host.cache, doc.version, x.request)
             task == [message |-> x, source |-> doc.version, text |-> text,
                      outcome |-> "unknown"]
  <2>1. host' = [Dequeued EXCEPT !.applying = task] /\ toView' = toView
    BY <1>1, <1>4 DEF HandleEdit, Applying, x
  <2>2. x.request.baseRevision = doc.version
    BY <1>4 DEF IsCurrent
  <2>3. /\ task.message = x /\ task.source = doc.version /\ task.outcome = "unknown"
    OBVIOUS
  <2> HIDE DEF task, text
  <2>4. /\ host'.queue = Tail(host.queue) /\ host'.applying = task
        /\ host'.blocked = host.blocked /\ host'.lastLocal = host.lastLocal
    BY <1>2, <2>1 DEF Hosts
  <2>5. Planned'
    BY <1>1, <1>2, <2>2, <2>3, <2>4 DEF Planned, Unreported
  <2>6. QED
    BY <1>1, <2>1, <2>3, <2>4, <2>5, TakenHeeded DEF x
<1>5. QED
  BY <1>3, <1>4

LEMMA HandleAdoptedHeeded ==
    ASSUME Heeded, Typed', HandleAdopted
    PROVE  Heeded'
<1>1. /\ host.queue # <<>> /\ host.applying = Null
      /\ UNCHANGED <<sync, view, toHost, toView, doc, ledger>>
      /\ host' = Dequeued \/ host' = [Dequeued EXCEPT !.lastLocal = doc.text, !.cache = Null]
  BY DEF HandleAdopted, Handles, ViewUnchanged
<1>2. /\ Dequeued \in Hosts /\ Dequeued.queue = Tail(host.queue)
      /\ Dequeued.applying = Null
      /\ Dequeued.blocked = host.blocked /\ Dequeued.lastLocal = host.lastLocal
  BY <1>1, HeededFacts, HostFacts, DequeuedTyped DEF Dequeued, Hosts
<1>3. /\ host'.queue = Tail(host.queue) /\ host'.applying = Null
      /\ host'.blocked = host.blocked /\ host'.lastLocal \in {host.lastLocal, doc.text}
  BY <1>1, <1>2 DEF Hosts
<1>4. QED
  BY <1>1, <1>3, TakenHeeded

LEMMA HandleRecoverHeeded ==
    ASSUME Heeded, Typed', HandleRecover
    PROVE  Heeded'
<1> DEFINE x == Head(host.queue)
<1>1. /\ host.queue # <<>> /\ host.applying = Null /\ x.type = "recoverInvalidDocument"
      /\ UNCHANGED <<sync, view, toHost, doc, ledger>>
  BY DEF HandleRecover, Handles, ViewUnchanged
<1>2. /\ Typed /\ doc.version \in Nat
      /\ Dequeued \in Hosts /\ Dequeued.queue = Tail(host.queue)
      /\ Dequeued.applying = Null
      /\ Dequeued.blocked = host.blocked /\ Dequeued.lastLocal = host.lastLocal
  BY <1>1, HeededFacts, HostFacts, DequeuedTyped DEF Dequeued, Hosts
<1> HIDE DEF x
<1>3. CASE ~CanRecover(x)
  <2>1. host' = Dequeued /\ Post(Recovery(FALSE, Null))
    BY <1>3 DEF HandleRecover, x
  <2>2. PICK m \in Inbox : m = Recovery(FALSE, Null) /\ Faithful(m)'
    BY <1>1, AnswersFaithful
  <2>3. QED
    BY <1>1, <1>2, <2>1, <2>2, TakenHeeded
<1>4. CASE CanRecover(x)
  <2> DEFINE task == [message |-> x, source |-> doc.version, text |-> x.mutation,
                      outcome |-> "unknown"]
  <2>1. host' = [[Dequeued EXCEPT !.applying = task] EXCEPT !.cache = Null] /\ toView' = toView
    BY <1>1, <1>4 DEF HandleRecover, Applying, x
  <2>2. /\ task.message = x /\ task.source = doc.version /\ task.outcome = "unknown"
        /\ task.text = x.mutation
    OBVIOUS
  <2> HIDE DEF task
  <2>3. /\ host'.queue = Tail(host.queue) /\ host'.applying = task
        /\ host'.blocked = host.blocked /\ host'.lastLocal = host.lastLocal
    BY <1>2, <2>1 DEF Hosts
  <2>4. doc.text = Invalid
    BY <1>1, <1>4, IdleBarred DEF CanRecover, Unreported
  <2>5. Planned'
    BY <1>1, <1>2, <2>2, <2>3, <2>4 DEF Planned, Unreported
  <2>6. QED
    BY <1>1, <2>1, <2>2, <2>3, <2>5, TakenHeeded DEF x
<1>5. QED
  BY <1>3, <1>4

LEMMA HandleReadyHeeded ==
    ASSUME Heeded, Typed', HandleReady
    PROVE  Heeded'
<1>1. /\ host.queue # <<>> /\ host.applying = Null
      /\ UNCHANGED <<sync, view, toHost, doc, ledger>>
  BY DEF HandleReady, Handles, ViewUnchanged
<1>2. /\ Typed /\ doc \in Docs
      /\ Dequeued \in Hosts /\ Dequeued.queue = Tail(host.queue)
      /\ Dequeued.applying = Null
      /\ Dequeued.blocked = host.blocked /\ Dequeued.lastLocal = host.lastLocal
  BY <1>1, HeededFacts, HostFacts, DequeuedTyped DEF Dequeued, Hosts
<1>3. CASE host.blocked
  <2>1. PostExternalChange(Dequeued, doc)
    BY <1>3 DEF HandleReady
  <2>2. /\ host'.queue = Dequeued.queue /\ host'.applying = Dequeued.applying
        /\ host'.lastLocal = Dequeued.lastLocal
        /\ host'.blocked => doc.text = Invalid
        /\ \E m \in Inbox : Post(m) /\ Faithful(m)'
    BY <1>1, <1>2, <2>1, ChangeFaithful
  <2>3. QED
    BY <1>1, <1>2, <2>2, TakenHeeded
<1>4. CASE ~host.blocked
  <2> DEFINE cache == LoadedCache(doc.version, doc.text)
  <2>1. /\ toView' = toView
        /\ \/ doc.text = Invalid
              /\ host' = [Dequeued EXCEPT !.blocked = TRUE, !.cache = Null]
           \/ host' = [Dequeued EXCEPT !.lastLocal = doc.text, !.cache = cache]
    BY <1>4 DEF HandleReady
  <2> HIDE DEF cache
  <2>2. /\ host'.queue = Tail(host.queue) /\ host'.applying = Null
        /\ host'.blocked => host.blocked \/ doc.text = Invalid
        /\ host'.lastLocal \in {host.lastLocal, doc.text}
    BY <1>2, <2>1 DEF Hosts
  <2>3. QED
    BY <1>1, <2>1, <2>2, TakenHeeded
<1>5. QED
  BY <1>3, <1>4

\* VS Code applies the text to the version it was planned for, or refuses it.
LEMMA ApplyEditHeeded ==
    ASSUME Heeded, Typed', ApplyEdit
    PROVE  Heeded'
<1> DEFINE task == host.applying
           applied == [task EXCEPT !.outcome = "applied"]
           refused == [task EXCEPT !.outcome = "refused"]
<1>1. /\ task # Null /\ task.outcome = "unknown"
      /\ UNCHANGED <<sync, view, toHost, toView>>
  BY DEF ApplyEdit, ViewUnchanged
<1>2. /\ Typed /\ Aware /\ Based /\ Planned /\ Barred
      /\ host \in Hosts /\ doc.version \in Nat /\ host.lastLocal \in Mutations
  BY HeededFacts, HostFacts DEF Heeded
<1>3. /\ task \in Tasks /\ task.source \in Nat /\ task.message \in Messages
      /\ task.message.type = "edit" => task.message.over \in SUBSET Mutations
      /\ Tasked = {task.message}
  BY <1>1, <1>2, TaskFacts
<1>4. \/ /\ doc.version = task.source
         /\ doc' = [version |-> doc.version + 1, text |-> task.text]
         /\ host' = [host EXCEPT !.applying = applied]
      \/ /\ doc' = doc /\ ledger' = ledger
         /\ \E n : host' = [host EXCEPT !.applying = refused, !.refusals = n]
  <2>1. /\ [host EXCEPT !.applying.outcome = "applied"] = [host EXCEPT !.applying = applied]
        /\ [host EXCEPT !.applying.outcome = "refused"]
              = [host EXCEPT !.applying = refused, !.refusals = host.refusals]
        /\ [host EXCEPT !.applying.outcome = "refused", !.refusals = @ + 1]
              = [host EXCEPT !.applying = refused, !.refusals = host.refusals + 1]
    BY <1>2 DEF Hosts
  <2>2. QED
    BY <2>1 DEF ApplyEdit
<1>5. /\ applied.outcome = "applied" /\ refused.outcome = "refused"
      /\ \A t \in {applied, refused} :
            /\ t \in Tasks
            /\ t.message = task.message /\ t.source = task.source /\ t.text = task.text
  BY <1>3 DEF Tasks
<1>6. applied # Null /\ refused # Null
  BY <1>5, SessionAssumption
<1> HIDE DEF applied, refused
<1>7. /\ host'.queue = host.queue /\ host'.lastLocal = host.lastLocal
      /\ host'.blocked = host.blocked
      /\ \/ /\ host'.applying = applied
            /\ doc.version = task.source
            /\ doc' = [version |-> doc.version + 1, text |-> task.text]
         \/ host'.applying = refused /\ doc' = doc /\ ledger' = ledger
  BY <1>2, <1>4 DEF Hosts
<1>8. /\ host'.applying # Null
      /\ host'.applying.message = task.message
      /\ host'.applying.source = task.source
      /\ host'.applying.text = task.text
  BY <1>5, <1>6, <1>7
<1>9. Messages' = Messages
  BY <1>1, <1>3, <1>7, <1>8 DEF Tasked, Messages
<1>10. ~Unreported
  BY <1>1 DEF Unreported
<1>11. /\ task.source <= doc.version
       /\ task.message.type = "edit" => task.source = task.message.request.baseRevision
       /\ task.message.type # "edit" =>
             /\ task.text = task.message.mutation
             /\ doc.version = task.source => doc.text = Invalid
  BY <1>1, <1>2 DEF Planned
<1>12. CASE host'.applying = refused /\ doc' = doc /\ ledger' = ledger
  <2>1. host'.applying.outcome = "refused" /\ ~Unreported'
    BY <1>5, <1>12 DEF Unreported
  <2>2. Planned'
    BY <1>8, <1>11, <1>12, <2>1 DEF Planned
  <2>3. Barred'
    BY <1>7, <1>10, <1>12, IdleBarred DEF Barred
  <2>4. QED
    BY <1>1, <1>7, <1>9, <1>12, <2>2, <2>3, MovedHeeded
<1>13. CASE /\ host'.applying = applied /\ doc.version = task.source
            /\ doc' = [version |-> doc.version + 1, text |-> task.text]
  <2>1. doc'.version = doc.version + 1 /\ doc'.text = task.text
    BY <1>13
  <2>2. host'.applying.outcome = "applied" /\ Unreported'
    BY <1>5, <1>8, <1>13, <2>1 DEF Unreported
  <2>3. Planned'
    BY <1>2, <1>8, <1>11, <1>13, <2>1, <2>2 DEF Planned
  <2>4. Barred'
    <3>1. SUFFICES ASSUME host.blocked
                   PROVE  task.message.type # "edit"
      BY <1>7, <1>8, <2>2 DEF Barred
    <3>2. doc.text = Invalid
      BY <1>10, <3>1, IdleBarred
    <3>3. task.message.type = "edit" => doc.text \in Mutations
      BY <1>2, <1>3, <1>11, <1>13 DEF Based, Seen
    <3>4. QED
      BY <3>2, <3>3, SessionAssumption
  <2>5. QED
    BY <1>1, <1>9, <2>1, <2>3, <2>4, WrittenHeeded
<1>14. QED
  BY <1>7, <1>12, <1>13

\* The task answers the webview.
LEMMA ResumeHeeded ==
    ASSUME Heeded, Typed', Resume
    PROVE  Heeded'
<1> DEFINE task == host.applying
           x == task.message
           done == [host EXCEPT !.applying = Null, !.cache = Null]
<1>1. /\ task # Null /\ task.outcome # "unknown"
      /\ UNCHANGED <<sync, view, toHost, doc, ledger>>
  BY DEF Resume, ViewUnchanged
<1>2. /\ Typed /\ Planned /\ Barred /\ host \in Hosts /\ doc.version \in Nat
  BY HeededFacts, HostFacts DEF Heeded
<1>3. /\ x.type = "edit" => x.request \in Requests
      /\ x.type # "edit" => x.mutation \in Mutations
  BY <1>1, <1>2, TaskFacts
<1>4. Confirmed(task) <=> Unreported
  BY <1>1 DEF Confirmed, Unreported
<1>5. /\ done.queue = host.queue /\ done.applying = Null
      /\ done.blocked = host.blocked /\ done.lastLocal = host.lastLocal
      /\ done \in Hosts
  BY <1>2 DEF Hosts
<1> HIDE DEF done
<1>6. ASSUME host'.queue = host.queue, host'.applying = Null
      PROVE  Messages' \subseteq Messages /\ Planned' /\ ~Unreported'
  BY <1>1, <1>6 DEF Messages, Tasked, Planned, Unreported
<1>7. CASE Confirmed(task) /\ x.type = "edit"
  <2> DEFINE cache == CacheOf(doc.version, x.request, task.text)
  <2>1. PICK m : /\ m = [type |-> "editAcknowledged", identity |-> Self,
                         editId |-> x.request.editId, revision |-> doc.version]
                 /\ host' = [done EXCEPT !.lastLocal = task.text, !.cache = cache]
                 /\ Post(m)
    BY <1>1, <1>7 DEF Resume, done
  <2> HIDE DEF cache
  <2>2. m \in Inbox /\ m.type = "editAcknowledged"
    BY <1>2, <1>3, <1>7, <2>1 DEF Inbox, Requests
  <2>3. doc.text = task.text /\ (host.blocked => doc.text = Invalid)
    BY <1>1, <1>2, <1>4, <1>7 DEF Planned, Barred
  <2>4. /\ host'.queue = host.queue /\ host'.applying = Null
        /\ host'.blocked = host.blocked /\ host'.lastLocal = task.text
    BY <1>5, <2>1 DEF Hosts
  <2>5. Faithful(m)'
    BY <1>1, <2>2, <2>3, <2>4 DEF Faithful
  <2>6. Barred'
    BY <1>1, <2>3, <2>4 DEF Barred
  <2> HIDE DEF task, x
  <2>7. QED
    BY <1>1, <1>6, <2>1, <2>2, <2>3, <2>4, <2>5, <2>6, MovedHeeded
<1>8. CASE Confirmed(task) /\ x.type # "edit"
  <2>1. PICK m : /\ m = Recovery(TRUE, x.mutation)
                 /\ host' = [done EXCEPT !.lastLocal = x.mutation, !.blocked = FALSE]
                 /\ Post(m)
    BY <1>1, <1>8 DEF Resume, done
  <2>2. m \in Inbox /\ m.type = "invalidDocumentRecoveryResult"
    BY <1>2, <1>3, <1>8, <2>1, AnswersOfHostTyped
  <2>3. doc.text = x.mutation
    BY <1>1, <1>2, <1>4, <1>8 DEF Planned
  <2>4. /\ host'.queue = host.queue /\ host'.applying = Null
        /\ ~host'.blocked /\ host'.lastLocal = x.mutation
    BY <1>5, <2>1 DEF Hosts
  <2>5. Faithful(m)' /\ Barred'
    BY <1>1, <2>2, <2>3, <2>4 DEF Faithful, Barred
  <2> HIDE DEF task, x
  <2>6. QED
    BY <1>1, <1>6, <2>1, <2>2, <2>3, <2>4, <2>5, MovedHeeded
<1>9. CASE ~Confirmed(task)
  <2>1. host' = done
    BY <1>1, <1>9 DEF Resume, done
  <2>2. \E m \in Inbox : Post(m) /\ Faithful(m)'
    <3>1. CASE x.type = "edit"
      <4> DEFINE code == FailureCode(task)
      <4>1. Post(Rejected(x.request, code)) /\ code \in ErrorCodes
        BY <1>1, <1>9, <3>1 DEF Resume, FailureCode, ErrorCodes
      <4> HIDE DEF code
      <4>2. PICK m \in Inbox : m = Rejected(x.request, code) /\ Faithful(m)'
        BY <1>1, <1>3, <3>1, <4>1, AnswersFaithful
      <4>3. QED
        BY <4>1, <4>2
    <3>2. CASE x.type # "edit"
      <4>1. Post(Recovery(FALSE, Null))
        BY <1>1, <1>9, <3>2 DEF Resume
      <4>2. PICK m \in Inbox : m = Recovery(FALSE, Null) /\ Faithful(m)'
        BY <1>1, AnswersFaithful
      <4>3. QED
        BY <4>1, <4>2
    <3>3. QED
      BY <3>1, <3>2
  <2>3. Barred'
    BY <1>1, <1>4, <1>5, <1>9, <2>1, IdleBarred DEF Barred
  <2>4. QED
    BY <1>1, <1>5, <1>6, <2>1, <2>2, <2>3, MovedHeeded
<1>10. QED
  BY <1>7, <1>8, <1>9

\* Another writer's text.
LEMMA ExternalWriteHeeded ==
    ASSUME Heeded, Typed', ExternalWrite
    PROVE  Heeded'
<1>1. PICK text \in ExternalTexts :
         LET d == [version |-> doc.version + 1, text |-> text]
         IN  doc' = d /\ PostExternalChange(host, d)
  BY DEF ExternalWrite
<1>2. PICK d : /\ d = [version |-> doc.version + 1, text |-> text]
               /\ doc' = d /\ PostExternalChange(host, d)
  BY <1>1
<1>3. /\ Typed /\ Planned /\ doc.version \in Nat /\ host \in Hosts
      /\ UNCHANGED <<sync, view, toHost, ledger>>
  BY HeededFacts, HostFacts DEF Heeded, ExternalWrite, ViewUnchanged
<1>4. d \in Docs /\ d.version = doc.version + 1 /\ d.text = text
  BY <1>2, <1>3, SessionAssumption DEF Docs
<1>5. /\ host'.queue = host.queue /\ host'.applying = host.applying
      /\ host'.lastLocal = host.lastLocal
      /\ host'.blocked => d.text = Invalid
      /\ \E m \in Inbox : Post(m) /\ Faithful(m)'
  BY <1>2, <1>3, <1>4, ChangeFaithful
<1>6. Messages' = Messages
  BY <1>3, <1>5 DEF Messages, Tasked
<1>7. doc'.version = doc.version + 1 /\ doc'.text = d.text
  BY <1>2, <1>4
<1>8. Barred'
  BY <1>5, <1>7 DEF Barred
<1>9. Planned'
  <2>1. host.applying # Null => host.applying.source \in Nat
    BY <1>3, TaskFacts
  <2>2. QED
    BY <1>3, <1>5, <1>7, <2>1 DEF Planned, Unreported
<1>10. QED
  BY <1>3, <1>5, <1>6, <1>7, <1>8, <1>9, WrittenHeeded

\* The flushes of the host say nothing of the document.
LEMMA FlushesHeeded ==
    ASSUME Heeded, Typed', RequestFlush \/ FlushTimesOut
    PROVE  Heeded'
<1>1. UNCHANGED <<sync, view, toHost, doc, host, ledger>> /\ Typed
  BY HeededFacts DEF RequestFlush, FlushTimesOut, ViewUnchanged
<1>2. Messages' = Messages /\ Planned' /\ Barred'
  BY <1>1 DEF Messages, Tasked, Heeded, Planned, Barred, Unreported
<1>3. CASE RequestFlush
  <2>1. PICK m : m = [type |-> "requestFlush", flush |-> Len(flushes) + 1] /\ Post(m)
    BY <1>3 DEF RequestFlush
  <2>2. Len(flushes) + 1 \in 1 .. MaxFlushes
    BY <1>1, <1>3, HostFacts, LenProperties, SessionAssumption DEF RequestFlush
  <2>3. m \in Inbox /\ Faithful(m)'
    BY <2>1, <2>2 DEF Inbox, Faithful
  <2>4. QED
    BY <1>1, <1>2, <2>1, <2>3, MovedHeeded
<1>4. CASE FlushTimesOut
  BY <1>1, <1>2, <1>4, MovedHeeded DEF FlushTimesOut
<1>5. QED
  BY <1>3, <1>4

----------------------------------------------------------------------------
(* What an edit may replace: the session *)

\* The session starts on the text it loaded.
LEMMA InitHeeded ==
    ASSUME Init
    PROVE  Heeded
<1>1. /\ sync.acknowledgedRevision = 1 /\ sync.error = Null /\ sync.externalChange = Null
  <2> DEFINE z == Created(1)
  <2>1. z \in SyncStates
    BY DEF Created, SyncStates
  <2> HIDE DEF z
  <2>2. LET s == AdoptReplacement(z, 1, Start, TRUE)
        IN  /\ s.acknowledgedRevision = 1
            /\ s.error = Null /\ s.externalChange = Null
    BY <2>1 DEF AdoptReplacement, SettleFlushWaiters, SyncStates
  <2>3. QED
    BY <2>2 DEF Init, z
<1>2. /\ view.notice = Null /\ toHost = <<>> /\ toView = <<>>
      /\ host.queue = <<>> /\ host.applying = Null /\ ~host.blocked
      /\ host.lastLocal = Start /\ doc.text = Start
  BY DEF Init
<1>3. In(toHost) = {} /\ In(toView) = {} /\ In(host.queue) = {} /\ Tasked = {}
  BY <1>2, InFew DEF Tasked
<1>4. Aware
  BY <1>1, <1>2 DEF Aware, ErrorWaits, Seen, Exact
<1>5. Based /\ Planned /\ Barred
  BY <1>2, <1>3 DEF Based, Messages, Planned, Barred
<1>6. QED
  BY <1>3, <1>4, <1>5, InitTyped DEF Heeded

\* Every action keeps account of what an edit may replace.
LEMMA NextHeeded ==
    ASSUME Heeded, Next
    PROVE  Heeded'
<1>1. Typed'
  BY HeededFacts, NextTyped
<1>2. CASE User \/ Debounce
  BY <1>1, <1>2, TypeHeeded, DebounceHeeded, MetadataHeeded, KeepMineHeeded, ReloadHeeded,
     RetryHeeded, InvalidSourceHeeded DEF User
<1>3. CASE Hear
  BY <1>1, <1>3, AcknowledgementHeeded, RejectionHeeded, ExternalChangeHeeded,
     RevisionAdvancedHeeded, InvalidHeeded, RecoveryHeeded, FlushHeeded DEF Hear
<1>4. CASE Arrive \/ Handle
  BY <1>1, <1>4, ArriveHeeded, HandleEditHeeded, HandleAdoptedHeeded,
     HandleRecoverHeeded, HandleReadyHeeded DEF Handle
<1>5. CASE ApplyEdit \/ Resume
  BY <1>1, <1>5, ApplyEditHeeded, ResumeHeeded
<1>6. CASE ExternalWrite \/ RequestFlush \/ FlushTimesOut
  BY <1>1, <1>6, ExternalWriteHeeded, FlushesHeeded
<1>7. QED
  BY <1>2, <1>3, <1>4, <1>5, <1>6 DEF Next

\* The fourth invariant holds, whatever the user decides.
LEMMA HeededHolds == Spec => []Heeded
<1>1. Init => Heeded
  BY InitHeeded
<1>2. Heeded /\ [Next]_vars => Heeded'
  <2>1. ASSUME Heeded, UNCHANGED vars
        PROVE  Heeded'
    <3>1. UNCHANGED <<sync, view, toHost, toView, host, doc, flushes, ledger>>
      BY <2>1 DEF vars
    <3>2. Typed'
      BY <2>1, <3>1 DEF Heeded, Typed, TypeOK, Recent, RevisionsBehindDocument, Within,
                        Sound, Consistent
    <3>3. /\ Aware' /\ Based' /\ Planned' /\ Barred'
          /\ \A m \in In(toView') : Faithful(m)'
      BY <2>1, <3>1 DEF Heeded, Aware, Exact, Seen, Based, Messages, Tasked, Planned,
                        Barred, Unreported, Faithful
    <3>4. QED
      BY <3>2, <3>3 DEF Heeded
  <2>2. QED
    BY <2>1, NextHeeded
<1>3. QED
  BY <1>1, <1>2, PTL DEF Spec

\* Nobody but VS Code marks an edit as applied, and only on the version it was
\* planned for.
LEMMA AppliedAsPlanned ==
    ASSUME Typed, Next, Overwrites
    PROVE  doc.version = host.applying.source
<1>1. /\ host.applying # Null /\ host.applying.outcome = "unknown"
      /\ host'.applying # Null /\ host'.applying.outcome = "applied"
      /\ host \in Hosts /\ host.applying \in Tasks
  BY HostFacts DEF Overwrites
<1>2. host'.applying # host.applying
  BY <1>1
<1>3. ~(User \/ Debounce)
  BY <1>2 DEF User, Type, EditMetadata, KeepMine, Reload, RetrySave, RecoverFromLocal,
              Revalidate, Debounce, HostUnchanged
<1>4. ~Hear
  BY <1>2 DEF Hear, HearAcknowledgement, HearRejection, HearExternalChange,
              HearRevisionAdvanced, HearInvalid, HearRecovery, HearFlush, Heard
<1>5. ~Arrive
  BY <1>1, <1>2 DEF Arrive, Hosts
<1>6. ~Handle /\ ~Resume
  BY <1>1 DEF Handle, HandleEdit, HandleAdopted, HandleRecover, HandleReady, Handles, Resume
<1>7. ~ExternalWrite
  BY <1>1, <1>2 DEF ExternalWrite, PostExternalChange, Hosts
<1>8. ~RequestFlush /\ ~FlushTimesOut
  BY <1>2 DEF RequestFlush, FlushTimesOut
<1>9. ApplyEdit
  BY <1>3, <1>4, <1>5, <1>6, <1>7, <1>8 DEF Next
<1>10. SUFFICES ASSUME doc.version # host.applying.source
                PROVE  FALSE
  OBVIOUS
<1>11. host' = [host EXCEPT !.applying.outcome = "refused"]
  BY <1>9, <1>10 DEF ApplyEdit
<1>12. host'.applying.outcome = "refused"
  BY <1>1, <1>11 DEF Hosts, Tasks
<1>13. QED
  BY <1>1, <1>12

\* updateDocument between the webview and VS Code: whatever the user decides,
\* whoever else writes the document, whatever VS Code refuses and however late
\* the messages arrive, an edit that is applied replaces a text its author knew
\* of (the one the draft was loaded with, stored or reloaded on, or one the
\* user chose to keep the draft against) or the one this editor's host itself
\* last stored or adopted; a recovery replaces only an invalid text.  That it
\* replaces only what its author knew of is false: another writer may put back
\* the host's own text, which the host then reports as no change at all.
THEOREM ForeignTextsSeen == Spec => NoForeignOverwrite
<1> DEFINE Allowed == IF host.applying.message.type = "edit"
                        THEN doc.text \in host.applying.message.over \cup {host.lastLocal}
                        ELSE doc.text = Invalid
<1>1. Heeded /\ [Next]_vars => [Overwrites => Allowed]_vars
  <2>1. SUFFICES ASSUME Heeded, Next, Overwrites
                 PROVE  Allowed
    OBVIOUS
  <2>2. Typed /\ Based /\ Planned
    BY <2>1 DEF Heeded
  <2>3. /\ host.applying # Null /\ host.applying.outcome = "unknown"
        /\ doc.version = host.applying.source
    BY <2>1, <2>2, AppliedAsPlanned DEF Overwrites
  <2>4. host.applying.message \in Messages
    BY <2>2, <2>3, TaskFacts
  <2>5. CASE host.applying.message.type = "edit"
    <3>1. host.applying.source = host.applying.message.request.baseRevision
      BY <2>2, <2>3, <2>5 DEF Planned
    <3>2. Seen(host.applying.message.over)
      BY <2>2, <2>3, <2>4, <2>5, <3>1 DEF Based
    <3>3. QED
      BY <2>5, <3>2 DEF Seen
  <2>6. CASE host.applying.message.type # "edit"
    BY <2>2, <2>3, <2>6 DEF Planned
  <2>7. QED
    BY <2>5, <2>6
<1>2. QED
  BY <1>1, HeededHolds, PTL DEF Spec, NoForeignOverwrite
=============================================================================
