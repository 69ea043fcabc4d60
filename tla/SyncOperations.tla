-------------------------- MODULE SyncOperations --------------------------
(***************************************************************************)
(* The methods of DocumentSyncCoordinator (shared/persistence/             *)
(* DocumentSyncCoordinator.ts) as functions of its state.  The class keeps *)
(* one frozen record `current` and replaces it with `publish`; every       *)
(* method below takes that record and returns the next one, including the  *)
(* dispatchNext and settle/rejectFlushWaiters calls it ends in.  A request *)
(* handed to the transport is visible as a fresh `inFlight` (see Sends).   *)
(*                                                                         *)
(* Abstracted: the document content, metadata and settings are values of   *)
(* small sets; `meta.modified`, which the host owns and an acknowledgement *)
(* copies back, is not part of them; messages and error texts are left     *)
(* out; the session and the document form one identity.                    *)
(***************************************************************************)
EXTENDS Naturals

CONSTANTS
    Contents,       \* document bodies
    Metas,          \* metadata values
    SettingValues,  \* document settings values
    Identities,     \* (session, document) pairs a message may name
    Self,           \* the pair this coordinator was created for
    Null            \* "no value"

Components == {"content", "metadata", "settings"}

Mutations == [content : Contents, metadata : Metas, settings : SettingValues]

ErrorCodes == {"STALE_REVISION", "EXTERNAL_CHANGE", "INVALID_DOCUMENT",
               "WRITE_FAILED", "TRANSPORT_ERROR", "UNKNOWN"}

ConflictCodes  == {"EXTERNAL_CHANGE", "STALE_REVISION"}
RetryableCodes == {"WRITE_FAILED", "TRANSPORT_ERROR", "UNKNOWN"}

Requests == [editId : Nat, baseRevision : Nat, localGeneration : Nat,
             componentRevisions : [Components -> Nat], mutation : Mutations]

Drafts == [localGeneration : Nat, componentRevisions : [Components -> Nat],
           mutation : Mutations]

Errors    == [localGeneration : Nat, code : ErrorCodes]
Conflicts == [hostRevision : Nat, hostSnapshot : Mutations]
Snapshots == [revision : Nat, hostSnapshot : Mutations]
Waiters   == [flush : Nat, generation : Nat]

SyncStates ==
    [acknowledgedRevision   : Nat,
     localGeneration        : Nat,
     acknowledgedGeneration : Nat,
     componentRevisions     : [Components -> Nat],
     localMutation          : Mutations \cup {Null},
     inFlight               : Requests  \cup {Null},
     pending                : Drafts    \cup {Null},
     error                  : Errors    \cup {Null},
     conflict               : Conflicts \cup {Null},
     externalChange         : Snapshots \cup {Null},
     flushWaiters           : SUBSET Waiters,
     nextEditId             : Nat]

\* Null stands for JavaScript's null: it is none of the values it replaces.
ASSUME NullAssumption ==
    Null \notin Mutations \cup Requests \cup Drafts \cup Errors
                \cup Conflicts \cup Snapshots

ASSUME IdentityAssumption == Self \in Identities

----------------------------------------------------------------------------
\* The larger of two generations (Math.max).
Larger(a, b) == IF a > b THEN a ELSE b

\* The state the constructor publishes.
Created(revision) ==
    [acknowledgedRevision   |-> revision,
     localGeneration        |-> 0,
     acknowledgedGeneration |-> 0,
     componentRevisions     |-> [c \in Components |-> 0],
     localMutation          |-> Null,
     inFlight               |-> Null,
     pending                |-> Null,
     error                  |-> Null,
     conflict               |-> Null,
     externalChange         |-> Null,
     flushWaiters           |-> {},
     nextEditId             |-> 0]

\* The draft the editor holds now, as it would be queued.
LatestDraft(s) ==
    [localGeneration    |-> s.localGeneration,
     componentRevisions |-> s.componentRevisions,
     mutation           |-> s.localMutation]

\* An external-change notice survives only if it is newer than the revision
\* the coordinator has just learned to be covered.
NoticeNewerThan(s, revision) ==
    IF s.externalChange # Null /\ s.externalChange.revision > revision
    THEN s.externalChange
    ELSE Null

----------------------------------------------------------------------------
CanDispatch(s) ==
    /\ s.inFlight = Null
    /\ s.error = Null
    /\ s.externalChange = Null
    /\ s.pending # Null

\* dispatchNext: hand the one pending draft to the transport.
DispatchNext(s) ==
    IF CanDispatch(s)
    THEN [s EXCEPT
            !.inFlight = [editId             |-> s.nextEditId,
                          baseRevision       |-> s.acknowledgedRevision,
                          localGeneration    |-> s.pending.localGeneration,
                          componentRevisions |-> s.pending.componentRevisions,
                          mutation           |-> s.pending.mutation],
            !.pending = Null,
            !.nextEditId = s.nextEditId + 1]
    ELSE s

\* The step from s to t called the transport (with t.inFlight).
Sends(s, t) == t.nextEditId > s.nextEditId

\* Seeded fault: an acknowledgement settles nobody.
SettleFlushWaiters_Never(s) == s

SettleFlushWaiters(s) ==
    [s EXCEPT !.flushWaiters =
        {w \in s.flushWaiters : w.generation > s.acknowledgedGeneration}]

\* Seeded fault: waiters survive a rejection.
RejectFlushWaiters_Never(s) == s

RejectFlushWaiters(s) == [s EXCEPT !.flushWaiters = {}]

MatchesInFlight(s, message) ==
    /\ s.inFlight # Null
    /\ message.identity = Self
    /\ message.editId = s.inFlight.editId

----------------------------------------------------------------------------
\* Components whose value differs from the draft held now.
Differing(s, mutation) ==
    {c \in Components : s.localMutation = Null \/ s.localMutation[c] # mutation[c]}

BumpedRevisions(s, changed) ==
    [c \in Components |->
        s.componentRevisions[c] + (IF c \in changed THEN 1 ELSE 0)]

\* submitComponents: the new draft replaces whatever was pending.
SubmitComponents(s, mutation, changed) ==
    IF changed = {}
    THEN s
    ELSE LET draft ==
               [localGeneration    |-> s.localGeneration + 1,
                componentRevisions |-> BumpedRevisions(s, changed),
                mutation |-> [c \in Components |->
                                IF c \in changed \/ s.localMutation = Null
                                THEN mutation[c]
                                ELSE s.localMutation[c]]]
         IN  DispatchNext(
               [s EXCEPT !.localGeneration    = draft.localGeneration,
                         !.componentRevisions = draft.componentRevisions,
                         !.localMutation      = draft.mutation,
                         !.pending            = draft])

\* submit and submitContent.  Content is compared by object identity, so a
\* recaptured body counts as changed even when its value is the same.
SubmitContent(s, mutation, recaptured) ==
    SubmitComponents(s, mutation,
        Differing(s, mutation) \cup (IF recaptured THEN {"content"} ELSE {}))

SubmitMetadata(s, meta) ==
    IF s.localMutation = Null
    THEN s
    ELSE LET mutation == [s.localMutation EXCEPT !.metadata = meta]
         IN  SubmitComponents(s, mutation, Differing(s, mutation))

SubmitDocumentSettings(s, settings) ==
    IF s.localMutation = Null
    THEN s
    ELSE LET mutation == [s.localMutation EXCEPT !.settings = settings]
         IN  SubmitComponents(s, mutation, Differing(s, mutation))

----------------------------------------------------------------------------
Acknowledges(s, message) ==
    /\ MatchesInFlight(s, message)
    /\ message.revision > s.inFlight.baseRevision

\* Seeded fault: an acknowledgement confirms the newest draft, sent or not.
Acknowledge_ConfirmsNewest(s, message) ==
    IF Acknowledges(s, message)
    THEN DispatchNext(SettleFlushWaiters(
           [s EXCEPT !.acknowledgedRevision   = message.revision,
                     !.acknowledgedGeneration = s.localGeneration,
                     !.inFlight = Null, !.error = Null, !.conflict = Null,
                     !.externalChange = NoticeNewerThan(s, message.revision)]))
    ELSE s

\* Seeded fault: the draft queued behind the request is not sent on.
Acknowledge_Stops(s, message) ==
    IF Acknowledges(s, message)
    THEN SettleFlushWaiters(
           [s EXCEPT !.acknowledgedRevision   = message.revision,
                     !.acknowledgedGeneration =
                         Larger(s.acknowledgedGeneration, s.inFlight.localGeneration),
                     !.inFlight = Null, !.error = Null, !.conflict = Null,
                     !.externalChange = NoticeNewerThan(s, message.revision)])
    ELSE s

Acknowledge(s, message) ==
    IF Acknowledges(s, message)
    THEN DispatchNext(SettleFlushWaiters(
           [s EXCEPT
              !.acknowledgedRevision   = message.revision,
              !.acknowledgedGeneration =
                  Larger(s.acknowledgedGeneration, s.inFlight.localGeneration),
              !.inFlight       = Null,
              !.error          = Null,
              !.conflict       = Null,
              !.externalChange = NoticeNewerThan(s, message.revision)]))
    ELSE s

IsConflict(message) ==
    message.hostSnapshot # Null /\ message.code \in ConflictCodes

\* Seeded fault: the rejected draft is not queued again.
Reject_DropsDraft(s, message) ==
    IF MatchesInFlight(s, message)
    THEN RejectFlushWaiters(
           [s EXCEPT !.inFlight = Null,
                     !.error = [localGeneration |-> s.inFlight.localGeneration,
                                code            |-> message.code]])
    ELSE s

Reject(s, message) ==
    IF MatchesInFlight(s, message)
    THEN RejectFlushWaiters(
           [s EXCEPT
              !.inFlight = Null,
              !.pending  = IF s.pending = Null /\ s.localMutation # Null
                           THEN LatestDraft(s)
                           ELSE s.pending,
              !.error    = [localGeneration |-> s.inFlight.localGeneration,
                            code            |-> message.code],
              !.conflict = IF IsConflict(message)
                           THEN [hostRevision |-> message.revision,
                                 hostSnapshot |-> message.hostSnapshot]
                           ELSE Null,
              !.externalChange = IF IsConflict(message)
                                 THEN [revision     |-> message.revision,
                                       hostSnapshot |-> message.hostSnapshot]
                                 ELSE s.externalChange])
    ELSE s

\* The rejection the coordinator makes up when the transport itself fails.
TransportError(request) ==
    [identity     |-> Self,
     editId       |-> request.editId,
     revision     |-> request.baseRevision,
     code         |-> "TRANSPORT_ERROR",
     hostSnapshot |-> Null]

\* Seeded fault: the error is cleared and nothing is sent.
Retry_OnlyClears(s, revision) ==
    IF s.error = Null
    THEN s
    ELSE [s EXCEPT !.acknowledgedRevision = IF revision = Null THEN @ ELSE revision,
                   !.error = Null, !.conflict = Null, !.externalChange = Null]

\* retry; `revision` is Null when the caller passes none.
Retry(s, revision) ==
    IF s.error = Null
    THEN s
    ELSE DispatchNext(
           [s EXCEPT
              !.acknowledgedRevision = IF revision = Null THEN @ ELSE revision,
              !.error          = Null,
              !.conflict       = Null,
              !.externalChange = Null])

----------------------------------------------------------------------------
\* advanceAcknowledgedRevision
AdvanceAcknowledgedRevision(s, revision) ==
    IF revision > s.acknowledgedRevision
    THEN DispatchNext(
           [s EXCEPT !.acknowledgedRevision = revision,
                     !.externalChange       = NoticeNewerThan(s, revision)])
    ELSE s

\* observeExternalChange: an equal snapshot only advances the revision.
ObserveExternalChange(s, revision, hostSnapshot) ==
    IF revision > s.acknowledgedRevision /\ s.localMutation # hostSnapshot
    THEN [s EXCEPT !.externalChange = [revision     |-> revision,
                                       hostSnapshot |-> hostSnapshot]]
    ELSE AdvanceAcknowledgedRevision(s, revision)

\* keepLocal: rebase the draft on the host revision the user was shown.
KeepLocal(s, revision) ==
    LET generation == IF s.localMutation = Null
                      THEN s.localGeneration
                      ELSE s.localGeneration + 1
        rebased == [s EXCEPT !.acknowledgedRevision = revision,
                             !.localGeneration      = generation,
                             !.inFlight             = Null,
                             !.error                = Null,
                             !.conflict             = Null,
                             !.externalChange       = Null]
    IN  DispatchNext([rebased EXCEPT
            !.pending = IF s.localMutation = Null THEN Null
                                                  ELSE LatestDraft(rebased)])

\* Seeded fault: a replacement keeps the component revisions.
AdoptReplacement_SameRevisions(s, revision, mutation, recaptured) ==
    SettleFlushWaiters(
        [s EXCEPT !.acknowledgedRevision   = revision,
                  !.acknowledgedGeneration = s.localGeneration,
                  !.localMutation = mutation,
                  !.inFlight = Null, !.pending = Null, !.error = Null,
                  !.conflict = Null, !.externalChange = Null])

\* adoptReplacement: reload, template and recovery.  A newly captured body
\* (`recaptured`) is another object, hence a changed one.
AdoptReplacement(s, revision, mutation, recaptured) ==
    LET changed == Differing(s, mutation)
                     \cup (IF recaptured THEN {"content"} ELSE {})
    IN  SettleFlushWaiters(
          [s EXCEPT
             !.acknowledgedRevision   = revision,
             !.acknowledgedGeneration = s.localGeneration,
             !.componentRevisions     = IF s.localMutation = Null
                                        THEN [c \in Components |-> 0]
                                        ELSE BumpedRevisions(s, changed),
             !.localMutation  = mutation,
             !.inFlight       = Null,
             !.pending        = Null,
             !.error          = Null,
             !.conflict       = Null,
             !.externalChange = Null])

----------------------------------------------------------------------------
\* Seeded fault: a barrier looks at the request in flight only.
FlushResolves_NothingInFlight(s, generation) == s.inFlight = Null

\* flushThrough answers at once, or leaves a waiter behind.
FlushResolves(s, generation) == generation <= s.acknowledgedGeneration
FlushRejects(s, generation)  == ~FlushResolves(s, generation) /\ s.error # Null

FlushThrough(s, flush, generation) ==
    IF FlushResolves(s, generation) \/ FlushRejects(s, generation)
    THEN s
    ELSE [s EXCEPT !.flushWaiters =
             @ \cup {[flush |-> flush, generation |-> generation]}]

\* keepLocalThroughAcknowledgement: the barrier is for the rebased generation.
KeepLocalThroughAcknowledgement(s, revision, flush) ==
    LET kept == KeepLocal(s, revision)
    IN  FlushThrough(kept, flush, kept.localGeneration)

\* SaveCoordinator.afterAcknowledged: a save may retry a transient failure,
\* never a conflict.
CanRetry(s) ==
    /\ s.error # Null
    /\ s.conflict = Null
    /\ s.externalChange = Null
    /\ s.error.code \in RetryableCodes

RetryBeforeSave(s) == IF CanRetry(s) THEN Retry(s, Null) ELSE s

AfterAcknowledged(s, flush) ==
    LET retried == RetryBeforeSave(s)
    IN  FlushThrough(retried, flush, retried.localGeneration)
----------------------------------------------------------------------------
(* What every state of a coordinator satisfies, whatever the host does.    *)

\* Generations in order: confirmed < in flight < queued <= newest; the queued
\* draft is the newest one, and so is the request in flight when none is
\* queued behind it.
Numbered(s) ==
    /\ s.acknowledgedGeneration <= s.localGeneration
    /\ s.localMutation = Null => s.localGeneration = 0
    /\ s.pending # Null =>
          /\ s.pending = LatestDraft(s)
          /\ s.acknowledgedGeneration < s.localGeneration
    /\ s.inFlight # Null =>
          /\ s.acknowledgedGeneration < s.inFlight.localGeneration
          /\ IF s.pending = Null
             THEN /\ s.inFlight.localGeneration = s.localGeneration
                  /\ s.inFlight.mutation = s.localMutation
             ELSE s.inFlight.localGeneration < s.localGeneration

\* An unconfirmed draft is queued or in flight.
Held(s) ==
    s.acknowledgedGeneration < s.localGeneration =>
        s.pending # Null \/ s.inFlight # Null

\* Waiters wait for unconfirmed generations, and none waits behind an error.
WaitersOpen(s) ==
    /\ \A w \in s.flushWaiters : s.acknowledgedGeneration < w.generation
    /\ s.error # Null => s.flushWaiters = {}

\* A queued draft waits for the host's answer or for the user.
Awake(s) ==
    s.pending # Null =>
        s.inFlight # Null \/ s.error # Null \/ s.externalChange # Null

\* The states dispatchNext may be called in, and those it leaves behind.
Consistent(s) == s \in SyncStates /\ Numbered(s) /\ Held(s) /\ WaitersOpen(s)
Sound(s)      == Consistent(s) /\ Awake(s)
============================================================================
