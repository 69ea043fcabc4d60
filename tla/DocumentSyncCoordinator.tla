---------------------- MODULE DocumentSyncCoordinator ----------------------
(***************************************************************************)
(* One DocumentSyncCoordinator against an arbitrary host and user: the     *)
(* editor submits drafts, flush barriers come and go, the host answers the *)
(* current request or repeats, reorders and misaddresses old answers, and  *)
(* the user keeps, reloads or retries at any revision.  The composition    *)
(* with the real host is EditorSession; here nothing about the host is     *)
(* assumed, so what holds is what the class guarantees on its own.         *)
(***************************************************************************)
EXTENDS SyncOperations, Sequences

CONSTANTS
    HostCodes,      \* the error codes host rejections use
    Observing,      \* whether a request is remembered in `observed`
    MaxGeneration,  \* bound: local generations
    MaxComponent,   \* bound: component revisions at a replacement
    MaxRevision,    \* bound: host revisions
    MaxEdits,       \* bound: requests sent
    MaxFlushes      \* bound: flush barriers

ASSUME BoundsAssumption ==
    /\ MaxGeneration \in Nat /\ MaxRevision \in Nat /\ MaxComponent \in Nat
    /\ MaxEdits \in Nat      /\ MaxFlushes \in Nat

ASSUME HostAssumption == HostCodes \subseteq ErrorCodes /\ Observing \in BOOLEAN

VARIABLES
    sync,      \* the coordinator's state
    observed,  \* history: some one request handed to the transport, or Null
    flushes    \* the promise of every flush barrier, in the order requested

vars == <<sync, observed, flushes>>

Promises == [generation : Nat,
             outcome    : {"waiting", "resolved", "rejected"}]

Revisions == 1 .. MaxRevision

----------------------------------------------------------------------------
Init ==
    /\ sync = Created(1)
    /\ observed = Null
    /\ flushes = <<>>

\* The promises after a step to t: a waiter that left the set was resolved
\* if its generation is acknowledged and rejected otherwise.
Settled(promises, t) ==
    [i \in DOMAIN promises |->
        IF promises[i].outcome = "waiting"
           /\ ~\E w \in t.flushWaiters : w.flush = i
        THEN [promises[i] EXCEPT !.outcome =
                IF promises[i].generation <= t.acknowledgedGeneration
                THEN "resolved" ELSE "rejected"]
        ELSE promises[i]]

\* Whichever request one likes is remembered: what holds of it holds of all.
Observe(t) ==
    \/ UNCHANGED observed
    \/ Observing /\ observed = Null /\ Sends(sync, t) /\ observed' = t.inFlight

\* The coordinator moves to t.
Step(t) ==
    /\ sync' = t
    /\ Observe(t)
    /\ flushes' = Settled(flushes, t)

MayEdit == sync.localGeneration < MaxGeneration
MaySend == sync.nextEditId < MaxEdits

----------------------------------------------------------------------------
DraftContent ==
    /\ MayEdit /\ MaySend
    /\ \E mutation \in Mutations, recaptured \in BOOLEAN :
          Step(SubmitContent(sync, mutation, recaptured))

DraftMetadata ==
    /\ MayEdit /\ MaySend
    /\ \E meta \in Metas : Step(SubmitMetadata(sync, meta))

DraftSettings ==
    /\ MayEdit /\ MaySend
    /\ \E settings \in SettingValues :
          Step(SubmitDocumentSettings(sync, settings))

ReceiveAcknowledgement ==
    /\ MaySend
    /\ \E identity \in Identities, editId \in 0 .. MaxEdits, revision \in Revisions :
          Step(Acknowledge(sync, [identity |-> identity,
                                  editId   |-> editId,
                                  revision |-> revision]))

ReceiveRejection ==
    \E identity \in Identities, editId \in 0 .. MaxEdits, revision \in Revisions,
       code \in HostCodes, hostSnapshot \in Mutations \cup {Null} :
          Step(Reject(sync, [identity     |-> identity,
                             editId       |-> editId,
                             revision     |-> revision,
                             code         |-> code,
                             hostSnapshot |-> hostSnapshot]))

TransportFails ==
    /\ sync.inFlight # Null
    /\ Step(Reject(sync, TransportError(sync.inFlight)))

HostChanges ==
    /\ MaySend
    /\ \E revision \in Revisions, hostSnapshot \in Mutations :
          Step(ObserveExternalChange(sync, revision, hostSnapshot))

HostAdvances ==
    /\ MaySend
    /\ \E revision \in Revisions :
          Step(AdvanceAcknowledgedRevision(sync, revision))

UserRetries ==
    /\ MaySend
    /\ \E revision \in Revisions \cup {Null} : Step(Retry(sync, revision))

UserReplaces ==
    /\ \A c \in Components : sync.componentRevisions[c] < MaxComponent
    /\ \E revision \in Revisions, mutation \in Mutations, recaptured \in BOOLEAN :
          Step(AdoptReplacement(sync, revision, mutation, recaptured))

\* A barrier: the coordinator moves to t, in which flush number
\* Len(flushes) + 1 waits unless it was answered at once, by the state
\* `asked` it was put to.
Barrier(asked, t) ==
    LET g == asked.localGeneration
        outcome == CASE FlushResolves(asked, g) -> "resolved"
                     [] FlushRejects(asked, g)  -> "rejected"
                     [] OTHER                   -> "waiting"
    IN  /\ sync' = t
        /\ Observe(t)
        /\ flushes' = Append(Settled(flushes, t),
                             [generation |-> g, outcome |-> outcome])

\* A save or an export asks for SaveCoordinator.afterAcknowledged.
SaveBarrier ==
    /\ MaySend
    /\ Len(flushes) < MaxFlushes
    /\ Barrier(RetryBeforeSave(sync), AfterAcknowledged(sync, Len(flushes) + 1))

\* "Keep mine", through keepLocalThroughAcknowledgement.
UserKeepsLocal ==
    /\ MayEdit /\ MaySend
    /\ Len(flushes) < MaxFlushes
    /\ \E revision \in Revisions :
          Barrier(KeepLocal(sync, revision),
                  KeepLocalThroughAcknowledgement(sync, revision, Len(flushes) + 1))

Next ==
    \/ DraftContent \/ DraftMetadata \/ DraftSettings
    \/ ReceiveAcknowledgement \/ ReceiveRejection \/ TransportFails
    \/ HostChanges \/ HostAdvances
    \/ UserRetries \/ UserKeepsLocal \/ UserReplaces
    \/ SaveBarrier

Spec == Init /\ [][Next]_vars

----------------------------------------------------------------------------
(* Properties. *)

\* Type invariant of the coordinator's state and of the history kept here.
TypeOK ==
    /\ sync \in SyncStates
    /\ observed \in Requests \cup {Null}
    /\ flushes \in Seq(Promises)

\* A draft the host has not confirmed is never dropped: the newest one is
\* queued or travelling, with the value the editor holds, after any mix of
\* answers, failures, external changes, retries and "keep mine".
Carries(carrier) ==
    /\ carrier # Null
    /\ carrier.localGeneration = sync.localGeneration
    /\ carrier.mutation = sync.localMutation

DraftTracked ==
    sync.localGeneration > sync.acknowledgedGeneration =>
        Carries(sync.pending) \/ Carries(sync.inFlight)

\* Nothing is left lying: a queued draft waits only for the request in
\* flight, or for the user to settle an error or an external change.  Every
\* method that lifts one of these blocks must therefore dispatch.
NoForgottenDraft ==
    sync.pending # Null =>
        sync.inFlight # Null \/ sync.error # Null \/ sync.externalChange # Null

\* Every request carries the editor's newest draft, never an older coalesced
\* one, whichever method sent it.
SendsNewestDraft ==
    [][Sends(sync, sync') =>
         /\ sync'.inFlight.localGeneration = sync'.localGeneration
         /\ sync'.inFlight.mutation = sync'.localMutation]_vars

\* The host's canonical cache (RevisionBoundCanonicalPersistenceCache) reuses
\* a component whose revision did not change.  That is sound only if two
\* requests of one session with the same component revision carry the same
\* component.
ComponentRevisionsIdentify ==
    sync.inFlight # Null /\ observed # Null =>
        \A c \in Components :
            sync.inFlight.componentRevisions[c] = observed.componentRevisions[c]
                => sync.inFlight.mutation[c] = observed.mutation[c]

\* A save or export barrier is resolved only once its generation is in the
\* host's document or was given up for a replacement, and a barrier that
\* still waits can still be settled: its generation is unconfirmed, it waits
\* in the coordinator, and no error sits in front of it.
BarriersHonest ==
    \A i \in DOMAIN flushes :
        /\ flushes[i].outcome = "resolved" =>
              flushes[i].generation <= sync.acknowledgedGeneration
        /\ flushes[i].outcome = "waiting" =>
              /\ [flush |-> i, generation |-> flushes[i].generation]
                    \in sync.flushWaiters
              /\ flushes[i].generation > sync.acknowledgedGeneration
              /\ sync.error = Null

\* The inductive invariant behind the properties above: the state is sound
\* in the sense of SyncOperations, and every waiter in it belongs to the
\* barrier it was created for.
Inv ==
    /\ TypeOK
    /\ Sound(sync)
    /\ \A w \in sync.flushWaiters :
          /\ w.flush \in DOMAIN flushes
          /\ flushes[w.flush].outcome = "waiting"
          /\ flushes[w.flush].generation = w.generation
    /\ BarriersHonest

\* The coordinator implements the register of numbered drafts: it sends one
\* newest draft at a time and confirms only what it sent.
Register == INSTANCE DraftRegister WITH
    newest      <- sync.localGeneration,
    confirmed   <- sync.acknowledgedGeneration,
    outstanding <- IF sync.inFlight = Null THEN 0 ELSE sync.inFlight.localGeneration

RegisterSpec == Register!Spec
============================================================================
