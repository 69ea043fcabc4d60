----------------------- MODULE SyncOperations_proofs -----------------------
(***************************************************************************)
(* Lemmas about the coordinator's methods: each takes a sound state to a   *)
(* sound state by a move that the abstract register of drafts allows.      *)
(* Then what the sessions' proofs share: queues of messages, the answers   *)
(* to flushes, and how long an edit stays out.  They speak of states, not  *)
(* of behaviours, so that every specification whose steps are these        *)
(* methods can use them.                                                   *)
(***************************************************************************)
EXTENDS FlushAnswers, SequenceTheorems, FiniteSetTheorems, NaturalsInduction,
        WellFoundedInduction, TLAPS

\* The draft the host is being asked to store, 0 for none.
Outstanding(s) == IF s.inFlight = Null THEN 0 ELSE s.inFlight.localGeneration

\* The moves of the abstract register, between two states of a coordinator.
StaysPut(s, t) ==
    /\ t.localGeneration = s.localGeneration
    /\ t.acknowledgedGeneration = s.acknowledgedGeneration
    /\ Outstanding(t) = Outstanding(s)

Sending(s, t) ==
    /\ Outstanding(s) = 0
    /\ s.acknowledgedGeneration < s.localGeneration
    /\ t.localGeneration = s.localGeneration
    /\ t.acknowledgedGeneration = s.acknowledgedGeneration
    /\ Outstanding(t) = s.localGeneration

Drafting(s, t) ==
    /\ t.localGeneration = s.localGeneration + 1
    /\ t.acknowledgedGeneration = s.acknowledgedGeneration
    /\ \/ Outstanding(t) = Outstanding(s)
       \/ Outstanding(s) = 0 /\ Outstanding(t) = t.localGeneration

Insisting(s, t) ==
    /\ t.localGeneration = s.localGeneration + 1
    /\ t.acknowledgedGeneration = s.acknowledgedGeneration
    /\ Outstanding(t) = t.localGeneration

Confirming(s, t) ==
    /\ Outstanding(s) # 0
    /\ t.localGeneration = s.localGeneration
    /\ t.acknowledgedGeneration = Outstanding(s)
    /\ \/ Outstanding(t) = 0
       \/ /\ Outstanding(s) < s.localGeneration
          /\ Outstanding(t) = s.localGeneration

Failing(s, t) ==
    /\ Outstanding(s) # 0
    /\ t.localGeneration = s.localGeneration
    /\ t.acknowledgedGeneration = s.acknowledgedGeneration
    /\ Outstanding(t) = 0

Replacing(s, t) ==
    /\ t.localGeneration = s.localGeneration
    /\ t.acknowledgedGeneration = s.localGeneration
    /\ Outstanding(t) = 0

RegisterMoves(s, t) ==
    \/ StaysPut(s, t)  \/ Sending(s, t) \/ Drafting(s, t)   \/ Insisting(s, t)
    \/ Confirming(s, t) \/ Failing(s, t) \/ Replacing(s, t)

\* A request that leaves carries the newest draft.
SendsNewest(s, t) ==
    Sends(s, t) => /\ t.inFlight.localGeneration = t.localGeneration
                   /\ t.inFlight.mutation = t.localMutation

\* What every method guarantees of the step it makes.
Advances(s, t) ==
    /\ RegisterMoves(s, t)
    /\ SendsNewest(s, t)
    /\ t.acknowledgedGeneration >= s.acknowledgedGeneration
    /\ t.flushWaiters \subseteq s.flushWaiters

----------------------------------------------------------------------------
(* dispatchNext *)

\* What dispatchNext does to a consistent state: nothing, or it turns the
\* queued draft, which is the newest one, into the request in flight.
Dispatched(u, t) ==
    /\ t.localGeneration = u.localGeneration
    /\ t.acknowledgedGeneration = u.acknowledgedGeneration
    /\ t.flushWaiters = u.flushWaiters
    /\ t.error = u.error
    /\ \/ t = u
       \/ /\ u.inFlight = Null
          /\ u.acknowledgedGeneration < u.localGeneration
          /\ t.inFlight # Null
          /\ t.inFlight.localGeneration = u.localGeneration
          /\ t.inFlight.mutation = t.localMutation

\* dispatchNext keeps the state's type.
LEMMA DispatchTyped ==
    ASSUME NEW u \in SyncStates
    PROVE  DispatchNext(u) \in SyncStates
<1> DEFINE request == [editId             |-> u.nextEditId,
                       baseRevision       |-> u.acknowledgedRevision,
                       localGeneration    |-> u.pending.localGeneration,
                       componentRevisions |-> u.pending.componentRevisions,
                       mutation           |-> u.pending.mutation]
<1>1. CASE CanDispatch(u)
  <2>1. u.pending \in Drafts
    BY <1>1 DEF SyncStates, CanDispatch
  <2>2. request \in Requests
    BY <2>1 DEF SyncStates, Requests, Drafts
  <2>3. u.nextEditId + 1 \in Nat
    BY DEF SyncStates
  <2> HIDE DEF request
  <2>4. [u EXCEPT !.inFlight = request, !.pending = Null,
                  !.nextEditId = u.nextEditId + 1] \in SyncStates
    BY <2>2, <2>3 DEF SyncStates
  <2>5. QED
    BY <1>1, <2>4 DEF DispatchNext, request
<1>2. CASE ~CanDispatch(u)
  BY <1>2 DEF DispatchNext
<1>3. QED
  BY <1>1, <1>2

\* dispatchNext turns a consistent state into a sound one.
LEMMA DispatchSound ==
    ASSUME NEW u, Consistent(u)
    PROVE  /\ Sound(DispatchNext(u))
           /\ Dispatched(u, DispatchNext(u))
<1> DEFINE t == DispatchNext(u)
<1>1. u \in SyncStates /\ t \in SyncStates
  BY DispatchTyped DEF Consistent
<1>2. CASE CanDispatch(u)
  <2> DEFINE request == [editId             |-> u.nextEditId,
                         baseRevision       |-> u.acknowledgedRevision,
                         localGeneration    |-> u.pending.localGeneration,
                         componentRevisions |-> u.pending.componentRevisions,
                         mutation           |-> u.pending.mutation]
  <2>1. t = [u EXCEPT !.inFlight = request, !.pending = Null,
                      !.nextEditId = u.nextEditId + 1]
    BY <1>2 DEF DispatchNext
  <2>2. /\ u.pending = LatestDraft(u)
        /\ u.acknowledgedGeneration < u.localGeneration
        /\ u.inFlight = Null
    BY <1>2 DEF Consistent, Numbered, CanDispatch
  <2>3. /\ request.localGeneration = u.localGeneration
        /\ request.mutation = u.localMutation
        /\ request # Null
    <3>1. request \in Requests
      BY <1>1, <1>2 DEF SyncStates, CanDispatch, Requests, Drafts
    <3>2. QED
      BY <2>2, <3>1, NullAssumption DEF LatestDraft
  <2> HIDE DEF request
  <2>4. /\ t.inFlight = request /\ t.pending = Null
        /\ t.localGeneration = u.localGeneration
        /\ t.acknowledgedGeneration = u.acknowledgedGeneration
        /\ t.localMutation = u.localMutation
        /\ t.flushWaiters = u.flushWaiters
        /\ t.error = u.error
    BY <1>1, <2>1 DEF SyncStates
  <2> HIDE DEF t
  <2>5. Sound(t)
    BY <1>1, <2>2, <2>3, <2>4
       DEF Sound, Consistent, Numbered, Held, WaitersOpen, Awake
  <2>6. Dispatched(u, t)
    BY <2>2, <2>3, <2>4 DEF Dispatched
  <2>7. QED
    BY <2>5, <2>6 DEF t
<1>3. CASE ~CanDispatch(u)
  <2>1. t = u
    BY <1>3 DEF DispatchNext
  <2>2. Awake(u)
    BY <1>3 DEF CanDispatch, Awake
  <2>3. QED
    BY <2>1, <2>2 DEF Sound, Dispatched
<1>4. QED
  BY <1>2, <1>3

\* A method that ends in dispatchNext advances, given how the state it
\* dispatches from relates to the one it started in.
LEMMA DispatchStays ==
    ASSUME NEW s, NEW u, Sound(s), Consistent(u),
           u.nextEditId = s.nextEditId,
           u.localGeneration = s.localGeneration,
           u.acknowledgedGeneration = s.acknowledgedGeneration,
           u.inFlight = s.inFlight,
           u.flushWaiters \subseteq s.flushWaiters
    PROVE  Sound(DispatchNext(u)) /\ Advances(s, DispatchNext(u))
<1> DEFINE t == DispatchNext(u)
<1>1. Sound(t) /\ Dispatched(u, t)
  BY DispatchSound
<1> HIDE DEF t
<1>2. s \in SyncStates /\ u \in SyncStates /\ t \in SyncStates
  BY <1>1 DEF Sound, Consistent
<1>3. RegisterMoves(s, t)
  BY <1>1, <1>2 DEF Dispatched, RegisterMoves, StaysPut, Sending, Outstanding
<1>4. SendsNewest(s, t)
  BY <1>1, <1>2 DEF Dispatched, SendsNewest, Sends, SyncStates
<1>5. /\ t.acknowledgedGeneration >= s.acknowledgedGeneration
      /\ t.flushWaiters \subseteq s.flushWaiters
  BY <1>1, <1>2 DEF Dispatched, SyncStates
<1>6. QED
  BY <1>1, <1>3, <1>4, <1>5 DEF Advances, t

\* A method that changes nothing advances.
LEMMA SameAdvances ==
    ASSUME NEW s, Sound(s)
    PROVE  Advances(s, s)
<1>1. s \in SyncStates
  BY DEF Sound, Consistent
<1>2. QED
  BY <1>1 DEF Advances, RegisterMoves, StaysPut, SendsNewest, Sends, SyncStates

----------------------------------------------------------------------------
(* submit, submitContent, submitMetadata, submitDocumentSettings *)

\* A submitted draft becomes the newest one, queued or sent at once.
LEMMA SubmitSound ==
    ASSUME NEW s, Sound(s), NEW mutation \in Mutations, NEW changed
    PROVE  LET t == SubmitComponents(s, mutation, changed)
           IN  Sound(t) /\ Advances(s, t)
<1>1. CASE changed = {}
  BY <1>1, SameAdvances DEF SubmitComponents
<1>2. CASE changed # {}
  <2> DEFINE merged == [c \in Components |->
                          IF c \in changed \/ s.localMutation = Null
                          THEN mutation[c]
                          ELSE s.localMutation[c]]
             draft  == [localGeneration    |-> s.localGeneration + 1,
                        componentRevisions |-> BumpedRevisions(s, changed),
                        mutation           |-> merged]
             u      == [s EXCEPT !.localGeneration    = s.localGeneration + 1,
                                 !.componentRevisions = BumpedRevisions(s, changed),
                                 !.localMutation      = merged,
                                 !.pending            = draft]
             t      == DispatchNext(u)
  <2>1. s \in SyncStates
    BY DEF Sound, Consistent
  <2>2. merged \in Mutations
    BY <2>1, NullAssumption DEF SyncStates, Mutations, Components
  <2>3. BumpedRevisions(s, changed) \in [Components -> Nat]
    BY <2>1 DEF SyncStates, BumpedRevisions
  <2> HIDE DEF merged
  <2>4. draft \in Drafts
    BY <2>1, <2>2, <2>3 DEF SyncStates, Drafts
  <2>5. draft # Null /\ merged # Null
    BY <2>2, <2>4, NullAssumption
  <2> HIDE DEF draft
  <2>6. u \in SyncStates
    <3>1. s.localGeneration + 1 \in Nat
      BY <2>1 DEF SyncStates
    <3>2. QED
      BY <2>1, <2>2, <2>3, <2>4, <3>1 DEF SyncStates
  <2>7. /\ u.localGeneration = s.localGeneration + 1
        /\ u.acknowledgedGeneration = s.acknowledgedGeneration
        /\ u.localMutation = merged
        /\ u.pending = draft
        /\ u.inFlight = s.inFlight
        /\ u.error = s.error
        /\ u.flushWaiters = s.flushWaiters
        /\ u.nextEditId = s.nextEditId
    BY <2>1 DEF SyncStates
  <2>8. draft = LatestDraft(u)
    BY <2>1 DEF LatestDraft, SyncStates, draft
  <2> HIDE DEF u
  <2>9. Consistent(u)
    <3>1. Numbered(u)
      <4>1. /\ s.acknowledgedGeneration \in Nat /\ s.localGeneration \in Nat
            /\ s.inFlight # Null => s.inFlight.localGeneration \in Nat
        BY <2>1 DEF SyncStates, Requests
      <4>2. QED
        BY <2>5, <2>7, <2>8, <4>1 DEF Sound, Consistent, Numbered
    <3>2. QED
      BY <2>1, <2>5, <2>6, <2>7, <3>1 DEF Sound, Consistent, Held, WaitersOpen
  <2>10. Sound(t) /\ Dispatched(u, t)
    BY <2>9, DispatchSound
  <2> HIDE DEF t
  <2>11. t \in SyncStates
    BY <2>10 DEF Sound, Consistent
  <2>12. Advances(s, t)
    <3>1. RegisterMoves(s, t)
      BY <2>1, <2>7, <2>10, <2>11
         DEF Dispatched, RegisterMoves, Drafting, Outstanding, SyncStates
    <3>2. SendsNewest(s, t)
      BY <2>1, <2>7, <2>10, <2>11 DEF Dispatched, SendsNewest, Sends, SyncStates
    <3>3. QED
      BY <2>1, <2>7, <2>10, <3>1, <3>2 DEF Dispatched, Advances, SyncStates
  <2>13. SubmitComponents(s, mutation, changed) = t
    BY <1>2 DEF SubmitComponents, t, u, draft, merged
  <2>14. QED
    BY <2>10, <2>12, <2>13
<1>3. QED
  BY <1>1, <1>2

----------------------------------------------------------------------------
(* advanceAcknowledgedRevision, observeExternalChange, retry *)

\* The notice that survives a revision is a notice or nothing.
LEMMA NoticeTyped ==
    ASSUME NEW s \in SyncStates, NEW revision
    PROVE  NoticeNewerThan(s, revision) \in Snapshots \cup {Null}
BY DEF SyncStates, NoticeNewerThan

\* A newer host revision without a conflict lets the queue move on.
LEMMA AdvanceSound ==
    ASSUME NEW s, Sound(s), NEW revision \in Nat
    PROVE  LET t == AdvanceAcknowledgedRevision(s, revision)
           IN  Sound(t) /\ Advances(s, t)
<1> DEFINE u == [s EXCEPT !.acknowledgedRevision = revision,
                          !.externalChange       = NoticeNewerThan(s, revision)]
<1>1. CASE revision > s.acknowledgedRevision
  <2>1. s \in SyncStates
    BY DEF Sound, Consistent
  <2>2. u \in SyncStates
    BY <2>1, NoticeTyped DEF SyncStates
  <2>3. /\ u.localGeneration = s.localGeneration
        /\ u.acknowledgedGeneration = s.acknowledgedGeneration
        /\ u.componentRevisions = s.componentRevisions
        /\ u.localMutation = s.localMutation
        /\ u.inFlight = s.inFlight
        /\ u.pending = s.pending
        /\ u.error = s.error
        /\ u.flushWaiters = s.flushWaiters
        /\ u.nextEditId = s.nextEditId
    BY <2>1 DEF SyncStates
  <2>4. AdvanceAcknowledgedRevision(s, revision) = DispatchNext(u)
    BY <1>1 DEF AdvanceAcknowledgedRevision
  <2> HIDE DEF u
  <2>5. Consistent(u)
    BY <2>2, <2>3
       DEF Sound, Consistent, Numbered, Held, WaitersOpen, LatestDraft
  <2>6. QED
    BY <2>3, <2>4, <2>5, DispatchStays
<1>2. CASE ~(revision > s.acknowledgedRevision)
  BY <1>2, SameAdvances DEF AdvanceAcknowledgedRevision
<1>3. QED
  BY <1>1, <1>2

\* An external change blocks the queue and changes nothing else.
LEMMA ObserveSound ==
    ASSUME NEW s, Sound(s), NEW revision \in Nat, NEW hostSnapshot \in Mutations
    PROVE  LET t == ObserveExternalChange(s, revision, hostSnapshot)
           IN  Sound(t) /\ Advances(s, t)
<1> DEFINE notice == [revision |-> revision, hostSnapshot |-> hostSnapshot]
           t == [s EXCEPT !.externalChange = notice]
<1>1. CASE revision > s.acknowledgedRevision /\ s.localMutation # hostSnapshot
  <2>1. s \in SyncStates
    BY DEF Sound, Consistent
  <2>2. notice \in Snapshots /\ notice # Null
    BY NullAssumption DEF Snapshots
  <2>3. ObserveExternalChange(s, revision, hostSnapshot) = t
    BY <1>1 DEF ObserveExternalChange
  <2> HIDE DEF notice
  <2>4. t \in SyncStates
    BY <2>1, <2>2 DEF SyncStates
  <2>5. /\ t.localGeneration = s.localGeneration
        /\ t.acknowledgedGeneration = s.acknowledgedGeneration
        /\ t.componentRevisions = s.componentRevisions
        /\ t.localMutation = s.localMutation
        /\ t.inFlight = s.inFlight
        /\ t.pending = s.pending
        /\ t.error = s.error
        /\ t.externalChange = notice
        /\ t.flushWaiters = s.flushWaiters
        /\ t.nextEditId = s.nextEditId
    BY <2>1 DEF SyncStates
  <2> HIDE DEF t
  <2>6. Sound(t)
    BY <2>2, <2>4, <2>5
       DEF Sound, Consistent, Numbered, Held, WaitersOpen, Awake, LatestDraft
  <2>7. Advances(s, t)
    BY <2>1, <2>5
       DEF Advances, RegisterMoves, StaysPut, Outstanding, SendsNewest, Sends, SyncStates
  <2>8. QED
    BY <2>3, <2>6, <2>7
<1>2. CASE ~(revision > s.acknowledgedRevision /\ s.localMutation # hostSnapshot)
  BY <1>2, AdvanceSound DEF ObserveExternalChange
<1>3. QED
  BY <1>1, <1>2

\* Retrying lifts the error and the conflict, and dispatches.
LEMMA RetrySound ==
    ASSUME NEW s, Sound(s), NEW revision \in Nat \cup {Null}
    PROVE  Sound(Retry(s, revision)) /\ Advances(s, Retry(s, revision))
<1> DEFINE base == IF revision = Null THEN s.acknowledgedRevision ELSE revision
           u == [s EXCEPT !.acknowledgedRevision = base,
                          !.error          = Null,
                          !.conflict       = Null,
                          !.externalChange = Null]
<1>1. CASE s.error # Null
  <2>1. s \in SyncStates
    BY DEF Sound, Consistent
  <2>2. base \in Nat
    BY <2>1 DEF SyncStates
  <2>3. Retry(s, revision) = DispatchNext(u)
    BY <1>1, <2>1 DEF Retry, SyncStates
  <2> HIDE DEF base
  <2>4. u \in SyncStates
    BY <2>1, <2>2 DEF SyncStates
  <2>5. /\ u.localGeneration = s.localGeneration
        /\ u.acknowledgedGeneration = s.acknowledgedGeneration
        /\ u.componentRevisions = s.componentRevisions
        /\ u.localMutation = s.localMutation
        /\ u.inFlight = s.inFlight
        /\ u.pending = s.pending
        /\ u.error = Null
        /\ u.flushWaiters = s.flushWaiters
        /\ u.nextEditId = s.nextEditId
    BY <2>1 DEF SyncStates
  <2> HIDE DEF u
  <2>6. Consistent(u)
    BY <2>4, <2>5
       DEF Sound, Consistent, Numbered, Held, WaitersOpen, LatestDraft
  <2>7. QED
    BY <2>3, <2>5, <2>6, DispatchStays
<1>2. CASE s.error = Null
  BY <1>2, SameAdvances DEF Retry
<1>3. QED
  BY <1>1, <1>2

----------------------------------------------------------------------------
(* acknowledge *)

\* An acknowledgement confirms exactly the draft that was in flight.
LEMMA AcknowledgeSound ==
    ASSUME NEW s, Sound(s), NEW message, message.revision \in Nat
    PROVE  Sound(Acknowledge(s, message)) /\ Advances(s, Acknowledge(s, message))
<1> DEFINE confirmed == Larger(s.acknowledgedGeneration, s.inFlight.localGeneration)
           v == [s EXCEPT !.acknowledgedRevision   = message.revision,
                          !.acknowledgedGeneration = confirmed,
                          !.inFlight       = Null,
                          !.error          = Null,
                          !.conflict       = Null,
                          !.externalChange = NoticeNewerThan(s, message.revision)]
           u == SettleFlushWaiters(v)
           t == DispatchNext(u)
<1>1. CASE Acknowledges(s, message)
  <2>1. s \in SyncStates /\ s.inFlight # Null /\ s.inFlight \in Requests
    BY <1>1 DEF Sound, Consistent, Acknowledges, MatchesInFlight, SyncStates
  <2>2. /\ s.acknowledgedGeneration \in Nat /\ s.localGeneration \in Nat
        /\ s.inFlight.localGeneration \in Nat
    BY <2>1 DEF SyncStates, Requests
  <2>3. confirmed = s.inFlight.localGeneration /\ confirmed \in Nat
    BY <2>1, <2>2 DEF Sound, Consistent, Numbered, Larger
  <2>4. Acknowledge(s, message) = t
    BY <1>1 DEF Acknowledge
  <2> HIDE DEF confirmed
  <2>5. v \in SyncStates
    BY <2>1, <2>3, NoticeTyped DEF SyncStates
  <2>6. /\ v.localGeneration = s.localGeneration
        /\ v.acknowledgedGeneration = confirmed
        /\ v.componentRevisions = s.componentRevisions
        /\ v.localMutation = s.localMutation
        /\ v.inFlight = Null
        /\ v.pending = s.pending
        /\ v.error = Null
        /\ v.flushWaiters = s.flushWaiters
        /\ v.nextEditId = s.nextEditId
    BY <2>1 DEF SyncStates
  <2> HIDE DEF v
  <2>7. u \in SyncStates
    BY <2>5 DEF SettleFlushWaiters, SyncStates
  <2>8. /\ u.localGeneration = s.localGeneration
        /\ u.acknowledgedGeneration = confirmed
        /\ u.componentRevisions = s.componentRevisions
        /\ u.localMutation = s.localMutation
        /\ u.inFlight = Null
        /\ u.pending = s.pending
        /\ u.error = Null
        /\ u.flushWaiters = {w \in s.flushWaiters : w.generation > confirmed}
        /\ u.nextEditId = s.nextEditId
    BY <2>5, <2>6 DEF SettleFlushWaiters, SyncStates
  <2> HIDE DEF u
  <2>9. Numbered(u) /\ Held(u)
    BY <2>1, <2>2, <2>3, <2>8
       DEF Sound, Consistent, Numbered, Held, LatestDraft
  <2>10. WaitersOpen(u)
    BY <2>1, <2>3, <2>8 DEF WaitersOpen, SyncStates, Waiters
  <2>11. Consistent(u)
    BY <2>7, <2>9, <2>10 DEF Consistent
  <2>12. Sound(t) /\ Dispatched(u, t)
    BY <2>11, DispatchSound
  <2> HIDE DEF t
  <2>13. t \in SyncStates
    BY <2>12 DEF Sound, Consistent
  <2>14. RegisterMoves(s, t)
    <3>1. Outstanding(s) = confirmed /\ Outstanding(s) # 0
      BY <2>1, <2>2, <2>3 DEF Sound, Consistent, Numbered, Outstanding
    <3>2. t.localGeneration = s.localGeneration /\ t.acknowledgedGeneration = confirmed
      BY <2>8, <2>12 DEF Dispatched
    <3>3. \/ Outstanding(t) = 0
          \/ confirmed < s.localGeneration /\ Outstanding(t) = s.localGeneration
      BY <2>8, <2>12 DEF Dispatched, Outstanding
    <3>4. QED
      BY <3>1, <3>2, <3>3 DEF RegisterMoves, Confirming
  <2>15. SendsNewest(s, t)
    BY <2>1, <2>8, <2>12, <2>13 DEF Dispatched, SendsNewest, Sends, SyncStates
  <2>16. t.acknowledgedGeneration >= s.acknowledgedGeneration
    BY <2>1, <2>2, <2>3, <2>8, <2>12
       DEF Dispatched, Sound, Consistent, Numbered
  <2>17. t.flushWaiters \subseteq s.flushWaiters
    BY <2>8, <2>12 DEF Dispatched
  <2>18. QED
    BY <2>4, <2>12, <2>14, <2>15, <2>16, <2>17 DEF Advances
<1>2. CASE ~Acknowledges(s, message)
  BY <1>2, SameAdvances DEF Acknowledge
<1>3. QED
  BY <1>1, <1>2

----------------------------------------------------------------------------
(* reject *)

\* A rejection queues the newest draft again, releases every waiter and
\* never loses the error that explains why the queue stands still.
LEMMA RejectSound ==
    ASSUME NEW s, Sound(s), NEW message,
           message.revision \in Nat, message.code \in ErrorCodes,
           message.hostSnapshot \in Mutations \cup {Null}
    PROVE  Sound(Reject(s, message)) /\ Advances(s, Reject(s, message))
<1> DEFINE queued == IF s.pending = Null /\ s.localMutation # Null
                     THEN LatestDraft(s) ELSE s.pending
           failure == [localGeneration |-> s.inFlight.localGeneration,
                       code            |-> message.code]
           conflict == IF IsConflict(message)
                       THEN [hostRevision |-> message.revision,
                             hostSnapshot |-> message.hostSnapshot]
                       ELSE Null
           notice == IF IsConflict(message)
                     THEN [revision     |-> message.revision,
                           hostSnapshot |-> message.hostSnapshot]
                     ELSE s.externalChange
           v == [s EXCEPT !.inFlight = Null, !.pending = queued,
                          !.error = failure, !.conflict = conflict,
                          !.externalChange = notice]
           t == RejectFlushWaiters(v)
<1>1. CASE MatchesInFlight(s, message)
  <2>1. s \in SyncStates /\ s.inFlight # Null /\ s.inFlight \in Requests
    BY <1>1 DEF Sound, Consistent, MatchesInFlight, SyncStates
  <2>2. /\ s.acknowledgedGeneration \in Nat /\ s.localGeneration \in Nat
        /\ s.inFlight.localGeneration \in Nat
    BY <2>1 DEF SyncStates, Requests
  <2>3. s.acknowledgedGeneration < s.localGeneration /\ s.localMutation # Null
    BY <2>1, <2>2 DEF Sound, Consistent, Numbered
  <2>4. queued = LatestDraft(s)
    BY <2>3 DEF Sound, Consistent, Numbered
  <2>5. LatestDraft(s) \in Drafts
    BY <2>1, <2>3 DEF LatestDraft, Drafts, SyncStates
  <2>6. queued # Null
    BY <2>4, <2>5, NullAssumption
  <2>7. failure \in Errors /\ failure # Null
    BY <2>2, NullAssumption DEF Errors
  <2>8. conflict \in Conflicts \cup {Null}
    BY DEF IsConflict, Conflicts
  <2>9. notice \in Snapshots \cup {Null}
    BY <2>1 DEF IsConflict, Snapshots, SyncStates
  <2>10. Reject(s, message) = t
    BY <1>1 DEF Reject
  <2> HIDE DEF queued, failure, conflict, notice
  <2>11. v \in SyncStates
    BY <2>1, <2>4, <2>5, <2>7, <2>8, <2>9 DEF SyncStates
  <2>12. /\ v.localGeneration = s.localGeneration
         /\ v.acknowledgedGeneration = s.acknowledgedGeneration
         /\ v.componentRevisions = s.componentRevisions
         /\ v.localMutation = s.localMutation
         /\ v.inFlight = Null
         /\ v.pending = queued
         /\ v.error = failure
         /\ v.nextEditId = s.nextEditId
    BY <2>1 DEF SyncStates
  <2> HIDE DEF v
  <2>13. t \in SyncStates
    BY <2>11 DEF RejectFlushWaiters, SyncStates
  <2>14. /\ t.localGeneration = s.localGeneration
         /\ t.acknowledgedGeneration = s.acknowledgedGeneration
         /\ t.componentRevisions = s.componentRevisions
         /\ t.localMutation = s.localMutation
         /\ t.inFlight = Null
         /\ t.pending = queued
         /\ t.error = failure
         /\ t.flushWaiters = {}
         /\ t.nextEditId = s.nextEditId
    BY <2>11, <2>12 DEF RejectFlushWaiters, SyncStates
  <2> HIDE DEF t
  <2>15. Sound(t)
    BY <2>3, <2>4, <2>6, <2>7, <2>13, <2>14
       DEF Sound, Consistent, Numbered, Held, WaitersOpen, Awake, LatestDraft
  <2>16. RegisterMoves(s, t)
    <3>1. Outstanding(s) # 0
      BY <2>1, <2>2 DEF Sound, Consistent, Numbered, Outstanding
    <3>2. QED
      BY <2>14, <3>1 DEF RegisterMoves, Failing, Outstanding
  <2>17. QED
    BY <2>1, <2>2, <2>10, <2>14, <2>15, <2>16
       DEF Advances, SendsNewest, Sends, SyncStates
<1>2. CASE ~MatchesInFlight(s, message)
  BY <1>2, SameAdvances DEF Reject
<1>3. QED
  BY <1>1, <1>2

----------------------------------------------------------------------------
(* keepLocal and adoptReplacement: the user's decisions *)

\* "Keep mine" renumbers the draft and sends it, whatever was in flight.
LEMMA KeepLocalSound ==
    ASSUME NEW s, Sound(s), NEW revision \in Nat
    PROVE  /\ Sound(KeepLocal(s, revision))
           /\ Advances(s, KeepLocal(s, revision))
           /\ KeepLocal(s, revision).error = Null
<1> DEFINE generation == IF s.localMutation = Null
                         THEN s.localGeneration
                         ELSE s.localGeneration + 1
           rebased == [s EXCEPT !.acknowledgedRevision = revision,
                                !.localGeneration      = generation,
                                !.inFlight             = Null,
                                !.error                = Null,
                                !.conflict             = Null,
                                !.externalChange       = Null]
           queued == IF s.localMutation = Null THEN Null ELSE LatestDraft(rebased)
           u == [rebased EXCEPT !.pending = queued]
           t == DispatchNext(u)
<1>1. s \in SyncStates
  BY DEF Sound, Consistent
<1>2. generation \in Nat
  BY <1>1 DEF SyncStates
<1>3. KeepLocal(s, revision) = t
  BY DEF KeepLocal
<1> HIDE DEF generation
<1>4. rebased \in SyncStates
  BY <1>1, <1>2 DEF SyncStates
<1>5. /\ rebased.localGeneration = generation
      /\ rebased.acknowledgedGeneration = s.acknowledgedGeneration
      /\ rebased.componentRevisions = s.componentRevisions
      /\ rebased.localMutation = s.localMutation
      /\ rebased.inFlight = Null
      /\ rebased.error = Null
      /\ rebased.externalChange = Null
      /\ rebased.flushWaiters = s.flushWaiters
      /\ rebased.nextEditId = s.nextEditId
  BY <1>1 DEF SyncStates
<1> HIDE DEF rebased
<1>6. queued \in Drafts \cup {Null} /\ (s.localMutation # Null => queued # Null)
  <2>1. s.localMutation # Null => LatestDraft(rebased) \in Drafts
    BY <1>4, <1>5 DEF LatestDraft, Drafts, SyncStates
  <2>2. QED
    BY <2>1, NullAssumption
<1>7. queued # Null => s.localMutation # Null /\ queued = LatestDraft(rebased)
  OBVIOUS
<1> HIDE DEF queued
<1>8. u \in SyncStates
  BY <1>4, <1>6 DEF SyncStates
<1>9. /\ u.localGeneration = generation
      /\ u.acknowledgedGeneration = s.acknowledgedGeneration
      /\ u.componentRevisions = s.componentRevisions
      /\ u.localMutation = s.localMutation
      /\ u.inFlight = Null
      /\ u.pending = queued
      /\ u.error = Null
      /\ u.externalChange = Null
      /\ u.flushWaiters = s.flushWaiters
      /\ u.nextEditId = s.nextEditId
  BY <1>4, <1>5 DEF SyncStates
<1> HIDE DEF u
<1>10. s.acknowledgedGeneration \in Nat /\ s.localGeneration \in Nat
  BY <1>1 DEF SyncStates
<1>11. Consistent(u)
  <2>1. s.acknowledgedGeneration <= s.localGeneration
    BY DEF Sound, Consistent, Numbered
  <2>2. CASE s.localMutation = Null
    <3>1. generation = s.localGeneration /\ generation = 0
      BY <2>2 DEF generation, Sound, Consistent, Numbered
    <3>2. queued = Null
      BY <1>7, <2>2
    <3>3. QED
      BY <1>8, <1>9, <1>10, <2>1, <3>1, <3>2
         DEF Sound, Consistent, Numbered, Held, WaitersOpen
  <2>3. CASE s.localMutation # Null
    <3>1. generation = s.localGeneration + 1
      BY <2>3 DEF generation
    <3>2. queued = LatestDraft(u)
      BY <1>5, <1>6, <1>7, <1>9, <2>3 DEF LatestDraft
    <3>3. QED
      BY <1>6, <1>8, <1>9, <1>10, <2>1, <2>3, <3>1, <3>2
         DEF Sound, Consistent, Numbered, Held, WaitersOpen
  <2>4. QED
    BY <2>2, <2>3
<1>12. Sound(t) /\ Dispatched(u, t)
  BY <1>11, DispatchSound
<1>13. CASE s.localMutation # Null
  <2>1. t.inFlight # Null /\ t.inFlight.localGeneration = u.localGeneration
        /\ t.inFlight.mutation = u.localMutation
    <3>1. CanDispatch(u)
      BY <1>6, <1>9, <1>13 DEF CanDispatch
    <3>2. t # u
      <4>1. t.pending = Null /\ u.pending # Null
        BY <1>8, <3>1 DEF DispatchNext, CanDispatch, SyncStates
      <4>2. QED
        BY <4>1
    <3>3. t.localMutation = u.localMutation
      BY <1>8, <3>1 DEF DispatchNext, SyncStates
    <3>4. QED
      BY <1>12, <3>2, <3>3 DEF Dispatched
  <2>2. generation = s.localGeneration + 1
    BY <1>13 DEF generation
  <2> HIDE DEF t
  <2>3. RegisterMoves(s, t)
    BY <1>9, <1>12, <2>1, <2>2 DEF Dispatched, RegisterMoves, Insisting, Outstanding
  <2>4. QED
    BY <1>3, <1>8, <1>9, <1>10, <1>12, <2>1, <2>3
       DEF Dispatched, Advances, SendsNewest
<1>14. CASE s.localMutation = Null
  <2>1. s.inFlight = Null /\ generation = s.localGeneration
    <3>1. s.localGeneration = 0
      BY <1>14 DEF Sound, Consistent, Numbered
    <3>2. s.inFlight # Null => s.inFlight.localGeneration \in Nat
      BY <1>1 DEF SyncStates, Requests
    <3>3. QED
      BY <1>10, <1>14, <3>1, <3>2 DEF generation, Sound, Consistent, Numbered
  <2> HIDE DEF t
  <2>2. t.error = Null
    BY <1>9, <1>12 DEF Dispatched
  <2>3. QED
    BY <1>3, <1>9, <1>11, <1>12, <2>1, <2>2, DispatchStays DEF t
<1>15. QED
  BY <1>13, <1>14

\* A replacement settles everything that was open.
LEMMA AdoptSound ==
    ASSUME NEW s, Sound(s), NEW revision \in Nat, NEW mutation \in Mutations,
           NEW recaptured
    PROVE  LET t == AdoptReplacement(s, revision, mutation, recaptured)
           IN  Sound(t) /\ Advances(s, t)
<1> DEFINE changed == Differing(s, mutation)
                        \cup (IF recaptured THEN {"content"} ELSE {})
           revisions == IF s.localMutation = Null
                        THEN [c \in Components |-> 0]
                        ELSE BumpedRevisions(s, changed)
           v == [s EXCEPT !.acknowledgedRevision   = revision,
                          !.acknowledgedGeneration = s.localGeneration,
                          !.componentRevisions     = revisions,
                          !.localMutation  = mutation,
                          !.inFlight       = Null,
                          !.pending        = Null,
                          !.error          = Null,
                          !.conflict       = Null,
                          !.externalChange = Null]
           t == SettleFlushWaiters(v)
<1>1. s \in SyncStates
  BY DEF Sound, Consistent
<1>2. revisions \in [Components -> Nat]
  BY <1>1 DEF SyncStates, BumpedRevisions
<1>3. AdoptReplacement(s, revision, mutation, recaptured) = t
  BY DEF AdoptReplacement
<1> HIDE DEF revisions
<1>4. v \in SyncStates
  BY <1>1, <1>2 DEF SyncStates
<1>5. /\ v.localGeneration = s.localGeneration
      /\ v.acknowledgedGeneration = s.localGeneration
      /\ v.localMutation = mutation
      /\ v.inFlight = Null
      /\ v.pending = Null
      /\ v.error = Null
      /\ v.flushWaiters = s.flushWaiters
      /\ v.nextEditId = s.nextEditId
  BY <1>1 DEF SyncStates
<1> HIDE DEF v
<1>6. t \in SyncStates
  BY <1>4 DEF SettleFlushWaiters, SyncStates
<1>7. /\ t.localGeneration = s.localGeneration
      /\ t.acknowledgedGeneration = s.localGeneration
      /\ t.localMutation = mutation
      /\ t.inFlight = Null
      /\ t.pending = Null
      /\ t.error = Null
      /\ t.flushWaiters = {w \in s.flushWaiters : w.generation > s.localGeneration}
      /\ t.nextEditId = s.nextEditId
  BY <1>4, <1>5 DEF SettleFlushWaiters, SyncStates
<1> HIDE DEF t
<1>8. mutation # Null
  BY NullAssumption
<1>9. s.acknowledgedGeneration <= s.localGeneration
      /\ s.acknowledgedGeneration \in Nat /\ s.localGeneration \in Nat
  BY <1>1 DEF Sound, Consistent, Numbered, SyncStates
<1>10. Sound(t)
  <2>1. WaitersOpen(t)
    BY <1>1, <1>7 DEF WaitersOpen, SyncStates, Waiters
  <2>2. QED
    BY <1>6, <1>7, <1>8, <1>9, <2>1 DEF Sound, Consistent, Numbered, Held, Awake
<1>11. Advances(s, t)
  BY <1>1, <1>7, <1>9
     DEF Advances, RegisterMoves, Replacing, Outstanding, SendsNewest, Sends, SyncStates
<1>12. QED
  BY <1>3, <1>10, <1>11

----------------------------------------------------------------------------
(* What a method sends, and what it does to component revisions *)

\* What s holds, as it would travel: the newest revisions and values.
IsLatest(r, s) ==
    /\ s.localMutation # Null
    /\ r.componentRevisions = s.componentRevisions
    /\ r.mutation = s.localMutation

\* A component keeps its revision only with its value, and none goes back.
Follows(s, t) ==
    s.localMutation # Null =>
        /\ t.localMutation # Null
        /\ \A c \in Components :
              /\ t.componentRevisions[c] >= s.componentRevisions[c]
              /\ t.componentRevisions[c] = s.componentRevisions[c]
                    => t.localMutation[c] = s.localMutation[c]

\* The request in flight stays or ends, or is a new one: under the next number,
\* on the revision the coordinator is at, with what the editor holds now.
Travels(s, t) ==
    \/ /\ t.nextEditId = s.nextEditId
       /\ t.inFlight = s.inFlight \/ t.inFlight = Null
    \/ /\ t.nextEditId = s.nextEditId + 1
       /\ t.inFlight # Null
       /\ t.inFlight.editId = s.nextEditId
       /\ t.inFlight.baseRevision = t.acknowledgedRevision
       /\ IsLatest(t.inFlight, t)

Keeps(s, t) == Follows(s, t) /\ Travels(s, t)

\* A request of the past: where its revision is still current, so is its value.
Past(r, s) ==
    r # Null =>
        /\ s.localMutation # Null
        /\ \A c \in Components :
              /\ r.componentRevisions[c] <= s.componentRevisions[c]
              /\ r.componentRevisions[c] = s.componentRevisions[c]
                    => r.mutation[c] = s.localMutation[c]

\* A queued draft is what the editor holds.
Fresh(u) == u.pending # Null => IsLatest(u.pending, u)

\* Sound states queue what the editor holds.
LEMMA SoundFresh ==
    ASSUME NEW s, Sound(s)
    PROVE  Fresh(s)
<1>1. s \in SyncStates
  BY DEF Sound, Consistent
<1>2. s.pending # Null => s.localMutation # Null
  BY <1>1 DEF Sound, Consistent, Numbered, SyncStates
<1>3. QED
  BY <1>2 DEF Sound, Consistent, Numbered, LatestDraft, Fresh, IsLatest

\* A step that touches neither revisions nor values, and starts no request.
LEMMA SameKeeps ==
    ASSUME NEW s \in SyncStates, NEW t,
           t.componentRevisions = s.componentRevisions,
           t.localMutation = s.localMutation,
           t.inFlight = s.inFlight \/ t.inFlight = Null,
           t.nextEditId = s.nextEditId
    PROVE  Keeps(s, t)
<1>1. \A c \in Components : s.componentRevisions[c] \in Nat
  BY DEF SyncStates
<1>2. QED
  BY <1>1 DEF Keeps, Follows, Travels

\* dispatchNext sends the queued draft, which is what the editor holds.
LEMMA DispatchKeeps ==
    ASSUME NEW s, NEW u \in SyncStates, Fresh(u),
           Follows(s, u),
           u.inFlight = s.inFlight \/ u.inFlight = Null,
           u.nextEditId = s.nextEditId
    PROVE  Keeps(s, DispatchNext(u))
<1> DEFINE t == DispatchNext(u)
<1>1. CASE CanDispatch(u)
  <2> DEFINE request == [editId             |-> u.nextEditId,
                         baseRevision       |-> u.acknowledgedRevision,
                         localGeneration    |-> u.pending.localGeneration,
                         componentRevisions |-> u.pending.componentRevisions,
                         mutation           |-> u.pending.mutation]
  <2>1. t = [u EXCEPT !.inFlight = request, !.pending = Null,
                      !.nextEditId = u.nextEditId + 1]
    BY <1>1 DEF DispatchNext
  <2>2. IsLatest(u.pending, u)
    BY <1>1 DEF CanDispatch, Fresh
  <2>R. request # Null
    <3>1. request \in Requests
      BY <1>1 DEF CanDispatch, SyncStates, Drafts, Requests
    <3>2. QED
      BY <3>1, NullAssumption
  <2>3. /\ request.componentRevisions = u.componentRevisions
        /\ request.mutation = u.localMutation
        /\ request.editId = u.nextEditId
        /\ request.baseRevision = u.acknowledgedRevision
        /\ request # Null
    BY <2>2, <2>R DEF IsLatest
  <2> HIDE DEF request
  <2>4. /\ t.inFlight = request
        /\ t.nextEditId = u.nextEditId + 1
        /\ t.acknowledgedRevision = u.acknowledgedRevision
        /\ t.componentRevisions = u.componentRevisions
        /\ t.localMutation = u.localMutation
    BY <2>1 DEF SyncStates
  <2> HIDE DEF t
  <2>5. QED
    BY <2>2, <2>3, <2>4 DEF Keeps, Follows, Travels, IsLatest, t
<1>2. CASE ~CanDispatch(u)
  BY <1>2 DEF DispatchNext, Keeps, Travels
<1>3. QED
  BY <1>1, <1>2

\* The same for a method that only clears what stood in the queue's way.
LEMMA ClearedKeeps ==
    ASSUME NEW s, Sound(s), NEW u \in SyncStates,
           u.componentRevisions = s.componentRevisions,
           u.localMutation = s.localMutation,
           u.pending = s.pending,
           u.inFlight = s.inFlight \/ u.inFlight = Null,
           u.nextEditId = s.nextEditId
    PROVE  Keeps(s, DispatchNext(u))
<1>1. s \in SyncStates
  BY DEF Sound, Consistent
<1>2. Fresh(u)
  BY SoundFresh DEF Fresh, IsLatest
<1>3. Follows(s, u)
  BY <1>1, SameKeeps DEF Keeps
<1>4. QED
  BY <1>2, <1>3, DispatchKeeps

----------------------------------------------------------------------------
(* The methods *)

\* A changed component gets the next revision, any other keeps its value.
LEMMA SubmitKeeps ==
    ASSUME NEW s, Sound(s), NEW mutation \in Mutations, NEW changed
    PROVE  Keeps(s, SubmitComponents(s, mutation, changed))
<1> DEFINE next == [c \in Components |->
                      IF c \in changed \/ s.localMutation = Null
                      THEN mutation[c] ELSE s.localMutation[c]]
           draft == [localGeneration    |-> s.localGeneration + 1,
                     componentRevisions |-> BumpedRevisions(s, changed),
                     mutation           |-> next]
           u == [s EXCEPT !.localGeneration    = draft.localGeneration,
                          !.componentRevisions = draft.componentRevisions,
                          !.localMutation      = draft.mutation,
                          !.pending            = draft]
<1>1. s \in SyncStates
  BY DEF Sound, Consistent
<1>2. CASE changed = {}
  BY <1>1, <1>2, SameKeeps DEF SubmitComponents
<1>3. CASE changed # {}
  <2>1. SubmitComponents(s, mutation, changed) = DispatchNext(u)
    BY <1>3 DEF SubmitComponents
  <2>2. next \in Mutations
    BY <1>1 DEF SyncStates, Mutations, Components
  <2>3. BumpedRevisions(s, changed) \in [Components -> Nat]
    BY <1>1 DEF SyncStates, BumpedRevisions
  <2>4. \A c \in Components :
           /\ s.componentRevisions[c] \in Nat
           /\ BumpedRevisions(s, changed)[c] =
                 s.componentRevisions[c] + (IF c \in changed THEN 1 ELSE 0)
           /\ c \notin changed /\ s.localMutation # Null => next[c] = s.localMutation[c]
    BY <1>1 DEF BumpedRevisions, SyncStates
  <2>5. s.localGeneration + 1 \in Nat
    BY <1>1 DEF SyncStates
  <2> HIDE DEF next
  <2>6. draft \in Drafts /\ draft # Null /\ next # Null
    BY <2>2, <2>3, <2>5, NullAssumption DEF Drafts
  <2>7. /\ draft.localGeneration = s.localGeneration + 1
        /\ draft.componentRevisions = BumpedRevisions(s, changed)
        /\ draft.mutation = next
    OBVIOUS
  <2> HIDE DEF draft
  <2>8. u \in SyncStates
    BY <1>1, <2>2, <2>3, <2>5, <2>6, <2>7 DEF SyncStates
  <2>9. /\ u.componentRevisions = BumpedRevisions(s, changed)
        /\ u.localMutation = next
        /\ u.pending = draft
        /\ u.inFlight = s.inFlight
        /\ u.nextEditId = s.nextEditId
    BY <1>1, <2>7 DEF SyncStates
  <2> HIDE DEF u
  <2>10. Fresh(u)
    BY <2>6, <2>7, <2>9 DEF Fresh, IsLatest
  <2>11. Follows(s, u)
    BY <2>4, <2>6, <2>9 DEF Follows
  <2>12. QED
    BY <2>1, <2>8, <2>9, <2>10, <2>11, DispatchKeeps
<1>4. QED
  BY <1>2, <1>3

\* Retrying lifts the error and the conflict.
LEMMA RetryKeeps ==
    ASSUME NEW s, Sound(s), NEW revision \in Nat \cup {Null}
    PROVE  Keeps(s, Retry(s, revision))
<1> DEFINE base == IF revision = Null THEN s.acknowledgedRevision ELSE revision
           u == [s EXCEPT !.acknowledgedRevision = base,
                          !.error          = Null,
                          !.conflict       = Null,
                          !.externalChange = Null]
<1>1. s \in SyncStates
  BY DEF Sound, Consistent
<1>2. CASE s.error # Null
  <2>1. base \in Nat
    BY <1>1 DEF SyncStates
  <2>2. Retry(s, revision) = DispatchNext(u)
    BY <1>1, <1>2 DEF Retry, SyncStates
  <2> HIDE DEF base
  <2>3. /\ u \in SyncStates
        /\ u.componentRevisions = s.componentRevisions
        /\ u.localMutation = s.localMutation
        /\ u.pending = s.pending
        /\ u.inFlight = s.inFlight
        /\ u.nextEditId = s.nextEditId
    BY <1>1, <2>1 DEF SyncStates
  <2> HIDE DEF u
  <2>4. QED
    BY <2>2, <2>3, ClearedKeeps
<1>3. CASE s.error = Null
  BY <1>1, <1>3, SameKeeps DEF Retry
<1>4. QED
  BY <1>2, <1>3

\* An advancing revision clears an older notice.
LEMMA AdvanceKeeps ==
    ASSUME NEW s, Sound(s), NEW revision \in Nat
    PROVE  Keeps(s, AdvanceAcknowledgedRevision(s, revision))
<1> DEFINE notice == NoticeNewerThan(s, revision)
           u == [s EXCEPT !.acknowledgedRevision = revision,
                          !.externalChange       = notice]
<1>1. s \in SyncStates
  BY DEF Sound, Consistent
<1>2. CASE revision > s.acknowledgedRevision
  <2>1. notice \in Snapshots \cup {Null}
    BY <1>1 DEF NoticeNewerThan, SyncStates
  <2>2. AdvanceAcknowledgedRevision(s, revision) = DispatchNext(u)
    BY <1>2 DEF AdvanceAcknowledgedRevision
  <2> HIDE DEF notice
  <2>3. /\ u \in SyncStates
        /\ u.componentRevisions = s.componentRevisions
        /\ u.localMutation = s.localMutation
        /\ u.pending = s.pending
        /\ u.inFlight = s.inFlight
        /\ u.nextEditId = s.nextEditId
    BY <1>1, <2>1 DEF SyncStates
  <2> HIDE DEF u
  <2>4. QED
    BY <2>2, <2>3, ClearedKeeps
<1>3. CASE ~(revision > s.acknowledgedRevision)
  BY <1>1, <1>3, SameKeeps DEF AdvanceAcknowledgedRevision
<1>4. QED
  BY <1>2, <1>3

\* A notice blocks the queue and changes nothing in it.
LEMMA ObserveKeeps ==
    ASSUME NEW s, Sound(s), NEW revision \in Nat, NEW hostSnapshot \in Mutations
    PROVE  Keeps(s, ObserveExternalChange(s, revision, hostSnapshot))
<1> DEFINE notice == [revision |-> revision, hostSnapshot |-> hostSnapshot]
           t == [s EXCEPT !.externalChange = notice]
<1>1. s \in SyncStates
  BY DEF Sound, Consistent
<1>2. CASE revision > s.acknowledgedRevision /\ s.localMutation # hostSnapshot
  <2>1. ObserveExternalChange(s, revision, hostSnapshot) = t
    BY <1>2 DEF ObserveExternalChange
  <2> HIDE DEF notice
  <2>2. /\ t.componentRevisions = s.componentRevisions
        /\ t.localMutation = s.localMutation
        /\ t.inFlight = s.inFlight
        /\ t.nextEditId = s.nextEditId
    BY <1>1 DEF SyncStates
  <2> HIDE DEF t
  <2>3. QED
    BY <1>1, <2>1, <2>2, SameKeeps
<1>3. CASE ~(revision > s.acknowledgedRevision /\ s.localMutation # hostSnapshot)
  BY <1>3, AdvanceKeeps DEF ObserveExternalChange
<1>4. QED
  BY <1>2, <1>3

\* An acknowledgement ends the request in flight and sends the next one.
LEMMA AcknowledgeKeeps ==
    ASSUME NEW s, Sound(s), NEW message, message.revision \in Nat
    PROVE  Keeps(s, Acknowledge(s, message))
<1> DEFINE confirmed == Larger(s.acknowledgedGeneration, s.inFlight.localGeneration)
           notice == NoticeNewerThan(s, message.revision)
           v == [s EXCEPT !.acknowledgedRevision   = message.revision,
                          !.acknowledgedGeneration = confirmed,
                          !.inFlight       = Null,
                          !.error          = Null,
                          !.conflict       = Null,
                          !.externalChange = notice]
           u == SettleFlushWaiters(v)
<1>1. s \in SyncStates
  BY DEF Sound, Consistent
<1>2. CASE Acknowledges(s, message)
  <2>1. Acknowledge(s, message) = DispatchNext(u)
    BY <1>2 DEF Acknowledge
  <2>2. confirmed \in Nat
    BY <1>1, <1>2 DEF SyncStates, Requests, Larger, Acknowledges, MatchesInFlight
  <2>3. notice \in Snapshots \cup {Null}
    BY <1>1 DEF NoticeNewerThan, SyncStates
  <2> HIDE DEF confirmed, notice
  <2>4. /\ v \in SyncStates
        /\ v.componentRevisions = s.componentRevisions
        /\ v.localMutation = s.localMutation
        /\ v.pending = s.pending
        /\ v.inFlight = Null
        /\ v.nextEditId = s.nextEditId
    BY <1>1, <2>2, <2>3 DEF SyncStates
  <2> HIDE DEF v
  <2>5. /\ u \in SyncStates
        /\ u.componentRevisions = v.componentRevisions
        /\ u.localMutation = v.localMutation
        /\ u.pending = v.pending
        /\ u.inFlight = v.inFlight
        /\ u.nextEditId = v.nextEditId
    BY <2>4 DEF SettleFlushWaiters, SyncStates
  <2> HIDE DEF u
  <2>6. QED
    BY <2>1, <2>4, <2>5, ClearedKeeps
<1>3. CASE ~Acknowledges(s, message)
  BY <1>1, <1>3, SameKeeps DEF Acknowledge
<1>4. QED
  BY <1>2, <1>3

\* A rejection puts the draft back and sends nothing.
LEMMA RejectKeeps ==
    ASSUME NEW s, Sound(s), NEW message
    PROVE  Keeps(s, Reject(s, message))
<1>1. s \in SyncStates
  BY DEF Sound, Consistent
<1>2. CASE MatchesInFlight(s, message)
  <2>1. /\ Reject(s, message).componentRevisions = s.componentRevisions
        /\ Reject(s, message).localMutation = s.localMutation
        /\ Reject(s, message).inFlight = Null
        /\ Reject(s, message).nextEditId = s.nextEditId
    BY <1>1, <1>2 DEF Reject, RejectFlushWaiters, SyncStates
  <2>2. QED
    BY <1>1, <2>1, SameKeeps
<1>3. CASE ~MatchesInFlight(s, message)
  BY <1>1, <1>3, SameKeeps DEF Reject
<1>4. QED
  BY <1>2, <1>3

\* "Keep mine" queues the draft again, under a generation of its own.
LEMMA KeepLocalKeeps ==
    ASSUME NEW s, Sound(s), NEW revision \in Nat
    PROVE  Keeps(s, KeepLocal(s, revision))
<1> DEFINE generation == IF s.localMutation = Null
                         THEN s.localGeneration
                         ELSE s.localGeneration + 1
           rebased == [s EXCEPT !.acknowledgedRevision = revision,
                                !.localGeneration      = generation,
                                !.inFlight             = Null,
                                !.error                = Null,
                                !.conflict             = Null,
                                !.externalChange       = Null]
           queued == IF s.localMutation = Null THEN Null ELSE LatestDraft(rebased)
           u == [rebased EXCEPT !.pending = queued]
<1>1. s \in SyncStates
  BY DEF Sound, Consistent
<1>2. generation \in Nat
  BY <1>1 DEF SyncStates
<1>3. KeepLocal(s, revision) = DispatchNext(u)
  BY DEF KeepLocal
<1> HIDE DEF generation
<1>4. /\ rebased \in SyncStates
      /\ rebased.componentRevisions = s.componentRevisions
      /\ rebased.localMutation = s.localMutation
      /\ rebased.inFlight = Null
      /\ rebased.nextEditId = s.nextEditId
  BY <1>1, <1>2 DEF SyncStates
<1> HIDE DEF rebased
<1>5. queued \in Drafts \cup {Null}
  BY <1>4 DEF LatestDraft, Drafts, SyncStates
<1>6. queued # Null => /\ s.localMutation # Null
                       /\ queued.componentRevisions = s.componentRevisions
                       /\ queued.mutation = s.localMutation
  BY <1>4 DEF LatestDraft
<1> HIDE DEF queued
<1>7. /\ u \in SyncStates
      /\ u.componentRevisions = s.componentRevisions
      /\ u.localMutation = s.localMutation
      /\ u.pending = queued
      /\ u.inFlight = Null
      /\ u.nextEditId = s.nextEditId
  BY <1>4, <1>5 DEF SyncStates
<1> HIDE DEF u
<1>8. Fresh(u)
  BY <1>6, <1>7 DEF Fresh, IsLatest
<1>9. Follows(s, u)
  BY <1>1, <1>7, SameKeeps DEF Keeps
<1>10. QED
  BY <1>3, <1>7, <1>8, <1>9, DispatchKeeps

\* A replacement gives every component it changes the next revision.
LEMMA AdoptKeeps ==
    ASSUME NEW s, Sound(s), NEW revision \in Nat, NEW mutation \in Mutations,
           NEW recaptured \in BOOLEAN
    PROVE  Keeps(s, AdoptReplacement(s, revision, mutation, recaptured))
<1> DEFINE changed == Differing(s, mutation)
                        \cup (IF recaptured THEN {"content"} ELSE {})
           t == AdoptReplacement(s, revision, mutation, recaptured)
<1>1. s \in SyncStates
  BY DEF Sound, Consistent
<1>2. /\ t.inFlight = Null
      /\ t.nextEditId = s.nextEditId
      /\ t.localMutation = mutation
      /\ s.localMutation # Null =>
            t.componentRevisions = BumpedRevisions(s, changed)
  BY <1>1 DEF AdoptReplacement, SettleFlushWaiters, SyncStates
<1> HIDE DEF t
<1>3. mutation # Null
  BY NullAssumption
<1>4. \A c \in Components :
         /\ s.componentRevisions[c] \in Nat
         /\ BumpedRevisions(s, changed)[c] =
               s.componentRevisions[c] + (IF c \in changed THEN 1 ELSE 0)
         /\ c \notin changed /\ s.localMutation # Null => mutation[c] = s.localMutation[c]
  BY <1>1 DEF BumpedRevisions, Differing, SyncStates
<1> HIDE DEF changed
<1>5. Follows(s, t)
  BY <1>2, <1>3, <1>4 DEF Follows
<1>6. QED
  BY <1>2, <1>5 DEF Keeps, Travels, t

\* A barrier leaves at most a waiter behind.
LEMMA FlushKeeps ==
    ASSUME NEW s, NEW asked, Sound(asked), Keeps(s, asked), NEW flush, NEW generation
    PROVE  Keeps(s, FlushThrough(asked, flush, generation))
<1> DEFINE t == FlushThrough(asked, flush, generation)
<1>1. asked \in SyncStates
  BY DEF Sound, Consistent
<1>2. /\ t.componentRevisions = asked.componentRevisions
      /\ t.localMutation = asked.localMutation
      /\ t.inFlight = asked.inFlight
      /\ t.nextEditId = asked.nextEditId
      /\ t.acknowledgedRevision = asked.acknowledgedRevision
  BY <1>1 DEF FlushThrough, SyncStates
<1> HIDE DEF t
<1>3. QED
  BY <1>2 DEF Keeps, Follows, Travels, IsLatest, t

\* A request of the past stays one.
LEMMA PastFollows ==
    ASSUME NEW s \in SyncStates, NEW t \in SyncStates, NEW r \in Requests \cup {Null},
           Past(r, s), Follows(s, t)
    PROVE  Past(r, t)
<1>1. \A c \in Components :
         /\ s.componentRevisions[c] \in Nat
         /\ t.componentRevisions[c] \in Nat
         /\ r # Null => r.componentRevisions[c] \in Nat
  BY DEF SyncStates, Requests
<1>2. QED
  BY <1>1 DEF Past, Follows

----------------------------------------------------------------------------
(* What a method has heard of, and what it confirms *)

\* No revision the coordinator holds is newer than n.
Within(s, n) ==
    /\ s.acknowledgedRevision <= n
    /\ s.externalChange # Null => s.externalChange.revision <= n

\* The step learned of no revision newer than n and confirmed no draft.
Learns(s, t, n) ==
    /\ Within(t, n)
    /\ t.acknowledgedGeneration = s.acknowledgedGeneration

\* dispatchNext learns nothing.
LEMMA DispatchLearns ==
    ASSUME NEW u \in SyncStates
    PROVE  LET t == DispatchNext(u)
           IN  /\ t.acknowledgedRevision = u.acknowledgedRevision
               /\ t.externalChange = u.externalChange
               /\ t.acknowledgedGeneration = u.acknowledgedGeneration
<1> DEFINE request == [editId             |-> u.nextEditId,
                       baseRevision       |-> u.acknowledgedRevision,
                       localGeneration    |-> u.pending.localGeneration,
                       componentRevisions |-> u.pending.componentRevisions,
                       mutation           |-> u.pending.mutation]
           t == [u EXCEPT !.inFlight = request, !.pending = Null,
                          !.nextEditId = u.nextEditId + 1]
<1>1. CanDispatch(u) => DispatchNext(u) = t
  BY DEF DispatchNext
<1>2. ~CanDispatch(u) => DispatchNext(u) = u
  BY DEF DispatchNext
<1> HIDE DEF request
<1>3. /\ t.acknowledgedRevision = u.acknowledgedRevision
      /\ t.externalChange = u.externalChange
      /\ t.acknowledgedGeneration = u.acknowledgedGeneration
  BY DEF SyncStates
<1> HIDE DEF t
<1>4. QED
  BY <1>1, <1>2, <1>3

\* The notice that survives is the one that was there.
LEMMA NoticeWithin ==
    ASSUME NEW s, NEW n, Within(s, n), NEW revision
    PROVE  LET notice == NoticeNewerThan(s, revision)
           IN  notice # Null => notice.revision <= n
BY DEF NoticeNewerThan, Within

\* A draft is no news of the host.
LEMMA SubmitLearns ==
    ASSUME NEW s, Sound(s), NEW n, Within(s, n), NEW mutation \in Mutations, NEW changed
    PROVE  Learns(s, SubmitComponents(s, mutation, changed), n)
<1> DEFINE next == [c \in Components |->
                      IF c \in changed \/ s.localMutation = Null
                      THEN mutation[c] ELSE s.localMutation[c]]
           draft == [localGeneration    |-> s.localGeneration + 1,
                     componentRevisions |-> BumpedRevisions(s, changed),
                     mutation           |-> next]
           u == [s EXCEPT !.localGeneration    = draft.localGeneration,
                          !.componentRevisions = draft.componentRevisions,
                          !.localMutation      = draft.mutation,
                          !.pending            = draft]
<1>1. s \in SyncStates
  BY DEF Sound, Consistent
<1>2. CASE changed = {}
  BY <1>2 DEF SubmitComponents, Learns
<1>3. CASE changed # {}
  <2>1. SubmitComponents(s, mutation, changed) = DispatchNext(u)
    BY <1>3 DEF SubmitComponents
  <2>2. next \in Mutations
    BY <1>1 DEF SyncStates, Mutations, Components
  <2>3. BumpedRevisions(s, changed) \in [Components -> Nat]
    BY <1>1 DEF SyncStates, BumpedRevisions
  <2>4. s.localGeneration + 1 \in Nat
    BY <1>1 DEF SyncStates
  <2> HIDE DEF next
  <2>5. draft \in Drafts
    BY <2>2, <2>3, <2>4 DEF Drafts
  <2>6. /\ draft.localGeneration = s.localGeneration + 1
        /\ draft.componentRevisions = BumpedRevisions(s, changed)
        /\ draft.mutation = next
    OBVIOUS
  <2> HIDE DEF draft
  <2>7. /\ u \in SyncStates
        /\ u.acknowledgedRevision = s.acknowledgedRevision
        /\ u.externalChange = s.externalChange
        /\ u.acknowledgedGeneration = s.acknowledgedGeneration
    BY <1>1, <2>2, <2>3, <2>4, <2>5, <2>6 DEF SyncStates
  <2> HIDE DEF u
  <2>8. QED
    BY <2>1, <2>7, DispatchLearns DEF Learns, Within
<1>4. QED
  BY <1>2, <1>3

\* A retry on the known revision forgets the notice.
LEMMA RetryLearns ==
    ASSUME NEW s, Sound(s), NEW n, Within(s, n)
    PROVE  Learns(s, Retry(s, Null), n)
<1> DEFINE u == [s EXCEPT !.acknowledgedRevision = s.acknowledgedRevision,
                          !.error          = Null,
                          !.conflict       = Null,
                          !.externalChange = Null]
<1>1. s \in SyncStates
  BY DEF Sound, Consistent
<1>2. CASE s.error # Null
  <2>1. Retry(s, Null) = DispatchNext(u)
    BY <1>1, <1>2 DEF Retry, SyncStates
  <2>2. /\ u \in SyncStates
        /\ u.acknowledgedRevision = s.acknowledgedRevision
        /\ u.externalChange = Null
        /\ u.acknowledgedGeneration = s.acknowledgedGeneration
    BY <1>1 DEF SyncStates
  <2> HIDE DEF u
  <2>3. QED
    BY <2>1, <2>2, DispatchLearns DEF Learns, Within
<1>3. CASE s.error = Null
  BY <1>3 DEF Retry, Learns
<1>4. QED
  BY <1>2, <1>3

\* An advancing revision is learned, and the notice may stay.
LEMMA AdvanceLearns ==
    ASSUME NEW s, Sound(s), NEW n, Within(s, n), NEW revision \in Nat, revision <= n
    PROVE  Learns(s, AdvanceAcknowledgedRevision(s, revision), n)
<1> DEFINE notice == NoticeNewerThan(s, revision)
           u == [s EXCEPT !.acknowledgedRevision = revision,
                          !.externalChange       = notice]
<1>1. s \in SyncStates
  BY DEF Sound, Consistent
<1>2. CASE revision > s.acknowledgedRevision
  <2>1. AdvanceAcknowledgedRevision(s, revision) = DispatchNext(u)
    BY <1>2 DEF AdvanceAcknowledgedRevision
  <2>2. notice # Null => notice.revision <= n
    BY NoticeWithin
  <2>3. notice \in Snapshots \cup {Null}
    BY <1>1, NoticeTyped
  <2> HIDE DEF notice
  <2>4. /\ u \in SyncStates
        /\ u.acknowledgedRevision = revision
        /\ u.externalChange = notice
        /\ u.acknowledgedGeneration = s.acknowledgedGeneration
    BY <1>1, <2>3 DEF SyncStates
  <2> HIDE DEF u
  <2>5. QED
    BY <2>1, <2>2, <2>4, DispatchLearns DEF Learns, Within
<1>3. CASE ~(revision > s.acknowledgedRevision)
  BY <1>3 DEF AdvanceAcknowledgedRevision, Learns
<1>4. QED
  BY <1>2, <1>3

\* A notice carries the revision it was sent for.
LEMMA ObserveLearns ==
    ASSUME NEW s, Sound(s), NEW n, Within(s, n), NEW revision \in Nat, revision <= n,
           NEW hostSnapshot \in Mutations
    PROVE  Learns(s, ObserveExternalChange(s, revision, hostSnapshot), n)
<1> DEFINE notice == [revision |-> revision, hostSnapshot |-> hostSnapshot]
           t == [s EXCEPT !.externalChange = notice]
<1>1. s \in SyncStates
  BY DEF Sound, Consistent
<1>2. CASE revision > s.acknowledgedRevision /\ s.localMutation # hostSnapshot
  <2>1. ObserveExternalChange(s, revision, hostSnapshot) = t
    BY <1>2 DEF ObserveExternalChange
  <2>2. notice.revision = revision
    OBVIOUS
  <2> HIDE DEF notice
  <2>3. /\ t.acknowledgedRevision = s.acknowledgedRevision
        /\ t.externalChange = notice
        /\ t.acknowledgedGeneration = s.acknowledgedGeneration
    BY <1>1 DEF SyncStates
  <2> HIDE DEF t
  <2>4. QED
    BY <2>1, <2>2, <2>3 DEF Learns, Within
<1>3. CASE ~(revision > s.acknowledgedRevision /\ s.localMutation # hostSnapshot)
  BY <1>3, AdvanceLearns DEF ObserveExternalChange
<1>4. QED
  BY <1>2, <1>3

\* A rejection names the revision the host is at.
LEMMA RejectLearns ==
    ASSUME NEW s, Sound(s), NEW n, Within(s, n), NEW message, message.revision <= n
    PROVE  Learns(s, Reject(s, message), n)
<1> DEFINE notice == IF IsConflict(message)
                     THEN [revision     |-> message.revision,
                           hostSnapshot |-> message.hostSnapshot]
                     ELSE s.externalChange
           t == Reject(s, message)
<1>1. s \in SyncStates
  BY DEF Sound, Consistent
<1>2. CASE MatchesInFlight(s, message)
  <2>1. /\ t.acknowledgedRevision = s.acknowledgedRevision
        /\ t.externalChange = notice
        /\ t.acknowledgedGeneration = s.acknowledgedGeneration
    BY <1>1, <1>2 DEF Reject, RejectFlushWaiters, SyncStates
  <2>2. notice # Null => notice.revision <= n
    BY DEF Within
  <2> HIDE DEF t, notice
  <2>3. QED
    BY <2>1, <2>2 DEF Learns, Within, t
<1>3. CASE ~MatchesInFlight(s, message)
  BY <1>3 DEF Reject, Learns
<1>4. QED
  BY <1>2, <1>3

\* "Keep mine" moves to the revision the user was shown.
LEMMA KeepLocalLearns ==
    ASSUME NEW s, Sound(s), NEW n, NEW revision \in Nat, revision <= n
    PROVE  Learns(s, KeepLocal(s, revision), n)
<1> DEFINE generation == IF s.localMutation = Null
                         THEN s.localGeneration
                         ELSE s.localGeneration + 1
           rebased == [s EXCEPT !.acknowledgedRevision = revision,
                                !.localGeneration      = generation,
                                !.inFlight             = Null,
                                !.error                = Null,
                                !.conflict             = Null,
                                !.externalChange       = Null]
           queued == IF s.localMutation = Null THEN Null ELSE LatestDraft(rebased)
           u == [rebased EXCEPT !.pending = queued]
<1>1. s \in SyncStates
  BY DEF Sound, Consistent
<1>2. generation \in Nat
  BY <1>1 DEF SyncStates
<1>3. KeepLocal(s, revision) = DispatchNext(u)
  BY DEF KeepLocal
<1> HIDE DEF generation
<1>4. /\ rebased \in SyncStates
      /\ rebased.acknowledgedRevision = revision
      /\ rebased.externalChange = Null
      /\ rebased.acknowledgedGeneration = s.acknowledgedGeneration
      /\ rebased.localMutation = s.localMutation
  BY <1>1, <1>2 DEF SyncStates
<1> HIDE DEF rebased
<1>5. queued \in Drafts \cup {Null}
  BY <1>4 DEF LatestDraft, Drafts, SyncStates
<1> HIDE DEF queued
<1>6. /\ u \in SyncStates
      /\ u.acknowledgedRevision = revision
      /\ u.externalChange = Null
      /\ u.acknowledgedGeneration = s.acknowledgedGeneration
  BY <1>4, <1>5 DEF SyncStates
<1> HIDE DEF u
<1>7. QED
  BY <1>3, <1>6, DispatchLearns DEF Learns, Within

\* An acknowledgement confirms the request in flight, at the host's revision.
LEMMA AcknowledgeLearns ==
    ASSUME NEW s, Sound(s), NEW n, Within(s, n), NEW message,
           message.revision \in Nat, message.revision <= n
    PROVE  LET t == Acknowledge(s, message)
           IN  /\ Within(t, n)
               /\ IF Acknowledges(s, message)
                  THEN t.acknowledgedGeneration = s.inFlight.localGeneration
                  ELSE t = s
<1> DEFINE confirmed == Larger(s.acknowledgedGeneration, s.inFlight.localGeneration)
           notice == NoticeNewerThan(s, message.revision)
           v == [s EXCEPT !.acknowledgedRevision   = message.revision,
                          !.acknowledgedGeneration = confirmed,
                          !.inFlight       = Null,
                          !.error          = Null,
                          !.conflict       = Null,
                          !.externalChange = notice]
           u == SettleFlushWaiters(v)
<1>1. s \in SyncStates
  BY DEF Sound, Consistent
<1>2. CASE Acknowledges(s, message)
  <2>1. Acknowledge(s, message) = DispatchNext(u)
    BY <1>2 DEF Acknowledge
  <2>2. confirmed = s.inFlight.localGeneration /\ confirmed \in Nat
    BY <1>1, <1>2 DEF SyncStates, Requests, Larger, Acknowledges, MatchesInFlight,
                      Sound, Consistent, Numbered
  <2>3. notice \in Snapshots \cup {Null}
    BY <1>1, NoticeTyped
  <2>4. notice # Null => notice.revision <= n
    BY NoticeWithin
  <2> HIDE DEF confirmed, notice
  <2>5. /\ v \in SyncStates
        /\ v.acknowledgedRevision = message.revision
        /\ v.externalChange = notice
        /\ v.acknowledgedGeneration = confirmed
    BY <1>1, <2>2, <2>3 DEF SyncStates
  <2> HIDE DEF v
  <2>6. /\ u \in SyncStates
        /\ u.acknowledgedRevision = message.revision
        /\ u.externalChange = notice
        /\ u.acknowledgedGeneration = confirmed
    BY <2>5 DEF SettleFlushWaiters, SyncStates
  <2> HIDE DEF u
  <2>7. QED
    BY <1>2, <2>1, <2>2, <2>4, <2>6, DispatchLearns DEF Within
<1>3. CASE ~Acknowledges(s, message)
  BY <1>3 DEF Acknowledge
<1>4. QED
  BY <1>2, <1>3

\* A replacement confirms every draft there was.
LEMMA AdoptLearns ==
    ASSUME NEW s, Sound(s), NEW n, NEW revision \in Nat, revision <= n,
           NEW mutation, NEW recaptured
    PROVE  LET t == AdoptReplacement(s, revision, mutation, recaptured)
           IN  /\ Within(t, n)
               /\ t.acknowledgedGeneration = s.localGeneration
<1> DEFINE t == AdoptReplacement(s, revision, mutation, recaptured)
<1>1. /\ t.acknowledgedRevision = revision
      /\ t.externalChange = Null
      /\ t.acknowledgedGeneration = s.localGeneration
  BY DEF AdoptReplacement, SettleFlushWaiters, Sound, Consistent, SyncStates
<1> HIDE DEF t
<1>2. QED
  BY <1>1 DEF Within, t

\* A barrier at the newest draft: a waiter joins, or nothing changes.
LEMMA FlushSound ==
    ASSUME NEW s, Sound(s), NEW flush \in Nat
    PROVE  LET t == FlushThrough(s, flush, s.localGeneration)
           IN  /\ Sound(t)
               /\ t.localGeneration = s.localGeneration
               /\ t.acknowledgedGeneration = s.acknowledgedGeneration
               /\ t.acknowledgedRevision = s.acknowledgedRevision
               /\ t.externalChange = s.externalChange
               /\ t.flushWaiters \subseteq s.flushWaiters \cup
                     {[flush |-> flush, generation |-> s.localGeneration]}
<1> DEFINE g == s.localGeneration
           waiter == [flush |-> flush, generation |-> g]
           answered == FlushResolves(s, g) \/ FlushRejects(s, g)
           t == [s EXCEPT !.flushWaiters = @ \cup {waiter}]
<1>1. s \in SyncStates
  BY DEF Sound, Consistent
<1>2. CASE answered
  BY <1>2 DEF FlushThrough
<1>3. CASE ~answered
  <2>1. waiter \in Waiters /\ waiter.generation = g
    BY <1>1 DEF Waiters, SyncStates
  <2>2. s.acknowledgedGeneration < g /\ s.error = Null
    BY <1>1, <1>3 DEF FlushResolves, FlushRejects, SyncStates
  <2>3. FlushThrough(s, flush, g) = t
    BY <1>3 DEF FlushThrough
  <2> HIDE DEF waiter
  <2>4. /\ t \in SyncStates
        /\ t.flushWaiters = s.flushWaiters \cup {waiter}
        /\ t.localGeneration = g
        /\ t.acknowledgedGeneration = s.acknowledgedGeneration
        /\ t.acknowledgedRevision = s.acknowledgedRevision
        /\ t.localMutation = s.localMutation
        /\ t.componentRevisions = s.componentRevisions
        /\ t.inFlight = s.inFlight
        /\ t.pending = s.pending
        /\ t.error = s.error
        /\ t.externalChange = s.externalChange
    BY <1>1, <2>1 DEF SyncStates
  <2> HIDE DEF t
  <2>5. WaitersOpen(t)
    BY <2>1, <2>2, <2>4 DEF Sound, Consistent, WaitersOpen
  <2>6. Sound(t)
    BY <2>4, <2>5 DEF Sound, Consistent, Numbered, Held, Awake, LatestDraft
  <2>7. QED
    BY <2>3, <2>4, <2>6 DEF waiter
<1>4. QED
  BY <1>2, <1>3

----------------------------------------------------------------------------
(* A submit followed by a retry, as a flush makes them *)

\* dispatchNext sends only where no error stands in the way.
LEMMA DispatchOpen ==
    ASSUME NEW u \in SyncStates
    PROVE  LET t == DispatchNext(u)
           IN  t.nextEditId # u.nextEditId => t.error = Null
<1> DEFINE request == [editId             |-> u.nextEditId,
                       baseRevision       |-> u.acknowledgedRevision,
                       localGeneration    |-> u.pending.localGeneration,
                       componentRevisions |-> u.pending.componentRevisions,
                       mutation           |-> u.pending.mutation]
           t == [u EXCEPT !.inFlight = request, !.pending = Null,
                          !.nextEditId = u.nextEditId + 1]
<1>1. CanDispatch(u) => DispatchNext(u) = t
  BY DEF DispatchNext
<1>2. ~CanDispatch(u) => DispatchNext(u) = u
  BY DEF DispatchNext
<1> HIDE DEF request
<1>3. t.error = u.error
  BY DEF SyncStates
<1> HIDE DEF t
<1>4. CanDispatch(u) => u.error = Null
  BY DEF CanDispatch
<1>5. QED
  BY <1>1, <1>2, <1>3, <1>4

\* A submit that sends leaves no error to retry.
LEMMA SubmitOpen ==
    ASSUME NEW s, Sound(s), NEW mutation \in Mutations, NEW changed
    PROVE  LET t == SubmitComponents(s, mutation, changed)
           IN  t.nextEditId # s.nextEditId => t.error = Null
<1> DEFINE next == [c \in Components |->
                      IF c \in changed \/ s.localMutation = Null
                      THEN mutation[c] ELSE s.localMutation[c]]
           draft == [localGeneration    |-> s.localGeneration + 1,
                     componentRevisions |-> BumpedRevisions(s, changed),
                     mutation           |-> next]
           u == [s EXCEPT !.localGeneration    = draft.localGeneration,
                          !.componentRevisions = draft.componentRevisions,
                          !.localMutation      = draft.mutation,
                          !.pending            = draft]
<1>1. s \in SyncStates
  BY DEF Sound, Consistent
<1>2. CASE changed = {}
  BY <1>2 DEF SubmitComponents
<1>3. CASE changed # {}
  <2>1. SubmitComponents(s, mutation, changed) = DispatchNext(u)
    BY <1>3 DEF SubmitComponents
  <2>2. next \in Mutations
    BY <1>1 DEF SyncStates, Mutations, Components
  <2>3. BumpedRevisions(s, changed) \in [Components -> Nat]
    BY <1>1 DEF SyncStates, BumpedRevisions
  <2>4. s.localGeneration + 1 \in Nat
    BY <1>1 DEF SyncStates
  <2> HIDE DEF next
  <2>5. draft \in Drafts
    BY <2>2, <2>3, <2>4 DEF Drafts
  <2>6. /\ draft.localGeneration = s.localGeneration + 1
        /\ draft.componentRevisions = BumpedRevisions(s, changed)
        /\ draft.mutation = next
    OBVIOUS
  <2> HIDE DEF draft
  <2>7. u \in SyncStates /\ u.nextEditId = s.nextEditId
    BY <1>1, <2>2, <2>3, <2>4, <2>5, <2>6 DEF SyncStates
  <2> HIDE DEF u
  <2>8. QED
    BY <2>1, <2>7, DispatchOpen
<1>4. QED
  BY <1>2, <1>3

\* Two steps of which only the second may send.
LEMMA KeepsOn ==
    ASSUME NEW s \in SyncStates, NEW t \in SyncStates, NEW u \in SyncStates,
           Keeps(s, t), t.nextEditId = s.nextEditId, Keeps(t, u)
    PROVE  Keeps(s, u)
<1>1. /\ s.nextEditId \in Nat
      /\ \A c \in Components : /\ s.componentRevisions[c] \in Nat
                               /\ t.componentRevisions[c] \in Nat
                               /\ u.componentRevisions[c] \in Nat
  BY DEF SyncStates
<1>2. t.inFlight = s.inFlight \/ t.inFlight = Null
  BY <1>1 DEF Keeps, Travels
<1>3. Travels(s, u)
  BY <1>2 DEF Keeps, Travels
<1>4. Follows(s, u)
  BY <1>1 DEF Keeps, Follows
<1>5. QED
  BY <1>3, <1>4 DEF Keeps
----------------------------------------------------------------------------
(* One request at a time *)

\* Nothing new leaves while a request is out, and nothing is confirmed.
Patient(s, t) ==
    /\ t.acknowledgedGeneration = s.acknowledgedGeneration
    /\ IF t.nextEditId = s.nextEditId THEN t.inFlight = s.inFlight
                                      ELSE s.inFlight = Null

\* dispatchNext waits for the request in flight.
LEMMA DispatchPatient ==
    ASSUME NEW u \in SyncStates
    PROVE  Patient(u, DispatchNext(u))
<1> DEFINE request == [editId             |-> u.nextEditId,
                       baseRevision       |-> u.acknowledgedRevision,
                       localGeneration    |-> u.pending.localGeneration,
                       componentRevisions |-> u.pending.componentRevisions,
                       mutation           |-> u.pending.mutation]
           t == [u EXCEPT !.inFlight = request, !.pending = Null,
                          !.nextEditId = u.nextEditId + 1]
<1>1. CanDispatch(u) => DispatchNext(u) = t
  BY DEF DispatchNext
<1>2. ~CanDispatch(u) => DispatchNext(u) = u
  BY DEF DispatchNext
<1> HIDE DEF request
<1>3. /\ t.nextEditId = u.nextEditId + 1 /\ u.nextEditId \in Nat
      /\ t.acknowledgedGeneration = u.acknowledgedGeneration
  BY DEF SyncStates
<1>4. t.nextEditId # u.nextEditId
  BY <1>3
<1> HIDE DEF t
<1>5. CanDispatch(u) => u.inFlight = Null
  BY DEF CanDispatch
<1>6. QED
  BY <1>1, <1>2, <1>3, <1>4, <1>5 DEF Patient

\* A submitted draft waits its turn.
LEMMA SubmitPatient ==
    ASSUME NEW s, Sound(s), NEW mutation \in Mutations, NEW changed
    PROVE  Patient(s, SubmitComponents(s, mutation, changed))
<1> DEFINE next == [c \in Components |->
                      IF c \in changed \/ s.localMutation = Null
                      THEN mutation[c] ELSE s.localMutation[c]]
           draft == [localGeneration    |-> s.localGeneration + 1,
                     componentRevisions |-> BumpedRevisions(s, changed),
                     mutation           |-> next]
           u == [s EXCEPT !.localGeneration    = draft.localGeneration,
                          !.componentRevisions = draft.componentRevisions,
                          !.localMutation      = draft.mutation,
                          !.pending            = draft]
<1>1. s \in SyncStates
  BY DEF Sound, Consistent
<1>2. CASE changed = {}
  BY <1>2 DEF SubmitComponents, Patient
<1>3. CASE changed # {}
  <2>1. SubmitComponents(s, mutation, changed) = DispatchNext(u)
    BY <1>3 DEF SubmitComponents
  <2>2. next \in Mutations
    BY <1>1 DEF SyncStates, Mutations, Components
  <2>3. BumpedRevisions(s, changed) \in [Components -> Nat]
    BY <1>1 DEF SyncStates, BumpedRevisions
  <2>4. s.localGeneration + 1 \in Nat
    BY <1>1 DEF SyncStates
  <2> HIDE DEF next
  <2>5. draft \in Drafts
    BY <2>2, <2>3, <2>4 DEF Drafts
  <2>6. /\ draft.localGeneration = s.localGeneration + 1
        /\ draft.componentRevisions = BumpedRevisions(s, changed)
        /\ draft.mutation = next
    OBVIOUS
  <2> HIDE DEF draft
  <2>7. /\ u \in SyncStates /\ u.nextEditId = s.nextEditId /\ u.inFlight = s.inFlight
        /\ u.acknowledgedGeneration = s.acknowledgedGeneration
    BY <1>1, <2>2, <2>3, <2>4, <2>5, <2>6 DEF SyncStates
  <2> HIDE DEF u
  <2>8. QED
    BY <2>1, <2>7, DispatchPatient DEF Patient
<1>4. QED
  BY <1>2, <1>3

\* A retry sends what is there: it makes no draft.
LEMMA RetryPatient ==
    ASSUME NEW s, Sound(s)
    PROVE  /\ Patient(s, Retry(s, Null))
           /\ Retry(s, Null).localGeneration = s.localGeneration
<1> DEFINE u == [s EXCEPT !.acknowledgedRevision = s.acknowledgedRevision,
                          !.error          = Null,
                          !.conflict       = Null,
                          !.externalChange = Null]
<1>1. s \in SyncStates
  BY DEF Sound, Consistent
<1>2. CASE s.error # Null
  <2>1. Retry(s, Null) = DispatchNext(u)
    BY <1>1, <1>2 DEF Retry, SyncStates
  <2>2. /\ u \in SyncStates /\ u.nextEditId = s.nextEditId /\ u.inFlight = s.inFlight
        /\ u.acknowledgedGeneration = s.acknowledgedGeneration
        /\ u.localGeneration = s.localGeneration
    BY <1>1 DEF SyncStates
  <2>3. Consistent(u)
    BY <1>1, <2>2 DEF Sound, Consistent, Numbered, Held, WaitersOpen, SyncStates, LatestDraft
  <2> HIDE DEF u
  <2>4. DispatchNext(u).localGeneration = u.localGeneration
    BY <2>3, DispatchSound DEF Dispatched
  <2>5. QED
    BY <2>1, <2>2, <2>4, DispatchPatient DEF Patient
<1>3. CASE s.error = Null
  BY <1>3 DEF Retry, Patient
<1>4. QED
  BY <1>2, <1>3

\* A rejection ends the request in flight and sends nothing.
LEMMA RejectEnds ==
    ASSUME NEW s, Sound(s), NEW message
    PROVE  LET t == Reject(s, message)
           IN  IF MatchesInFlight(s, message)
               THEN /\ t.inFlight = Null /\ t.nextEditId = s.nextEditId
                    /\ t.acknowledgedGeneration = s.acknowledgedGeneration
               ELSE t = s
<1>1. s \in SyncStates
  BY DEF Sound, Consistent
<1>2. CASE MatchesInFlight(s, message)
  BY <1>1, <1>2 DEF Reject, RejectFlushWaiters, SyncStates
<1>3. CASE ~MatchesInFlight(s, message)
  BY <1>3 DEF Reject
<1>4. QED
  BY <1>2, <1>3

\* An acknowledgement ends the request in flight, confirms it, and may send the
\* next one.
LEMMA AcknowledgeEnds ==
    ASSUME NEW s, Sound(s), NEW message, message.revision \in Nat,
           Acknowledges(s, message)
    PROVE  LET t == Acknowledge(s, message)
           IN  /\ t.nextEditId = s.nextEditId => t.inFlight = Null
               /\ t.acknowledgedGeneration = s.inFlight.localGeneration
<1> DEFINE confirmed == Larger(s.acknowledgedGeneration, s.inFlight.localGeneration)
           notice == NoticeNewerThan(s, message.revision)
           v == [s EXCEPT !.acknowledgedRevision   = message.revision,
                          !.acknowledgedGeneration = confirmed,
                          !.inFlight       = Null,
                          !.error          = Null,
                          !.conflict       = Null,
                          !.externalChange = notice]
           u == SettleFlushWaiters(v)
<1>1. s \in SyncStates
  BY DEF Sound, Consistent
<1>2. Acknowledge(s, message) = DispatchNext(u)
  BY DEF Acknowledge
<1>3. confirmed = s.inFlight.localGeneration /\ confirmed \in Nat
  BY <1>1 DEF SyncStates, Requests, Larger, Acknowledges, MatchesInFlight,
              Sound, Consistent, Numbered
<1>4. notice \in Snapshots \cup {Null}
  BY <1>1, NoticeTyped
<1> HIDE DEF confirmed, notice
<1>5. /\ v \in SyncStates /\ v.nextEditId = s.nextEditId /\ v.inFlight = Null
      /\ v.acknowledgedGeneration = confirmed
  BY <1>1, <1>3, <1>4 DEF SyncStates
<1> HIDE DEF v
<1>6. /\ u \in SyncStates /\ u.nextEditId = s.nextEditId /\ u.inFlight = Null
      /\ u.acknowledgedGeneration = confirmed
  BY <1>5 DEF SettleFlushWaiters, SyncStates
<1> HIDE DEF u
<1>7. QED
  BY <1>2, <1>3, <1>6, DispatchPatient DEF Patient

----------------------------------------------------------------------------
(* Queues of messages *)

\* The messages of a queue.
In(q) == {q[n] : n \in DOMAIN q}

\* A posted message joins the others.
LEMMA InAppend ==
    ASSUME NEW S, NEW q \in Seq(S), NEW x \in S
    PROVE  /\ Append(q, x) \in Seq(S)
           /\ In(Append(q, x)) = In(q) \cup {x}
<1> DEFINE p == Append(q, x)
<1>1. /\ p \in Seq(S)
      /\ Len(p) = Len(q) + 1
      /\ \A i \in 1 .. Len(q) : p[i] = q[i]
      /\ p[Len(q) + 1] = x
  BY AppendProperties
<1> HIDE DEF p
<1>2. /\ Len(q) \in Nat
      /\ DOMAIN q = 1 .. Len(q)
      /\ DOMAIN p = 1 .. Len(q) + 1
  BY <1>1, LenProperties
<1>3. \A i \in 1 .. Len(q) + 1 : i = Len(q) + 1 \/ i \in 1 .. Len(q)
  BY <1>2
<1>4. 1 .. Len(q) \subseteq 1 .. Len(q) + 1 /\ Len(q) + 1 \in 1 .. Len(q) + 1
  BY <1>2
<1>5. QED
  BY <1>1, <1>2, <1>3, <1>4 DEF In, p

\* A message heard leaves the others where they are, one place further on.
LEMMA InTail ==
    ASSUME NEW S, NEW q \in Seq(S), q # <<>>
    PROVE  /\ Head(q) \in S
           /\ Head(q) \in In(q)
           /\ Head(q) = q[1] /\ 1 \in DOMAIN q
           /\ Tail(q) \in Seq(S)
           /\ In(Tail(q)) \subseteq In(q)
           /\ \A i \in DOMAIN Tail(q) : i + 1 \in DOMAIN q /\ Tail(q)[i] = q[i + 1]
           /\ \A i \in DOMAIN Tail(q) : i # 0 /\ i \in Nat
<1> DEFINE p == Tail(q)
<1>1. /\ Head(q) \in S
      /\ p \in Seq(S)
      /\ Len(p) = Len(q) - 1
      /\ \A i \in 1 .. Len(p) : p[i] = q[i + 1]
  BY HeadTailProperties
<1>2. Head(q) = q[1]
  OBVIOUS
<1> HIDE DEF p
<1>3. /\ Len(q) \in Nat \ {0}
      /\ DOMAIN q = 1 .. Len(q)
      /\ DOMAIN p = 1 .. Len(q) - 1
  BY <1>1, EmptySeq, LenProperties
<1>4. 1 \in DOMAIN q /\ \A i \in DOMAIN p : i + 1 \in DOMAIN q /\ i \in Nat /\ i # 0
  BY <1>3
<1>5. \A i \in DOMAIN p : p[i] = q[i + 1]
  BY <1>1, <1>3
<1>6. QED
  BY <1>1, <1>2, <1>4, <1>5 DEF In, p

\* What is posted last joins the queue.
LEMMA InConcat ==
    ASSUME NEW S, NEW q \in Seq(S), NEW r \in Seq(S)
    PROVE  /\ q \o r \in Seq(S)
           /\ In(q \o r) \subseteq In(q) \cup In(r)
<1> DEFINE p == q \o r
<1>1. /\ p \in Seq(S)
      /\ Len(p) = Len(q) + Len(r)
      /\ \A i \in 1 .. Len(q) + Len(r) :
            p[i] = IF i <= Len(q) THEN q[i] ELSE r[i - Len(q)]
  BY ConcatProperties
<1> HIDE DEF p
<1>2. /\ Len(q) \in Nat /\ Len(r) \in Nat
      /\ DOMAIN q = 1 .. Len(q)
      /\ DOMAIN r = 1 .. Len(r)
      /\ DOMAIN p = 1 .. Len(q) + Len(r)
  BY <1>1, LenProperties
<1>3. \A i \in 1 .. Len(q) + Len(r) :
         IF i <= Len(q) THEN i \in 1 .. Len(q) ELSE i - Len(q) \in 1 .. Len(r)
  BY <1>2
<1>4. QED
  BY <1>1, <1>2, <1>3 DEF In, p

\* What is in a queue has the type of its messages.
LEMMA InTyped ==
    ASSUME NEW S, NEW q \in Seq(S)
    PROVE  In(q) \subseteq S
BY LenProperties DEF In

\* Queues of none and of one message.
LEMMA InFew ==
    ASSUME NEW S
    PROVE  /\ <<>> \in Seq(S)
           /\ In(<<>>) = {}
           /\ \A x \in S : <<x>> \in Seq(S) /\ In(<<x>>) = {x}
<1>1. <<>> \in Seq(S) /\ DOMAIN <<>> = {}
  OBVIOUS
<1>2. ASSUME NEW x \in S
      PROVE  <<x>> \in Seq(S) /\ In(<<x>>) = {x}
  <2>1. <<x>> \in Seq(S) /\ DOMAIN <<x>> = {1} /\ <<x>>[1] = x
    OBVIOUS
  <2>2. QED
    BY <2>1 DEF In
<1>3. QED
  BY <1>1, <1>2 DEF In

----------------------------------------------------------------------------
(* The answers to flushes *)

\* A finite set of numbers has a k-th member, for every k up to its size: the
\* members are mapped to their places one to one, hence onto.
LEMMA EveryPlaceTaken ==
    ASSUME NEW n \in Nat, NEW S \in SUBSET (1 .. n), NEW k \in 1 .. Cardinality(S)
    PROVE  \E i \in S : Cardinality({j \in S : j <= i}) = k
<1> DEFINE upTo(i) == {j \in S : j <= i}
           c == Cardinality(S)
           place == [i \in S |-> Cardinality(upTo(i))]
<1>1. IsFiniteSet(1 .. n)
  BY FS_Interval
<1>2. IsFiniteSet(S) /\ c \in Nat
  BY <1>1, FS_Subset, FS_CardinalityType
<1>3. \A i \in S : IsFiniteSet(upTo(i)) /\ Cardinality(upTo(i)) \in Nat
                   /\ Cardinality(upTo(i)) <= c
  <2>1. \A i \in S : upTo(i) \in SUBSET S
    OBVIOUS
  <2> HIDE DEF upTo
  <2>2. QED
    BY <1>2, <2>1, FS_Subset, FS_CardinalityType
<1>4. \A i \in S : Cardinality(upTo(i)) # 0
  <2>1. \A i \in S : i \in upTo(i)
    OBVIOUS
  <2> HIDE DEF upTo
  <2>2. QED
    BY <1>3, <2>1, FS_EmptySet
<1>5. \A i, j \in S : i # j => Cardinality(upTo(i)) # Cardinality(upTo(j))
  <2>1. ASSUME NEW i \in S, NEW j \in S, i < j
        PROVE  Cardinality(upTo(i)) # Cardinality(upTo(j))
    <3>1. /\ \A m \in S : m <= i => m <= j
          /\ j <= j /\ ~(j <= i)
      <4>1. \A m \in S : m \in Nat
        OBVIOUS
      <4> QED
        BY <2>1, <4>1
    <3>2. upTo(i) \in SUBSET upTo(j) /\ j \in upTo(j) /\ j \notin upTo(i)
      BY <3>1
    <3> HIDE DEF upTo
    <3>3. QED
      BY <1>3, <3>2, FS_Subset
  <2>2. \A i, j \in S : i # j => i < j \/ j < i
    OBVIOUS
  <2> HIDE DEF upTo
  <2>3. QED
    BY <2>1, <2>2
<1>6. place \in Injection(S, 1 .. c)
  <2> HIDE DEF upTo
  <2>1. \A i \in S : Cardinality(upTo(i)) \in 1 .. c
    BY <1>2, <1>3, <1>4
  <2> HIDE DEF c
  <2>2. place \in [S -> 1 .. c] /\ \A i \in S : place[i] = Cardinality(upTo(i))
    BY <2>1
  <2> HIDE DEF place
  <2>3. QED
    BY <1>5, <2>2 DEF Injection, IsInjective
<1>7. IsFiniteSet(1 .. c) /\ Cardinality(1 .. c) = c
  BY <1>2, FS_Interval
<1>8. place \in Surjection(S, 1 .. c)
  BY <1>6, <1>7, FS_Injection
<1> HIDE DEF upTo
<1>9. PICK i \in S : place[i] = k
  BY <1>8 DEF Surjection
<1>10. QED
  BY <1>9 DEF upTo

\* The members in ascending order: as many as there are, each a member.
LEMMA AscendingTyped ==
    ASSUME NEW n \in Nat, NEW S \in SUBSET (1 .. n)
    PROVE  /\ Cardinality(S) \in Nat
           /\ DOMAIN Ascending(S) = 1 .. Cardinality(S)
           /\ \A k \in 1 .. Cardinality(S) : Ascending(S)[k] \in S
           /\ Ascending(S) \in Seq(S)
<1> DEFINE c == Cardinality(S)
           p == Ascending(S)
<1>1. c \in Nat
  <2>1. IsFiniteSet(1 .. n)
    BY FS_Interval
  <2>2. IsFiniteSet(S)
    BY <2>1, FS_Subset
  <2>3. QED
    BY <2>2, FS_CardinalityType
<1>2. p = [k \in 1 .. c |-> CHOOSE i \in S : Cardinality({j \in S : j <= i}) = k]
  BY DEF Ascending
<1>3. \A k \in 1 .. c : p[k] \in S
  <2>1. ASSUME NEW k \in 1 .. c
        PROVE  \E i \in S : Cardinality({j \in S : j <= i}) = k
    BY <2>1, EveryPlaceTaken
  <2> HIDE DEF p, c
  <2>2. QED
    BY <1>2, <2>1
<1>4. DOMAIN p = 1 .. c
  BY <1>2
<1> HIDE DEF c
<1>5. p \in [1 .. c -> S]
  <2>1. p = [k \in 1 .. c |-> p[k]]
    BY <1>2
  <2> HIDE DEF p
  <2>2. QED
    BY <1>3, <2>1
<1> HIDE DEF p
<1>6. p \in Seq(S)
  BY <1>1, <1>5, SeqDef
<1>7. QED
  BY <1>1, <1>3, <1>4, <1>6 DEF p, c

\* The answers to flushes numbered up to `last`.
FlushMessages(last) == [type : {"flushComplete", "flushFailed"}, flush : 1 .. last]

\* The flushes a step settled, each an answered waiter of the state before.
LEMMA AnswersTyped ==
    ASSUME NEW s, NEW t, NEW last \in Nat
    PROVE  /\ Answers(s, t, last) \in Seq(FlushMessages(last))
           /\ \A m \in In(Answers(s, t, last)) :
                 /\ m.type \in {"flushComplete", "flushFailed"}
                 /\ m.flush \in 1 .. last
                 /\ \E w \in s.flushWaiters : w.flush = m.flush
                 /\ ~\E w \in t.flushWaiters : w.flush = m.flush
                 /\ m.type = "flushComplete" =>
                       \E w \in s.flushWaiters :
                          /\ w.flush = m.flush
                          /\ w.generation <= t.acknowledgedGeneration
<1> DEFINE left == {i \in 1 .. last : /\ \E w \in s.flushWaiters : w.flush = i
                                      /\ ~\E w \in t.flushWaiters : w.flush = i}
           c == Cardinality(left)
           places == Left(s, t, last)
           answered(i) == \E w \in s.flushWaiters :
                             /\ w.flush = i
                             /\ w.generation <= t.acknowledgedGeneration
           answers == Answers(s, t, last)
<1>1. left \in SUBSET (1 .. last) /\ places = Ascending(left)
  BY DEF Left
<1> HIDE DEF left
<1>2. /\ c \in Nat
      /\ DOMAIN places = 1 .. c
      /\ \A k \in 1 .. c : places[k] \in left
  BY <1>1, AscendingTyped
<1> HIDE DEF places, c
<1>3. /\ DOMAIN answers = 1 .. c
      /\ \A k \in 1 .. c : answers[k] = FlushAnswer(places[k], answered(places[k]))
  BY <1>2 DEF Answers, places
<1>4. answers = [k \in 1 .. c |-> FlushAnswer(places[k], answered(places[k]))]
  BY <1>2 DEF Answers, places
<1>5. \A k \in 1 .. c :
         LET m == answers[k]
         IN  /\ m \in [type : {"flushComplete", "flushFailed"}, flush : 1 .. last]
             /\ m.flush = places[k]
             /\ m.type \in {"flushComplete", "flushFailed"}
             /\ m.type = "flushComplete" => answered(places[k])
  <2> HIDE DEF answers, answered
  <2>1. \A k \in 1 .. c : places[k] \in 1 .. last
    BY <1>1, <1>2
  <2>2. QED
    BY <1>3, <2>1 DEF FlushAnswer
<1>6. answers \in [1 .. c -> FlushMessages(last)]
  <2>1. \A k \in 1 .. c : answers[k] \in FlushMessages(last)
    BY <1>5 DEF FlushMessages
  <2> HIDE DEF answered
  <2>2. \A k \in 1 .. c : FlushAnswer(places[k], answered(places[k])) \in FlushMessages(last)
    BY <1>3, <2>1
  <2>3. QED
    BY <1>4, <2>2
<1>7. answers \in Seq(FlushMessages(last))
  BY <1>2, <1>6, SeqDef
<1>8. \A m \in In(answers) : \E k \in 1 .. c : m = answers[k]
  BY <1>3 DEF In
<1>9. QED
  BY <1>2, <1>5, <1>7, <1>8 DEF left

----------------------------------------------------------------------------
(* Induction *)

\* A set of numbers that is not empty has a least member.
LEMMA LeastNumber ==
    ASSUME NEW T \in SUBSET Nat, T # {}
    PROVE  \E n \in T : \A m \in T : n <= m
<1> DEFINE R == OpToRel(<, Nat)
<1>1. IsWellFoundedOn(R, Nat)
  BY NatLessThanWellFounded, Zenon
<1>2. \A m, n \in Nat : m < n => <<m, n>> \in R
  BY DEF OpToRel
<1> HIDE DEF R
<1>3. PICK n \in T : \A m \in T : ~(<<m, n>> \in R)
  BY <1>1, WFMin, Zenon
<1>4. \A m \in T : ~(m < n)
  BY <1>2, <1>3
<1>5. \A m \in T : n <= m
  BY <1>4
<1>6. QED
  BY <1>5

\* The steps that lead from the values of S to the next, one for each place.
StepFunctions(S, l) == [1 .. l -> [S -> S]]

\* The function g starts at b and takes its n-th value from the one before by F[n].
Iterates(g, S, b, l, F) ==
    /\ g \in [0 .. l -> S]
    /\ \A n \in 0 .. l : g[n] = IF n = 0 THEN b ELSE F[n][g[n - 1]]

LEMMA RecursiveFunction ==
    ASSUME NEW S, NEW b \in S, NEW l \in Nat, NEW F \in StepFunctions(S, l)
    PROVE  \E g : Iterates(g, S, b, l, F)
<1> USE DEF StepFunctions, Iterates
<1> DEFINE Good(k, g) == \A n \in 0 .. k : g[n] = IF n = 0 THEN b ELSE F[n][g[n - 1]]
           T == {k \in 0 .. l : ~\E g \in [0 .. k -> S] : Good(k, g)}
<1>1. SUFFICES ASSUME T # {} PROVE FALSE
  <2>1. l \in 0 .. l
    OBVIOUS
  <2> HIDE DEF Good
  <2>2. T = {} => \E g \in [0 .. l -> S] : Good(l, g)
    BY <2>1
  <2>3. QED
    BY <2>2 DEF Good
<1>2. PICK k \in T : \A m \in T : k <= m
  <2>1. T \in SUBSET Nat
    OBVIOUS
  <2> HIDE DEF T
  <2>2. QED
    BY <1>1, <2>1, LeastNumber
<1>3. k \in 0 .. l /\ ~\E g \in [0 .. k -> S] : Good(k, g)
  OBVIOUS
<1>4. CASE k = 0
  <2> DEFINE g == [n \in 0 .. 0 |-> b]
  <2>1. g \in [0 .. 0 -> S] /\ Good(0, g)
    OBVIOUS
  <2> HIDE DEF g, Good
  <2>2. QED
    BY <1>3, <1>4, <2>1
<1>5. CASE k # 0
  <2>1. k \in 1 .. l /\ k - 1 \in 0 .. l /\ ~(k <= k - 1) /\ k - 1 \in 0 .. k - 1
    BY <1>3, <1>5
  <2>2. k - 1 \notin T
    <3> HIDE DEF T
    <3>1. QED
      BY <1>2, <2>1
  <2>3. PICK h \in [0 .. k - 1 -> S] : Good(k - 1, h)
    <3> HIDE DEF Good
    <3>1. QED
      BY <2>1, <2>2
  <2> DEFINE g == [n \in 0 .. k |-> IF n = k THEN F[n][h[n - 1]] ELSE h[n]]
  <2>4. \A n \in 0 .. k : n = k \/ n \in 0 .. k - 1
    BY <2>1
  <2>5. g \in [0 .. k -> S]
    BY <2>1, <2>3, <2>4
  <2>6. \A n \in 0 .. k : g[n] = IF n = 0 THEN b ELSE F[n][g[n - 1]]
    <3> TAKE n \in 0 .. k
    <3>1. CASE n = k
      <4>1. g[n] = F[n][h[n - 1]] /\ n - 1 \in 0 .. k /\ n - 1 # k /\ n # 0
        BY <2>1, <3>1
      <4>2. QED
        BY <4>1
    <3>2. CASE n # k
      <4>1. g[n] = h[n] /\ n \in 0 .. k - 1
        BY <2>4, <3>2
      <4>2. n # 0 => n - 1 \in 0 .. k /\ n - 1 # k
        BY <4>1
      <4>3. QED
        BY <2>3, <4>1, <4>2
    <3>3. QED
      BY <3>1, <3>2
  <2>7. Good(k, g)
    BY <2>6
  <2> HIDE DEF g, Good
  <2>8. QED
    BY <1>3, <2>5, <2>7
<1>6. QED
  BY <1>4, <1>5
============================================================================
