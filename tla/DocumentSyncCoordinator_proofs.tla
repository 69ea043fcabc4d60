------------------ MODULE DocumentSyncCoordinator_proofs ------------------
(***************************************************************************)
(* For every set of contents, host and bound: the coordinator's invariant, *)
(* what it sends, that it implements DraftRegister, and that the revision  *)
(* of a component determines its value.                                    *)
(***************************************************************************)
EXTENDS DocumentSyncCoordinator, SyncOperations_proofs

----------------------------------------------------------------------------
(* The promises of the flush barriers *)

\* The barrier requested now is the only one that may join the waiters.
NoOldWaiterJoins(t) ==
    \A w \in t.flushWaiters : w \in sync.flushWaiters \/ w.flush \notin DOMAIN flushes

\* After a step to t every earlier barrier is where it should be: settled
\* honestly, or still waiting in the coordinator.
LEMMA SettledHonest ==
    ASSUME Inv, NEW t, t \in SyncStates, NoOldWaiterJoins(t),
           t.acknowledgedGeneration >= sync.acknowledgedGeneration
    PROVE  LET f == Settled(flushes, t)
           IN  /\ f \in Seq(Promises)
               /\ DOMAIN f = DOMAIN flushes
               /\ \A i \in DOMAIN f :
                    /\ f[i].generation = flushes[i].generation
                    /\ f[i].outcome = "resolved" =>
                          f[i].generation <= t.acknowledgedGeneration
                    /\ f[i].outcome = "waiting" =>
                          [flush |-> i, generation |-> f[i].generation]
                             \in t.flushWaiters
                    /\ (\E w \in t.flushWaiters : w.flush = i) =>
                          f[i].outcome = flushes[i].outcome
<1> DEFINE f == Settled(flushes, t)
<1>1. /\ flushes \in Seq(Promises)
      /\ sync \in SyncStates
      /\ sync.flushWaiters \subseteq Waiters
      /\ t.flushWaiters \subseteq Waiters
      /\ t.acknowledgedGeneration \in Nat
      /\ sync.acknowledgedGeneration \in Nat
  BY DEF Inv, TypeOK, SyncStates
<1>2. /\ Len(flushes) \in Nat
      /\ DOMAIN flushes = 1 .. Len(flushes)
      /\ \A i \in DOMAIN flushes : flushes[i] \in Promises
  BY <1>1
<1>3. DOMAIN f = DOMAIN flushes
  BY DEF Settled
<1>4. ASSUME NEW i \in DOMAIN flushes
      PROVE  /\ f[i] \in Promises
             /\ f[i].generation = flushes[i].generation
             /\ f[i].outcome = "resolved" =>
                   f[i].generation <= t.acknowledgedGeneration
             /\ f[i].outcome = "waiting" =>
                   [flush |-> i, generation |-> f[i].generation] \in t.flushWaiters
             /\ (\E w \in t.flushWaiters : w.flush = i) =>
                   f[i].outcome = flushes[i].outcome
  <2> DEFINE left == /\ flushes[i].outcome = "waiting"
                     /\ ~\E w \in t.flushWaiters : w.flush = i
  <2>1. flushes[i] \in Promises /\ flushes[i].generation \in Nat
    BY <1>2 DEF Promises
  <2>2. CASE left
    <3> DEFINE answer == IF flushes[i].generation <= t.acknowledgedGeneration
                         THEN "resolved" ELSE "rejected"
    <3>1. f[i] = [flushes[i] EXCEPT !.outcome = answer]
      BY <2>2 DEF Settled
    <3>2. f[i].generation = flushes[i].generation /\ f[i].outcome = answer
      BY <2>1, <3>1 DEF Promises
    <3>3. f[i] \in Promises
      BY <2>1, <3>1 DEF Promises
    <3> HIDE DEF f
    <3>4. QED
      BY <2>2, <3>2, <3>3
  <2>3. CASE ~left
    <3>1. f[i] = flushes[i]
      BY <2>3 DEF Settled
    <3> HIDE DEF f
    <3>2. flushes[i].outcome = "resolved" =>
             flushes[i].generation <= t.acknowledgedGeneration
      <4>1. flushes[i].outcome = "resolved" =>
               flushes[i].generation <= sync.acknowledgedGeneration
        BY DEF Inv, BarriersHonest
      <4>2. QED
        BY <1>1, <2>1, <4>1
    <3>3. ASSUME flushes[i].outcome = "waiting"
          PROVE  [flush |-> i, generation |-> flushes[i].generation]
                    \in t.flushWaiters
      <4>1. PICK w \in t.flushWaiters : w.flush = i
        BY <2>3, <3>3
      <4>2. w \in sync.flushWaiters
        BY <4>1 DEF NoOldWaiterJoins
      <4>3. w.generation = flushes[i].generation
        BY <4>1, <4>2 DEF Inv
      <4>4. w = [flush |-> w.flush, generation |-> w.generation]
        BY <1>1, <4>1 DEF Waiters
      <4>5. QED
        BY <4>1, <4>3, <4>4
    <3>4. QED
      BY <2>1, <3>1, <3>2, <3>3
  <2>4. QED
    BY <2>2, <2>3
<1> HIDE DEF f
<1>5. f \in [1 .. Len(flushes) -> Promises]
  <2>1. f = [i \in 1 .. Len(flushes) |-> f[i]]
    BY <1>2, <1>3 DEF f, Settled
  <2>2. QED
    BY <1>2, <1>4, <2>1
<1>6. f \in Seq(Promises)
  BY <1>2, <1>5, SeqDef
<1>7. QED
  BY <1>3, <1>4, <1>6 DEF f

----------------------------------------------------------------------------
(* Steps and barriers preserve the invariant *)

\* What Observe remembers is a request or nothing.
LEMMA ObservedTyped ==
    ASSUME Inv, NEW t, t \in SyncStates, Observe(t)
    PROVE  observed' \in Requests \cup {Null}
BY DEF Inv, TypeOK, Observe, SyncStates

\* A step to a sound state that numbers drafts and requests onward keeps the
\* invariant: the barriers that lose their waiter get an honest outcome.
LEMMA StepPreserves ==
    ASSUME Inv, NEW t, Sound(t), Advances(sync, t), Step(t)
    PROVE  Inv'
<1>1. /\ sync' = t /\ sync' \in SyncStates
      /\ flushes' = Settled(flushes, t)
      /\ observed' \in Requests \cup {Null}
  BY ObservedTyped DEF Step, Sound, Consistent
<1>2. /\ t.acknowledgedGeneration >= sync.acknowledgedGeneration
      /\ t.flushWaiters \subseteq sync.flushWaiters
      /\ NoOldWaiterJoins(t)
  BY DEF Advances, NoOldWaiterJoins
<1>3. /\ flushes' \in Seq(Promises)
      /\ DOMAIN flushes' = DOMAIN flushes
      /\ \A i \in DOMAIN flushes' :
            /\ flushes'[i].generation = flushes[i].generation
            /\ flushes'[i].outcome = "resolved" =>
                  flushes'[i].generation <= t.acknowledgedGeneration
            /\ flushes'[i].outcome = "waiting" =>
                  [flush |-> i, generation |-> flushes'[i].generation]
                     \in t.flushWaiters
            /\ (\E w \in t.flushWaiters : w.flush = i) =>
                  flushes'[i].outcome = flushes[i].outcome
  BY <1>1, <1>2, SettledHonest DEF Sound, Consistent
<1>4. \A w \in t.flushWaiters :
         /\ w.flush \in DOMAIN flushes'
         /\ flushes'[w.flush].outcome = "waiting"
         /\ flushes'[w.flush].generation = w.generation
  BY <1>2, <1>3 DEF Inv
<1>5. BarriersHonest'
  BY <1>1, <1>3 DEF BarriersHonest, Sound, Consistent, WaitersOpen
<1>6. QED
  BY <1>1, <1>3, <1>4, <1>5 DEF Inv, TypeOK

\* A barrier put to the state `asked`; it waits in t or is answered at once.
LEMMA BarrierPreserves ==
    ASSUME Inv, NEW asked, Sound(asked), Advances(sync, asked), NEW t,
           t = FlushThrough(asked, Len(flushes) + 1, asked.localGeneration),
           Barrier(asked, t)
    PROVE  Inv' /\ RegisterMoves(sync, t) /\ SendsNewest(sync, t)
<1> DEFINE n == Len(flushes) + 1
           g == asked.localGeneration
           waiter == [flush |-> n, generation |-> g]
           answered == FlushResolves(asked, g) \/ FlushRejects(asked, g)
           outcome == CASE FlushResolves(asked, g) -> "resolved"
                        [] FlushRejects(asked, g)  -> "rejected"
                        [] OTHER                   -> "waiting"
           promise == [generation |-> g, outcome |-> outcome]
           f == Settled(flushes, t)
<1>1. /\ asked \in SyncStates /\ sync \in SyncStates
      /\ flushes \in Seq(Promises)
      /\ g \in Nat /\ n \in Nat
      /\ DOMAIN flushes = 1 .. Len(flushes)
      /\ sync.flushWaiters \subseteq Waiters
  BY DEF Sound, Consistent, Inv, TypeOK, SyncStates
<1>2. /\ asked.acknowledgedGeneration \in Nat
      /\ sync.acknowledgedGeneration \in Nat
      /\ asked.acknowledgedGeneration >= sync.acknowledgedGeneration
      /\ asked.flushWaiters \subseteq sync.flushWaiters
      /\ asked.flushWaiters \in SUBSET Waiters
  BY <1>1 DEF Advances, SyncStates
<1>3. /\ t.flushWaiters = IF answered THEN asked.flushWaiters
                                      ELSE asked.flushWaiters \cup {waiter}
      /\ t \in SyncStates
      /\ t.localGeneration = asked.localGeneration
      /\ t.acknowledgedGeneration = asked.acknowledgedGeneration
      /\ t.localMutation = asked.localMutation
      /\ t.componentRevisions = asked.componentRevisions
      /\ t.inFlight = asked.inFlight
      /\ t.pending = asked.pending
      /\ t.error = asked.error
      /\ t.externalChange = asked.externalChange
      /\ t.nextEditId = asked.nextEditId
  <2>1. waiter \in Waiters
    BY <1>1 DEF Waiters
  <2>2. CASE answered
    BY <1>1, <2>2 DEF FlushThrough
  <2>3. CASE ~answered
    <3>1. t = [asked EXCEPT !.flushWaiters = asked.flushWaiters \cup {waiter}]
      BY <1>1, <2>3 DEF FlushThrough, SyncStates
    <3> HIDE DEF waiter
    <3>2. asked.flushWaiters \cup {waiter} \in SUBSET Waiters
      BY <1>2, <2>1
    <3>3. QED
      BY <1>1, <2>3, <3>1, <3>2 DEF SyncStates
  <2>4. QED
    BY <2>2, <2>3
<1>4. ~answered => asked.acknowledgedGeneration < g /\ asked.error = Null
  BY <1>1, <1>2 DEF FlushResolves, FlushRejects
<1>5. Sound(t)
  <2>1. WaitersOpen(t)
    BY <1>3, <1>4 DEF Sound, Consistent, WaitersOpen
  <2>2. QED
    BY <1>3, <2>1
       DEF Sound, Consistent, Numbered, Held, Awake, LatestDraft
<1>6. NoOldWaiterJoins(t)
  BY <1>1, <1>2, <1>3 DEF NoOldWaiterJoins
<1>7. /\ sync' = t
      /\ observed' \in Requests \cup {Null}
      /\ flushes' = Append(f, promise)
  BY <1>3, ObservedTyped DEF Barrier
<1>8. /\ f \in Seq(Promises)
      /\ DOMAIN f = DOMAIN flushes
      /\ \A i \in DOMAIN f :
            /\ f[i].generation = flushes[i].generation
            /\ f[i].outcome = "resolved" =>
                  f[i].generation <= t.acknowledgedGeneration
            /\ f[i].outcome = "waiting" =>
                  [flush |-> i, generation |-> f[i].generation] \in t.flushWaiters
            /\ (\E w \in t.flushWaiters : w.flush = i) =>
                  f[i].outcome = flushes[i].outcome
  BY <1>2, <1>3, <1>6, SettledHonest
<1>9. promise \in Promises
  BY <1>1 DEF Promises
<1> HIDE DEF f, promise
<1>10. /\ flushes' \in Seq(Promises)
       /\ DOMAIN flushes' = 1 .. n
       /\ \A i \in 1 .. Len(flushes) : flushes'[i] = f[i]
       /\ flushes'[n] = promise
  <2>1. Len(f) = Len(flushes)
    BY <1>1, <1>8
  <2>2. QED
    BY <1>1, <1>7, <1>8, <1>9, <2>1
<1>11. promise.generation = g /\ promise.outcome = outcome
  BY DEF promise
<1>12. /\ outcome = "resolved" => g <= t.acknowledgedGeneration
       /\ outcome = "waiting" <=> ~answered
  BY <1>3 DEF FlushResolves
<1> HIDE DEF outcome
<1>13. \A i \in DOMAIN flushes' :
          /\ flushes'[i].outcome = "resolved" =>
                flushes'[i].generation <= t.acknowledgedGeneration
          /\ flushes'[i].outcome = "waiting" =>
                [flush |-> i, generation |-> flushes'[i].generation]
                   \in t.flushWaiters
  <2>1. \A i \in 1 .. n : i = n \/ i \in 1 .. Len(flushes)
    BY <1>1
  <2>2. QED
    BY <1>1, <1>3, <1>8, <1>10, <1>11, <1>12, <2>1
<1>14. BarriersHonest'
  BY <1>5, <1>7, <1>13 DEF BarriersHonest, Sound, Consistent, WaitersOpen
<1>15. ASSUME NEW w \in t.flushWaiters
       PROVE  /\ w.flush \in DOMAIN flushes'
              /\ flushes'[w.flush].outcome = "waiting"
              /\ flushes'[w.flush].generation = w.generation
  <2>1. CASE w \in asked.flushWaiters
    <3>1. /\ w.flush \in 1 .. Len(flushes)
          /\ flushes[w.flush].outcome = "waiting"
          /\ flushes[w.flush].generation = w.generation
      BY <1>1, <1>2, <2>1 DEF Inv
    <3>2. /\ f[w.flush].outcome = "waiting"
          /\ f[w.flush].generation = w.generation
      BY <1>1, <1>8, <3>1
    <3>3. flushes'[w.flush] = f[w.flush] /\ w.flush \in 1 .. n
      BY <1>1, <1>10, <3>1
    <3>4. QED
      BY <1>10, <3>2, <3>3
  <2>2. CASE w \notin asked.flushWaiters
    <3>1. w = waiter /\ ~answered
      BY <1>3, <2>2
    <3>2. QED
      BY <1>1, <1>10, <1>11, <1>12, <3>1
  <2>3. QED
    BY <2>1, <2>2
<1>16. Inv'
  BY <1>3, <1>5, <1>7, <1>10, <1>14, <1>15 DEF Inv, TypeOK
<1>17. RegisterMoves(sync, t)
  BY <1>3 DEF Advances, RegisterMoves, StaysPut, Sending, Drafting, Insisting,
              Confirming, Failing, Replacing, Outstanding
<1>18. SendsNewest(sync, t)
  BY <1>3 DEF Advances, SendsNewest, Sends
<1>19. QED
  BY <1>16, <1>17, <1>18

----------------------------------------------------------------------------
(* The actions *)

\* The revisions the host may name are natural numbers.
LEMMA RevisionsNat == Revisions \subseteq Nat
BY BoundsAssumption DEF Revisions

\* What a step promises beyond the invariant.
Good == Inv' /\ RegisterMoves(sync, sync') /\ SendsNewest(sync, sync')

\* A sound step, with what it promises of the request it sends.
LEMMA StepGood ==
    ASSUME Inv, NEW t, Sound(t), Advances(sync, t), Step(t)
    PROVE  Good
BY StepPreserves DEF Good, Step, Advances

\* The same for a step that also opens a barrier.
LEMMA BarrierGood ==
    ASSUME Inv, NEW asked, Sound(asked), Advances(sync, asked), NEW t,
           t = FlushThrough(asked, Len(flushes) + 1, asked.localGeneration),
           Barrier(asked, t)
    PROVE  Good
BY BarrierPreserves DEF Good, Barrier

\* Whatever components a submit changes, it is a sound step.
LEMMA DraftSubmitted ==
    ASSUME Inv, NEW mutation \in Mutations, NEW changed,
           Step(SubmitComponents(sync, mutation, changed))
    PROVE  Good
BY SubmitSound, StepGood DEF Inv

\* The constructor's state satisfies the invariant.
LEMMA InitEstablishes == Init => Inv
<1> SUFFICES ASSUME Init PROVE Inv
  OBVIOUS
<1>1. sync = Created(1) /\ observed = Null /\ flushes = <<>>
  BY DEF Init
<1>2. Created(1) \in SyncStates
  BY DEF Created, SyncStates
<1>3. Sound(Created(1))
  BY <1>2 DEF Sound, Consistent, Numbered, Held, WaitersOpen, Awake, Created
<1>4. flushes \in Seq(Promises) /\ DOMAIN flushes = {}
  BY <1>1
<1>5. sync.flushWaiters = {}
  BY <1>1 DEF Created
<1>6. TypeOK
  BY <1>1, <1>2, <1>4 DEF TypeOK
<1>7. BarriersHonest
  BY <1>4 DEF BarriersHonest
<1>8. QED
  BY <1>1, <1>3, <1>5, <1>6, <1>7 DEF Inv

\* Every action keeps the invariant: one case per method of the class.
LEMMA NextGood ==
    ASSUME Inv, Next
    PROVE  Good
<1>1. Sound(sync) /\ sync \in SyncStates
  BY DEF Inv, Sound, Consistent
<1>2. CASE DraftContent
  BY <1>2, DraftSubmitted DEF DraftContent, SubmitContent
<1>3. CASE DraftMetadata
  <2>1. PICK meta \in Metas : Step(SubmitMetadata(sync, meta))
    BY <1>3 DEF DraftMetadata
  <2>2. CASE sync.localMutation = Null
    BY <1>1, <2>1, <2>2, SameAdvances, StepGood DEF SubmitMetadata
  <2>3. CASE sync.localMutation # Null
    <3> DEFINE mutation == [sync.localMutation EXCEPT !.metadata = meta]
    <3>1. mutation \in Mutations
      BY <1>1, <2>3 DEF SyncStates, Mutations
    <3>2. SubmitMetadata(sync, meta) =
            SubmitComponents(sync, mutation, Differing(sync, mutation))
      BY <2>3 DEF SubmitMetadata
    <3> HIDE DEF mutation
    <3>3. QED
      BY <2>1, <3>1, <3>2, DraftSubmitted
  <2>4. QED
    BY <2>2, <2>3
<1>4. CASE DraftSettings
  <2>1. PICK settings \in SettingValues :
           Step(SubmitDocumentSettings(sync, settings))
    BY <1>4 DEF DraftSettings
  <2>2. CASE sync.localMutation = Null
    BY <1>1, <2>1, <2>2, SameAdvances, StepGood DEF SubmitDocumentSettings
  <2>3. CASE sync.localMutation # Null
    <3> DEFINE mutation == [sync.localMutation EXCEPT !.settings = settings]
    <3>1. mutation \in Mutations
      BY <1>1, <2>3 DEF SyncStates, Mutations
    <3>2. SubmitDocumentSettings(sync, settings) =
            SubmitComponents(sync, mutation, Differing(sync, mutation))
      BY <2>3 DEF SubmitDocumentSettings
    <3> HIDE DEF mutation
    <3>3. QED
      BY <2>1, <3>1, <3>2, DraftSubmitted
  <2>4. QED
    BY <2>2, <2>3
<1>5. CASE ReceiveAcknowledgement
  <2>1. PICK identity \in Identities, editId \in 0 .. MaxEdits,
             revision \in Revisions :
           Step(Acknowledge(sync, [identity |-> identity, editId |-> editId,
                                   revision |-> revision]))
    BY <1>5 DEF ReceiveAcknowledgement
  <2>2. revision \in Nat
    BY RevisionsNat
  <2>3. QED
    BY <1>1, <2>1, <2>2, AcknowledgeSound, StepGood
<1>6. CASE ReceiveRejection
  <2>1. PICK identity \in Identities, editId \in 0 .. MaxEdits,
             revision \in Revisions, code \in HostCodes,
             hostSnapshot \in Mutations \cup {Null} :
           Step(Reject(sync, [identity |-> identity, editId |-> editId,
                              revision |-> revision, code |-> code,
                              hostSnapshot |-> hostSnapshot]))
    BY <1>6 DEF ReceiveRejection
  <2>2. revision \in Nat /\ code \in ErrorCodes
    BY RevisionsNat, HostAssumption
  <2>3. QED
    BY <1>1, <2>1, <2>2, RejectSound, StepGood
<1>7. CASE TransportFails
  <2>1. sync.inFlight # Null /\ Step(Reject(sync, TransportError(sync.inFlight)))
    BY <1>7 DEF TransportFails
  <2>2. /\ TransportError(sync.inFlight).revision \in Nat
        /\ TransportError(sync.inFlight).code \in ErrorCodes
        /\ TransportError(sync.inFlight).hostSnapshot \in Mutations \cup {Null}
    <3>1. sync.inFlight.baseRevision \in Nat
      BY <1>1, <2>1 DEF SyncStates, Requests
    <3>2. QED
      BY <3>1 DEF TransportError, ErrorCodes
  <2>3. QED
    BY <1>1, <2>1, <2>2, RejectSound, StepGood
<1>8. CASE HostChanges
  BY <1>1, <1>8, RevisionsNat, ObserveSound, StepGood DEF HostChanges
<1>9. CASE HostAdvances
  BY <1>1, <1>9, RevisionsNat, AdvanceSound, StepGood DEF HostAdvances
<1>10. CASE UserRetries
  BY <1>1, <1>10, RevisionsNat, RetrySound, StepGood DEF UserRetries
<1>11. CASE UserReplaces
  BY <1>1, <1>11, RevisionsNat, AdoptSound, StepGood DEF UserReplaces
<1>12. CASE SaveBarrier
  <2> DEFINE asked == RetryBeforeSave(sync)
  <2>1. Sound(asked) /\ Advances(sync, asked)
    BY <1>1, RetrySound, SameAdvances DEF RetryBeforeSave
  <2>2. AfterAcknowledged(sync, Len(flushes) + 1) =
          FlushThrough(asked, Len(flushes) + 1, asked.localGeneration)
    BY DEF AfterAcknowledged
  <2>3. Barrier(asked, AfterAcknowledged(sync, Len(flushes) + 1))
    BY <1>12 DEF SaveBarrier
  <2> HIDE DEF asked
  <2>4. QED
    BY <2>1, <2>2, <2>3, BarrierGood
<1>13. CASE UserKeepsLocal
  <2>1. PICK revision \in Revisions :
           Barrier(KeepLocal(sync, revision),
                   KeepLocalThroughAcknowledgement(sync, revision, Len(flushes) + 1))
    BY <1>13 DEF UserKeepsLocal
  <2> DEFINE asked == KeepLocal(sync, revision)
  <2>2. Sound(asked) /\ Advances(sync, asked)
    BY <1>1, RevisionsNat, KeepLocalSound
  <2>3. KeepLocalThroughAcknowledgement(sync, revision, Len(flushes) + 1) =
          FlushThrough(asked, Len(flushes) + 1, asked.localGeneration)
    BY DEF KeepLocalThroughAcknowledgement
  <2>4. QED
    BY <2>1, <2>2, <2>3, BarrierGood
<1>14. QED
  BY <1>2, <1>3, <1>4, <1>5, <1>6, <1>7, <1>8, <1>9, <1>10, <1>11, <1>12, <1>13
     DEF Next

----------------------------------------------------------------------------
(* Theorems *)

\* The inductive invariant holds in every behaviour.
THEOREM Invariant == Spec => []Inv
<1>1. Init => Inv
  BY InitEstablishes
<1>2. Inv /\ [Next]_vars => Inv'
  <2> SUFFICES ASSUME Inv, [Next]_vars PROVE Inv'
    OBVIOUS
  <2>1. CASE Next
    BY <2>1, NextGood DEF Good
  <2>2. CASE UNCHANGED vars
    BY <2>2 DEF vars, Inv, TypeOK, BarriersHonest
  <2>3. QED
    BY <2>1, <2>2
<1>3. QED
  BY <1>1, <1>2, PTL DEF Spec

\* Every state of the coordinator is of the class's state type.
THEOREM TypeCorrect == Spec => []TypeOK
<1>1. Inv => TypeOK
  BY DEF Inv
<1>2. QED
  BY <1>1, Invariant, PTL

\* No mix of answers, failures, external changes and decisions drops a draft.
THEOREM DraftNeverLost == Spec => []DraftTracked
<1>1. Inv => DraftTracked
  <2> SUFFICES ASSUME Inv, sync.acknowledgedGeneration < sync.localGeneration
               PROVE  Carries(sync.pending) \/ Carries(sync.inFlight)
    BY DEF DraftTracked, Inv, TypeOK, SyncStates
  <2>1. sync.pending # Null \/ sync.inFlight # Null
    BY DEF Inv, Sound, Consistent, Held
  <2>2. CASE sync.pending # Null
    BY <2>2 DEF Inv, Sound, Consistent, Numbered, LatestDraft, Carries
  <2>3. CASE sync.pending = Null
    BY <2>1, <2>3 DEF Inv, Sound, Consistent, Numbered, Carries
  <2>4. QED
    BY <2>2, <2>3
<1>2. QED
  BY <1>1, Invariant, PTL

\* A queued draft always has something to wait for.
THEOREM DraftNeverForgotten == Spec => []NoForgottenDraft
<1>1. Inv => NoForgottenDraft
  BY DEF Inv, Sound, Awake, NoForgottenDraft
<1>2. QED
  BY <1>1, Invariant, PTL

\* A save or export barrier never resolves before its draft is confirmed.
THEOREM BarriersAreHonest == Spec => []BarriersHonest
<1>1. Inv => BarriersHonest
  BY DEF Inv
<1>2. QED
  BY <1>1, Invariant, PTL

\* Whatever method sends, it sends the newest draft.
THEOREM NewestDraftSent == Spec => SendsNewestDraft
<1>1. Inv /\ [Next]_vars =>
        [Sends(sync, sync') =>
           /\ sync'.inFlight.localGeneration = sync'.localGeneration
           /\ sync'.inFlight.mutation = sync'.localMutation]_vars
  BY NextGood DEF Good, SendsNewest
<1>2. QED
  BY <1>1, Invariant, PTL DEF Spec, SendsNewestDraft

\* The coordinator implements the register of numbered drafts.
THEOREM Refinement == Spec => RegisterSpec
<1>1. Init => Register!Init
  BY DEF Init, Created, Register!Init
<1>2. Inv /\ [Next]_vars => [Register!Next]_(Register!vars)
  <2> SUFFICES ASSUME Inv, [Next]_vars
               PROVE  Register!Next \/ UNCHANGED Register!vars
    OBVIOUS
  <2>1. CASE Next
    <3>1. RegisterMoves(sync, sync')
      BY <2>1, NextGood DEF Good
    <3>2. QED
      BY <3>1 DEF RegisterMoves, StaysPut, Sending, Drafting, Insisting, Confirming,
                  Failing, Replacing, Outstanding, Register!Next,
                  Register!Write, Register!Insist, Register!Send,
                  Register!Confirm, Register!Fail, Register!Replace,
                  Register!vars
  <2>2. CASE UNCHANGED vars
    BY <2>2 DEF vars, Register!vars
  <2>3. QED
    BY <2>1, <2>2
<1>3. QED
  BY <1>1, <1>2, Invariant, PTL DEF Spec, RegisterSpec, Register!Spec

----------------------------------------------------------------------------
(* The revision of a component determines its value: the coordinator's     *)
(* side of the host's canonical cache.  `observed` stands for any one      *)
(* request handed to the transport earlier.                                *)

\* What the property needs to be inductive: both requests belong to the past.
Identifying ==
    /\ Past(observed, sync)
    /\ Past(sync.inFlight, sync)
    /\ ComponentRevisionsIdentify

\* Every method's step keeps requests told apart.
LEMMA StepIdentifies ==
    ASSUME Inv, Inv', Identifying, NEW t, Keeps(sync, t), sync' = t, Observe(t)
    PROVE  Identifying'
<1>1. /\ sync \in SyncStates /\ t \in SyncStates
      /\ observed \in Requests \cup {Null}
      /\ sync.inFlight \in Requests \cup {Null}
      /\ t.inFlight \in Requests \cup {Null}
  BY DEF Inv, TypeOK, SyncStates
<1>2. Past(observed, t) /\ Past(sync.inFlight, t)
  BY <1>1, PastFollows DEF Identifying, Keeps
<1>3. Past(t.inFlight, t)
  <2>1. CASE t.inFlight = sync.inFlight
    BY <1>2, <2>1
  <2>2. CASE IsLatest(t.inFlight, t)
    <3>1. \A c \in Components : t.componentRevisions[c] \in Nat
      BY <1>1 DEF SyncStates
    <3>2. QED
      BY <2>2, <3>1 DEF IsLatest, Past
  <2>3. CASE t.inFlight = Null
    BY <2>3 DEF Past
  <2>4. QED
    BY <2>1, <2>2, <2>3 DEF Keeps, Travels
<1>4. CASE UNCHANGED observed
  <2>1. CASE t.inFlight = sync.inFlight
    BY <1>2, <1>3, <1>4, <2>1 DEF Identifying, ComponentRevisionsIdentify
  <2>2. CASE IsLatest(t.inFlight, t)
    BY <1>2, <1>3, <1>4, <2>2
       DEF Identifying, ComponentRevisionsIdentify, IsLatest, Past
  <2>3. CASE t.inFlight = Null
    BY <1>2, <1>3, <1>4, <2>3 DEF Identifying, ComponentRevisionsIdentify
  <2>4. QED
    BY <2>1, <2>2, <2>3 DEF Keeps, Travels
<1>5. CASE observed' = t.inFlight
  BY <1>3, <1>5 DEF Identifying, ComponentRevisionsIdentify
<1>6. QED
  BY <1>4, <1>5 DEF Observe

\* A method that keeps the rules keeps requests told apart.
LEMMA MethodIdentifies ==
    ASSUME Inv, Inv', Identifying, NEW t, Keeps(sync, t), Step(t)
    PROVE  Identifying'
BY StepIdentifies DEF Step

\* So does a draft, of whichever components it changes.
LEMMA SubmitIdentifies ==
    ASSUME Inv, Inv', Identifying, NEW mutation \in Mutations, NEW changed,
           Step(SubmitComponents(sync, mutation, changed))
    PROVE  Identifying'
BY SubmitKeeps, MethodIdentifies DEF Inv

\* So does a method that opens a barrier for the draft as it is then.
LEMMA BarrierIdentifies ==
    ASSUME Inv, Inv', Identifying, NEW asked, Sound(asked), Keeps(sync, asked),
           Barrier(asked, FlushThrough(asked, Len(flushes) + 1, asked.localGeneration))
    PROVE  Identifying'
<1> DEFINE t == FlushThrough(asked, Len(flushes) + 1, asked.localGeneration)
<1>1. Keeps(sync, t)
  BY FlushKeeps
<1>2. sync' = t /\ Observe(t)
  BY DEF Barrier
<1> HIDE DEF t
<1>3. QED
  BY <1>1, <1>2, StepIdentifies

\* One case per method of the class.
LEMMA NextIdentifies ==
    ASSUME Inv, Identifying, Next
    PROVE  Identifying'
<1>1. Inv'
  BY NextGood DEF Good
<1>2. Sound(sync) /\ sync \in SyncStates
  BY DEF Inv, Sound, Consistent
<1>3. Keeps(sync, sync)
  BY <1>2, SameKeeps
<1>4. CASE DraftContent
  BY <1>1, <1>4, SubmitIdentifies DEF DraftContent, SubmitContent
<1>5. CASE DraftMetadata
  <2>1. PICK meta \in Metas : Step(SubmitMetadata(sync, meta))
    BY <1>5 DEF DraftMetadata
  <2>2. CASE sync.localMutation = Null
    BY <1>1, <1>3, <2>1, <2>2, MethodIdentifies DEF SubmitMetadata
  <2>3. CASE sync.localMutation # Null
    <3> DEFINE mutation == [sync.localMutation EXCEPT !.metadata = meta]
    <3>1. mutation \in Mutations
      BY <1>2, <2>3 DEF SyncStates, Mutations
    <3>2. SubmitMetadata(sync, meta) =
            SubmitComponents(sync, mutation, Differing(sync, mutation))
      BY <2>3 DEF SubmitMetadata
    <3> HIDE DEF mutation
    <3>3. QED
      BY <1>1, <2>1, <3>1, <3>2, SubmitIdentifies
  <2>4. QED
    BY <2>2, <2>3
<1>6. CASE DraftSettings
  <2>1. PICK settings \in SettingValues :
           Step(SubmitDocumentSettings(sync, settings))
    BY <1>6 DEF DraftSettings
  <2>2. CASE sync.localMutation = Null
    BY <1>1, <1>3, <2>1, <2>2, MethodIdentifies DEF SubmitDocumentSettings
  <2>3. CASE sync.localMutation # Null
    <3> DEFINE mutation == [sync.localMutation EXCEPT !.settings = settings]
    <3>1. mutation \in Mutations
      BY <1>2, <2>3 DEF SyncStates, Mutations
    <3>2. SubmitDocumentSettings(sync, settings) =
            SubmitComponents(sync, mutation, Differing(sync, mutation))
      BY <2>3 DEF SubmitDocumentSettings
    <3> HIDE DEF mutation
    <3>3. QED
      BY <1>1, <2>1, <3>1, <3>2, SubmitIdentifies
  <2>4. QED
    BY <2>2, <2>3
<1>7. CASE ReceiveAcknowledgement
  <2>1. PICK identity \in Identities, editId \in 0 .. MaxEdits,
             revision \in Revisions :
           Step(Acknowledge(sync, [identity |-> identity, editId |-> editId,
                                   revision |-> revision]))
    BY <1>7 DEF ReceiveAcknowledgement
  <2>2. QED
    BY <1>1, <1>2, <2>1, RevisionsNat, AcknowledgeKeeps, MethodIdentifies
<1>8. CASE ReceiveRejection
  BY <1>1, <1>2, <1>8, RejectKeeps, MethodIdentifies DEF ReceiveRejection
<1>9. CASE TransportFails
  BY <1>1, <1>2, <1>9, RejectKeeps, MethodIdentifies DEF TransportFails
<1>10. CASE HostChanges
  BY <1>1, <1>2, <1>10, RevisionsNat, ObserveKeeps, MethodIdentifies DEF HostChanges
<1>11. CASE HostAdvances
  BY <1>1, <1>2, <1>11, RevisionsNat, AdvanceKeeps, MethodIdentifies DEF HostAdvances
<1>12. CASE UserRetries
  BY <1>1, <1>2, <1>12, RevisionsNat, RetryKeeps, MethodIdentifies DEF UserRetries
<1>13. CASE UserReplaces
  BY <1>1, <1>2, <1>13, RevisionsNat, AdoptKeeps, MethodIdentifies DEF UserReplaces
<1>14. CASE SaveBarrier
  <2> DEFINE asked == RetryBeforeSave(sync)
  <2>1. Sound(asked) /\ Keeps(sync, asked)
    BY <1>2, <1>3, RetrySound, RetryKeeps DEF RetryBeforeSave
  <2>2. Barrier(asked, FlushThrough(asked, Len(flushes) + 1, asked.localGeneration))
    BY <1>14 DEF SaveBarrier, AfterAcknowledged
  <2> HIDE DEF asked
  <2>3. QED
    BY <1>1, <2>1, <2>2, BarrierIdentifies
<1>15. CASE UserKeepsLocal
  <2>1. PICK revision \in Revisions :
           Barrier(KeepLocal(sync, revision),
                   KeepLocalThroughAcknowledgement(sync, revision, Len(flushes) + 1))
    BY <1>15 DEF UserKeepsLocal
  <2> DEFINE asked == KeepLocal(sync, revision)
  <2>2. Sound(asked) /\ Keeps(sync, asked)
    BY <1>2, RevisionsNat, KeepLocalSound, KeepLocalKeeps
  <2>3. Barrier(asked, FlushThrough(asked, Len(flushes) + 1, asked.localGeneration))
    BY <2>1 DEF KeepLocalThroughAcknowledgement
  <2> HIDE DEF asked
  <2>4. QED
    BY <1>1, <2>2, <2>3, BarrierIdentifies
<1>16. QED
  BY <1>4, <1>5, <1>6, <1>7, <1>8, <1>9, <1>10, <1>11, <1>12, <1>13, <1>14, <1>15
     DEF Next

\* Two requests with one revision of a component carry one value of it, so the
\* host may take the component from its cache.
THEOREM RevisionsIdentify == Spec => []ComponentRevisionsIdentify
<1>1. Init => Identifying
  BY DEF Init, Created, Identifying, Past, ComponentRevisionsIdentify
<1>2. Inv /\ Identifying /\ [Next]_vars => Identifying'
  <2> SUFFICES ASSUME Inv, Identifying, [Next]_vars PROVE Identifying'
    OBVIOUS
  <2>1. CASE Next
    BY <2>1, NextIdentifies
  <2>2. CASE UNCHANGED vars
    BY <2>2 DEF vars, Identifying, Past, ComponentRevisionsIdentify
  <2>3. QED
    BY <2>1, <2>2
<1>3. Identifying => ComponentRevisionsIdentify
  BY DEF Identifying
<1>4. QED
  BY <1>1, <1>2, <1>3, Invariant, PTL DEF Spec
============================================================================
