----------------------- MODULE FileOperations_proofs -----------------------
(***************************************************************************)
(* What a cancellation, the claim and the closing of the editor guarantee, *)
(* for every number of requests, edits, foreign writes and failures.       *)
(*                                                                         *)
(* Wellformed joins the types and Sound(sync).  Guarded(r) is what ties    *)
(* one request's task to the claim, to the ledger and to the messages      *)
(* about it; Orderly says that a request begins once.                      *)
(***************************************************************************)
EXTENDS FileOperations, SyncOperations_proofs

----------------------------------------------------------------------------
(* The types of messages and state *)

\* A result action waits behind the result it belongs to.
PendingActions == {p \in ResultActions : p.result.phase = "succeeded"}

EditMessages    == [type : {"edit"}, request : Requests]
ReportMessages  == [type : {"applied"}, operation : Operations, ok : BOOLEAN]
PrepareMessages == [type : {"prepare"}, operation : Operations,
                    kind : {"export", "import"}]
PlainMessages   == [type : {"execute", "cancel"}, operation : Operations]
AgainMessages   == [type : {"retry", "repeat", "undo"}, operation : Operations,
                    previous : Operations]

\* What a turn of the webview posts besides a request of the user.
Noise == EditMessages \cup FlushMessages(MaxOperations) \cup ReportMessages

\* What the user asks for.
Wishes == PrepareMessages \cup PlainMessages \cup AgainMessages

HostMessages == Noise \cup Wishes

StatusMessages  == [type : {"status"},
                    phase : {"preflighting", "awaiting", "running", "succeeded",
                             "failed", "cancelled"},
                    operation : Operations, kind : {"none", "export", "import"},
                    offers : SUBSET {"undo", "repeat"}]
NoticeMessages  == [type : {"requestFlush", "actionFailed"}, operation : Operations]
ImportMessages  == [type : {"importContent"}, operation : Operations, body : Contents]
StoredMessages  == [type : {"editAcknowledged"}, identity : {Self}, editId : Nat,
                    revision : Nat]
RefusedMessages == [type : {"editRejected"}, identity : {Self}, editId : Nat,
                    revision : Nat, code : {"STALE_REVISION"}, hostSnapshot : Mutations]
ForeignMessages == [type : {"externalChange"}, revision : Nat, snapshot : Mutations]

ViewMessages == StatusMessages \cup NoticeMessages \cup ImportMessages
                  \cup StoredMessages \cup RefusedMessages \cup ForeignMessages

Applications == [operation : Operations, checkpoint : Contents]

Views == [op : Shown \cup {Idle}, pending : PendingActions \cup {Null},
          authorized : 0 .. MaxOperations, body : Contents, tracked : Contents,
          typed : BOOLEAN, applying : Seq(Applications)]

Artifacts == [id : Operations, body : Contents, expected : Nat, leased : BOOLEAN]

Hosts == [claim : 0 .. MaxOperations, edits : Seq(Requests),
          artifacts : SUBSET Artifacts, latest : 0 .. MaxOperations,
          disposed : BOOLEAN]

TaskStates == [kind : {"none", "export", "import"}, step : Steps, aborted : BOOLEAN,
               known : BOOLEAN, source : Nat, plan : Plans \cup {Null}]

Documents == [version : Nat, body : Contents]

Ledgers == [issued : 0 .. MaxOperations, typed : Nat, foreign : Nat, failures : Nat,
            cancelled : SUBSET Operations, effected : SUBSET Operations,
            stopped : SUBSET Operations, flushed : [Operations -> Nat],
            replaced : [Operations -> Contents \cup {Null}]]

WebviewTyped ==
    /\ Sound(sync)
    /\ view \in Views
    /\ toHost \in Seq(HostMessages)

HostTyped ==
    /\ host \in Hosts
    /\ tasks \in [Operations -> TaskStates]
    /\ doc \in Documents
    /\ target \in Nat

Wellformed ==
    /\ WebviewTyped
    /\ HostTyped
    /\ toView \in Seq(ViewMessages)
    /\ ledger \in Ledgers

----------------------------------------------------------------------------
(* Helpers *)

LEMMA MutationTyped ==
    ASSUME NEW body \in Contents
    PROVE  Mutation(body) \in Mutations
BY OperationAssumption DEF Mutation, Mutations

\* A queue holds at most one of these messages, or none.
Single(q, S) == \A i, j \in DOMAIN q : q[i] \in S /\ q[j] \in S => i = j
None(q, S)   == In(q) \cap S = {}

\* The queue that was q holds no more of them as p.
NoMore(q, p, S) == /\ Single(q, S) => Single(p, S)
                   /\ None(q, S) => None(p, S)

LEMMA SingleTail ==
    ASSUME NEW T, NEW q \in Seq(T), q # <<>>, NEW S
    PROVE  /\ NoMore(q, Tail(q), S)
           /\ Single(q, S) /\ Head(q) \in S => None(Tail(q), S)
<1> DEFINE p == Tail(q)
<1>1. /\ Head(q) = q[1] /\ 1 \in DOMAIN q /\ In(p) \subseteq In(q)
      /\ \A i \in DOMAIN p : i + 1 \in DOMAIN q /\ p[i] = q[i + 1]
      /\ \A i \in DOMAIN p : i # 0 /\ i \in Nat
  BY InTail
<1> HIDE DEF p
<1>2. \A i, j \in DOMAIN p : (i + 1 = j + 1 => i = j) /\ i + 1 # 1
  BY <1>1
<1>3. Single(q, S) => Single(p, S)
  BY <1>1, <1>2 DEF Single
<1>4. Single(q, S) /\ Head(q) \in S => None(p, S)
  BY <1>1, <1>2 DEF Single, None, In
<1>5. QED
  BY <1>1, <1>3, <1>4 DEF None, NoMore, p

\* Messages of another kind are posted.
LEMMA SingleConcat ==
    ASSUME NEW T, NEW q \in Seq(T), NEW p \in Seq(T), NEW S, None(p, S)
    PROVE  NoMore(q, q \o p, S)
<1> DEFINE w == q \o p
<1>1. /\ In(w) \subseteq In(q) \cup In(p)
      /\ w \in Seq(T) /\ Len(w) = Len(q) + Len(p)
      /\ \A i \in 1 .. Len(q) + Len(p) :
            w[i] = IF i <= Len(q) THEN q[i] ELSE p[i - Len(q)]
  BY InConcat, ConcatProperties
<1> HIDE DEF w
<1>2. /\ Len(q) \in Nat /\ Len(p) \in Nat
      /\ DOMAIN q = 1 .. Len(q) /\ DOMAIN p = 1 .. Len(p)
      /\ DOMAIN w = 1 .. Len(q) + Len(p)
  BY <1>1, LenProperties
<1>3. ASSUME NEW i \in DOMAIN w, w[i] \in S
      PROVE  i \in DOMAIN q /\ w[i] = q[i]
  <2>1. CASE i <= Len(q)
    BY <1>1, <1>2, <2>1
  <2>2. CASE ~(i <= Len(q))
    <3>1. i - Len(q) \in DOMAIN p /\ w[i] = p[i - Len(q)]
      BY <1>1, <1>2, <2>2
    <3>2. QED
      BY <1>3, <3>1 DEF None, In
  <2>3. QED
    BY <2>1, <2>2
<1>4. Single(q, S) => Single(w, S)
  BY <1>3 DEF Single
<1>5. QED
  BY <1>1, <1>4 DEF None, NoMore, w

\* The first message of its kind is posted.
LEMMA SingleLast ==
    ASSUME NEW T, NEW q \in Seq(T), NEW m \in T, NEW S, None(q, S)
    PROVE  Single(q \o <<m>>, S)
<1> DEFINE w == Append(q, m)
<1>1. /\ w \in Seq(T) /\ Len(w) = Len(q) + 1
      /\ \A i \in 1 .. Len(q) : w[i] = q[i]
  BY AppendProperties
<1> HIDE DEF w
<1>2. /\ Len(q) \in Nat /\ DOMAIN q = 1 .. Len(q) /\ DOMAIN w = 1 .. Len(q) + 1
  BY <1>1, LenProperties
<1>3. \A i \in DOMAIN w : w[i] \in S => i \notin 1 .. Len(q)
  BY <1>1, <1>2 DEF None, In
<1>4. \A i \in DOMAIN w : w[i] \in S => i = Len(q) + 1
  BY <1>2, <1>3
<1>5. Single(w, S)
  BY <1>4 DEF Single
<1>6. q \o <<m>> = w
  BY DEF w
<1>7. QED
  BY <1>5, <1>6

\* What is picked from a sequence is a sequence of its members.
LEMMA PickedTyped ==
    ASSUME NEW S, NEW q \in Seq(S), NEW places \in SUBSET (DOMAIN q)
    PROVE  Picked(q, places) \in Seq(S)
<1> DEFINE order == Ascending(places)
           c == Cardinality(places)
<1>1. Len(q) \in Nat /\ DOMAIN q = 1 .. Len(q) /\ \A n \in 1 .. Len(q) : q[n] \in S
  BY LenProperties
<1>2. c \in Nat /\ DOMAIN order = 1 .. c /\ \A k \in 1 .. c : order[k] \in places
  BY <1>1, AscendingTyped
<1> HIDE DEF order, c
<1>3. Picked(q, places) = [k \in 1 .. c |-> q[order[k]]]
  BY <1>2 DEF Picked, order
<1>4. \A k \in 1 .. c : q[order[k]] \in S
  BY <1>1, <1>2
<1>5. Picked(q, places) \in [1 .. c -> S]
  BY <1>3, <1>4
<1>6. QED
  BY <1>2, <1>5, SeqDef

\* How a turn's coordinator relates to the one before: what was sent is out.
Sent(s, t) ==
    /\ t.nextEditId >= s.nextEditId
    /\ t.nextEditId > s.nextEditId => t.inFlight # Null

\* A part of a turn that only adds to what came before.
Adds(s, t) ==
    /\ Sound(t)
    /\ t.nextEditId >= s.nextEditId
    /\ IF t.nextEditId = s.nextEditId THEN t.inFlight = s.inFlight
                                      ELSE t.inFlight # Null

LEMMA SentNothing ==
    ASSUME NEW s, Sound(s)
    PROVE  Adds(s, s)
BY DEF Adds, Sound, Consistent, SyncStates

\* Parts follow one another.
LEMMA AddsOn ==
    ASSUME NEW s \in SyncStates, NEW t \in SyncStates, NEW u, Adds(s, t), Adds(t, u)
    PROVE  Adds(s, u)
<1>1. u \in SyncStates
  BY DEF Adds, Sound, Consistent
<1>2. s.nextEditId \in Nat /\ t.nextEditId \in Nat /\ u.nextEditId \in Nat
  BY <1>1 DEF SyncStates
<1>3. QED
  BY <1>2 DEF Adds

LEMMA AddsSent ==
    ASSUME NEW s \in SyncStates, NEW t, Adds(s, t)
    PROVE  Sound(t) /\ Sent(s, t)
<1>1. t \in SyncStates
  BY DEF Adds, Sound, Consistent
<1>2. s.nextEditId \in Nat /\ t.nextEditId \in Nat
  BY <1>1 DEF SyncStates
<1>3. QED
  BY <1>2 DEF Adds, Sent

\* A part that keeps the rules of requests, and sends nothing over another.
LEMMA KeepsAdds ==
    ASSUME NEW s, NEW t, Sound(s), Sound(t), Keeps(s, t), Patient(s, t)
    PROVE  Adds(s, t)
<1>1. s.nextEditId \in Nat /\ t.nextEditId \in Nat
  BY DEF Sound, Consistent, SyncStates
<1>2. QED
  BY <1>1 DEF Keeps, Travels, Patient, Adds

LEMMA KeptSent ==
    ASSUME NEW s \in SyncStates, NEW t, Sound(t), Keeps(s, t)
    PROVE  Sent(s, t)
<1>1. s.nextEditId \in Nat /\ t.nextEditId \in Nat
  BY DEF Sound, Consistent, SyncStates
<1>2. QED
  BY <1>1 DEF Keeps, Travels, Sent

LEMMA SubmitAdds ==
    ASSUME NEW s, Sound(s), NEW body \in Contents, NEW recaptured
    PROVE  Adds(s, SubmitContent(s, Mutation(body), recaptured))
BY MutationTyped, SubmitSound, SubmitKeeps, SubmitPatient, KeepsAdds DEF SubmitContent

LEMMA RetryAdds ==
    ASSUME NEW s, Sound(s)
    PROVE  Adds(s, RetryBeforeSave(s))
<1>1. CASE CanRetry(s)
  <2>1. Sound(Retry(s, Null)) /\ Keeps(s, Retry(s, Null)) /\ Patient(s, Retry(s, Null))
    BY RetrySound, RetryKeeps, RetryPatient
  <2>2. QED
    BY <1>1, <2>1, KeepsAdds DEF RetryBeforeSave
<1>2. CASE ~CanRetry(s)
  BY <1>2, SentNothing DEF RetryBeforeSave
<1>3. QED
  BY <1>1, <1>2

LEMMA BarrierAdds ==
    ASSUME NEW s, Sound(s), NEW flush \in Nat
    PROVE  Adds(s, AfterAcknowledged(s, flush))
<1> DEFINE asked == RetryBeforeSave(s)
           t == FlushThrough(asked, flush, asked.localGeneration)
<1>1. Adds(s, asked) /\ Sound(asked)
  BY RetryAdds DEF Adds
<1> HIDE DEF asked
<1>2. Sound(t)
  BY <1>1, FlushSound
<1>3. t.nextEditId = asked.nextEditId /\ t.inFlight = asked.inFlight
  BY <1>1 DEF FlushThrough, Sound, Consistent, SyncStates
<1> HIDE DEF t
<1>4. Adds(s, t)
  BY <1>1, <1>2, <1>3 DEF Adds
<1>5. QED
  BY <1>4 DEF AfterAcknowledged, t, asked

\* Checkpoints put back one after the other leave the coordinator sound.
LEMMA PutBackSound ==
    ASSUME NEW t, Sound(t), NEW undone \in Seq(Applications)
    PROVE  Sound(PutBack(t, undone))
<1> DEFINE S == {s \in SyncStates : Sound(s)}
           l == Len(undone)
           put(s, n) == SubmitContent(s, Mutation(undone[n].checkpoint), TRUE)
           F == [n \in 1 .. l |-> [s \in S |-> put(s, n)]]
           after == CHOOSE after : after = [n \in 0 .. l |->
                       IF n = 0 THEN t ELSE put(after[n - 1], n)]
<1>1. l \in Nat /\ \A n \in 1 .. l : undone[n] \in Applications
  BY LenProperties
<1>2. ASSUME NEW s \in S, NEW n \in 1 .. l
      PROVE  put(s, n) \in S
  <2>1. undone[n].checkpoint \in Contents
    BY <1>1 DEF Applications
  <2>2. Sound(put(s, n))
    BY <2>1, SubmitAdds DEF Adds
  <2> HIDE DEF put
  <2>3. QED
    BY <2>2 DEF Sound, Consistent
<1>3. t \in S
  BY DEF Sound, Consistent
<1> HIDE DEF S, l, put, after
<1>4. F \in StepFunctions(S, l)
  BY <1>2 DEF StepFunctions
<1>5. \A n \in 1 .. l, s \in S : F[n][s] = put(s, n)
  OBVIOUS
<1> HIDE DEF F
<1>6. PICK g : Iterates(g, S, t, l, F)
  BY <1>1, <1>3, <1>4, RecursiveFunction
<1>7. \A n \in 0 .. l : n # 0 => n \in 1 .. l /\ n - 1 \in 0 .. l
  BY <1>1
<1>8. \A n \in 0 .. l : g[n] = IF n = 0 THEN t ELSE put(g[n - 1], n)
  BY <1>5, <1>6, <1>7 DEF Iterates
<1>9. g = [n \in 0 .. l |-> IF n = 0 THEN t ELSE put(g[n - 1], n)]
  BY <1>6, <1>8 DEF Iterates
<1>10. after = [n \in 0 .. l |-> IF n = 0 THEN t ELSE put(after[n - 1], n)]
  BY <1>9 DEF after
<1>11. \A n \in 0 .. l : after[n] = IF n = 0 THEN t ELSE put(after[n - 1], n)
  BY <1>10
<1> DEFINE T == {n \in 0 .. l : after[n] \notin S}
<1>12. T = {}
  <2>1. SUFFICES ASSUME T # {} PROVE FALSE
    OBVIOUS
  <2>2. PICK n \in T : \A m \in T : n <= m
    <3>1. T \in SUBSET Nat
      OBVIOUS
    <3> HIDE DEF T
    <3>2. QED
      BY <2>1, <3>1, LeastNumber
  <2>3. CASE n = 0
    BY <1>3, <1>11, <2>3
  <2>4. CASE n # 0
    <3>1. n \in 1 .. l /\ n - 1 \in 0 .. l /\ ~(n <= n - 1)
      BY <1>1, <2>4
    <3>2. after[n - 1] \in S
      BY <2>2, <3>1
    <3>3. QED
      BY <1>2, <1>11, <3>1, <3>2, <2>4
  <2>5. QED
    BY <2>3, <2>4
<1>13. after[l] \in S
  BY <1>1, <1>12
<1>14. PutBack(t, undone) = after[l]
  BY DEF PutBack, after, put, l
<1>15. QED
  BY <1>13, <1>14 DEF S

----------------------------------------------------------------------------
(* The requests *)

\* The messages that begin a request, offer its plan to the user and confirm it.
Beginnings(r)    == {m \in PrepareMessages \cup AgainMessages : m.operation = r}
Offerings(r)     == {m \in StatusMessages : m.phase = "awaiting" /\ m.operation = r}
Confirmations(r) == {m \in PlainMessages : m.type = "execute" /\ m.operation = r}

Busy(task) == task.step \notin {"none", "ended"}

\* How far a task is says whether it has a plan, and what became of the plan.
Shaped(task) ==
    /\ task.aborted => task.step \in Preflight /\ task.plan = Null
    /\ task.plan # Null =>
          /\ task.step \in {"offering", "offered"} \cup (Executing \ {"restoring"})
          /\ task.plan.running <=> task.step \notin {"offering", "offered", "starting"}
          /\ task.plan.committing
                <=> task.step \in {"applying", "committing", "published"}
    /\ task.step \in Executing \ {"starting", "restoring"} => task.plan # Null

\* The task can only end: it looks at its controller before it goes on.
Halted(task) ==
    \/ ~Busy(task)
    \/ task.step \in Preflight /\ task.aborted
    \/ task.step \in {"offered", "starting"} /\ task.plan = Null
    \/ /\ task.step \in {"checking", "queued", "staging", "staged"}
       /\ task.plan.cancelled

Delivering(r) == \E m \in In(toView) : m.type = "importContent" /\ m.operation = r

Guarded(r) ==
    /\ Shaped(tasks[r])
    /\ r \in ledger.cancelled => Halted(tasks[r])
    /\ host.disposed => Halted(tasks[r]) \/ tasks[r].step \in {"committing", "published"}
    /\ ~host.disposed => (host.claim = r <=> Busy(tasks[r]) /\ r \notin ledger.cancelled)
    /\ ~host.disposed /\ tasks[r].step = "offering" /\ tasks[r].plan = Null
          => r \in ledger.cancelled
    /\ r \in ledger.effected =>
          /\ r \notin ledger.cancelled
          /\ tasks[r].step \in {"applying", "restoring", "published", "ended"}
    /\ Delivering(r) =>
          /\ r \notin ledger.cancelled
          /\ tasks[r].step \in {"applying", "restoring", "ended"}

Untouched(r) ==
    /\ tasks[r] = NoTask
    /\ r \notin ledger.cancelled \cup ledger.effected

\* A request begins once, when its message arrives or from the palette.
Orderly(r) ==
    /\ Single(toHost, Beginnings(r))
    /\ ~None(toHost, Beginnings(r)) => r <= ledger.issued /\ Untouched(r)
    /\ r > ledger.issued => Untouched(r)

\* Where a task is whose plan is on offer, or was.
Offerable == {"offering", "offered", "ended"}

Awaiting(r) == view.op.phase = "awaiting" /\ view.op.operation = r

\* A plan is confirmed once: of the offer on its way, the panel that waits for
\* the user and the confirmation on its way there is one at most, and none
\* before the plan is offered or while it runs.
ConfirmedOnce(r) ==
    /\ Single(toView, Offerings(r))
    /\ Single(toHost, Confirmations(r))
    /\ Awaiting(r) => None(toView, Offerings(r)) /\ None(toHost, Confirmations(r))
    /\ None(toView, Offerings(r)) \/ None(toHost, Confirmations(r))
    /\ \/ tasks[r].step \in Offerable
       \/ ~Awaiting(r) /\ None(toView, Offerings(r)) /\ None(toHost, Confirmations(r))

Inv == \A r \in Operations : Guarded(r) /\ Orderly(r) /\ ConfirmedOnce(r)

----------------------------------------------------------------------------
(* The turns of the webview *)

\* Besides its request, a turn posts the draft, answers to flushes and reports.
Turned(posted) == \E noise \in Seq(Noise) : toHost' = (toHost \o noise) \o posted

LEMMA TurnTyped ==
    ASSUME WebviewTyped, NEW t, Sound(t), Sent(sync, t), NEW v \in Views,
           NEW posted \in Seq(HostMessages), ViewStep(t, v, posted)
    PROVE  WebviewTyped' /\ Turned(posted) /\ view'.op = v.op
<1> DEFINE places  == SettledImports(v, sync, t)
           settled == Picked(v.applying, places)
           undone  == Picked(v.applying, {n \in places : ~Stored(sync, t, v.applying[n])})
           reports == [n \in DOMAIN settled |->
                          Applied(settled[n].operation, Stored(sync, t, settled[n]))]
           kept    == Picked(v.applying, DOMAIN v.applying \ places)
           back    == IF undone = <<>> THEN v.body ELSE undone[Len(undone)].checkpoint
           edits   == IF Sends(sync, t) THEN <<[type |-> "edit", request |-> t.inFlight]>>
                                        ELSE <<>>
           answers == Answers(sync, t, MaxOperations)
           noise   == (edits \o answers) \o reports
<1>1. /\ sync \in SyncStates /\ t \in SyncStates
      /\ v.applying \in Seq(Applications)
      /\ toHost \in Seq(HostMessages)
      /\ MaxOperations \in Nat
  BY OperationAssumption DEF WebviewTyped, Sound, Consistent, Views
<1>2. /\ places \in SUBSET (DOMAIN v.applying)
      /\ {n \in places : ~Stored(sync, t, v.applying[n])} \in SUBSET (DOMAIN v.applying)
  BY DEF SettledImports
<1> HIDE DEF places
<1>3. /\ settled \in Seq(Applications)
      /\ undone \in Seq(Applications)
      /\ kept \in Seq(Applications)
  BY <1>1, <1>2, PickedTyped
<1>4. /\ sync' = PutBack(t, undone)
      /\ view' = [v EXCEPT !.applying = kept,
                           !.body     = back,
                           !.tracked  = IF undone = <<>> THEN @ ELSE back,
                           !.typed    = undone = <<>> /\ @]
      /\ toHost' = toHost \o edits \o answers \o reports \o posted
  BY DEF ViewStep, places
<1>5. reports \in Seq(Noise)
  <2> HIDE DEF settled, undone, kept, back, reports
  <2>1. /\ Len(settled) \in Nat /\ DOMAIN settled = 1 .. Len(settled)
        /\ \A n \in 1 .. Len(settled) : settled[n].operation \in Operations
    <3>1. /\ Len(settled) \in Nat /\ DOMAIN settled = 1 .. Len(settled)
          /\ \A n \in 1 .. Len(settled) : settled[n] \in Applications
      BY <1>3, LenProperties
    <3>2. QED
      BY <3>1 DEF Applications
  <2>2. \A n \in 1 .. Len(settled) :
           Applied(settled[n].operation, Stored(sync, t, settled[n])) \in Noise
    <3>1. \A r \in Operations, ok \in BOOLEAN : Applied(r, ok) \in Noise
      BY DEF Applied, Noise, ReportMessages
    <3>2. \A i : Stored(sync, t, i) \in BOOLEAN
      BY DEF Stored
    <3>3. QED
      BY <2>1, <3>1, <3>2
  <2>3. reports \in [1 .. Len(settled) -> Noise]
    BY <2>1, <2>2 DEF reports
  <2>4. QED
    BY <2>1, <2>3, SeqDef
<1>6. edits \in Seq(Noise)
  <2>1. CASE Sends(sync, t)
    <3>1. t.inFlight \in Requests
      BY <1>1, <2>1 DEF Sends, Sent, SyncStates
    <3>2. [type |-> "edit", request |-> t.inFlight] \in Noise
      BY <3>1 DEF Noise, EditMessages
    <3>3. QED
      BY <2>1, <3>2, InFew
  <2>2. CASE ~Sends(sync, t)
    BY <2>2, InFew
  <2>3. QED
    BY <2>1, <2>2
<1>7. answers \in Seq(Noise)
  <2>1. answers \in Seq(FlushMessages(MaxOperations))
    BY <1>1, AnswersTyped
  <2>2. FlushMessages(MaxOperations) \subseteq Noise
    BY DEF Noise
  <2> HIDE DEF answers
  <2>3. QED
    BY <2>1, <2>2, SeqMonotonic
<1>8. back \in Contents
  <2> HIDE DEF undone
  <2>1. CASE undone = <<>>
    BY <2>1 DEF Views
  <2>2. CASE undone # <<>>
    <3>1. Len(undone) \in 1 .. Len(undone)
      BY <1>3, <2>2, EmptySeq, LenProperties
    <3>2. undone[Len(undone)] \in Applications
      BY <1>3, <3>1, LenProperties
    <3>3. QED
      BY <2>2, <3>2 DEF Applications
  <2>3. QED
    BY <2>1, <2>2
<1> HIDE DEF settled, undone, reports, kept, back, edits, answers
<1>9. view' \in Views /\ view'.op = v.op
  <2>1. (undone = <<>> /\ v.typed) \in BOOLEAN
    BY DEF Views
  <2>2. QED
    BY <1>3, <1>4, <1>8, <2>1 DEF Views
<1>10. noise \in Seq(Noise)
  BY <1>5, <1>6, <1>7, ConcatProperties
<1>11. toHost' = (toHost \o noise) \o posted
  BY <1>1, <1>4, <1>5, <1>6, <1>7
<1> HIDE DEF noise
<1>12. toHost' \in Seq(HostMessages)
  <2>1. noise \in Seq(HostMessages)
    BY <1>10, SeqMonotonic DEF HostMessages
  <2>2. QED
    BY <1>1, <1>11, <2>1, ConcatProperties
<1>13. Sound(sync')
  BY <1>3, <1>4, PutBackSound
<1>14. QED
  BY <1>9, <1>10, <1>11, <1>12, <1>13 DEF WebviewTyped, Turned

\* Besides drafts, answers and reports, a turn posts nothing, or at last one
\* message of the user.
Murmurs == \E q \in Seq(Noise) : toHost' = toHost \o q

Utters(m) == \E q \in Seq(Noise) : toHost' = (toHost \o q) \o <<m>>

\* The panel does not begin to wait for the user.
Steady == view'.op.phase = "awaiting" => view'.op = view.op

LEMMA NothingPosted ==
    ASSUME WebviewTyped, UNCHANGED toHost
    PROVE  Murmurs
<1>1. <<>> \in Seq(Noise)
  OBVIOUS
<1>2. toHost' = toHost \o <<>>
  BY DEF WebviewTyped
<1>3. QED
  BY <1>1, <1>2 DEF Murmurs

\* Turns that post nothing more, one more report, or one message of the user.
LEMMA ReportTurn ==
    ASSUME WebviewTyped, NEW t, Sound(t), Sent(sync, t), NEW v \in Views,
           NEW posted \in Seq(Noise), ViewStep(t, v, posted)
    PROVE  WebviewTyped' /\ Murmurs /\ view'.op = v.op
<1>1. posted \in Seq(HostMessages)
  BY SeqMonotonic DEF HostMessages
<1>2. WebviewTyped' /\ Turned(posted) /\ view'.op = v.op
  BY <1>1, TurnTyped
<1>3. PICK noise \in Seq(Noise) : toHost' = (toHost \o noise) \o posted
  BY <1>2 DEF Turned
<1>4. toHost \in Seq(HostMessages)
  BY DEF WebviewTyped
<1>5. toHost' = toHost \o (noise \o posted)
  BY <1>3, <1>4
<1>6. noise \o posted \in Seq(Noise)
  BY ConcatProperties
<1>7. QED
  BY <1>2, <1>5, <1>6 DEF Murmurs

LEMMA QuietTurn ==
    ASSUME WebviewTyped, NEW t, Sound(t), Sent(sync, t), NEW v \in Views,
           ViewStep(t, v, <<>>)
    PROVE  WebviewTyped' /\ Murmurs /\ view'.op = v.op
<1>1. <<>> \in Seq(Noise)
  OBVIOUS
<1>2. QED
  BY <1>1, ReportTurn

LEMMA WishingTurn ==
    ASSUME WebviewTyped, NEW t, Sound(t), Sent(sync, t), NEW v \in Views,
           NEW m \in Wishes, ViewStep(t, v, <<m>>)
    PROVE  WebviewTyped' /\ Utters(m) /\ view'.op = v.op
<1>1. <<m>> \in Seq(HostMessages)
  <2>1. m \in HostMessages
    BY DEF HostMessages
  <2>2. QED
    BY <2>1, InFew
<1>2. QED
  BY <1>1, TurnTyped DEF Turned, Utters

\* The coordinator at the start of a turn, before and after what was typed.
LEMMA Undisturbed ==
    ASSUME WebviewTyped
    PROVE  Sound(sync) /\ sync \in SyncStates /\ Sent(sync, sync)
<1>1. Sound(sync) /\ sync \in SyncStates
  BY DEF WebviewTyped, Sound, Consistent
<1>2. QED
  BY <1>1, SentNothing, AddsSent

LEMMA CapturedTyped ==
    ASSUME WebviewTyped
    PROVE  /\ Adds(sync, Captured(view)) /\ Sound(Captured(view))
           /\ Captured(view) \in SyncStates
           /\ Sent(sync, Captured(view))
           /\ CapturedView(view) \in Views /\ CapturedView(view).op = view.op
<1>1. Sound(sync) /\ sync \in SyncStates
  BY DEF WebviewTyped, Sound, Consistent
<1>2. view \in Views /\ view.body \in Contents
  BY DEF WebviewTyped, Views
<1>3. Adds(sync, Captured(view))
  BY <1>1, <1>2, SubmitAdds, SentNothing DEF Captured
<1>4. CapturedView(view) \in Views /\ CapturedView(view).op = view.op
  BY <1>2 DEF CapturedView, Views
<1> HIDE DEF Captured
<1>5. QED
  BY <1>1, <1>3, <1>4, AddsSent DEF Sound, Consistent

----------------------------------------------------------------------------
(* The user and the debounce *)

\* What the host keeps while the webview takes a turn.
HostKept == UNCHANGED <<host, tasks, doc, target>>

LEMMA TypeTyped ==
    ASSUME Wellformed, Type
    PROVE  WebviewTyped' /\ Murmurs /\ Steady /\ ledger' \in Ledgers
<1>1. WebviewTyped' /\ Steady
  BY OperationAssumption DEF Wellformed, WebviewTyped, Views, Type, Steady
<1>2. ledger' \in Ledgers
  <2>1. ledger \in Ledgers /\ ledger.typed + 1 \in Nat
    BY DEF Wellformed, Ledgers
  <2>2. ledger' = [ledger EXCEPT !.typed = @ + 1]
    BY DEF Type
  <2>3. QED
    BY <2>1, <2>2 DEF Ledgers
<1>3. QED
  BY <1>1, <1>2, NothingPosted DEF Wellformed, Type

LEMMA DebounceTyped ==
    ASSUME Wellformed, Debounce
    PROVE  WebviewTyped' /\ Murmurs /\ Steady
BY CapturedTyped, QuietTurn DEF Wellformed, Debounce, Steady

\* A new request has the next number.
LEMMA NewTyped ==
    ASSUME Wellformed, NEW r \in Operations, NewOperation(r)
    PROVE  ledger' \in Ledgers /\ ledger'.issued = r /\ r = ledger.issued + 1
<1>1. ledger \in Ledgers /\ r \in 0 .. MaxOperations
  BY OperationAssumption DEF Wellformed, Operations
<1>2. QED
  BY <1>1 DEF NewOperation, Issue, Ledgers

LEMMA PrepareTyped ==
    ASSUME Wellformed, Prepare
    PROVE  /\ WebviewTyped' /\ Steady
           /\ \E r \in Operations : NewOperation(r) /\ \E m \in Beginnings(r) : Utters(m)
<1>1. PICK r \in Operations, kind \in Kinds :
         /\ NewOperation(r)
         /\ ViewStep(Captured(view),
                     [CapturedView(view) EXCEPT !.op = Preflighting(r, kind)],
                     <<[type |-> "prepare", operation |-> r, kind |-> kind]>>)
  BY DEF Prepare
<1> DEFINE v == [CapturedView(view) EXCEPT !.op = Preflighting(r, kind)]
           m == [type |-> "prepare", operation |-> r, kind |-> kind]
<1>2. kind \in {"export", "import"}
  BY OperationAssumption
<1>3. Preflighting(r, kind) \in Shown
  BY <1>2 DEF Preflighting, Shown
<1>4. CapturedView(view) \in Views
  BY CapturedTyped DEF Wellformed
<1>5. v \in Views /\ v.op.phase # "awaiting"
  BY <1>3, <1>4 DEF Views, Preflighting
<1>6. m \in Beginnings(r) /\ m \in Wishes
  BY <1>2 DEF Beginnings, Wishes, PrepareMessages
<1>7. ViewStep(Captured(view), v, <<m>>)
  BY <1>1
<1> HIDE DEF v, m
<1>8. WebviewTyped' /\ Utters(m) /\ Steady
  BY <1>5, <1>6, <1>7, CapturedTyped, WishingTurn DEF Wellformed, Steady
<1>9. QED
  BY <1>1, <1>6, <1>8

\* The panel shows a request of the session wherever it shows one.
LEMMA ShownRequest ==
    ASSUME Wellformed, view.op.phase # "idle"
    PROVE  view.op \in Shown /\ view.op.operation \in Operations
<1>1. view.op \in Shown \cup {Idle}
  BY DEF Wellformed, WebviewTyped, Views
<1>2. view.op # Idle
  BY DEF Idle
<1>3. QED
  BY <1>1, <1>2 DEF Shown

LEMMA ConfirmTyped ==
    ASSUME Wellformed, Confirm
    PROVE  /\ WebviewTyped' /\ view'.op.phase = "running"
           /\ \E r \in Operations : Awaiting(r) /\ \E m \in Confirmations(r) : Utters(m)
<1> DEFINE r == view.op.operation
           v == [view EXCEPT !.op.phase = "running"]
           m == Message("execute", r)
<1>1. view.op \in Shown /\ r \in Operations /\ Awaiting(r)
  BY ShownRequest DEF Confirm, Awaiting
<1>2. view \in Views
  BY DEF Wellformed, WebviewTyped
<1>3. [view.op EXCEPT !.phase = "running"] \in Shown
  BY <1>1 DEF Shown
<1>4. v \in Views /\ v.op.phase = "running"
  BY <1>1, <1>2, <1>3 DEF Views, Shown
<1>5. m \in Confirmations(r) /\ m \in Wishes
  BY <1>1 DEF Message, Confirmations, Wishes, PlainMessages
<1>6. ViewStep(sync, v, <<m>>)
  BY DEF Confirm
<1> HIDE DEF v, m
<1>7. WebviewTyped' /\ Utters(m) /\ view'.op = v.op
  BY <1>4, <1>5, <1>6, Undisturbed, WishingTurn DEF Wellformed
<1>8. QED
  BY <1>1, <1>4, <1>5, <1>7

LEMMA CancelTyped ==
    ASSUME Wellformed, Cancel
    PROVE  /\ WebviewTyped' /\ Steady /\ ledger' \in Ledgers
           /\ \E m \in PlainMessages : m.type = "cancel" /\ Utters(m)
<1> DEFINE m == Message("cancel", view.op.operation)
<1>1. view.op.operation \in Operations
  BY ShownRequest DEF Cancel, Active
<1>2. view \in Views
  BY DEF Wellformed, WebviewTyped
<1>3. m \in PlainMessages /\ m \in Wishes /\ m.type = "cancel"
  BY <1>1 DEF Message, PlainMessages, Wishes
<1>4. ViewStep(sync, view, <<m>>)
  BY DEF Cancel
<1> HIDE DEF m
<1>5. WebviewTyped' /\ Utters(m) /\ Steady
  BY <1>2, <1>3, <1>4, Undisturbed, WishingTurn DEF Wellformed, Steady
<1>6. ledger' \in Ledgers
  BY <1>1 DEF Wellformed, Ledgers, Cancel
<1>7. QED
  BY <1>3, <1>5, <1>6

LEMMA RetryTyped ==
    ASSUME Wellformed, RetryOperation
    PROVE  /\ WebviewTyped' /\ Steady
           /\ \E r \in Operations : NewOperation(r) /\ \E m \in Beginnings(r) : Utters(m)
<1>1. PICK r \in Operations :
         /\ NewOperation(r)
         /\ ViewStep(sync, [view EXCEPT !.op = Preflighting(r, view.op.kind)],
                     <<[type |-> "retry", operation |-> r,
                        previous |-> view.op.operation]>>)
  BY DEF RetryOperation
<1> DEFINE v == [view EXCEPT !.op = Preflighting(r, view.op.kind)]
           m == [type |-> "retry", operation |-> r, previous |-> view.op.operation]
<1>2. view.op \in Shown /\ view.op.operation \in Operations
  BY ShownRequest DEF RetryOperation
<1>3. Preflighting(r, view.op.kind) \in Shown
  BY <1>2 DEF Preflighting, Shown
<1>4. view \in Views
  BY DEF Wellformed, WebviewTyped
<1>5. v \in Views /\ v.op.phase # "awaiting"
  BY <1>3, <1>4 DEF Views, Preflighting
<1>6. m \in Beginnings(r) /\ m \in Wishes
  BY <1>2 DEF Beginnings, Wishes, AgainMessages
<1>7. ViewStep(sync, v, <<m>>)
  BY <1>1
<1> HIDE DEF v, m
<1>8. WebviewTyped' /\ Utters(m) /\ Steady
  BY <1>5, <1>6, <1>7, Undisturbed, WishingTurn DEF Wellformed, Steady
<1>9. QED
  BY <1>1, <1>6, <1>8

LEMMA ResultActionTyped ==
    ASSUME Wellformed, ResultAction
    PROVE  /\ WebviewTyped' /\ Steady
           /\ \E r \in Operations : NewOperation(r) /\ \E m \in Beginnings(r) : Utters(m)
<1>1. PICK r \in Operations, action \in view.op.offers :
         /\ NewOperation(r)
         /\ ViewStep(sync,
                     [view EXCEPT !.pending = [action |-> action, operation |-> r,
                                               result |-> view.op]],
                     <<[type |-> action, operation |-> r,
                        previous |-> view.op.operation]>>)
  BY DEF ResultAction
<1> DEFINE pending == [action |-> action, operation |-> r, result |-> view.op]
           v == [view EXCEPT !.pending = pending]
           m == [type |-> action, operation |-> r, previous |-> view.op.operation]
<1>2. view.op \in Shown /\ view.op.operation \in Operations
  BY ShownRequest DEF ResultAction
<1>3. action \in {"undo", "repeat"}
  BY <1>2 DEF Shown
<1>4. pending \in PendingActions
  BY <1>2, <1>3 DEF PendingActions, ResultActions, ResultAction
<1>5. view \in Views
  BY DEF Wellformed, WebviewTyped
<1>6. m \in Beginnings(r) /\ m \in Wishes
  BY <1>2, <1>3 DEF Beginnings, Wishes, AgainMessages
<1>7. ViewStep(sync, v, <<m>>)
  BY <1>1
<1> HIDE DEF pending, m
<1>8. v \in Views /\ v.op = view.op
  BY <1>4, <1>5 DEF Views
<1> HIDE DEF v
<1>9. WebviewTyped' /\ Utters(m) /\ Steady
  BY <1>6, <1>7, <1>8, Undisturbed, WishingTurn DEF Wellformed, Steady
<1>10. QED
  BY <1>1, <1>6, <1>9

----------------------------------------------------------------------------
(* What the webview hears *)

\* The message that is heard leaves the others in the queue.
LEMMA HeardTyped ==
    ASSUME Wellformed, toView # <<>>, toView' = Tail(toView)
    PROVE  /\ toView' \in Seq(ViewMessages)
           /\ In(toView') \subseteq In(toView)
           /\ Head(toView) \in ViewMessages /\ Head(toView) \in In(toView)
BY InTail DEF Wellformed

\* A message is known by its type.
LEMMA ViewMessageTyped ==
    ASSUME NEW m \in ViewMessages
    PROVE  /\ m.type = "status" => m \in StatusMessages
           /\ m.type \in {"requestFlush", "actionFailed"} => m \in NoticeMessages
           /\ m.type = "importContent" => m \in ImportMessages
           /\ m.type = "editAcknowledged" => m \in StoredMessages
           /\ m.type = "editRejected" => m \in RefusedMessages
           /\ m.type = "externalChange" => m \in ForeignMessages
<1>1. CASE m \in StatusMessages
  BY <1>1 DEF StatusMessages
<1>2. CASE m \in NoticeMessages
  BY <1>2 DEF NoticeMessages
<1>3. CASE m \in ImportMessages
  BY <1>3 DEF ImportMessages
<1>4. CASE m \in StoredMessages
  BY <1>4 DEF StoredMessages
<1>5. CASE m \in RefusedMessages
  BY <1>5 DEF RefusedMessages
<1>6. CASE m \in ForeignMessages
  BY <1>6 DEF ForeignMessages
<1>7. QED
  BY <1>1, <1>2, <1>3, <1>4, <1>5, <1>6 DEF ViewMessages

\* The panel shows the plan that is offered, and waits for the user.
Presents(op, m) == m.phase = "awaiting" /\ op.operation = m.operation

LEMMA ReduceTyped ==
    ASSUME NEW op \in Shown \cup {Idle}, NEW m \in StatusMessages
    PROVE  /\ Reduce(op, m) \in Shown \cup {Idle}
           /\ Reduce(op, m).phase = "awaiting" => Reduce(op, m) = op \/ Presents(Reduce(op, m), m)
<1> DEFINE shown == [phase |-> m.phase, operation |-> m.operation, kind |-> m.kind,
                     offers |-> {}]
           matching == op.phase # "idle" /\ op.operation = m.operation
<1>1. shown \in Shown
  BY DEF StatusMessages, Shown
<1>2. op.phase # "idle" => op \in Shown
  BY DEF Idle
<1>3. matching => /\ [op EXCEPT !.phase = "awaiting"] \in Shown
                  /\ [op EXCEPT !.phase = m.phase, !.offers = m.offers] \in Shown
  BY <1>2 DEF StatusMessages, Shown
<1>4. \/ Reduce(op, m) = op
      \/ Reduce(op, m) = shown /\ m.phase \in {"preflighting", "running"}
      \/ /\ matching /\ m.phase = "awaiting"
         /\ Reduce(op, m) = [op EXCEPT !.phase = "awaiting"]
      \/ /\ matching /\ m.phase \notin {"preflighting", "awaiting", "running"}
         /\ Reduce(op, m) = [op EXCEPT !.phase = m.phase, !.offers = m.offers]
  BY DEF Reduce
<1>5. matching => [op EXCEPT !.phase = "awaiting"].operation = m.operation
  BY <1>2 DEF Shown
<1>6. matching => [op EXCEPT !.phase = m.phase, !.offers = m.offers].phase = m.phase
  BY <1>2 DEF Shown
<1>7. shown.phase = m.phase
  OBVIOUS
<1> HIDE DEF shown, matching
<1>8. QED
  BY <1>1, <1>3, <1>4, <1>5, <1>6, <1>7 DEF Presents

\* A running status takes the place of whatever was shown before.
LEMMA ReduceRuns ==
    ASSUME NEW m \in StatusMessages, m.phase = "running"
    PROVE  Reduce(Idle, m) \in Shown /\ Reduce(Idle, m).phase = "running"
BY DEF Reduce, Idle, StatusMessages, Shown

LEMMA ReduceActionTyped ==
    ASSUME NEW v \in Views, v.pending # Null, NEW m \in StatusMessages
    PROVE  /\ ReduceAction(v, m) \in Views
           /\ ReduceAction(v, m).op.phase = "awaiting"
                 => \/ ReduceAction(v, m).op = v.op
                    \/ Presents(ReduceAction(v, m).op, m)
<1> DEFINE result == v.pending.result
           run == [m EXCEPT !.phase = "running"]
           ended == [Reduce(Idle, run) EXCEPT !.phase = "succeeded", !.offers = m.offers]
<1>1. v.pending \in ResultActions /\ result \in Shown /\ v.op \in Shown \cup {Idle}
      /\ result.phase = "succeeded"
  BY DEF Views, PendingActions, ResultActions
<1>2. ASSUME NEW op \in Shown \cup {Idle}
      PROVE  /\ [v EXCEPT !.pending = Null, !.op = op] \in Views
             /\ [v EXCEPT !.pending = Null, !.op = op].op = op
             /\ [v EXCEPT !.op = op] \in Views
             /\ [v EXCEPT !.op = op].op = op
  BY DEF Views
<1>3. ended \in Shown /\ ended.phase = "succeeded"
  <2>1. run \in StatusMessages /\ run.phase = "running"
    BY DEF StatusMessages
  <2> HIDE DEF run
  <2>2. Reduce(Idle, run) \in Shown
    BY <2>1, ReduceRuns
  <2>3. m.offers \in SUBSET {"undo", "repeat"}
    BY DEF StatusMessages
  <2>4. QED
    BY <2>2, <2>3 DEF Shown
<1> HIDE DEF ended
<1>4. CASE m.phase = "preflighting" /\ v.pending.action = "repeat"
  <2>1. ReduceAction(v, m) = [v EXCEPT !.pending = Null, !.op = Reduce(result, m)]
    BY <1>4 DEF ReduceAction
  <2>2. /\ Reduce(result, m) \in Shown \cup {Idle}
        /\ Reduce(result, m).phase = "awaiting"
              => Reduce(result, m) = result \/ Presents(Reduce(result, m), m)
    BY <1>1, ReduceTyped
  <2>3. Reduce(result, m).phase # "awaiting"
    BY <1>1, <1>4, <2>2 DEF Presents
  <2>4. QED
    BY <1>2, <2>1, <2>2, <2>3
<1>5. CASE m.phase = "running" /\ v.pending.action = "undo"
  <2>1. ReduceAction(v, m) = [v EXCEPT !.op = Reduce(Idle, m)]
    BY <1>5 DEF ReduceAction
  <2>2. Reduce(Idle, m) \in Shown /\ Reduce(Idle, m).phase = "running"
    BY <1>5, ReduceRuns
  <2>3. QED
    BY <1>2, <2>1, <2>2
<1>6. CASE m.phase = "succeeded" /\ v.pending.action = "undo"
  <2>1. ReduceAction(v, m) = [v EXCEPT !.pending = Null, !.op = ended]
    BY <1>6 DEF ReduceAction, ended
  <2>2. QED
    BY <1>2, <1>3, <2>1
<1>7. CASE m.phase \in {"failed", "cancelled"}
  <2>1. ReduceAction(v, m) = [v EXCEPT !.pending = Null, !.op = result]
    BY <1>7 DEF ReduceAction
  <2>2. QED
    BY <1>1, <1>2, <2>1
<1>8. CASE /\ ~(m.phase = "preflighting" /\ v.pending.action = "repeat")
           /\ ~(m.phase = "running" /\ v.pending.action = "undo")
           /\ ~(m.phase = "succeeded" /\ v.pending.action = "undo")
           /\ m.phase \notin {"failed", "cancelled"}
  <2>1. ReduceAction(v, m) = [v EXCEPT !.op = Reduce(v.op, m)]
    BY <1>8 DEF ReduceAction
  <2>2. /\ Reduce(v.op, m) \in Shown \cup {Idle}
        /\ Reduce(v.op, m).phase = "awaiting"
              => Reduce(v.op, m) = v.op \/ Presents(Reduce(v.op, m), m)
    BY <1>1, ReduceTyped
  <2>3. QED
    BY <1>2, <2>1, <2>2
<1>9. QED
  BY <1>4, <1>5, <1>6, <1>7, <1>8

LEMMA HearStatusTyped ==
    ASSUME Wellformed, HearStatus
    PROVE  /\ WebviewTyped' /\ Murmurs
           /\ view'.op.phase = "awaiting"
                 => \/ view'.op = view.op
                    \/ /\ view'.op.operation \in Operations
                       /\ Head(toView) \in Offerings(view'.op.operation)
<1> DEFINE m == Head(toView)
           v == [view EXCEPT !.authorized = Authorized(view, m)]
           next == IF view.pending # Null /\ view.pending.operation = m.operation
                   THEN ReduceAction(v, m)
                   ELSE [v EXCEPT !.op = Reduce(v.op, m)]
<1>1. m \in StatusMessages
  BY HeardTyped, ViewMessageTyped DEF HearStatus, Hears, Heard
<1>2. view \in Views
  BY DEF Wellformed, WebviewTyped
<1>3. ViewStep(sync, next, <<>>)
  BY DEF HearStatus
<1> HIDE DEF m
<1>4. Authorized(view, m) \in 0 .. MaxOperations
  BY <1>1, <1>2, OperationAssumption DEF Authorized, StatusMessages, Views, Operations
<1>5. /\ v \in Views /\ v.pending = view.pending
      /\ v.op = view.op /\ v.op \in Shown \cup {Idle}
  BY <1>2, <1>4 DEF Views
<1> HIDE DEF v
<1>6. [v EXCEPT !.op = Reduce(v.op, m)] \in Views
  <2>1. Reduce(v.op, m) \in Shown \cup {Idle}
    BY <1>1, <1>5, ReduceTyped
  <2>2. QED
    BY <1>5, <2>1 DEF Views
<1>7. [v EXCEPT !.op = Reduce(v.op, m)].op = Reduce(v.op, m)
  BY <1>5 DEF Views
<1>8. view.pending # Null
         => /\ ReduceAction(v, m) \in Views
            /\ ReduceAction(v, m).op.phase = "awaiting"
                  => \/ ReduceAction(v, m).op = v.op
                    \/ Presents(ReduceAction(v, m).op, m)
  BY <1>1, <1>5, ReduceActionTyped
<1>9. /\ next \in Views
      /\ next.op.phase = "awaiting" => next.op = v.op \/ Presents(next.op, m)
  BY <1>1, <1>5, <1>6, <1>7, <1>8, ReduceTyped
<1> HIDE DEF next
<1>10. WebviewTyped' /\ Murmurs /\ view'.op = next.op
  BY <1>3, <1>9, Undisturbed, QuietTurn DEF Wellformed
<1>11. view'.op.phase = "awaiting" => view'.op = view.op \/ Presents(view'.op, m)
  BY <1>5, <1>9, <1>10
<1>12. Presents(view'.op, m) => /\ view'.op.operation \in Operations
                               /\ m \in Offerings(view'.op.operation)
  BY <1>1 DEF Presents, Offerings, StatusMessages
<1>13. QED
  BY <1>10, <1>11, <1>12 DEF m

LEMMA HearActionFailedTyped ==
    ASSUME Wellformed, HearActionFailed
    PROVE  WebviewTyped' /\ Murmurs /\ Steady
<1> DEFINE next == IF view.pending # Null /\ view.pending.operation = Head(toView).operation
                   THEN [view EXCEPT !.pending = Null, !.op = view.pending.result]
                   ELSE view
<1>1. view \in Views
  BY DEF Wellformed, WebviewTyped
<1>2. next \in Views /\ (next.op.phase = "awaiting" => next.op = view.op)
  <2>1. CASE view.pending # Null
    <3>1. view.pending.result \in Shown /\ view.pending.result.phase = "succeeded"
      BY <1>1, <2>1 DEF Views, PendingActions, ResultActions
    <3>2. /\ [view EXCEPT !.pending = Null, !.op = view.pending.result] \in Views
          /\ [view EXCEPT !.pending = Null, !.op = view.pending.result].op
                = view.pending.result
      BY <1>1, <3>1 DEF Views
    <3>3. QED
      BY <1>1, <3>1, <3>2
  <2>2. CASE view.pending = Null
    BY <1>1, <2>2
  <2>3. QED
    BY <2>1, <2>2
<1>3. ViewStep(sync, next, <<>>)
  BY DEF HearActionFailed
<1> HIDE DEF next
<1>4. QED
  BY <1>2, <1>3, Undisturbed, QuietTurn DEF Wellformed, Steady

LEMMA HearEditAnswerTyped ==
    ASSUME Wellformed, HearEditAnswer
    PROVE  WebviewTyped' /\ Murmurs /\ Steady
<1> DEFINE m == Head(toView)
           t == IF m.type = "editAcknowledged" THEN Acknowledge(sync, m) ELSE Reject(sync, m)
<1>1. m \in ViewMessages
  BY HeardTyped DEF HearEditAnswer, Hears, Heard
<1>2. m.type = "editAcknowledged" \/ m.type = "editRejected"
  BY DEF HearEditAnswer, Hears
<1>3. ViewStep(t, view, <<>>) /\ view \in Views
  BY DEF HearEditAnswer, Wellformed, WebviewTyped
<1> HIDE DEF m
<1>4. Sound(t) /\ Keeps(sync, t)
  <2>1. CASE m.type = "editAcknowledged"
    <3>1. m.revision \in Nat
      BY <1>1, <2>1, ViewMessageTyped DEF StoredMessages
    <3>2. QED
      BY <2>1, <3>1, Undisturbed, AcknowledgeSound, AcknowledgeKeeps DEF Wellformed
  <2>2. CASE m.type = "editRejected"
    <3>1. /\ m.revision \in Nat /\ m.code \in ErrorCodes
          /\ m.hostSnapshot \in Mutations \cup {Null}
      BY <1>1, <2>2, ViewMessageTyped DEF RefusedMessages, ErrorCodes
    <3>2. QED
      BY <2>2, <3>1, Undisturbed, RejectSound, RejectKeeps DEF Wellformed
  <2>3. QED
    BY <1>2, <2>1, <2>2
<1> HIDE DEF t
<1>5. Sent(sync, t)
  BY <1>4, KeptSent, Undisturbed DEF Wellformed
<1>6. QED
  BY <1>3, <1>4, <1>5, QuietTurn DEF Wellformed, Steady

LEMMA HearExternalChangeTyped ==
    ASSUME Wellformed, HearExternalChange
    PROVE  WebviewTyped' /\ Murmurs /\ Steady
<1> DEFINE m == Head(toView)
           t == ObserveExternalChange(sync, m.revision, m.snapshot)
<1>1. m \in ForeignMessages
  BY HeardTyped, ViewMessageTyped DEF HearExternalChange, Hears, Heard
<1>2. ViewStep(t, view, <<>>) /\ view \in Views
  BY DEF HearExternalChange, Wellformed, WebviewTyped
<1> HIDE DEF m
<1>3. Sound(t) /\ Keeps(sync, t)
  BY <1>1, Undisturbed, ObserveSound, ObserveKeeps DEF Wellformed, ForeignMessages
<1> HIDE DEF t
<1>4. Sent(sync, t)
  BY <1>3, KeptSent, Undisturbed DEF Wellformed
<1>5. QED
  BY <1>2, <1>3, <1>4, QuietTurn DEF Wellformed, Steady

LEMMA HearFlushTyped ==
    ASSUME Wellformed, HearFlush
    PROVE  WebviewTyped' /\ Murmurs /\ Steady /\ ledger' \in Ledgers
<1> DEFINE r == Head(toView).operation
           captured == Captured(view)
           posted == AnswersAtOnce(RetryBeforeSave(captured), r)
           t == AfterAcknowledged(captured, r)
<1>1. r \in Operations
  BY HeardTyped, ViewMessageTyped DEF HearFlush, Hears, Heard, NoticeMessages
<1>2. /\ ViewStep(t, CapturedView(view), posted)
      /\ ledger' = [ledger EXCEPT !.flushed[r] = ledger.typed]
  BY DEF HearFlush
<1> HIDE DEF r
<1>3. posted \in Seq(Noise)
  <2>1. \A ok \in BOOLEAN : FlushAnswer(r, ok) \in Noise
    BY <1>1 DEF FlushAnswer, Noise, FlushMessages, Operations
  <2>2. <<FlushAnswer(r, TRUE)>> \in Seq(Noise) /\ <<FlushAnswer(r, FALSE)>> \in Seq(Noise)
    BY <2>1, InFew
  <2>3. <<>> \in Seq(Noise)
    OBVIOUS
  <2>4. QED
    BY <2>2, <2>3 DEF AnswersAtOnce
<1>4. Adds(sync, captured) /\ captured \in SyncStates /\ Sound(captured)
  BY CapturedTyped DEF Wellformed
<1>5. CapturedView(view) \in Views /\ CapturedView(view).op = view.op
  BY CapturedTyped DEF Wellformed
<1> HIDE DEF captured, posted
<1>6. Adds(captured, t)
  BY <1>1, <1>4, BarrierAdds DEF Operations
<1> HIDE DEF t
<1>7. Sound(t) /\ Sent(sync, t)
  <2>1. t \in SyncStates
    BY <1>6 DEF Adds, Sound, Consistent
  <2>2. Adds(sync, t)
    BY <1>4, <1>6, <2>1, Undisturbed, AddsOn DEF Wellformed
  <2>3. QED
    BY <2>2, Undisturbed, AddsSent DEF Wellformed
<1>8. WebviewTyped' /\ Murmurs /\ Steady
  BY <1>2, <1>3, <1>5, <1>7, ReportTurn DEF Wellformed, Steady
<1>9. ledger' \in Ledgers
  <2>1. ledger \in Ledgers /\ ledger.typed \in Nat
    BY DEF Wellformed, Ledgers
  <2>2. [ledger.flushed EXCEPT ![r] = ledger.typed] \in [Operations -> Nat]
    BY <2>1 DEF Ledgers
  <2>3. QED
    BY <1>2, <2>1, <2>2 DEF Ledgers
<1>10. QED
  BY <1>8, <1>9

\* The turn that applies an imported body, or puts back what it replaced.
LEMMA ImportTurn ==
    ASSUME Wellformed, NEW r \in Operations, NEW body \in Contents,
           NEW submitted, submitted = SubmitContent(sync, Mutation(body), TRUE),
           NEW asked, asked = RetryBeforeSave(submitted),
           NEW replaced, replaced = [view EXCEPT !.authorized = 0, !.body = body,
                                                 !.tracked = body, !.typed = FALSE],
           IF FlushRejects(asked, asked.localGeneration)
           THEN ViewStep(SubmitContent(asked, Mutation(view.body), TRUE),
                         [replaced EXCEPT !.body = view.body, !.tracked = view.body],
                         <<Applied(r, FALSE)>>)
           ELSE ViewStep(AfterAcknowledged(submitted, Barrier(r)),
                         [replaced EXCEPT !.applying =
                             Append(@, [operation |-> r, checkpoint |-> view.body])],
                         <<>>)
    PROVE  WebviewTyped' /\ Murmurs /\ Steady
<1>1. view \in Views /\ view.body \in Contents
  BY DEF Wellformed, WebviewTyped, Views
<1>2. Sound(sync) /\ sync \in SyncStates
  BY Undisturbed DEF Wellformed
<1>3. Adds(sync, submitted) /\ Sound(submitted) /\ submitted \in SyncStates
  BY <1>2, SubmitAdds DEF Adds, Sound, Consistent
<1>4. Adds(submitted, asked) /\ Sound(asked) /\ asked \in SyncStates
  BY <1>3, RetryAdds DEF Adds, Sound, Consistent
<1>5. replaced \in Views /\ replaced.applying = view.applying /\ replaced.op = view.op
  <2>1. 0 \in 0 .. MaxOperations
    BY OperationAssumption
  <2>2. QED
    BY <1>1, <2>1 DEF Views
<1>6. CASE FlushRejects(asked, asked.localGeneration)
  <2> DEFINE t == SubmitContent(asked, Mutation(view.body), TRUE)
             v == [replaced EXCEPT !.body = view.body, !.tracked = view.body]
             m == Applied(r, FALSE)
  <2>1. Adds(asked, t) /\ Sound(t) /\ t \in SyncStates
    BY <1>1, <1>4, SubmitAdds DEF Adds, Sound, Consistent
  <2>2. v \in Views /\ v.op = view.op
    BY <1>1, <1>5 DEF Views
  <2>3. <<m>> \in Seq(Noise)
    <3>1. m \in Noise
      BY DEF Applied, Noise, ReportMessages
    <3> HIDE DEF m
    <3>2. QED
      BY <3>1, InFew
  <2>4. ViewStep(t, v, <<m>>)
    BY <1>6
  <2> HIDE DEF t, v, m
  <2>5. Adds(sync, asked)
    BY <1>2, <1>3, <1>4, AddsOn
  <2>6. Adds(sync, t)
    BY <1>2, <1>4, <2>1, <2>5, AddsOn
  <2>7. Sent(sync, t)
    BY <1>2, <2>6, AddsSent
  <2>8. QED
    BY <2>1, <2>2, <2>3, <2>4, <2>7, ReportTurn DEF Wellformed, Steady
<1>7. CASE ~FlushRejects(asked, asked.localGeneration)
  <2> DEFINE t == AfterAcknowledged(submitted, Barrier(r))
             import == [operation |-> r, checkpoint |-> view.body]
             v == [replaced EXCEPT !.applying = Append(@, import)]
  <2>1. Barrier(r) \in Nat
    BY OperationAssumption DEF Barrier, Operations
  <2>2. Adds(submitted, t) /\ Sound(t) /\ t \in SyncStates
    BY <1>3, <2>1, BarrierAdds DEF Adds, Sound, Consistent
  <2>3. import \in Applications
    BY <1>1 DEF Applications
  <2>4. ViewStep(t, v, <<>>)
    BY <1>7
  <2> HIDE DEF import, t
  <2>5. Append(replaced.applying, import) \in Seq(Applications)
    BY <1>5, <2>3, AppendProperties DEF Views
  <2>6. v \in Views /\ v.op = view.op
    BY <1>5, <2>5 DEF Views
  <2> HIDE DEF v
  <2>7. Adds(sync, t)
    BY <1>2, <1>3, <2>2, AddsOn
  <2>8. Sent(sync, t)
    BY <1>2, <2>7, AddsSent
  <2>9. QED
    BY <2>2, <2>4, <2>6, <2>8, QuietTurn DEF Wellformed, Steady
<1>8. QED
  BY <1>6, <1>7

LEMMA HearImportTyped ==
    ASSUME Wellformed, HearImport
    PROVE  /\ WebviewTyped' /\ Murmurs /\ Steady
           /\ ledger' \in Ledgers
           /\ Head(toView) \in ImportMessages
           /\ \/ UNCHANGED ledger
              \/ \E replaced : ledger' =
                    [ledger EXCEPT !.effected = @ \cup {Head(toView).operation},
                                   !.replaced = replaced]
<1> DEFINE m == Head(toView)
           r == m.operation
<1>1. m \in ImportMessages
  BY HeardTyped, ViewMessageTyped DEF HearImport, Hears, Heard
<1>2. r \in Operations /\ m.body \in Contents
  BY <1>1 DEF ImportMessages
<1>3. ledger \in Ledgers /\ view.body \in Contents
  BY DEF Wellformed, WebviewTyped, Views
<1>4. CASE ~Admits(view, r)
  <2>1. UNCHANGED <<sync, view, toHost, ledger>>
    BY <1>4 DEF HearImport, webview
  <2>2. WebviewTyped' /\ Steady
    BY <2>1 DEF Wellformed, WebviewTyped, Steady
  <2>3. QED
    BY <1>1, <1>3, <2>1, <2>2, NothingPosted DEF Wellformed
<1>5. CASE Admits(view, r)
  <2>1. ledger' = [ledger EXCEPT !.effected = @ \cup {r}, !.replaced[r] = view.body]
    BY <1>5 DEF HearImport
  <2>2. WebviewTyped' /\ Murmurs /\ Steady
    BY <1>2, <1>5, ImportTurn DEF HearImport
  <2> DEFINE replaced == [ledger.replaced EXCEPT ![r] = view.body]
  <2>3. replaced \in [Operations -> Contents \cup {Null}]
    BY <1>3 DEF Ledgers
  <2>4. ledger' = [ledger EXCEPT !.effected = @ \cup {r}, !.replaced = replaced]
    BY <2>1
  <2> HIDE DEF replaced, m
  <2>5. ledger.effected \cup {r} \in SUBSET Operations
    BY <1>2, <1>3 DEF Ledgers
  <2>6. ledger' \in Ledgers
    BY <1>3, <2>3, <2>4, <2>5 DEF Ledgers
  <2>7. QED
    BY <1>1, <2>2, <2>4, <2>6 DEF m
<1>6. QED
  BY <1>4, <1>5

\* What a step of the session's host side leaves well typed.
SessionTyped ==
    /\ host \in Hosts
    /\ tasks \in [Operations -> TaskStates]
    /\ toView \in Seq(ViewMessages)
    /\ ledger \in Ledgers

\* No more offers of this plan are on their way to the panel.
Discreet(r) == NoMore(toView, toView', Offerings(r))

\* A step of one request leaves the others as they were.
Only(r) ==
    /\ host'.disposed = host.disposed
    /\ \A q \in Operations \ {r} :
          /\ tasks'[q] = tasks[q]
          /\ host'.claim = q <=> host.claim = q
          /\ q \in ledger'.cancelled <=> q \in ledger.cancelled
          /\ q \in ledger'.effected <=> q \in ledger.effected
          /\ Delivering(q)' => Delivering(q)
          /\ Discreet(q)

\* The task of request r moves; one that could only end still can.
Moved(r) ==
    /\ SessionTyped' /\ Only(r) /\ Guarded(r)'
    /\ Busy(tasks[r]) /\ Halted(tasks[r]) => Halted(tasks'[r])

\* What is posted delivers no import, and offers no plan.
Undelivered ==
    /\ toView' \in Seq(ViewMessages)
    /\ \A q \in Operations : Delivering(q)' => Delivering(q)

Told == Undelivered /\ \A q \in Operations : Discreet(q)

LEMMA Posts ==
    ASSUME Wellformed, NEW q \in Seq(ViewMessages), Post(q)
    PROVE  /\ toView' \in Seq(ViewMessages)
           /\ In(toView') \subseteq In(toView) \cup In(q)
           /\ \A r \in Operations : None(q, Offerings(r)) => Discreet(r)
<1>1. toView \in Seq(ViewMessages)
  BY DEF Wellformed
<1>2. CASE host.disposed
  BY <1>1, <1>2 DEF Post, Posted, Discreet, NoMore
<1>3. CASE ~host.disposed
  <2>1. toView' = toView \o q
    BY <1>3 DEF Post, Posted
  <2>2. toView' \in Seq(ViewMessages) /\ In(toView') \subseteq In(toView) \cup In(q)
    BY <1>1, <2>1, InConcat
  <2>3. ASSUME NEW r \in Operations, None(q, Offerings(r))
        PROVE  Discreet(r)
    <3> DEFINE S == Offerings(r)
    <3>1. None(q, S)
      BY <2>3
    <3> HIDE DEF S
    <3>2. NoMore(toView, toView \o q, S)
      BY <1>1, <3>1, SingleConcat
    <3>3. QED
      BY <2>1, <3>2 DEF Discreet, S
  <2>4. QED
    BY <2>2, <2>3
<1>4. QED
  BY <1>2, <1>3

LEMMA Tells ==
    ASSUME Wellformed, NEW m \in StatusMessages \cup NoticeMessages,
           m \in NoticeMessages \/ m.phase # "awaiting", Post(<<m>>)
    PROVE  Told
<1>1. <<m>> \in Seq(ViewMessages) /\ In(<<m>>) = {m}
  <2>1. m \in ViewMessages
    BY DEF ViewMessages
  <2>2. QED
    BY <2>1, InFew
<1>2. m.type # "importContent" /\ \A r \in Operations : m \notin Offerings(r)
  BY DEF StatusMessages, NoticeMessages, Offerings
<1>3. /\ toView' \in Seq(ViewMessages) /\ In(toView') \subseteq In(toView) \cup {m}
      /\ \A r \in Operations : Discreet(r)
  BY <1>1, <1>2, Posts DEF None
<1>4. QED
  BY <1>2, <1>3 DEF Told, Undelivered, Delivering

LEMMA TellsStatus ==
    ASSUME Wellformed, NEW r \in Operations,
           NEW phase \in {"preflighting", "running", "succeeded", "failed", "cancelled"},
           NEW kind \in {"none", "export", "import"},
           NEW offers \in SUBSET {"undo", "repeat"},
           Post(<<Status(phase, r, kind, offers)>>)
    PROVE  Told
<1>1. /\ Status(phase, r, kind, offers) \in StatusMessages
      /\ Status(phase, r, kind, offers).phase # "awaiting"
  BY DEF Status, StatusMessages
<1>2. QED
  BY <1>1, Tells

LEMMA TellsFailure ==
    ASSUME Wellformed, NEW r \in Operations, Post(<<Message("actionFailed", r)>>)
    PROVE  Told
<1>1. Message("actionFailed", r) \in NoticeMessages
  BY DEF Message, NoticeMessages
<1>2. QED
  BY <1>1, Tells

LEMMA TellsNothing ==
    ASSUME Wellformed, UNCHANGED toView
    PROVE  Told
BY DEF Wellformed, Told, Undelivered, Delivering, Discreet, NoMore

\* One task moves.
LEMMA TaskMoves ==
    ASSUME Wellformed, NEW r \in Operations, NEW task \in TaskStates,
           tasks' = [tasks EXCEPT ![r] = task]
    PROVE  /\ tasks' \in [Operations -> TaskStates]
           /\ tasks'[r] = task
           /\ \A q \in Operations \ {r} : tasks'[q] = tasks[q]
BY DEF Wellformed, HostTyped

LEMMA TaskTyped ==
    ASSUME Wellformed, NEW r \in Operations
    PROVE  /\ tasks[r] \in TaskStates
           /\ tasks[r].kind \in {"none", "export", "import"}
           /\ tasks[r].known \in BOOLEAN /\ tasks[r].step \in Steps
           /\ tasks[r].plan \in Plans \cup {Null}
BY DEF Wellformed, HostTyped, TaskStates

\* The claim is given back by whoever holds it.
LEMMA Releases ==
    ASSUME NEW h \in Hosts, NEW r \in Operations
    PROVE  /\ Release(h, r) \in Hosts
           /\ Release(h, r).disposed = h.disposed
           /\ Release(h, r).claim # r
           /\ \A q \in Operations \ {r} : Release(h, r).claim = q <=> h.claim = q
<1>1. 0 \in 0 .. MaxOperations /\ 0 \notin Operations
  BY OperationAssumption DEF Operations
<1>2. QED
  BY <1>1 DEF Release, Hosts

\* A task that has ended, whatever it was.
LEMMA EndedTask ==
    ASSUME Wellformed, NEW r \in Operations
    PROVE  /\ [NoTask EXCEPT !.kind = tasks[r].kind, !.known = tasks[r].known,
                             !.step = "ended"] \in TaskStates
           /\ Ended(r)[r].step = "ended" /\ Ended(r)[r].plan = Null
           /\ ~Ended(r)[r].aborted
           /\ Ended(r) \in [Operations -> TaskStates]
           /\ \A q \in Operations \ {r} : Ended(r)[q] = tasks[q]
<1> DEFINE task == [NoTask EXCEPT !.kind = tasks[r].kind, !.known = tasks[r].known,
                                  !.step = "ended"]
<1>1. task \in TaskStates
  BY TaskTyped DEF NoTask, TaskStates, Steps
<1>2. task.step = "ended" /\ task.plan = Null /\ ~task.aborted
  BY DEF NoTask
<1>3. Ended(r) = [tasks EXCEPT ![r] = task]
  BY DEF Ended
<1>4. tasks \in [Operations -> TaskStates]
  BY DEF Wellformed, HostTyped
<1> HIDE DEF task
<1>5. Ended(r)[r] = task /\ \A q \in Operations \ {r} : Ended(r)[q] = tasks[q]
  BY <1>3, <1>4
<1>6. Ended(r) \in [Operations -> TaskStates]
  BY <1>1, <1>3, <1>4
<1>7. QED
  BY <1>1, <1>2, <1>5, <1>6 DEF task

\* A task that ends, gives the claim back and tells the webview.
LEMMA TaskEnds ==
    ASSUME Wellformed, NEW r \in Operations, Guarded(r), Told,
           tasks' = Ended(r), NEW h \in Hosts, host' = Release(h, r),
           h.claim = host.claim, h.disposed = host.disposed,
           ledger' \in Ledgers, ledger'.effected = ledger.effected,
           \/ ledger'.cancelled = ledger.cancelled
           \/ /\ ledger'.cancelled = ledger.cancelled \cup {r}
              /\ tasks[r].step \notin {"applying", "restoring", "published", "ended"}
    PROVE  Moved(r)
<1>1. /\ host' \in Hosts /\ host'.disposed = host.disposed /\ host'.claim # r
      /\ \A q \in Operations \ {r} : host'.claim = q <=> host.claim = q
  BY Releases
<1>2. /\ tasks'[r].step = "ended" /\ tasks'[r].plan = Null /\ ~tasks'[r].aborted
      /\ tasks' \in [Operations -> TaskStates]
      /\ \A q \in Operations \ {r} : tasks'[q] = tasks[q]
  BY EndedTask
<1>3. SessionTyped'
  BY <1>1, <1>2 DEF Told, Undelivered, SessionTyped
<1>4. Only(r)
  BY <1>1, <1>2 DEF Only, Told, Undelivered
<1>5. Shaped(tasks'[r]) /\ Halted(tasks'[r]) /\ ~Busy(tasks'[r])
  BY <1>2 DEF Shaped, Halted, Busy, Executing, Export
<1>6. r \in ledger'.effected => r \notin ledger'.cancelled
  BY DEF Guarded
<1>7. Delivering(r)' => r \notin ledger'.cancelled
  BY DEF Guarded, Told, Undelivered
<1>8. Guarded(r)'
  BY <1>1, <1>2, <1>5, <1>6, <1>7 DEF Guarded
<1>9. QED
  BY <1>3, <1>4, <1>5, <1>8 DEF Moved

LEMMA EndMoves ==
    ASSUME Wellformed, NEW r \in Operations, Guarded(r),
           NEW phase \in {"failed", "cancelled"}, End(r, phase),
           phase = "cancelled"
              => tasks[r].step \notin {"applying", "restoring", "published", "ended"}
    PROVE  Moved(r) /\ Discreet(r) /\ ledger'.issued = ledger.issued
<1>1. Told
  BY TaskTyped, TellsStatus DEF End
<1>2. ledger \in Ledgers /\ host \in Hosts
  BY DEF Wellformed, HostTyped
<1>3. /\ ledger' \in Ledgers /\ ledger'.effected = ledger.effected
      /\ ledger'.issued = ledger.issued
      /\ \/ ledger'.cancelled = ledger.cancelled
         \/ ledger'.cancelled = ledger.cancelled \cup {r} /\ phase = "cancelled"
  BY <1>2 DEF End, Ledgers
<1>4. QED
  BY <1>1, <1>2, <1>3, TaskEnds DEF End, Told

\* A task that goes on: it neither ends nor brings something about.
LEMMA TaskGoes ==
    ASSUME Wellformed, NEW r \in Operations, Guarded(r), Undelivered,
           \A q \in Operations \ {r} : Discreet(q),
           NEW task \in TaskStates, tasks' = [tasks EXCEPT ![r] = task],
           UNCHANGED <<host, ledger>>, Shaped(task),
           Busy(task) <=> Busy(tasks[r]),
           task.step = "offering" => task.plan # Null,
           Halted(tasks[r]) => Halted(task),
           tasks[r].step \in {"committing", "published"}
               => task.step \in {"committing", "published"},
           tasks[r].step \notin {"applying", "restoring", "published", "ended"}
    PROVE  Moved(r)
<1>1. /\ tasks' \in [Operations -> TaskStates] /\ tasks'[r] = task
      /\ \A q \in Operations \ {r} : tasks'[q] = tasks[q]
  BY TaskMoves
<1>2. SessionTyped'
  BY <1>1 DEF Told, Undelivered, SessionTyped, Wellformed, HostTyped
<1>3. Only(r)
  BY <1>1 DEF Only, Told, Undelivered
<1>4. r \notin ledger.effected /\ ~Delivering(r)'
  BY DEF Guarded, Told, Undelivered
<1>5. Guarded(r)'
  BY <1>1, <1>4 DEF Guarded
<1>6. QED
  BY <1>2, <1>3, <1>5 DEF Moved

\* The checks before a step that goes on: a halted task never passes them.
LEMMA ContinuesRuns ==
    ASSUME Wellformed, NEW r \in Operations, Guarded(r), ~Aborted(r),
           tasks[r].step \in Preflight \cup {"checking", "queued", "staging", "staged"}
    PROVE  ~Halted(tasks[r]) /\ ~tasks[r].aborted
<1>1. tasks[r].step \in {"checking", "queued", "staging", "staged"}
         => tasks[r].plan # Null
  BY DEF Guarded, Shaped, Executing, Export
<1>2. QED
  BY <1>1 DEF Halted, Aborted, Busy, Preflight

\* A task that ends without a word: the claim is not its own any more.
LEMMA TaskVanishes ==
    ASSUME Wellformed, NEW r \in Operations, Guarded(r), Told,
           tasks' = Ended(r), UNCHANGED <<host, ledger>>,
           host.disposed \/ host.claim # r
    PROVE  Moved(r)
<1>1. /\ tasks'[r].step = "ended" /\ tasks'[r].plan = Null /\ ~tasks'[r].aborted
      /\ tasks' \in [Operations -> TaskStates]
      /\ \A q \in Operations \ {r} : tasks'[q] = tasks[q]
  BY EndedTask
<1>2. SessionTyped'
  BY <1>1 DEF Told, Undelivered, SessionTyped, Wellformed, HostTyped
<1>3. Only(r)
  BY <1>1 DEF Only, Told, Undelivered
<1>4. Shaped(tasks'[r]) /\ Halted(tasks'[r]) /\ ~Busy(tasks'[r])
  BY <1>1 DEF Shaped, Halted, Busy, Executing, Export
<1>5. Guarded(r)'
  BY <1>1, <1>4 DEF Guarded, Told, Undelivered
<1>6. QED
  BY <1>2, <1>3, <1>4, <1>5 DEF Moved

----------------------------------------------------------------------------
(* The tasks *)

\* The plan is offered, for the first time if it was not offered before.
Proposes(r) ==
    /\ tasks[r].step \in {"sizing", "reading"} /\ tasks'[r].step = "offering"
    /\ None(toView, Offerings(r)) => Single(toView', Offerings(r))

\* A step of the task of request r, which had begun.
Proceeds(r) ==
    /\ Moved(r) /\ ledger'.issued = ledger.issued
    /\ doc' \in Documents /\ target' \in Nat
    /\ Discreet(r) \/ Proposes(r)

LEMMA EndProceeds ==
    ASSUME Wellformed, NEW r \in Operations, Guarded(r),
           NEW phase \in {"failed", "cancelled"}, End(r, phase), UNCHANGED <<doc, target>>,
           phase = "cancelled"
              => tasks[r].step \notin {"applying", "restoring", "published", "ended"}
    PROVE  Proceeds(r)
BY EndMoves DEF Proceeds, Wellformed, HostTyped

LEMMA AbortedProceeds ==
    ASSUME Wellformed, NEW r \in Operations, Guarded(r), EndAborted(r),
           tasks[r].step \notin {"applying", "restoring", "published", "ended"}
    PROVE  Proceeds(r)
BY EndProceeds DEF EndAborted

\* A task takes the next step of its phase.
LEMMA GotoMoves ==
    ASSUME Wellformed, NEW r \in Operations, Guarded(r), NEW step,
           tasks' = Goto(r, step), UNCHANGED <<host, toView, ledger, doc, target>>,
           NEW phase \in {Preflight \ {"offering"},
                          {"checking", "queued", "staging", "staged"}},
           tasks[r].step \in phase, step \in phase
    PROVE  Proceeds(r)
<1> DEFINE task == [tasks[r] EXCEPT !.step = step]
<1>1. phase \subseteq Steps \ {"none", "ended"}
  BY DEF Steps, Preflight, Executing, Export
<1>2. /\ task \in TaskStates /\ task.step = step
      /\ task.plan = tasks[r].plan /\ task.aborted = tasks[r].aborted
  BY <1>1, TaskTyped DEF TaskStates
<1>3. tasks' = [tasks EXCEPT ![r] = task]
  BY DEF Goto
<1> HIDE DEF task
<1>4. Halted(tasks[r]) => Halted(task)
  BY <1>1, <1>2 DEF Halted, Busy, Preflight
<1>5. Shaped(tasks[r])
  BY DEF Guarded
<1>6. Shaped(task)
  BY <1>2, <1>5 DEF Shaped, Preflight, Executing, Export
<1>7. Busy(task) /\ Busy(tasks[r])
  BY <1>1, <1>2 DEF Busy
<1>8. /\ tasks[r].step \notin {"applying", "restoring", "published", "ended"}
      /\ tasks[r].step \notin {"committing", "published"}
  BY DEF Preflight
<1>9. Moved(r)
  BY <1>2, <1>3, <1>4, <1>6, <1>7, <1>8, TellsNothing, TaskGoes DEF Told
<1>10. QED
  BY <1>9, TellsNothing DEF Proceeds, Told, Wellformed, HostTyped

LEMMA RenderedProceeds ==
    ASSUME Wellformed, NEW r \in Operations, Guarded(r), Rendered(r)
    PROVE  Proceeds(r)
<1>1. tasks[r].step = "rendering" /\ tasks[r].step \in Preflight \ {"offering"}
  BY DEF Rendered, At, Preflight
<1>2. CASE EndAborted(r)
  BY <1>1, <1>2, AbortedProceeds
<1>3. CASE Continues(r) /\ tasks[r].source = doc.version
  <2>1. "sizing" \in Preflight \ {"offering"}
    BY DEF Preflight
  <2>2. ~Aborted(r) \/ EndAborted(r)
    BY <1>3 DEF Continues
  <2>3. CASE EndAborted(r)
    BY <2>3, <1>2
  <2>4. CASE ~EndAborted(r)
    <3>1. /\ ~Aborted(r) /\ tasks' = Goto(r, "sizing")
          /\ UNCHANGED <<host, toView, ledger, doc, target>>
      BY <1>3, <2>4 DEF Rendered, Continues
    <3>2. QED
      BY <1>1, <2>1, <3>1, GotoMoves
  <2>5. QED
    BY <2>3, <2>4
<1>4. CASE Continues(r) /\ tasks[r].source # doc.version /\ ~EndAborted(r)
  <2>1. End(r, "failed") /\ UNCHANGED <<doc, target>>
    BY <1>4 DEF Rendered, Continues
  <2>2. QED
    BY <1>1, <2>1, EndProceeds
<1>5. QED
  BY <1>2, <1>3, <1>4 DEF Rendered

\* The status that offers a plan.
LEMMA TellsOffer ==
    ASSUME Wellformed, NEW r \in Operations, NEW kind \in {"none", "export", "import"},
           Post(<<Status("awaiting", r, kind, {})>>)
    PROVE  /\ Undelivered /\ \A q \in Operations \ {r} : Discreet(q)
           /\ None(toView, Offerings(r)) => Single(toView', Offerings(r))
<1> DEFINE m == Status("awaiting", r, kind, {})
           S == Offerings(r)
<1>1. m \in ViewMessages /\ m.type = "status" /\ m.operation = r
  BY DEF Status, ViewMessages, StatusMessages
<1>2. \A q \in Operations \ {r} : m \notin Offerings(q)
  BY <1>1 DEF Offerings
<1>3. Post(<<m>>)
  OBVIOUS
<1> HIDE DEF m, S
<1>4. <<m>> \in Seq(ViewMessages) /\ In(<<m>>) = {m}
  BY <1>1, InFew
<1>5. /\ toView' \in Seq(ViewMessages) /\ In(toView') \subseteq In(toView) \cup {m}
      /\ \A q \in Operations : None(<<m>>, Offerings(q)) => Discreet(q)
  BY <1>3, <1>4, Posts
<1>6. Undelivered /\ \A q \in Operations \ {r} : Discreet(q)
  BY <1>1, <1>2, <1>4, <1>5 DEF Undelivered, Delivering, None
<1>7. ASSUME None(toView, S)
      PROVE  Single(toView', S)
  <2>1. toView \in Seq(ViewMessages)
    BY DEF Wellformed
  <2>2. toView' = toView \/ toView' = toView \o <<m>>
    BY <1>3 DEF Post, Posted
  <2>3. Single(toView, S)
    BY <1>7 DEF Single, None, In
  <2>4. Single(toView \o <<m>>, S)
    BY <1>1, <1>7, <2>1, SingleLast
  <2>5. QED
    BY <2>2, <2>3, <2>4
<1>8. QED
  BY <1>6, <1>7 DEF S

\* An offered plan is neither running, nor cancelled, nor committing.
LEMMA OfferProceeds ==
    ASSUME Wellformed, NEW r \in Operations, Guarded(r), Offer(r),
           tasks[r].step \in {"sizing", "reading"}
    PROVE  Proceeds(r)
<1>1. CASE EndAborted(r)
  BY <1>1, AbortedProceeds
<1>2. CASE ~EndAborted(r)
  <2> DEFINE task == [tasks[r] EXCEPT !.step = "offering", !.plan = NewPlan(r)]
  <2>1. /\ ~Aborted(r) /\ UNCHANGED <<doc, target, host, ledger>>
        /\ tasks' = [tasks EXCEPT ![r].step = "offering", ![r].plan = NewPlan(r)]
        /\ Post(<<Status("awaiting", r, tasks[r].kind, {})>>)
    BY <1>2 DEF Offer, Continues
  <2>2. tasks' = [tasks EXCEPT ![r] = task]
    BY <2>1, TaskMoves, TaskTyped DEF Wellformed, HostTyped
  <2>3. NewPlan(r) \in Plans /\ ~NewPlan(r).running /\ ~NewPlan(r).committing
    BY TaskTyped DEF NewPlan, Plans, Wellformed, HostTyped, Documents, TaskStates
  <2>4. NewPlan(r) # Null
    BY <2>3, NoPlanAssumption
  <2>5. /\ task \in TaskStates /\ task.step = "offering" /\ task.plan = NewPlan(r)
        /\ task.aborted = tasks[r].aborted
    BY <2>3, TaskTyped DEF TaskStates, Steps, Preflight
  <2> HIDE DEF task
  <2>6. ~Halted(tasks[r]) /\ ~tasks[r].aborted
    BY <2>1, ContinuesRuns DEF Preflight
  <2>7. Shaped(task)
    BY <2>3, <2>4, <2>5, <2>6 DEF Shaped, Executing, Export
  <2>8. Busy(task) /\ Busy(tasks[r])
    BY <2>5 DEF Busy
  <2>9. /\ Undelivered /\ \A q \in Operations \ {r} : Discreet(q)
        /\ None(toView, Offerings(r)) => Single(toView', Offerings(r))
    BY <2>1, TaskTyped, TellsOffer
  <2>10. Moved(r) /\ tasks'[r].step = "offering"
    BY <2>1, <2>2, <2>4, <2>5, <2>6, <2>7, <2>8, <2>9, TaskGoes, TaskMoves
  <2>11. Proposes(r)
    BY <2>9, <2>10 DEF Proposes
  <2>12. QED
    BY <2>1, <2>10, <2>11 DEF Proceeds, Wellformed, HostTyped
<1>3. QED
  BY <1>1, <1>2

LEMMA ChooseProceeds ==
    ASSUME Wellformed, NEW r \in Operations, Guarded(r), Choose(r)
    PROVE  Proceeds(r)
<1>1. tasks[r].step = "choosing" /\ tasks[r].step \in Preflight \ {"offering"}
  BY DEF Choose, At, Preflight
<1>2. CASE End(r, "cancelled") /\ UNCHANGED <<doc, target>>
  BY <1>1, <1>2, EndProceeds
<1>3. CASE EndAborted(r)
  BY <1>1, <1>3, AbortedProceeds
<1>4. CASE /\ ~Aborted(r) /\ tasks' = Goto(r, "reading")
           /\ UNCHANGED <<host, toView, ledger, doc, target>>
  <2>1. "reading" \in Preflight \ {"offering"}
    BY DEF Preflight
  <2>2. QED
    BY <1>1, <1>4, <2>1, GotoMoves
<1>5. QED
  BY <1>2, <1>3, <1>4 DEF Choose, Continues

\* The preflight is over: the plan waits, unless a cancellation took it away.
LEMMA OfferedProceeds ==
    ASSUME Wellformed, NEW r \in Operations, Guarded(r), Offered(r)
    PROVE  Proceeds(r)
<1>1. tasks[r].step = "offering" /\ UNCHANGED <<toView, host, doc, target, ledger>>
  BY DEF Offered, At
<1>2. Shaped(tasks[r]) /\ Told
  BY <1>1, TellsNothing DEF Guarded
<1>3. CASE tasks[r].plan = Null
  <2>1. tasks' = Ended(r)
    BY <1>3 DEF Offered
  <2>2. host.disposed \/ host.claim # r
    BY <1>1, <1>3 DEF Guarded
  <2>3. Moved(r)
    BY <1>1, <1>2, <2>1, <2>2, TaskVanishes
  <2>4. QED
    BY <1>1, <1>2, <2>3 DEF Proceeds, Told, Wellformed, HostTyped
<1>4. CASE tasks[r].plan # Null
  <2> DEFINE task == [tasks[r] EXCEPT !.step = "offered"]
  <2>1. tasks' = [tasks EXCEPT ![r] = task]
    BY <1>4 DEF Offered, Goto
  <2>2. /\ task \in TaskStates /\ task.step = "offered"
        /\ task.plan = tasks[r].plan /\ task.aborted = tasks[r].aborted
    BY TaskTyped DEF TaskStates, Steps
  <2> HIDE DEF task
  <2>3. ~tasks[r].aborted
    BY <1>2, <1>4 DEF Shaped
  <2>4. ~Halted(tasks[r])
    BY <1>1, <2>3 DEF Halted, Busy
  <2>5. Shaped(task)
    BY <1>1, <1>2, <2>2, <2>3 DEF Shaped, Executing, Export
  <2>6. Busy(task) /\ Busy(tasks[r])
    BY <1>1, <2>2 DEF Busy
  <2>7. Moved(r)
    BY <1>1, <1>2, <2>1, <2>2, <2>4, <2>5, <2>6, TaskGoes DEF Told
  <2>8. QED
    BY <1>1, <1>2, <2>7 DEF Proceeds, Told, Wellformed, HostTyped
<1>5. QED
  BY <1>3, <1>4

LEMMA StartPlanProceeds ==
    ASSUME Wellformed, NEW r \in Operations, Guarded(r), StartPlan(r)
    PROVE  Proceeds(r)
<1>1. tasks[r].step = "starting" /\ UNCHANGED <<doc, target>>
  BY DEF StartPlan, At
<1>2. CASE End(r, "failed")
  BY <1>1, <1>2, EndProceeds
<1>3. CASE ~End(r, "failed")
  <2> DEFINE plan == [tasks[r].plan EXCEPT !.running = TRUE]
             task == [tasks[r] EXCEPT !.step = "checking", !.plan = plan]
  <2>1. /\ tasks[r].plan # Null /\ UNCHANGED <<host, toView, ledger>>
        /\ tasks' = [tasks EXCEPT ![r].step = "checking", ![r].plan.running = TRUE]
    BY <1>3 DEF StartPlan
  <2>2. tasks' = [tasks EXCEPT ![r] = task]
    <3>1. tasks \in [Operations -> TaskStates]
      BY DEF Wellformed, HostTyped
    <3>2. [tasks[r] EXCEPT !.step = "checking", !.plan.running = TRUE] = task
      BY TaskTyped DEF TaskStates
    <3> HIDE DEF task
    <3>3. QED
      BY <2>1, <3>1, <3>2
  <2>3. Shaped(tasks[r]) /\ tasks[r].plan \in Plans
    BY <2>1, TaskTyped DEF Guarded
  <2>4. plan \in Plans /\ plan.running /\ ~plan.committing
    BY <1>1, <2>1, <2>3 DEF Shaped, Plans
  <2>5. plan # Null
    BY <2>4, NoPlanAssumption
  <2> HIDE DEF plan
  <2>6. /\ task \in TaskStates /\ task.step = "checking" /\ task.plan = plan
        /\ task.aborted = tasks[r].aborted
    BY <2>4, TaskTyped DEF TaskStates, Steps, Executing
  <2> HIDE DEF task
  <2>7. ~tasks[r].aborted
    BY <2>1, <2>3 DEF Shaped
  <2>8. ~Halted(tasks[r])
    BY <1>1, <2>1, <2>7 DEF Halted, Busy, Preflight
  <2>9. Shaped(task)
    BY <2>4, <2>5, <2>6, <2>7 DEF Shaped, Executing, Export
  <2>10. Busy(task) /\ Busy(tasks[r])
    BY <1>1, <2>6 DEF Busy
  <2>11. Moved(r)
    BY <1>1, <2>1, <2>2, <2>6, <2>8, <2>9, <2>10, TellsNothing, TaskGoes DEF Told
  <2>12. QED
    BY <1>1, <2>1, <2>11, TellsNothing DEF Proceeds, Told, Wellformed, HostTyped
<1>4. QED
  BY <1>2, <1>3

\* What a task becomes whose plan begins to commit.
LEMMA CommittingTask ==
    ASSUME Wellformed, NEW r \in Operations, Guarded(r), ~Aborted(r),
           tasks[r].step \in {"checking", "staged"},
           NEW step \in {"applying", "committing"}, tasks' = Committing(r, step)
    PROVE  /\ ~Halted(tasks[r])
           /\ tasks' \in [Operations -> TaskStates]
           /\ tasks'[r].step = step /\ Shaped(tasks'[r])
           /\ \A q \in Operations \ {r} : tasks'[q] = tasks[q]
           /\ \E task \in TaskStates : tasks' = [tasks EXCEPT ![r] = task]
<1> DEFINE plan == [tasks[r].plan EXCEPT !.committing = TRUE]
           task == [tasks[r] EXCEPT !.step = step, !.plan = plan]
<1>1. Shaped(tasks[r]) /\ ~Halted(tasks[r]) /\ ~tasks[r].aborted
  BY ContinuesRuns DEF Guarded
<1>2. tasks[r].plan # Null /\ tasks[r].plan \in Plans
  BY <1>1, TaskTyped DEF Shaped, Executing, Export
<1>3. plan \in Plans /\ plan.running /\ plan.committing
  BY <1>1, <1>2 DEF Shaped, Plans
<1>4. plan # Null
  BY <1>3, NoPlanAssumption
<1> HIDE DEF plan
<1>5. /\ task \in TaskStates /\ task.step = step /\ task.plan = plan
      /\ task.aborted = tasks[r].aborted
  BY <1>3, TaskTyped DEF TaskStates, Steps, Executing, Export
<1>6. tasks' = [tasks EXCEPT ![r] = task]
  <2>1. tasks \in [Operations -> TaskStates]
    BY DEF Wellformed, HostTyped
  <2>2. [tasks[r] EXCEPT !.step = step, !.plan.committing = TRUE] = task
    BY TaskTyped DEF TaskStates, plan
  <2> HIDE DEF task
  <2>3. QED
    BY <2>1, <2>2 DEF Committing
<1> HIDE DEF task
<1>7. Shaped(task)
  BY <1>1, <1>3, <1>4, <1>5 DEF Shaped, Executing, Export
<1>8. QED
  BY <1>1, <1>5, <1>6, <1>7, TaskMoves

\* The imported body is on its way to the webview.
LEMMA ApplyProceeds ==
    ASSUME Wellformed, NEW r \in Operations, Guarded(r), ~Aborted(r),
           tasks[r].step = "checking", tasks' = Committing(r, "applying"),
           Post(<<[type |-> "importContent", operation |-> r, body |-> Imported]>>),
           UNCHANGED <<host, ledger, doc, target>>
    PROVE  Proceeds(r)
<1> DEFINE m == [type |-> "importContent", operation |-> r, body |-> Imported]
<1>1. /\ ~Halted(tasks[r]) /\ Shaped(tasks'[r])
      /\ tasks' \in [Operations -> TaskStates] /\ tasks'[r].step = "applying"
      /\ \A q \in Operations \ {r} : tasks'[q] = tasks[q]
  BY CommittingTask
<1>2. m \in ViewMessages /\ \A q \in Operations : m \notin Offerings(q)
  BY OperationAssumption DEF ViewMessages, ImportMessages, Offerings, StatusMessages
<1>3. /\ toView' \in Seq(ViewMessages) /\ In(toView') \subseteq In(toView) \cup {m}
      /\ \A q \in Operations : Discreet(q)
  <2> HIDE DEF m
  <2>1. <<m>> \in Seq(ViewMessages) /\ In(<<m>>) = {m}
    BY <1>2, InFew
  <2>2. QED
    BY <1>2, <2>1, Posts DEF None, m
<1>4. SessionTyped'
  BY <1>1, <1>3 DEF SessionTyped, Wellformed, HostTyped
<1>5. Only(r)
  BY <1>1, <1>3 DEF Only, Delivering
<1>6. r \notin ledger.cancelled /\ ~host.disposed /\ host.claim = r
  BY <1>1 DEF Guarded, Busy
<1>7. Guarded(r)'
  BY <1>1, <1>6 DEF Guarded, Busy
<1>8. QED
  BY <1>1, <1>3, <1>4, <1>5, <1>7 DEF Moved, Proceeds, Wellformed, HostTyped

LEMMA CheckTargetProceeds ==
    ASSUME Wellformed, NEW r \in Operations, Guarded(r), CheckTarget(r)
    PROVE  Proceeds(r)
<1>1. tasks[r].step = "checking"
  BY DEF CheckTarget, At
<1>2. CASE End(r, "failed") /\ UNCHANGED <<doc, target>>
  BY <1>1, <1>2, EndProceeds
<1>3. CASE EndAborted(r)
  BY <1>1, <1>3, AbortedProceeds
<1>4. CASE /\ tasks' = Goto(r, "queued")
           /\ UNCHANGED <<host, toView, ledger, doc, target>>
  <2>1. /\ tasks[r].step \in {"checking", "queued", "staging", "staged"}
        /\ "queued" \in {"checking", "queued", "staging", "staged"}
    BY <1>1
  <2>2. QED
    BY <1>4, <2>1, GotoMoves
<1>5. CASE /\ Continues(r) /\ tasks' = Committing(r, "applying")
           /\ Post(<<[type |-> "importContent", operation |-> r, body |-> Imported]>>)
           /\ UNCHANGED <<host, ledger>>
  BY <1>1, <1>5, ApplyProceeds DEF Continues
<1>6. QED
  BY <1>2, <1>3, <1>4, <1>5 DEF CheckTarget

\* One after the other through the export queue.
LEMMA StageProceeds ==
    ASSUME Wellformed, NEW r \in Operations, Guarded(r), Stage(r) \/ Staged(r)
    PROVE  Proceeds(r)
<1>1. PICK step \in {"staging", "staged"} :
         /\ tasks[r].step \in {"queued", "staging"}
         /\ \/ EndAborted(r)
            \/ /\ ~Aborted(r) /\ tasks' = Goto(r, step)
               /\ UNCHANGED <<host, toView, ledger, doc, target>>
  BY DEF Stage, Staged, At, Continues
<1>2. CASE EndAborted(r)
  BY <1>1, <1>2, AbortedProceeds
<1>3. CASE ~EndAborted(r)
  <2>1. /\ tasks[r].step \in {"checking", "queued", "staging", "staged"}
        /\ step \in {"checking", "queued", "staging", "staged"}
    BY <1>1
  <2>2. QED
    BY <1>1, <1>3, <2>1, GotoMoves
<1>4. QED
  BY <1>2, <1>3

LEMMA ValidateProceeds ==
    ASSUME Wellformed, NEW r \in Operations, Guarded(r), Validate(r)
    PROVE  Proceeds(r)
<1>1. tasks[r].step = "staged"
  BY DEF Validate, At
<1>2. CASE End(r, "failed") /\ UNCHANGED <<doc, target>>
  BY <1>1, <1>2, EndProceeds
<1>3. CASE EndAborted(r)
  BY <1>1, <1>3, AbortedProceeds
<1>4. CASE /\ ~Aborted(r) /\ tasks' = Committing(r, "committing")
           /\ UNCHANGED <<host, toView, ledger, doc, target>>
  <2>1. /\ ~Halted(tasks[r]) /\ Shaped(tasks'[r]) /\ tasks'[r].step = "committing"
        /\ \E task \in TaskStates : tasks' = [tasks EXCEPT ![r] = task]
    BY <1>1, <1>4, CommittingTask
  <2>2. PICK task \in TaskStates : tasks' = [tasks EXCEPT ![r] = task]
    BY <2>1
  <2>3. task = tasks'[r]
    BY <2>2, TaskMoves
  <2>4. Busy(task) /\ Busy(tasks[r]) /\ task.step = "committing"
    BY <1>1, <2>1, <2>3 DEF Busy
  <2>5. Moved(r)
    BY <1>1, <1>4, <2>1, <2>2, <2>3, <2>4, TellsNothing, TaskGoes DEF Told
  <2>6. QED
    BY <1>4, <2>5, TellsNothing DEF Proceeds, Told, Wellformed, HostTyped
<1>5. QED
  BY <1>2, <1>3, <1>4 DEF Validate, Continues

\* The rename is the one effect of an export.
LEMMA PublishProceeds ==
    ASSUME Wellformed, NEW r \in Operations, Guarded(r), Publish(r)
    PROVE  Proceeds(r)
<1> DEFINE task == [tasks[r] EXCEPT !.step = "published"]
<1>1. tasks[r].step = "committing" /\ UNCHANGED <<toView, host, doc>>
  BY DEF Publish, At
<1>2. /\ ledger' = [ledger EXCEPT !.effected = @ \cup {r}]
      /\ target' = target + 1 /\ tasks' = [tasks EXCEPT ![r] = task]
  BY DEF Publish, Goto
<1>3. /\ task \in TaskStates /\ task.step = "published"
      /\ task.plan = tasks[r].plan /\ task.aborted = tasks[r].aborted
  BY TaskTyped DEF TaskStates, Steps, Executing, Export
<1> HIDE DEF task
<1>4. /\ tasks' \in [Operations -> TaskStates] /\ tasks'[r] = task
      /\ \A q \in Operations \ {r} : tasks'[q] = tasks[q]
  BY <1>2, <1>3, TaskMoves
<1>5. /\ ledger' \in Ledgers /\ ledger'.issued = ledger.issued
      /\ ledger'.cancelled = ledger.cancelled
      /\ ledger'.effected = ledger.effected \cup {r}
  BY <1>2 DEF Wellformed, Ledgers
<1>6. Shaped(tasks[r]) /\ ~Halted(tasks[r])
  BY <1>1 DEF Guarded, Halted, Busy, Preflight
<1>7. Shaped(task)
  BY <1>1, <1>3, <1>6 DEF Shaped, Executing, Export, Preflight
<1>8. r \notin ledger.cancelled /\ ~Delivering(r)
  BY <1>1, <1>6 DEF Guarded
<1>9. Told
  BY <1>1, TellsNothing
<1>10. SessionTyped' /\ Only(r)
  BY <1>1, <1>4, <1>5, <1>9 DEF SessionTyped, Only, Told, Undelivered, Wellformed, HostTyped
<1>11. ~host.disposed => host.claim = r
  BY <1>1, <1>8 DEF Guarded, Busy
<1>12. Guarded(r)'
  BY <1>1, <1>3, <1>4, <1>5, <1>7, <1>8, <1>9, <1>11 DEF Guarded, Busy, Told, Undelivered
<1>13. doc' \in Documents /\ target' \in Nat
  BY <1>1, <1>2 DEF Wellformed, HostTyped
<1>14. QED
  BY <1>5, <1>6, <1>9, <1>10, <1>12, <1>13 DEF Moved, Proceeds, Told

LEMMA PublishedProceeds ==
    ASSUME Wellformed, NEW r \in Operations, Guarded(r), Published(r)
    PROVE  Proceeds(r)
<1>1. /\ tasks' = Ended(r) /\ host' = Release(host, r)
      /\ Post(<<Status("succeeded", r, "export", {"repeat"})>>)
      /\ UNCHANGED <<doc, target, ledger>>
  BY DEF Published
<1>2. Told
  BY <1>1, TellsStatus
<1>3. host \in Hosts /\ ledger \in Ledgers
  BY DEF Wellformed, HostTyped
<1>4. Moved(r)
  BY <1>1, <1>2, <1>3, TaskEnds
<1>5. QED
  BY <1>1, <1>2, <1>3, <1>4 DEF Proceeds, Told, Wellformed, HostTyped

LEMMA HostSubset ==
    ASSUME Wellformed, NEW artifacts \in SUBSET Artifacts, NEW latest \in 0 .. MaxOperations
    PROVE  /\ [host EXCEPT !.artifacts = artifacts, !.latest = latest] \in Hosts
           /\ [host EXCEPT !.artifacts = artifacts] \in Hosts
BY DEF Wellformed, HostTyped, Hosts

\* The host variables at the end of an import, before the claim is released.
LEMMA SettledHost ==
    ASSUME Wellformed, NEW r \in Operations, Guarded(r), NEW ok \in BOOLEAN, Waits(r),
           SettleImport(r, ok)
    PROVE  /\ Told
           /\ \E h \in Hosts : /\ h.claim = host.claim /\ h.disposed = host.disposed
                               /\ host' = Release(h, r)
<1>1. host \in Hosts /\ host.artifacts \in SUBSET Artifacts
      /\ host.latest \in 0 .. MaxOperations
  BY DEF Wellformed, HostTyped, Hosts
<1>2. CASE ok /\ At(r, "applying")
  <2> DEFINE kept == {a \in host.artifacts : a.id # host.latest \/ a.leased}
             h == [host EXCEPT !.artifacts = kept \cup {Checkpoint(r)}, !.latest = r]
  <2>1. /\ host' = Release(h, r)
        /\ Post(<<Status("succeeded", r, "import", {"undo", "repeat"})>>)
    BY <1>2 DEF SettleImport, Imports
  <2>2. tasks[r].plan \in Plans
    BY <1>2, TaskTyped DEF Guarded, Shaped, Executing, Export, At
  <2>3. Checkpoint(r) \in Artifacts
    BY <2>2 DEF Checkpoint, Artifacts, Plans, Wellformed, HostTyped, Documents
  <2>4. r \in 0 .. MaxOperations
    BY OperationAssumption DEF Operations
  <2>5. kept \cup {Checkpoint(r)} \in SUBSET Artifacts
    BY <1>1, <2>3
  <2> HIDE DEF kept
  <2>6. h \in Hosts
    BY <2>4, <2>5, HostSubset
  <2>7. h.claim = host.claim /\ h.disposed = host.disposed
    BY <1>1 DEF Hosts
  <2> HIDE DEF h
  <2>8. Told
    BY <2>1, TellsStatus
  <2>9. QED
    BY <2>1, <2>6, <2>7, <2>8
<1>3. CASE ok /\ ~At(r, "applying")
  <2> DEFINE kept == {a \in host.artifacts : ~a.leased}
             latest == IF \E a \in host.artifacts : a.leased /\ a.id = host.latest
                       THEN 0 ELSE host.latest
             h == [host EXCEPT !.artifacts = kept, !.latest = latest]
  <2>1. /\ host' = Release(h, r)
        /\ Post(<<Status("succeeded", r, "import", {})>>)
    BY <1>3 DEF SettleImport, Undone
  <2>2. kept \in SUBSET Artifacts
    BY <1>1
  <2>3. latest \in 0 .. MaxOperations
    BY <1>1, OperationAssumption
  <2> HIDE DEF kept, latest
  <2>4. h \in Hosts
    BY <2>2, <2>3, HostSubset
  <2>5. h.claim = host.claim /\ h.disposed = host.disposed
    BY <1>1 DEF Hosts
  <2> HIDE DEF h
  <2>6. Told
    BY <2>1, TellsStatus
  <2>7. QED
    BY <2>1, <2>4, <2>5, <2>6
<1>4. CASE ~ok
  <2> DEFINE kept == IF At(r, "restoring")
                     THEN {[a EXCEPT !.leased = FALSE] : a \in host.artifacts}
                     ELSE host.artifacts
             h == [host EXCEPT !.artifacts = kept]
             m == IF At(r, "applying") THEN Status("failed", r, "import", {})
                                       ELSE Message("actionFailed", r)
  <2>1. host' = Release(h, r) /\ Post(<<m>>)
    BY <1>4 DEF SettleImport
  <2>2. kept \in SUBSET Artifacts
    BY <1>1 DEF Artifacts
  <2> HIDE DEF kept
  <2>3. h \in Hosts
    BY <1>1, <2>2, HostSubset
  <2>4. h.claim = host.claim /\ h.disposed = host.disposed
    BY <1>1 DEF Hosts
  <2> HIDE DEF h
  <2>5. /\ m \in StatusMessages \cup NoticeMessages
        /\ m \in NoticeMessages \/ m.phase # "awaiting"
    BY DEF Status, Message, StatusMessages, NoticeMessages
  <2> HIDE DEF m
  <2>6. Told
    BY <2>1, <2>5, Tells
  <2>7. QED
    BY <2>1, <2>3, <2>4, <2>6
<1>5. QED
  BY <1>2, <1>3, <1>4

LEMMA SettleProceeds ==
    ASSUME Wellformed, NEW r \in Operations, Guarded(r), NEW ok \in BOOLEAN, Waits(r),
           SettleImport(r, ok), UNCHANGED <<doc, target, ledger>>
    PROVE  Proceeds(r)
<1>1. Told
  BY SettledHost
<1>2. PICK h \in Hosts : /\ h.claim = host.claim /\ h.disposed = host.disposed
                         /\ host' = Release(h, r)
  BY SettledHost
<1>3. tasks' = Ended(r) /\ ledger \in Ledgers
  BY DEF SettleImport, Wellformed
<1>4. Moved(r)
  BY <1>1, <1>2, <1>3, TaskEnds
<1>5. QED
  BY <1>1, <1>4 DEF Proceeds, Told, Wellformed, HostTyped

LEMMA FlushedProceeds ==
    ASSUME Wellformed, NEW r \in Operations, Guarded(r), NEW ok \in BOOLEAN,
           tasks[r].step = "flushing", Flushed(r, ok), UNCHANGED <<doc, target>>
    PROVE  Proceeds(r)
<1>1. CASE ok /\ ~Aborted(r)
  <2> DEFINE step == IF tasks[r].kind = "export" THEN "rendering" ELSE "choosing"
             task == [tasks[r] EXCEPT !.step = step, !.source = doc.version]
  <2>1. /\ tasks' = [tasks EXCEPT ![r].step = step, ![r].source = doc.version]
        /\ UNCHANGED <<host, toView, ledger>>
    BY <1>1 DEF Flushed
  <2>2. step \in {"rendering", "choosing"} /\ doc.version \in Nat
    BY DEF Wellformed, HostTyped, Documents
  <2> HIDE DEF step
  <2>3. tasks' = [tasks EXCEPT ![r] = task]
    BY <2>1 DEF Wellformed, HostTyped
  <2>4. /\ task \in TaskStates /\ task.step = step
        /\ task.plan = tasks[r].plan /\ task.aborted = tasks[r].aborted
    BY <2>2, TaskTyped DEF TaskStates, Steps, Preflight
  <2> HIDE DEF task
  <2>5. Shaped(tasks[r]) /\ ~Halted(tasks[r]) /\ ~tasks[r].aborted
    BY <1>1, ContinuesRuns DEF Guarded, Preflight
  <2>6. Shaped(task)
    BY <2>2, <2>4, <2>5 DEF Shaped, Executing, Export
  <2>7. Busy(task) /\ Busy(tasks[r])
    BY <2>2, <2>4 DEF Busy
  <2>8. Moved(r)
    BY <2>1, <2>2, <2>3, <2>4, <2>5, <2>6, <2>7, TellsNothing, TaskGoes DEF Told
  <2>9. QED
    BY <2>1, <2>8, TellsNothing DEF Proceeds, Told, Wellformed, HostTyped
<1>2. CASE ~(ok /\ ~Aborted(r))
  BY <1>2, EndProceeds DEF Flushed
<1>3. QED
  BY <1>1, <1>2

LEMMA FailsProceeds ==
    ASSUME Wellformed, NEW r \in Operations, Guarded(r), Fails(r)
    PROVE  Proceeds(r)
<1> DEFINE phase == IF tasks[r].aborted THEN "cancelled" ELSE "failed"
<1>1. /\ tasks' = Ended(r) /\ host' = Release(host, r)
      /\ Post(<<Status(phase, r, tasks[r].kind, {})>>)
      /\ UNCHANGED <<doc, target>>
  BY DEF Fails
<1>2. ledger' = [ledger EXCEPT !.failures = @ + 1,
                    !.cancelled = @ \cup IF tasks[r].aborted THEN {r} ELSE {}]
  BY DEF Fails
<1>3. Told
  <2>1. phase \in {"failed", "cancelled"}
    OBVIOUS
  <2> HIDE DEF phase
  <2>2. QED
    BY <1>1, <2>1, TaskTyped, TellsStatus
<1>4. host \in Hosts /\ ledger \in Ledgers /\ ledger.failures + 1 \in Nat
  BY DEF Wellformed, HostTyped, Ledgers
<1>5. /\ ledger' \in Ledgers /\ ledger'.issued = ledger.issued
      /\ ledger'.effected = ledger.effected
      /\ ledger'.cancelled = ledger.cancelled
           \cup (IF tasks[r].aborted THEN {r} ELSE {})
  BY <1>2, <1>4 DEF Ledgers
<1>6. tasks[r].aborted
         => tasks[r].step \notin {"applying", "restoring", "published", "ended"}
  BY DEF Guarded, Shaped, Preflight
<1>7. Moved(r)
  BY <1>1, <1>3, <1>4, <1>5, <1>6, TaskEnds
<1>8. QED
  BY <1>1, <1>3, <1>5, <1>7 DEF Proceeds, Told, Wellformed, HostTyped

\* Every step of a task that has begun and not ended.
LEMMA TaskProceeds ==
    ASSUME Wellformed, NEW r \in Operations, Guarded(r),
           Task(r) \/ Choose(r) \/ Fails(r)
    PROVE  Proceeds(r) /\ Busy(tasks[r]) /\ UNCHANGED webview
<1>1. CASE Rendered(r)
  BY <1>1, RenderedProceeds DEF Rendered, At, Busy
<1>2. CASE Sized(r) \/ Read(r)
  BY <1>2, OfferProceeds DEF Sized, Read, Offer, At, Busy
<1>3. CASE Offered(r)
  BY <1>3, OfferedProceeds DEF Offered, At, Busy
<1>4. CASE StartPlan(r)
  BY <1>4, StartPlanProceeds DEF StartPlan, At, Busy
<1>5. CASE CheckTarget(r)
  BY <1>5, CheckTargetProceeds DEF CheckTarget, At, Busy
<1>6. CASE Stage(r) \/ Staged(r)
  BY <1>6, StageProceeds DEF Stage, Staged, At, Busy
<1>7. CASE Validate(r)
  BY <1>7, ValidateProceeds DEF Validate, At, Busy
<1>8. CASE Publish(r)
  BY <1>8, PublishProceeds DEF Publish, At, Busy
<1>9. CASE Published(r)
  BY <1>9, PublishedProceeds DEF Published, At, Busy
<1>10. CASE FlushTimesOut(r)
  BY <1>10, FlushedProceeds DEF FlushTimesOut, At, Busy
<1>11. CASE ImportTimesOut(r)
  BY <1>11, SettleProceeds DEF ImportTimesOut, Waits, At, Busy
<1>12. CASE Choose(r)
  BY <1>12, ChooseProceeds DEF Choose, At, Busy
<1>13. CASE Fails(r)
  BY <1>13, FailsProceeds DEF Fails, At, Busy
<1>14. QED
  BY <1>1, <1>2, <1>3, <1>4, <1>5, <1>6, <1>7, <1>8, <1>9, <1>10, <1>11, <1>12, <1>13
  DEF Task

----------------------------------------------------------------------------
(* What the host hears *)

LEMMA HostMessageTyped ==
    ASSUME NEW m \in HostMessages
    PROVE  /\ m.type = "edit" => m \in EditMessages
           /\ m.type = "applied" => m \in ReportMessages
           /\ m.type \in {"flushComplete", "flushFailed"}
                 => m \in FlushMessages(MaxOperations)
           /\ m.type = "prepare" => m \in PrepareMessages
           /\ m.type \in {"execute", "cancel"} => m \in PlainMessages
           /\ m.type \in {"retry", "repeat", "undo"} => m \in AgainMessages
<1>1. CASE m \in EditMessages
  BY <1>1 DEF EditMessages
<1>2. CASE m \in ReportMessages
  BY <1>2 DEF ReportMessages
<1>3. CASE m \in FlushMessages(MaxOperations)
  BY <1>3 DEF FlushMessages
<1>4. CASE m \in PrepareMessages
  BY <1>4 DEF PrepareMessages
<1>5. CASE m \in PlainMessages
  BY <1>5 DEF PlainMessages
<1>6. CASE m \in AgainMessages
  BY <1>6 DEF AgainMessages
<1>7. QED
  BY <1>1, <1>2, <1>3, <1>4, <1>5, <1>6 DEF HostMessages, Noise, Wishes

\* The first message leaves the queue; no other one of its kind is in there.
LEMMA ArrivedTyped ==
    ASSUME Wellformed, toHost # <<>>, Arrived
    PROVE  /\ Head(toHost) \in HostMessages /\ Head(toHost) \in In(toHost)
           /\ WebviewTyped' /\ UNCHANGED <<view, doc, target>>
<1>1. toHost \in Seq(HostMessages)
  BY DEF Wellformed, WebviewTyped
<1>2. /\ Head(toHost) \in HostMessages /\ Head(toHost) \in In(toHost)
      /\ Tail(toHost) \in Seq(HostMessages)
  BY <1>1, InTail
<1>3. toHost' = Tail(toHost) /\ UNCHANGED <<sync, view, doc, target>>
  BY DEF Arrived
<1>4. QED
  BY <1>2, <1>3 DEF Wellformed, WebviewTyped

LEMMA ArrivedSingle ==
    ASSUME Wellformed, toHost # <<>>, Arrived, NEW S
    PROVE  /\ NoMore(toHost, toHost', S)
           /\ Single(toHost, S) /\ Head(toHost) \in S => None(toHost', S)
<1>1. toHost \in Seq(HostMessages) /\ toHost' = Tail(toHost)
  BY DEF Wellformed, WebviewTyped, Arrived
<1>2. QED
  BY <1>1, SingleTail

\* Two messages posted together.
LEMMA InPair ==
    ASSUME NEW S, NEW x \in S, NEW y \in S
    PROVE  <<x, y>> \in Seq(S) /\ In(<<x, y>>) = {x, y}
<1>1. <<x, y>> \in Seq(S) /\ DOMAIN <<x, y>> = {1, 2}
  OBVIOUS
<1>2. <<x, y>>[1] = x /\ <<x, y>>[2] = y
  OBVIOUS
<1>3. QED
  BY <1>1, <1>2 DEF In

\* A request is refused at once, or takes the claim and asks for the draft.
LEMMA BeginMoves ==
    ASSUME Wellformed, ~host.disposed, NEW r \in Operations, Guarded(r), Untouched(r),
           NEW kind \in {"none", "export", "import"}, Begin(r, kind),
           ledger' \in Ledgers, ledger'.cancelled = ledger.cancelled,
           ledger'.effected = ledger.effected
    PROVE  Moved(r) /\ Discreet(r)
<1>1. /\ tasks[r] = NoTask /\ ~Busy(tasks[r]) /\ tasks[r].step = "none"
      /\ r \notin ledger.cancelled /\ r \notin ledger.effected /\ ~Delivering(r)
  BY DEF Untouched, Guarded, NoTask, Busy
<1>2. 0 \notin Operations
  BY OperationAssumption DEF Operations
<1>3. CASE host.claim # 0
  <2> DEFINE task == [NoTask EXCEPT !.step = "ended", !.kind = kind]
  <2>1. /\ tasks' = [tasks EXCEPT ![r].step = "ended", ![r].kind = kind]
        /\ UNCHANGED host
        /\ Post(<<Status("failed", r, kind, {})>>)
    BY <1>3 DEF Begin
  <2>2. tasks' = [tasks EXCEPT ![r] = task]
    BY <1>1, <2>1 DEF Wellformed, HostTyped
  <2>3. task \in TaskStates /\ task.step = "ended" /\ task.plan = Null /\ ~task.aborted
    BY DEF NoTask, TaskStates, Steps
  <2> HIDE DEF task
  <2>4. /\ tasks' \in [Operations -> TaskStates] /\ tasks'[r] = task
        /\ \A q \in Operations \ {r} : tasks'[q] = tasks[q]
    BY <2>2, <2>3, TaskMoves
  <2>5. Told
    BY <2>1, TellsStatus
  <2>6. SessionTyped' /\ Only(r)
    BY <2>1, <2>4, <2>5 DEF SessionTyped, Only, Told, Undelivered, Wellformed, HostTyped
  <2>7. Shaped(task) /\ Halted(task) /\ ~Busy(task)
    BY <2>3 DEF Shaped, Halted, Busy, Executing, Export
  <2>8. host.claim # r
    BY <1>1 DEF Guarded
  <2>9. Guarded(r)'
    BY <1>1, <2>1, <2>3, <2>4, <2>5, <2>7, <2>8 DEF Guarded, Told, Undelivered
  <2>10. QED
    BY <1>1, <2>5, <2>6, <2>9 DEF Moved, Told
<1>4. CASE host.claim = 0
  <2> DEFINE task == [NoTask EXCEPT !.kind = kind, !.known = TRUE, !.step = "flushing"]
             m == Status("preflighting", r, kind, {})
             n == Message("requestFlush", r)
  <2>1. /\ tasks' = [tasks EXCEPT ![r] = task] /\ Post(<<m, n>>)
        /\ host' = [host EXCEPT !.claim = r]
    BY <1>4 DEF Begin
  <2>2. /\ task \in TaskStates /\ task.step = "flushing" /\ task.plan = Null
        /\ ~task.aborted
    BY DEF NoTask, TaskStates, Steps, Preflight
  <2>3. /\ m \in ViewMessages /\ n \in ViewMessages
        /\ m.type # "importContent" /\ n.type # "importContent"
        /\ \A q \in Operations : m \notin Offerings(q) /\ n \notin Offerings(q)
    BY DEF Status, Message, ViewMessages, StatusMessages, NoticeMessages, Offerings
  <2> HIDE DEF task, m, n
  <2>4. /\ tasks' \in [Operations -> TaskStates] /\ tasks'[r] = task
        /\ \A q \in Operations \ {r} : tasks'[q] = tasks[q]
    BY <2>1, <2>2, TaskMoves
  <2>5. Told
    <3>1. <<m, n>> \in Seq(ViewMessages) /\ In(<<m, n>>) = {m, n}
      BY <2>3, InPair
    <3>2. /\ toView' \in Seq(ViewMessages)
          /\ In(toView') \subseteq In(toView) \cup {m, n}
          /\ \A q \in Operations : Discreet(q)
      BY <2>1, <2>3, <3>1, Posts DEF None
    <3>3. QED
      BY <2>3, <3>2 DEF Told, Undelivered, Delivering
  <2>6. /\ host' \in Hosts /\ host'.claim = r /\ host'.disposed = host.disposed
    <3>1. r \in 0 .. MaxOperations
      BY OperationAssumption DEF Operations
    <3>2. QED
      BY <2>1, <3>1 DEF Wellformed, HostTyped, Hosts
  <2>7. SessionTyped' /\ Only(r)
    BY <1>2, <1>4, <2>4, <2>5, <2>6 DEF SessionTyped, Only, Told, Undelivered
  <2>8. Shaped(task) /\ Busy(task)
    BY <2>2 DEF Shaped, Busy, Executing, Export, Preflight
  <2>9. Guarded(r)'
    BY <1>1, <2>2, <2>4, <2>5, <2>6, <2>8 DEF Guarded, Told, Undelivered
  <2>10. QED
    BY <1>1, <2>5, <2>7, <2>9 DEF Moved, Told
<1>5. QED
  BY <1>3, <1>4

\* The arrival moves the task of a request that has begun, or begins it; it
\* takes an offered plan further only if the user confirmed it.
Handled(r) ==
    /\ Moved(r) /\ Discreet(r) /\ ledger'.issued = ledger.issued
    /\ Busy(tasks[r]) \/ Head(toHost) \in Beginnings(r)
    /\ tasks[r].step \in Offerable
          => tasks'[r].step \in Offerable \/ Head(toHost) \in Confirmations(r)

Unmoved ==
    /\ Told
    /\ host' \in Hosts /\ host'.claim = host.claim /\ host'.disposed = host.disposed
    /\ UNCHANGED <<tasks, ledger>>

Heeded == Unmoved \/ \E r \in Operations : Handled(r)

\* A request that arrives has not begun.
LEMMA BeginningArrives ==
    ASSUME Wellformed, Inv, toHost # <<>>, Arrived,
           Head(toHost).type \in {"prepare", "retry", "repeat", "undo"}
    PROVE  LET r == Head(toHost).operation
           IN  /\ r \in Operations /\ Head(toHost) \in Beginnings(r)
               /\ Guarded(r) /\ Untouched(r) /\ tasks[r].step \notin Offerable
<1> DEFINE r == Head(toHost).operation
<1>1. Head(toHost) \in HostMessages /\ Head(toHost) \in In(toHost)
  BY ArrivedTyped
<1>2. Head(toHost) \in PrepareMessages \cup AgainMessages
  BY <1>1, HostMessageTyped
<1>3. r \in Operations /\ Head(toHost) \in Beginnings(r)
  BY <1>2 DEF Beginnings, PrepareMessages, AgainMessages
<1> HIDE DEF r
<1>4. Guarded(r) /\ Untouched(r)
  BY <1>1, <1>3 DEF Inv, Orderly, None
<1>5. tasks[r].step \notin Offerable
  BY <1>4 DEF Untouched, NoTask, Offerable
<1>6. QED
  BY <1>3, <1>4, <1>5 DEF r

LEMMA ArrivePrepareHeeded ==
    ASSUME Wellformed, Inv, ArrivePrepare
    PROVE  Heeded
<1> DEFINE r == Head(toHost).operation
<1>1. /\ toHost # <<>> /\ Arrived /\ ~host.disposed /\ UNCHANGED ledger
      /\ Head(toHost).type = "prepare" /\ Begin(r, Head(toHost).kind)
  BY DEF ArrivePrepare, Arrives
<1>2. Head(toHost).kind \in {"export", "import"}
  BY <1>1, ArrivedTyped, HostMessageTyped DEF PrepareMessages
<1>3. /\ r \in Operations /\ Head(toHost) \in Beginnings(r)
      /\ Guarded(r) /\ Untouched(r) /\ tasks[r].step \notin Offerable
  BY <1>1, BeginningArrives
<1> HIDE DEF r
<1>4. Moved(r) /\ Discreet(r)
  BY <1>1, <1>2, <1>3, BeginMoves DEF Wellformed
<1>5. QED
  BY <1>1, <1>3, <1>4 DEF Heeded, Handled

LEMMA ArriveAgainHeeded ==
    ASSUME Wellformed, Inv, ArriveAgain
    PROVE  Heeded
<1> DEFINE m == Head(toHost)
           r == m.operation
<1>1. /\ toHost # <<>> /\ Arrived /\ ~host.disposed /\ UNCHANGED ledger
      /\ m.type \in {"retry", "repeat"}
      /\ IF tasks[m.previous].known
         THEN Begin(r, tasks[m.previous].kind)
         ELSE /\ Post(<<IF m.type = "retry" THEN Status("failed", r, "none", {})
                                            ELSE Message("actionFailed", r)>>)
              /\ UNCHANGED <<host, tasks>>
  BY DEF ArriveAgain, Arrives
<1>2. /\ r \in Operations /\ m \in Beginnings(r)
      /\ Guarded(r) /\ Untouched(r) /\ tasks[r].step \notin Offerable
  BY <1>1, BeginningArrives
<1>3. m.previous \in Operations
  BY <1>1, ArrivedTyped, HostMessageTyped DEF AgainMessages
<1> DEFINE kind == tasks[m.previous].kind
<1>4. kind \in {"none", "export", "import"}
  BY <1>3, TaskTyped
<1>5. CASE tasks[m.previous].known
  <2>1. Begin(r, kind)
    BY <1>1, <1>5
  <2> HIDE DEF m, kind, r
  <2>2. Moved(r) /\ Discreet(r)
    BY <1>1, <1>2, <1>4, <2>1, BeginMoves DEF Wellformed
  <2>3. QED
    BY <1>1, <1>2, <2>2 DEF Heeded, Handled, m
<1>6. CASE ~tasks[m.previous].known
  <2>1. /\ UNCHANGED <<host, tasks>>
        /\ \/ Post(<<Status("failed", r, "none", {})>>)
           \/ Post(<<Message("actionFailed", r)>>)
    BY <1>1, <1>6
  <2> HIDE DEF m, kind, r
  <2>2. Told
    BY <1>2, <2>1, TellsStatus, TellsFailure
  <2>3. QED
    BY <1>1, <2>1, <2>2 DEF Heeded, Unmoved, Wellformed, HostTyped
<1>7. QED
  BY <1>5, <1>6

LEMMA ArriveExecuteHeeded ==
    ASSUME Wellformed, Inv, ArriveExecute
    PROVE  Heeded
<1> DEFINE r == Head(toHost).operation
<1>1. toHost # <<>> /\ Arrived /\ ~host.disposed /\ Head(toHost).type = "execute"
  BY DEF ArriveExecute, Arrives
<1>2. r \in Operations
  BY <1>1, ArrivedTyped, HostMessageTyped DEF PlainMessages
<1>3. Guarded(r)
  BY <1>2 DEF Inv
<1>4. IF host.claim # r
      THEN /\ Post(<<Status("failed", r, "none", {})>>)
           /\ UNCHANGED <<host, tasks, ledger>>
      ELSE IF tasks[r].plan = Null
      THEN End(r, "failed")
      ELSE /\ Post(<<Status("running", r, tasks[r].kind, {})>>)
           /\ tasks' = Goto(r, "starting")
           /\ UNCHANGED <<host, ledger>>
  BY DEF ArriveExecute
<1> HIDE DEF r
<1>5. CASE host.claim # r
  <2>1. Told
    BY <1>2, <1>4, <1>5, TellsStatus
  <2>2. QED
    BY <1>4, <1>5, <2>1 DEF Heeded, Unmoved, Wellformed, HostTyped
<1>6. CASE host.claim = r /\ tasks[r].plan = Null
  <2>1. End(r, "failed")
    BY <1>4, <1>6
  <2>2. Moved(r) /\ Discreet(r) /\ ledger'.issued = ledger.issued
    BY <1>2, <1>3, <2>1, EndMoves
  <2>3. Busy(tasks[r])
    BY <1>1, <1>3, <1>6 DEF Guarded
  <2>4. tasks'[r].step \in Offerable
    BY <1>2, <2>1, EndedTask DEF End, Offerable
  <2>5. QED
    BY <1>2, <2>2, <2>3, <2>4 DEF Heeded, Handled
<1>7. CASE host.claim = r /\ tasks[r].plan # Null
  <2> DEFINE task == [tasks[r] EXCEPT !.step = "starting"]
  <2>1. Busy(tasks[r])
    BY <1>1, <1>3, <1>7 DEF Guarded
  <2>2. Head(toHost) \in Confirmations(r)
    BY <1>1, ArrivedTyped, HostMessageTyped DEF Confirmations, r
  <2>3. tasks[r].step \in {"offering", "offered"}
    <3>1. Head(toHost) \in In(toHost)
      BY <1>1, ArrivedTyped
    <3>2. ~None(toHost, Confirmations(r))
      BY <2>2, <3>1 DEF None
    <3>3. tasks[r].step \in Offerable
      BY <1>2, <3>2 DEF Inv, ConfirmedOnce
    <3>4. QED
      BY <2>1, <3>3 DEF Offerable, Busy
  <2>4. /\ tasks' = [tasks EXCEPT ![r] = task] /\ UNCHANGED <<host, ledger>>
        /\ Post(<<Status("running", r, tasks[r].kind, {})>>)
    BY <1>4, <1>7 DEF Goto
  <2>5. /\ task \in TaskStates /\ task.step = "starting"
        /\ task.plan = tasks[r].plan /\ task.aborted = tasks[r].aborted
    BY <1>2, TaskTyped DEF TaskStates, Steps, Executing
  <2> HIDE DEF task
  <2>6. Told
    BY <1>2, <2>4, TaskTyped, TellsStatus
  <2>7. Shaped(tasks[r]) /\ ~tasks[r].aborted
    BY <1>3, <1>7 DEF Guarded, Shaped
  <2>8. ~Halted(tasks[r])
    BY <1>7, <2>3, <2>7 DEF Halted, Busy
  <2>9. Shaped(task)
    BY <1>7, <2>3, <2>5, <2>7 DEF Shaped, Executing, Export, Preflight
  <2>10. Busy(task)
    BY <2>5 DEF Busy
  <2>11. Moved(r)
    BY <1>2, <1>3, <2>1, <2>3, <2>4, <2>5, <2>6, <2>8, <2>9, <2>10, TaskGoes DEF Told
  <2>12. QED
    BY <1>2, <2>1, <2>2, <2>4, <2>6, <2>11 DEF Heeded, Handled, Told
<1>8. QED
  BY <1>5, <1>6, <1>7

\* A cancellation that comes in time aborts the preflight; the plan goes or
\* is cancelled.
LEMMA WithdrawnHalted ==
    ASSUME NEW old \in TaskStates, Shaped(old),
           \/ old.step \in Preflight
           \/ old.plan # Null /\ ~old.plan.committing
    PROVE  /\ old.step \in Preflight \cup {"offered", "starting", "checking", "queued",
                                           "staging", "staged"}
           /\ Withdrawn(old) \in TaskStates
           /\ Shaped(Withdrawn(old)) /\ Halted(Withdrawn(old))
           /\ Withdrawn(old).step \in {old.step, "ended"}
<1> DEFINE checked == {"checking", "queued", "staging", "staged"}
           called == [old.plan EXCEPT !.cancelled = TRUE]
<1>1. old.step \in Steps /\ old.plan \in Plans \cup {Null}
  BY DEF TaskStates
<1>2. old.step \in Preflight \cup {"offered", "starting"} \cup checked
  BY <1>1 DEF Shaped, Steps, Executing, Export
<1>3. /\ old.plan # Null /\ old.plan.running <=> old.step \in checked
      /\ old.step \in checked => ~old.plan.committing
  BY <1>2 DEF Shaped, Executing, Export, Preflight
<1>4. called = [old.plan EXCEPT !.cancelled = TRUE]
  OBVIOUS
<1> HIDE DEF called
<1>5. ASSUME old.plan # Null
      PROVE  /\ called \in Plans /\ called # Null /\ called.cancelled = TRUE
             /\ called.running = old.plan.running
             /\ called.committing = old.plan.committing
  <2>1. PICK plan \in Plans : plan = old.plan
    BY <1>1, <1>5
  <2>2. called = [plan EXCEPT !.cancelled = TRUE]
    BY <1>4, <2>1
  <2>3. /\ called \in Plans /\ called.running = plan.running
        /\ called.committing = plan.committing
    BY <2>2 DEF Plans
  <2>4. called.cancelled = TRUE
    BY <2>2 DEF Plans
  <2>5. called # Null
    BY <2>3, NoPlanAssumption
  <2>6. QED
    BY <2>1, <2>3, <2>4, <2>5
<1>6. PICK a \in BOOLEAN : a = (old.step \in Preflight)
  <2>1. CASE old.step \in Preflight
    <3>1. TRUE = (old.step \in Preflight)
      BY <2>1
    <3>2. QED
      BY <3>1
  <2>2. CASE old.step \notin Preflight
    <3>1. FALSE = (old.step \in Preflight)
      BY <2>2
    <3>2. QED
      BY <3>1
  <2>3. QED
    BY <2>1, <2>2
<1>7. a <=> old.step \in Preflight
  BY <1>6
<1>8. PICK s \in Steps : s = IF old.step = "offered" THEN "ended" ELSE old.step
  BY <1>1 DEF Steps
<1>9. PICK p \in Plans \cup {Null} :
         p = IF old.plan = Null \/ ~old.plan.running THEN Null ELSE called
  BY <1>5
<1>10. Withdrawn(old) = [old EXCEPT !.aborted = a, !.step = s, !.plan = p]
  BY <1>6, <1>8, <1>9 DEF Withdrawn, called
<1>11. /\ Withdrawn(old) \in TaskStates /\ Withdrawn(old).aborted = a
      /\ Withdrawn(old).step = s /\ Withdrawn(old).plan = p
  BY <1>10 DEF TaskStates
<1>12. old.step \in checked => /\ s = old.step /\ p # Null /\ p.cancelled
                               /\ p.running /\ ~p.committing
  BY <1>3, <1>5, <1>8, <1>9
<1>13. old.step \notin checked => p = Null
  BY <1>3, <1>9
<1>14. Shaped(Withdrawn(old)) /\ Halted(Withdrawn(old))
  <2>1. CASE old.step \in Preflight
    <3>1. a /\ s = old.step /\ p = Null /\ s \in Preflight
      BY <1>7, <1>8, <1>13, <2>1 DEF Preflight
    <3>2. QED
      BY <1>11, <3>1 DEF Shaped, Halted, Preflight, Executing, Export
  <2>2. CASE old.step = "offered"
    <3>1. ~a /\ s = "ended" /\ p = Null
      BY <1>7, <1>8, <1>13, <2>2 DEF Preflight
    <3>2. QED
      BY <1>11, <3>1 DEF Shaped, Halted, Busy, Executing, Export
  <2>3. CASE old.step = "starting"
    <3>1. ~a /\ s = "starting" /\ p = Null
      BY <1>7, <1>8, <1>13, <2>3 DEF Preflight
    <3>2. QED
      BY <1>11, <3>1 DEF Shaped, Halted, Executing, Export
  <2>4. CASE old.step \in checked
    <3>1. ~a
      BY <1>7, <2>4 DEF Preflight
    <3>2. QED
      BY <1>11, <1>12, <2>4, <3>1 DEF Shaped, Halted, Preflight, Executing, Export
  <2>5. QED
    BY <1>2, <2>1, <2>2, <2>3, <2>4
<1>15. QED
  BY <1>2, <1>8, <1>11, <1>14

\* Nothing has come of the request by then.
LEMMA CancelMoves ==
    ASSUME Wellformed, ~host.disposed, NEW r \in Operations, Guarded(r),
           tasks[r].step \in Preflight \/ Cancellable(r),
           tasks' = [tasks EXCEPT ![r] = Withdrawn(tasks[r])],
           host' = Release(host, r),
           Post(<<Status("cancelled", r, tasks[r].kind, {})>>),
           ledger' = [ledger EXCEPT !.cancelled = @ \cup {r}]
    PROVE  /\ Moved(r) /\ Discreet(r) /\ ledger'.issued = ledger.issued
           /\ Busy(tasks[r]) /\ tasks'[r].step \in {tasks[r].step, "ended"}
<1> DEFINE task == Withdrawn(tasks[r])
<1>1. tasks' = [tasks EXCEPT ![r] = task]
  OBVIOUS
<1>2. /\ tasks[r].step \in Preflight \cup {"offered", "starting", "checking", "queued",
                                           "staging", "staged"}
      /\ task \in TaskStates /\ Shaped(task) /\ Halted(task)
      /\ task.step \in {tasks[r].step, "ended"}
  BY TaskTyped, WithdrawnHalted DEF Guarded, Cancellable
<1>3. /\ tasks[r].step \notin {"none", "applying", "restoring", "published", "ended"}
      /\ Busy(tasks[r])
  BY <1>2 DEF Preflight, Busy
<1> HIDE DEF task
<1>4. /\ tasks' \in [Operations -> TaskStates] /\ tasks'[r] = task
       /\ \A q \in Operations \ {r} : tasks'[q] = tasks[q]
  BY <1>1, <1>2, TaskMoves
<1>5. Told
  BY TaskTyped, TellsStatus
<1>6. /\ host' \in Hosts /\ host'.disposed = host.disposed /\ host'.claim # r
       /\ \A q \in Operations \ {r} : host'.claim = q <=> host.claim = q
  BY Releases DEF Wellformed, HostTyped
<1>7. /\ ledger' \in Ledgers /\ ledger'.cancelled = ledger.cancelled \cup {r}
       /\ ledger'.effected = ledger.effected /\ ledger'.issued = ledger.issued
  BY DEF Wellformed, Ledgers
<1>8. SessionTyped' /\ Only(r)
  BY <1>4, <1>5, <1>6, <1>7 DEF SessionTyped, Only, Told, Undelivered
<1>9. r \notin ledger.effected /\ ~Delivering(r)
  BY <1>3 DEF Guarded
<1>10. Guarded(r)'
  BY <1>2, <1>4, <1>5, <1>6, <1>7, <1>9 DEF Guarded, Told, Undelivered
<1>11. QED
  BY <1>2, <1>3, <1>4, <1>5, <1>7, <1>8, <1>10 DEF Moved, Told

LEMMA ArriveCancelHeeded ==
    ASSUME Wellformed, Inv, ArriveCancel
    PROVE  Heeded
<1> DEFINE r == Head(toHost).operation
<1>1. toHost # <<>> /\ Arrived /\ ~host.disposed /\ Head(toHost).type = "cancel"
  BY DEF ArriveCancel, Arrives
<1>2. r \in Operations
  BY <1>1, ArrivedTyped, HostMessageTyped DEF PlainMessages
<1>3. Guarded(r)
  BY <1>2 DEF Inv
<1>4. CASE tasks[r].step \in Preflight \/ Cancellable(r)
  <2>1. /\ tasks' = [tasks EXCEPT ![r] = Withdrawn(tasks[r])]
        /\ host' = Release(host, r)
        /\ Post(<<Status("cancelled", r, tasks[r].kind, {})>>)
        /\ ledger' = [ledger EXCEPT !.cancelled = @ \cup {r}]
    BY <1>4 DEF ArriveCancel
  <2> HIDE DEF r
  <2>2. /\ Moved(r) /\ Discreet(r) /\ ledger'.issued = ledger.issued
        /\ Busy(tasks[r]) /\ tasks'[r].step \in {tasks[r].step, "ended"}
    BY <1>1, <1>2, <1>3, <1>4, <2>1, CancelMoves
  <2>3. QED
    BY <1>2, <2>2 DEF Heeded, Handled, Offerable
<1>5. CASE ~(tasks[r].step \in Preflight \/ Cancellable(r))
  <2>1. UNCHANGED <<tasks, host, toView, ledger>>
    BY <1>5 DEF ArriveCancel
  <2>2. QED
    BY <2>1, TellsNothing DEF Heeded, Unmoved, Wellformed, HostTyped
<1>6. QED
  BY <1>4, <1>5

\* An undo takes the claim and applies the checkpoint at once.
LEMMA UndoMoves ==
    ASSUME Wellformed, ~host.disposed, NEW r \in Operations, Guarded(r), Untouched(r),
           host.claim = 0, NEW a \in host.artifacts,
           host' = [host EXCEPT !.claim = r,
                      !.artifacts = (@ \ {a}) \cup {[a EXCEPT !.leased = TRUE]}],
           tasks' = [tasks EXCEPT ![r].step = "restoring", ![r].kind = "import"],
           Post(<<Status("running", r, "import", {}),
                  [type |-> "importContent", operation |-> r, body |-> a.body]>>),
           UNCHANGED ledger
    PROVE  Moved(r) /\ Discreet(r)
<1> DEFINE task == [NoTask EXCEPT !.step = "restoring", !.kind = "import"]
           m == Status("running", r, "import", {})
           n == [type |-> "importContent", operation |-> r, body |-> a.body]
           artifacts == (host.artifacts \ {a}) \cup {[a EXCEPT !.leased = TRUE]}
<1>1. tasks[r] = NoTask /\ r \notin ledger.cancelled /\ r \notin ledger.effected
  BY DEF Untouched
<1>2. 0 \notin Operations /\ r \in 0 .. MaxOperations
  BY OperationAssumption DEF Operations
<1>3. a \in Artifacts /\ host.artifacts \in SUBSET Artifacts
  BY DEF Wellformed, HostTyped, Hosts
<1>4. tasks' = [tasks EXCEPT ![r] = task]
  BY <1>1 DEF Wellformed, HostTyped
<1>5. task \in TaskStates /\ task.step = "restoring" /\ task.plan = Null /\ ~task.aborted
  BY DEF NoTask, TaskStates, Steps, Executing
<1>6. /\ m \in ViewMessages /\ m.type # "importContent"
      /\ n \in ViewMessages /\ n.operation = r
      /\ \A q \in Operations : m \notin Offerings(q) /\ n \notin Offerings(q)
  BY <1>3 DEF Status, ViewMessages, StatusMessages, ImportMessages, Artifacts, Offerings
<1>7. Post(<<m, n>>)
  OBVIOUS
<1>8. artifacts \in SUBSET Artifacts
  BY <1>3 DEF Artifacts
<1>9. host' = [host EXCEPT !.claim = r, !.artifacts = artifacts]
  OBVIOUS
<1> HIDE DEF task, m, n, artifacts
<1>10. host' \in Hosts /\ host'.claim = r /\ host'.disposed = host.disposed
  BY <1>2, <1>8, <1>9 DEF Wellformed, HostTyped, Hosts
<1>11. /\ tasks' \in [Operations -> TaskStates] /\ tasks'[r] = task
       /\ \A q \in Operations \ {r} : tasks'[q] = tasks[q]
  BY <1>4, <1>5, TaskMoves
<1>12. /\ toView' \in Seq(ViewMessages) /\ In(toView') \subseteq In(toView) \cup {m, n}
       /\ \A q \in Operations : Discreet(q)
  <2>1. <<m, n>> \in Seq(ViewMessages) /\ In(<<m, n>>) = {m, n}
    BY <1>6, InPair
  <2>2. QED
    BY <1>6, <1>7, <2>1, Posts DEF None
<1>13. \A q \in Operations \ {r} : Delivering(q)' => Delivering(q)
  BY <1>6, <1>12 DEF Delivering
<1>14. SessionTyped' /\ Only(r)
  BY <1>2, <1>10, <1>11, <1>12, <1>13 DEF SessionTyped, Only, Wellformed
<1>15. Shaped(task) /\ Busy(task)
  BY <1>5 DEF Shaped, Busy, Executing, Export, Preflight
<1>16. Guarded(r)'
  BY <1>1, <1>5, <1>10, <1>11, <1>15 DEF Guarded
<1>17. ~Busy(tasks[r])
  BY <1>1 DEF Busy, NoTask
<1>18. QED
  BY <1>12, <1>14, <1>16, <1>17 DEF Moved

LEMMA ArriveUndoHeeded ==
    ASSUME Wellformed, Inv, ArriveUndo
    PROVE  Heeded
<1> DEFINE r == Head(toHost).operation
           found == {a \in host.artifacts :
                        /\ a.id = Head(toHost).previous /\ ~a.leased
                        /\ a.expected = doc.version}
<1>1. /\ toHost # <<>> /\ Arrived /\ ~host.disposed /\ Head(toHost).type = "undo"
      /\ UNCHANGED ledger
  BY DEF ArriveUndo, Arrives
<1>2. /\ r \in Operations /\ Head(toHost) \in Beginnings(r)
      /\ Guarded(r) /\ Untouched(r) /\ tasks[r].step \notin Offerable
  BY <1>1, BeginningArrives
<1>3. CASE host.claim # 0 \/ found = {}
  <2>1. Post(<<Message("actionFailed", r)>>) /\ UNCHANGED <<host, tasks>>
    BY <1>3 DEF ArriveUndo
  <2> HIDE DEF r
  <2>2. Told
    BY <1>2, <2>1, TellsFailure
  <2>3. QED
    BY <1>1, <2>1, <2>2 DEF Heeded, Unmoved, Wellformed, HostTyped
<1>4. CASE ~(host.claim # 0 \/ found = {})
  <2>1. PICK a \in host.artifacts :
           /\ host' = [host EXCEPT !.claim = r,
                         !.artifacts = (@ \ {a}) \cup {[a EXCEPT !.leased = TRUE]}]
           /\ tasks' = [tasks EXCEPT ![r].step = "restoring", ![r].kind = "import"]
           /\ Post(<<Status("running", r, "import", {}),
                     [type |-> "importContent", operation |-> r, body |-> a.body]>>)
    BY <1>4 DEF ArriveUndo
  <2> HIDE DEF r
  <2>2. host.claim = 0
    BY <1>4
  <2>3. Moved(r) /\ Discreet(r)
    BY <1>1, <1>2, <2>1, <2>2, UndoMoves
  <2>4. QED
    BY <1>1, <1>2, <2>3 DEF Heeded, Handled
<1>5. QED
  BY <1>3, <1>4

\* An answer concerns the task that waits for it, or nobody.
LEMMA ArriveAppliedHeeded ==
    ASSUME Wellformed, Inv, ArriveApplied
    PROVE  Heeded
<1> DEFINE r == Head(toHost).operation
           ok == Head(toHost).ok
<1>1. /\ toHost # <<>> /\ Arrived /\ Head(toHost).type = "applied" /\ UNCHANGED ledger
      /\ IF Waits(r) THEN SettleImport(r, ok) ELSE UNCHANGED <<host, tasks, toView>>
  BY DEF ArriveApplied, Arrives
<1>2. r \in Operations /\ ok \in BOOLEAN
  BY <1>1, ArrivedTyped, HostMessageTyped DEF ReportMessages
<1>3. UNCHANGED <<doc, target>>
  BY <1>1, ArrivedTyped
<1> HIDE DEF r, ok
<1>4. Guarded(r)
  BY <1>2 DEF Inv
<1>5. CASE Waits(r)
  <2>1. Proceeds(r)
    BY <1>1, <1>2, <1>3, <1>4, <1>5, SettleProceeds
  <2>2. Busy(tasks[r]) /\ tasks[r].step \notin Offerable /\ ~Proposes(r)
    BY <1>5 DEF Waits, At, Busy, Offerable, Proposes
  <2>3. QED
    BY <1>2, <2>1, <2>2 DEF Proceeds, Heeded, Handled
<1>6. CASE ~Waits(r)
  BY <1>1, <1>6, TellsNothing DEF Heeded, Unmoved, Wellformed, HostTyped
<1>7. QED
  BY <1>5, <1>6

LEMMA ArriveFlushAnswerHeeded ==
    ASSUME Wellformed, Inv, ArriveFlushAnswer
    PROVE  Heeded
<1> DEFINE r == Head(toHost).flush
           ok == Head(toHost).type = "flushComplete"
<1>1. /\ toHost # <<>> /\ Arrived
      /\ Head(toHost).type \in {"flushComplete", "flushFailed"}
      /\ IF At(r, "flushing") THEN Flushed(r, ok)
                              ELSE UNCHANGED <<host, tasks, toView, ledger>>
  BY DEF ArriveFlushAnswer, Arrives
<1>2. r \in Operations /\ ok \in BOOLEAN
  BY <1>1, ArrivedTyped, HostMessageTyped DEF FlushMessages, Operations
<1>3. UNCHANGED <<doc, target>>
  BY <1>1, ArrivedTyped
<1> HIDE DEF r, ok
<1>4. Guarded(r)
  BY <1>2 DEF Inv
<1>5. CASE At(r, "flushing")
  <2>1. Proceeds(r)
    BY <1>1, <1>2, <1>3, <1>4, <1>5, FlushedProceeds DEF At
  <2>2. Busy(tasks[r]) /\ tasks[r].step \notin Offerable /\ ~Proposes(r)
    BY <1>5 DEF At, Busy, Offerable, Proposes
  <2>3. QED
    BY <1>2, <2>1, <2>2 DEF Proceeds, Heeded, Handled
<1>6. CASE ~At(r, "flushing")
  BY <1>1, <1>6, TellsNothing DEF Heeded, Unmoved, Wellformed, HostTyped
<1>7. QED
  BY <1>5, <1>6

LEMMA ArriveEditHeeded ==
    ASSUME Wellformed, ArriveEdit
    PROVE  Heeded
<1> DEFINE request == Head(toHost).request
<1>1. /\ toHost # <<>> /\ Arrived /\ Head(toHost).type = "edit"
      /\ host' = [host EXCEPT !.edits = Append(@, request)]
      /\ UNCHANGED <<tasks, toView, ledger>>
  BY DEF ArriveEdit, Arrives
<1>2. request \in Requests
  BY <1>1, ArrivedTyped, HostMessageTyped DEF EditMessages
<1>3. host \in Hosts /\ host.edits \in Seq(Requests)
  BY DEF Wellformed, HostTyped, Hosts
<1> HIDE DEF request
<1>4. Append(host.edits, request) \in Seq(Requests)
  BY <1>2, <1>3, AppendProperties
<1>5. host' \in Hosts /\ host'.claim = host.claim /\ host'.disposed = host.disposed
  BY <1>1, <1>3, <1>4 DEF Hosts
<1>6. QED
  BY <1>1, <1>5, TellsNothing DEF Heeded, Unmoved

----------------------------------------------------------------------------
(* What a step keeps of a request *)

\* Neither its task nor what the host and the ledger know of it changes, and
\* no message about it is added for the webview.
Kept(q) ==
    /\ tasks'[q] = tasks[q]
    /\ host'.disposed = host.disposed
    /\ host'.claim = q <=> host.claim = q
    /\ q \in ledger'.cancelled <=> q \in ledger.cancelled
    /\ q \in ledger'.effected <=> q \in ledger.effected
    /\ Delivering(q)' => Delivering(q)
    /\ Discreet(q)

\* The webview says no more about it to the host, and does not begin to wait
\* for the user.
Unspoken(q) ==
    /\ NoMore(toHost, toHost', Beginnings(q))
    /\ NoMore(toHost, toHost', Confirmations(q))
    /\ Awaiting(q)' => Awaiting(q)

LEMMA GuardedKept ==
    ASSUME NEW q \in Operations, Guarded(q), Kept(q)
    PROVE  Guarded(q)'
BY DEF Guarded, Kept

LEMMA IssuedTyped ==
    ASSUME Wellformed
    PROVE  ledger.issued \in Int /\ \A q \in Operations : q \in Int
BY OperationAssumption DEF Wellformed, Ledgers, Operations

LEMMA OrderlyKept ==
    ASSUME Wellformed, Wellformed', NEW q \in Operations, Orderly(q),
           NoMore(toHost, toHost', Beginnings(q)),
           ledger'.issued >= ledger.issued,
           Untouched(q)
              => \/ Untouched(q)'
                 \/ q <= ledger'.issued /\ None(toHost', Beginnings(q))
    PROVE  Orderly(q)'
<1>1. /\ q \in Int /\ ledger.issued \in Int /\ ledger'.issued \in Int
      /\ q <= ledger.issued => q <= ledger'.issued
      /\ q > ledger'.issued => q > ledger.issued /\ ~(q <= ledger'.issued)
  <2>1. ledger.issued \in Int /\ q \in Int
    BY IssuedTyped
  <2>2. ledger'.issued \in Int
    BY OperationAssumption DEF Wellformed, Ledgers
  <2>3. QED
    BY <2>1, <2>2
<1> DEFINE S == Beginnings(q)
<1>2. Single(toHost, S) => Single(toHost', S)
  BY DEF NoMore
<1>3. None(toHost, S) => None(toHost', S)
  BY DEF NoMore
<1> HIDE DEF S
<1>4. Single(toHost, S) /\ (~None(toHost, S) => q <= ledger.issued /\ Untouched(q))
      /\ (q > ledger.issued => Untouched(q))
  BY DEF Orderly, S
<1>5. Single(toHost', S)
  BY <1>2, <1>4
<1>6. Untouched(q) => Untouched(q)' \/ (q <= ledger'.issued /\ None(toHost', S))
  BY DEF S
<1>7. ~None(toHost', S) => q <= ledger'.issued /\ Untouched(q)'
  BY <1>1, <1>3, <1>4, <1>6
<1>8. q > ledger'.issued => Untouched(q)'
  BY <1>1, <1>4, <1>6
<1>9. S = Beginnings(q)'
  BY DEF S, Beginnings
<1>10. QED
  BY <1>5, <1>7, <1>8, <1>9 DEF Orderly

LEMMA ConfirmedKept ==
    ASSUME NEW q \in Operations, ConfirmedOnce(q), Discreet(q),
           NoMore(toHost, toHost', Confirmations(q)),
           Awaiting(q)' => Awaiting(q),
           tasks[q].step \in Offerable
              => \/ tasks'[q].step \in Offerable
                 \/ /\ ~Awaiting(q) /\ None(toView', Offerings(q))
                    /\ None(toHost', Confirmations(q))
    PROVE  ConfirmedOnce(q)'
<1> DEFINE S == Offerings(q)
           T == Confirmations(q)
<1>1. /\ Single(toView, S) => Single(toView', S)
      /\ None(toView, S) => None(toView', S)
      /\ Single(toHost, T) => Single(toHost', T)
      /\ None(toHost, T) => None(toHost', T)
  BY DEF NoMore, Discreet
<1>2. /\ Single(toView, S) /\ Single(toHost, T)
      /\ Awaiting(q) => None(toView, S) /\ None(toHost, T)
      /\ None(toView, S) \/ None(toHost, T)
      /\ \/ tasks[q].step \in Offerable
         \/ ~Awaiting(q) /\ None(toView, S) /\ None(toHost, T)
  BY DEF ConfirmedOnce
<1>3. S = Offerings(q)' /\ T = Confirmations(q)'
  BY DEF Offerings, Confirmations
<1>4. tasks[q].step \in Offerable
              => \/ tasks'[q].step \in Offerable
                 \/ ~Awaiting(q) /\ None(toView', S) /\ None(toHost', T)
  OBVIOUS
<1> HIDE DEF S, T
<1>5. /\ Single(toView', S) /\ Single(toHost', T)
      /\ Awaiting(q)' => None(toView', S) /\ None(toHost', T)
      /\ None(toView', S) \/ None(toHost', T)
      /\ \/ tasks'[q].step \in Offerable
         \/ ~Awaiting(q)' /\ None(toView', S) /\ None(toHost', T)
  BY <1>1, <1>2, <1>4
<1>6. QED
  BY <1>3, <1>5 DEF ConfirmedOnce

\* The plan of a request is offered the first time.
LEMMA ConfirmedProposed ==
    ASSUME NEW q \in Operations, ConfirmedOnce(q), Proposes(q), UNCHANGED <<toHost, view>>
    PROVE  ConfirmedOnce(q)'
<1>1. tasks[q].step \notin Offerable /\ tasks'[q].step \in Offerable
  BY DEF Proposes, Offerable
<1>2. ~Awaiting(q) /\ None(toView, Offerings(q)) /\ None(toHost, Confirmations(q))
      /\ Single(toHost, Confirmations(q))
  BY <1>1 DEF ConfirmedOnce
<1>3. Single(toView', Offerings(q))
  BY <1>2 DEF Proposes
<1>4. ~Awaiting(q)'
  BY <1>2 DEF Awaiting
<1>5. QED
  BY <1>1, <1>2, <1>3, <1>4 DEF ConfirmedOnce, Offerings, Confirmations

LEMMA KeptUntouched ==
    ASSUME NEW q \in Operations, Kept(q), Untouched(q)
    PROVE  Untouched(q)'
BY DEF Kept, Untouched

\* A step that leaves a request alone keeps all that is known of it.
LEMMA RequestKept ==
    ASSUME Wellformed, Wellformed', NEW q \in Operations,
           Guarded(q), Orderly(q), ConfirmedOnce(q), Kept(q), Unspoken(q),
           ledger'.issued >= ledger.issued
    PROVE  Guarded(q)' /\ Orderly(q)' /\ ConfirmedOnce(q)'
<1>1. tasks'[q] = tasks[q] /\ Discreet(q)
  BY DEF Kept
<1>2. ConfirmedOnce(q)'
  BY <1>1, ConfirmedKept DEF Unspoken
<1>3. Orderly(q)'
  BY KeptUntouched, OrderlyKept DEF Unspoken
<1>4. QED
  BY <1>2, <1>3, GuardedKept

\* The webview rests.
LEMMA RestUnspoken ==
    ASSUME Wellformed, NEW q \in Operations, UNCHANGED <<view, toHost>>
    PROVE  Unspoken(q)
BY DEF Unspoken, NoMore, Awaiting

\* A message for the host leaves the queue.
LEMMA ArrivedUnspoken ==
    ASSUME Wellformed, toHost # <<>>, Arrived, NEW q \in Operations
    PROVE  Unspoken(q)
<1>1. NoMore(toHost, toHost', Beginnings(q)) /\ NoMore(toHost, toHost', Confirmations(q))
  BY ArrivedSingle
<1>2. UNCHANGED view
  BY DEF Arrived
<1>3. QED
  BY <1>1, <1>2 DEF Unspoken, Awaiting

LEMMA OnlyKept ==
    ASSUME NEW r \in Operations, Only(r), NEW q \in Operations \ {r}
    PROVE  Kept(q)
BY DEF Only, Kept

\* A task that moves does not touch what it was before: only the arrival of
\* its request or the palette begins it.
LEMMA HeededKeeps ==
    ASSUME Wellformed, Inv, toHost # <<>>, Arrived, Heeded
    PROVE  Wellformed' /\ Inv'
<1>1. WebviewTyped' /\ UNCHANGED <<view, doc, target>>
  BY ArrivedTyped
<1>2. CASE Unmoved
  <2>1. Wellformed'
    BY <1>1, <1>2 DEF Unmoved, Told, Undelivered, Wellformed, HostTyped
  <2>2. ledger'.issued >= ledger.issued
    BY <1>2, IssuedTyped DEF Unmoved
  <2>3. ASSUME NEW q \in Operations PROVE Guarded(q)' /\ Orderly(q)' /\ ConfirmedOnce(q)'
    <3>1. Kept(q)
      BY <1>2 DEF Unmoved, Told, Undelivered, Kept
    <3>2. Unspoken(q)
      BY ArrivedUnspoken
    <3>3. Guarded(q) /\ Orderly(q) /\ ConfirmedOnce(q)
      BY DEF Inv
    <3>4. QED
      BY <2>1, <2>2, <3>1, <3>2, <3>3, RequestKept
  <2>4. QED
    BY <2>1, <2>3 DEF Inv
<1>3. ASSUME NEW r \in Operations, Handled(r) PROVE Wellformed' /\ Inv'
  <2>1. SessionTyped' /\ Only(r) /\ Guarded(r)' /\ Discreet(r)
        /\ ledger'.issued = ledger.issued
    BY <1>3 DEF Handled, Moved
  <2>2. Wellformed'
    BY <1>1, <2>1 DEF SessionTyped, Wellformed, HostTyped
  <2>3. ledger'.issued >= ledger.issued
    BY <2>1, IssuedTyped
  <2>4. ASSUME NEW q \in Operations \ {r}
        PROVE  Guarded(q)' /\ Orderly(q)' /\ ConfirmedOnce(q)'
    <3>1. Kept(q)
      BY <2>1, OnlyKept
    <3>2. Unspoken(q)
      BY ArrivedUnspoken
    <3>3. Guarded(q) /\ Orderly(q) /\ ConfirmedOnce(q)
      BY DEF Inv
    <3>4. QED
      BY <2>2, <2>3, <3>1, <3>2, <3>3, RequestKept
  <2>5. Orderly(r) /\ ConfirmedOnce(r) /\ Unspoken(r)
    BY ArrivedUnspoken DEF Inv
  <2>6. Orderly(r)'
    <3>1. CASE Busy(tasks[r])
      <4>1. ~Untouched(r)
        BY <3>1 DEF Untouched, Busy, NoTask
      <4>2. QED
        BY <2>2, <2>3, <2>5, <4>1, OrderlyKept DEF Unspoken
    <3>2. CASE Head(toHost) \in Beginnings(r)
      <4>1. Head(toHost) \in In(toHost)
        BY ArrivedTyped
      <4>2. r <= ledger.issued
        BY <2>5, <3>2, <4>1 DEF Orderly, None
      <4>3. None(toHost', Beginnings(r))
        BY <2>5, <3>2, ArrivedSingle DEF Orderly
      <4>4. QED
        BY <2>1, <2>2, <2>3, <2>5, <4>2, <4>3, OrderlyKept DEF Unspoken
    <3>3. QED
      BY <1>3, <3>1, <3>2 DEF Handled
  <2>7. ConfirmedOnce(r)'
    <3>1. CASE tasks[r].step \in Offerable => tasks'[r].step \in Offerable
      BY <2>1, <2>5, <3>1, ConfirmedKept DEF Unspoken
    <3>2. CASE Head(toHost) \in Confirmations(r)
      <4>1. Head(toHost) \in In(toHost)
        BY ArrivedTyped
      <4>2. ~None(toHost, Confirmations(r))
        BY <3>2, <4>1 DEF None
      <4>3. ~Awaiting(r) /\ None(toView, Offerings(r))
        BY <2>5, <4>2 DEF ConfirmedOnce
      <4>4. None(toView', Offerings(r))
        BY <2>1, <4>3 DEF Discreet, NoMore
      <4>5. None(toHost', Confirmations(r))
        BY <2>5, <3>2, ArrivedSingle DEF ConfirmedOnce
      <4>6. QED
        BY <2>1, <2>5, <4>3, <4>4, <4>5, ConfirmedKept DEF Unspoken
    <3>3. QED
      BY <1>3, <3>1, <3>2 DEF Handled
  <2>8. QED
    BY <2>1, <2>2, <2>4, <2>6, <2>7 DEF Inv
<1>4. QED
  BY <1>2, <1>3 DEF Heeded

LEMMA ArriveKeeps ==
    ASSUME Wellformed, Inv, Arrive
    PROVE  Wellformed' /\ Inv'
<1>1. toHost # <<>> /\ Arrived
  BY DEF Arrive, ArrivePrepare, ArriveAgain, ArriveExecute, ArriveCancel, ArriveUndo,
         ArriveApplied, ArriveFlushAnswer, ArriveEdit, Arrives
<1>2. Heeded
  BY ArrivePrepareHeeded, ArriveAgainHeeded, ArriveExecuteHeeded, ArriveCancelHeeded,
     ArriveUndoHeeded, ArriveAppliedHeeded, ArriveFlushAnswerHeeded, ArriveEditHeeded
  DEF Arrive
<1>3. QED
  BY <1>1, <1>2, HeededKeeps

\* A task whose plan is on offer leaves it there, or has lost it.
LEMMA OfferableTask ==
    ASSUME Wellformed, NEW r \in Operations, Task(r) \/ Choose(r) \/ Fails(r),
           Busy(tasks[r]), tasks[r].step \in Offerable
    PROVE  tasks'[r].step \in Offerable
<1>1. Offered(r)
  BY DEF Task, Rendered, Sized, Read, StartPlan, CheckTarget, Stage, Staged, Validate,
         Publish, Published, FlushTimesOut, ImportTimesOut, Waits, Choose, Fails, At,
         Busy, Offerable
<1>2. CASE tasks[r].plan = Null
  BY <1>1, <1>2, EndedTask DEF Offered, Offerable
<1>3. CASE tasks[r].plan # Null
  <2>1. tasks' = [tasks EXCEPT ![r].step = "offered"]
    BY <1>1, <1>3 DEF Offered, Goto
  <2>2. QED
    BY <2>1 DEF Wellformed, HostTyped, TaskStates, Offerable
<1>4. QED
  BY <1>2, <1>3

LEMMA TasksKeep ==
    ASSUME Wellformed, Inv, NEW r \in Operations, Task(r) \/ Choose(r) \/ Fails(r)
    PROVE  Wellformed' /\ Inv'
<1>1. Guarded(r) /\ Orderly(r) /\ ConfirmedOnce(r)
  BY DEF Inv
<1>2. Proceeds(r) /\ Busy(tasks[r]) /\ UNCHANGED webview
  BY <1>1, TaskProceeds
<1>3. /\ SessionTyped' /\ Only(r) /\ Guarded(r)' /\ ledger'.issued = ledger.issued
      /\ doc' \in Documents /\ target' \in Nat /\ (Discreet(r) \/ Proposes(r))
  BY <1>2 DEF Proceeds, Moved
<1>4. UNCHANGED <<sync, view, toHost>>
  BY <1>2 DEF webview
<1>5. Wellformed'
  BY <1>3, <1>4 DEF SessionTyped, Wellformed, HostTyped, WebviewTyped
<1>6. ledger'.issued >= ledger.issued
  BY <1>3, IssuedTyped
<1>7. ASSUME NEW q \in Operations \ {r}
      PROVE  Guarded(q)' /\ Orderly(q)' /\ ConfirmedOnce(q)'
  <2>1. Kept(q) /\ Unspoken(q)
    BY <1>3, <1>4, OnlyKept, RestUnspoken
  <2>2. Guarded(q) /\ Orderly(q) /\ ConfirmedOnce(q)
    BY DEF Inv
  <2>3. QED
    BY <1>5, <1>6, <2>1, <2>2, RequestKept
<1>8. Unspoken(r)
  BY <1>4, RestUnspoken
<1>9. Orderly(r)'
  <2>1. ~Untouched(r)
    BY <1>2 DEF Untouched, Busy, NoTask
  <2>2. QED
    BY <1>1, <1>5, <1>6, <1>8, <2>1, OrderlyKept DEF Unspoken
<1>10. ConfirmedOnce(r)'
  <2>1. CASE Proposes(r)
    BY <1>1, <1>4, <2>1, ConfirmedProposed
  <2>2. CASE Discreet(r)
    <3>1. tasks[r].step \in Offerable => tasks'[r].step \in Offerable
      BY <1>2, OfferableTask
    <3>2. QED
      BY <1>1, <1>8, <2>2, <3>1, ConfirmedKept DEF Unspoken
  <2>3. QED
    BY <1>3, <2>1, <2>2
<1>11. QED
  BY <1>3, <1>5, <1>7, <1>9, <1>10 DEF Inv

----------------------------------------------------------------------------
(* What the webview's turns keep *)

LEMMA NoiseApart ==
    ASSUME NEW r \in Operations
    PROVE  Noise \cap Beginnings(r) = {} /\ Noise \cap Confirmations(r) = {}
<1>1. \A m \in Noise : m.type \in {"edit", "applied", "flushComplete", "flushFailed"}
  BY DEF Noise, EditMessages, FlushMessages, ReportMessages
<1>2. \A m \in Beginnings(r) \cup Confirmations(r) :
         m.type \in {"prepare", "retry", "repeat", "undo", "execute"}
  BY DEF Beginnings, Confirmations, PrepareMessages, AgainMessages
<1>3. QED
  BY <1>1, <1>2

LEMMA MurmursHold ==
    ASSUME Wellformed, Murmurs, NEW S, Noise \cap S = {}
    PROVE  NoMore(toHost, toHost', S)
<1>1. PICK q \in Seq(Noise) : toHost' = toHost \o q
  BY DEF Murmurs
<1>2. q \in Seq(HostMessages) /\ None(q, S)
  BY SeqMonotonic, InTyped DEF HostMessages, None
<1>3. toHost \in Seq(HostMessages)
  BY DEF Wellformed, WebviewTyped
<1>4. NoMore(toHost, toHost \o q, S)
  BY <1>2, <1>3, SingleConcat
<1>5. QED
  BY <1>1, <1>4

LEMMA UttersHold ==
    ASSUME Wellformed, NEW m \in Wishes, Utters(m), NEW S, Noise \cap S = {}
    PROVE  /\ m \notin S => NoMore(toHost, toHost', S)
           /\ None(toHost, S) => Single(toHost', S)
<1>1. PICK q \in Seq(Noise) : toHost' = (toHost \o q) \o <<m>>
  BY DEF Utters
<1> DEFINE p == toHost \o q
<1>2. q \in Seq(HostMessages) /\ None(q, S)
  BY SeqMonotonic, InTyped DEF HostMessages, None
<1>3. toHost \in Seq(HostMessages) /\ m \in HostMessages
  BY DEF Wellformed, WebviewTyped, HostMessages
<1>4. NoMore(toHost, p, S) /\ p \in Seq(HostMessages)
  BY <1>2, <1>3, SingleConcat, ConcatProperties
<1> HIDE DEF p
<1>5. toHost' = p \o <<m>>
  BY <1>1 DEF p
<1>6. None(toHost, S) => Single(toHost', S)
  BY <1>3, <1>4, <1>5, SingleLast DEF NoMore
<1>7. m \notin S => NoMore(p, p \o <<m>>, S)
  <2>1. <<m>> \in Seq(HostMessages) /\ (m \notin S => None(<<m>>, S))
    BY <1>3, InFew DEF None
  <2>2. QED
    BY <1>4, <2>1, SingleConcat
<1>8. QED
  BY <1>4, <1>5, <1>6, <1>7 DEF NoMore

\* A turn that asks for no operation and confirms none.
Hushed == Murmurs \/ \E m \in PlainMessages : m.type = "cancel" /\ Utters(m)

LEMMA HushedHolds ==
    ASSUME Wellformed, Hushed, NEW q \in Operations
    PROVE  /\ NoMore(toHost, toHost', Beginnings(q))
           /\ NoMore(toHost, toHost', Confirmations(q))
<1> DEFINE S == Beginnings(q)
           T == Confirmations(q)
<1>1. Noise \cap S = {} /\ Noise \cap T = {}
  BY NoiseApart
<1>2. \A m \in PlainMessages : m.type = "cancel" => m \in Wishes /\ m \notin S /\ m \notin T
  BY DEF Wishes, Beginnings, Confirmations, PlainMessages, PrepareMessages, AgainMessages
<1> HIDE DEF S, T
<1>3. CASE Murmurs
  BY <1>1, <1>3, MurmursHold DEF S, T
<1>4. ASSUME NEW m \in PlainMessages, m.type = "cancel", Utters(m)
      PROVE  NoMore(toHost, toHost', S) /\ NoMore(toHost, toHost', T)
  BY <1>1, <1>2, <1>4, UttersHold
<1>5. QED
  BY <1>3, <1>4 DEF Hushed, S, T

LEMMA HushedUnspoken ==
    ASSUME Wellformed, Hushed, Steady, NEW q \in Operations
    PROVE  Unspoken(q)
BY HushedHolds DEF Unspoken, Steady, Awaiting

\* What the ledger holds against or for a request stays the same.
Recorded ==
    /\ ledger' \in Ledgers
    /\ ledger'.issued = ledger.issued
    /\ ledger'.cancelled = ledger.cancelled
    /\ ledger'.effected = ledger.effected

LEMMA UnchangedRecorded ==
    ASSUME Wellformed, UNCHANGED ledger
    PROVE  Recorded
BY DEF Wellformed, Recorded

LEMMA RecordedKept ==
    ASSUME Wellformed, HostKept, Told, Recorded, NEW q \in Operations
    PROVE  Kept(q)
BY DEF HostKept, Told, Undelivered, Recorded, Kept

LEMMA WebviewWellformed ==
    ASSUME Wellformed, WebviewTyped', HostKept, Told, ledger' \in Ledgers
    PROVE  Wellformed'
BY DEF Wellformed, HostTyped, HostKept, Told, Undelivered

\* A turn that says nothing about a request but what has been said.
LEMMA HushedKeeps ==
    ASSUME Wellformed, Inv, WebviewTyped', Hushed, Steady, HostKept, Told, Recorded
    PROVE  Wellformed' /\ Inv'
<1>1. Wellformed'
  BY WebviewWellformed DEF Recorded
<1>2. ledger'.issued >= ledger.issued
  BY IssuedTyped DEF Recorded
<1>3. ASSUME NEW q \in Operations
      PROVE  Guarded(q)' /\ Orderly(q)' /\ ConfirmedOnce(q)'
  <2>1. Kept(q) /\ Unspoken(q)
    BY RecordedKept, HushedUnspoken
  <2>2. Guarded(q) /\ Orderly(q) /\ ConfirmedOnce(q)
    BY DEF Inv
  <2>3. QED
    BY <1>1, <1>2, <2>1, <2>2, RequestKept
<1>4. QED
  BY <1>1, <1>3 DEF Inv

LEMMA HeardTold ==
    ASSUME Wellformed, toView # <<>>, Heard
    PROVE  Told /\ HostKept
<1>1. toView \in Seq(ViewMessages) /\ toView' = Tail(toView)
      /\ UNCHANGED <<host, tasks, doc, target>>
  BY DEF Wellformed, Heard
<1>2. \A q \in Operations : Discreet(q)
  BY <1>1, SingleTail DEF Discreet
<1>3. toView' \in Seq(ViewMessages) /\ In(toView') \subseteq In(toView)
  BY <1>1, HeardTyped
<1>4. QED
  BY <1>1, <1>2, <1>3 DEF Told, Undelivered, Delivering, HostKept

LEMMA TypeKeeps ==
    ASSUME Wellformed, Inv, Type
    PROVE  Wellformed' /\ Inv'
<1>1. WebviewTyped' /\ Hushed /\ Steady /\ ledger' \in Ledgers
  BY TypeTyped DEF Hushed
<1>2. HostKept /\ Told
  BY TellsNothing DEF Type, HostUnchanged, HostKept
<1>3. Recorded
  BY <1>1 DEF Type, Wellformed, Ledgers, Recorded
<1>4. QED
  BY <1>1, <1>2, <1>3, HushedKeeps

LEMMA DebounceKeeps ==
    ASSUME Wellformed, Inv, Debounce
    PROVE  Wellformed' /\ Inv'
<1>1. WebviewTyped' /\ Hushed /\ Steady
  BY DebounceTyped DEF Hushed
<1>2. HostKept /\ Told /\ Recorded
  BY TellsNothing, UnchangedRecorded DEF Debounce, HostUnchanged, HostKept
<1>3. QED
  BY <1>1, <1>2, HushedKeeps

LEMMA CancelKeeps ==
    ASSUME Wellformed, Inv, Cancel
    PROVE  Wellformed' /\ Inv'
<1>1. WebviewTyped' /\ Hushed /\ Steady /\ ledger' \in Ledgers
  BY CancelTyped DEF Hushed
<1>2. HostKept /\ Told
  BY TellsNothing DEF Cancel, HostUnchanged, HostKept
<1>3. Recorded
  BY <1>1 DEF Cancel, Wellformed, Ledgers, Recorded
<1>4. QED
  BY <1>1, <1>2, <1>3, HushedKeeps

\* A request of the panel has the next number, and no other message begins it.
LEMMA WishKeeps ==
    ASSUME Wellformed, Inv, WebviewTyped', Steady, HostUnchanged,
           NEW r \in Operations, NewOperation(r), NEW m \in Beginnings(r), Utters(m)
    PROVE  Wellformed' /\ Inv'
<1>1. HostKept /\ Told
  BY TellsNothing DEF HostUnchanged, HostKept
<1>2. ledger' \in Ledgers /\ ledger'.issued = r /\ r = ledger.issued + 1
  BY NewTyped
<1>3. Wellformed'
  BY <1>1, <1>2, WebviewWellformed
<1>4. /\ r \in Int /\ ledger.issued \in Int /\ r > ledger.issued /\ r <= ledger'.issued
      /\ ledger'.issued >= ledger.issued /\ ~(r <= ledger.issued)
      /\ ~(r > ledger'.issued)
  BY <1>2, IssuedTyped
<1>5. ledger'.cancelled = ledger.cancelled /\ ledger'.effected = ledger.effected
  BY DEF NewOperation, Wellformed, Ledgers
<1>6. m \in Wishes /\ \A q \in Operations : m \notin Confirmations(q)
                                           /\ (m \in Beginnings(q) => q = r)
  BY DEF Beginnings, Confirmations, Wishes, PlainMessages, PrepareMessages, AgainMessages
<1>7. ASSUME NEW q \in Operations
      PROVE  /\ Kept(q) /\ NoMore(toHost, toHost', Confirmations(q))
             /\ q # r => NoMore(toHost, toHost', Beginnings(q))
             /\ None(toHost, Beginnings(q)) => Single(toHost', Beginnings(q))
             /\ Awaiting(q)' => Awaiting(q)
  <2>1. Kept(q)
    BY <1>1, <1>5 DEF HostKept, Told, Undelivered, Kept
  <2>2. Awaiting(q)' => Awaiting(q)
    BY DEF Steady, Awaiting
  <2> DEFINE S == Beginnings(q)
             T == Confirmations(q)
  <2>3. Noise \cap S = {} /\ Noise \cap T = {} /\ m \notin T /\ (q # r => m \notin S)
    BY <1>6, NoiseApart
  <2> HIDE DEF S, T
  <2>4. /\ NoMore(toHost, toHost', T)
        /\ q # r => NoMore(toHost, toHost', S)
        /\ None(toHost, S) => Single(toHost', S)
    BY <1>6, <2>3, UttersHold
  <2>5. QED
    BY <2>1, <2>2, <2>4 DEF S, T
<1>8. ASSUME NEW q \in Operations \ {r}
      PROVE  Guarded(q)' /\ Orderly(q)' /\ ConfirmedOnce(q)'
  <2>1. Kept(q) /\ Unspoken(q)
    BY <1>7 DEF Unspoken
  <2>2. Guarded(q) /\ Orderly(q) /\ ConfirmedOnce(q)
    BY DEF Inv
  <2>3. QED
    BY <1>3, <1>4, <2>1, <2>2, RequestKept
<1>9. Guarded(r)' /\ ConfirmedOnce(r)'
  <2>1. Kept(r) /\ Guarded(r) /\ ConfirmedOnce(r)
    BY <1>7 DEF Inv
  <2>2. tasks'[r] = tasks[r] /\ Discreet(r)
    BY <2>1 DEF Kept
  <2>3. QED
    BY <1>7, <2>1, <2>2, GuardedKept, ConfirmedKept
<1>10. Orderly(r)'
  <2>1. Orderly(r) /\ Kept(r)
    BY <1>7 DEF Inv
  <2>2. Untouched(r) /\ None(toHost, Beginnings(r))
    BY <1>4, <2>1 DEF Orderly
  <2>3. Untouched(r)' /\ Single(toHost', Beginnings(r))
    BY <1>7, <2>1, <2>2, KeptUntouched
  <2>4. Beginnings(r)' = Beginnings(r)
    BY DEF Beginnings
  <2>5. QED
    BY <1>4, <2>3, <2>4 DEF Orderly
<1>11. QED
  BY <1>3, <1>8, <1>9, <1>10 DEF Inv

LEMMA WishesKeep ==
    ASSUME Wellformed, Inv, Prepare \/ RetryOperation \/ ResultAction
    PROVE  Wellformed' /\ Inv'
<1>1. /\ WebviewTyped' /\ Steady
      /\ \E r \in Operations : NewOperation(r) /\ \E m \in Beginnings(r) : Utters(m)
  BY PrepareTyped, RetryTyped, ResultActionTyped
<1>2. HostUnchanged
  BY DEF Prepare, RetryOperation, ResultAction
<1>3. QED
  BY <1>1, <1>2, WishKeeps

\* The user's confirmation takes the place of the panel that waits for it.
LEMMA ConfirmKeeps ==
    ASSUME Wellformed, Inv, Confirm
    PROVE  Wellformed' /\ Inv'
<1>1. /\ WebviewTyped' /\ view'.op.phase = "running"
      /\ \E r \in Operations : Awaiting(r) /\ \E m \in Confirmations(r) : Utters(m)
  BY ConfirmTyped
<1>2. PICK r \in Operations : Awaiting(r) /\ \E m \in Confirmations(r) : Utters(m)
  BY <1>1
<1>3. PICK m \in Confirmations(r) : Utters(m)
  BY <1>2
<1>4. HostKept /\ Told /\ Recorded
  BY TellsNothing, UnchangedRecorded DEF Confirm, HostUnchanged, HostKept
<1>5. Wellformed'
  BY <1>1, <1>4, WebviewWellformed DEF Recorded
<1>6. ledger'.issued >= ledger.issued
  BY <1>4, IssuedTyped DEF Recorded
<1>7. m \in Wishes /\ \A q \in Operations : m \notin Beginnings(q)
                                           /\ (m \in Confirmations(q) => q = r)
  BY DEF Beginnings, Confirmations, Wishes, PlainMessages, PrepareMessages, AgainMessages
<1>8. ASSUME NEW q \in Operations
      PROVE  /\ Kept(q) /\ ~Awaiting(q)' /\ NoMore(toHost, toHost', Beginnings(q))
             /\ q # r => NoMore(toHost, toHost', Confirmations(q))
             /\ None(toHost, Confirmations(q)) => Single(toHost', Confirmations(q))
  <2>1. Kept(q)
    BY <1>4, RecordedKept
  <2>2. ~Awaiting(q)'
    BY <1>1 DEF Awaiting
  <2> DEFINE S == Beginnings(q)
             T == Confirmations(q)
  <2>3. Noise \cap S = {} /\ Noise \cap T = {} /\ m \notin S /\ (q # r => m \notin T)
    BY <1>7, NoiseApart
  <2> HIDE DEF S, T
  <2>4. /\ NoMore(toHost, toHost', S)
        /\ q # r => NoMore(toHost, toHost', T)
        /\ None(toHost, T) => Single(toHost', T)
    BY <1>3, <1>7, <2>3, UttersHold
  <2>5. QED
    BY <2>1, <2>2, <2>4 DEF S, T
<1>9. ASSUME NEW q \in Operations \ {r}
      PROVE  Guarded(q)' /\ Orderly(q)' /\ ConfirmedOnce(q)'
  <2>1. Kept(q) /\ Unspoken(q)
    BY <1>8 DEF Unspoken
  <2>2. Guarded(q) /\ Orderly(q) /\ ConfirmedOnce(q)
    BY DEF Inv
  <2>3. QED
    BY <1>5, <1>6, <2>1, <2>2, RequestKept
<1>10. Kept(r) /\ Guarded(r) /\ Orderly(r) /\ ConfirmedOnce(r)
  BY <1>8 DEF Inv
<1>11. Guarded(r)' /\ Orderly(r)'
  BY <1>5, <1>6, <1>8, <1>10, KeptUntouched, GuardedKept, OrderlyKept
<1>12. ConfirmedOnce(r)'
  <2>1. None(toView, Offerings(r)) /\ None(toHost, Confirmations(r))
    BY <1>2, <1>10 DEF ConfirmedOnce
  <2>2. tasks'[r].step \in Offerable /\ Single(toView', Offerings(r))
        /\ None(toView', Offerings(r))
    BY <1>2, <1>10, <2>1 DEF ConfirmedOnce, Kept, Discreet, NoMore
  <2>3. Single(toHost', Confirmations(r)) /\ ~Awaiting(r)'
    BY <1>8, <2>1
  <2>4. QED
    BY <2>2, <2>3 DEF ConfirmedOnce, Offerings, Confirmations
<1>13. QED
  BY <1>5, <1>9, <1>11, <1>12 DEF Inv

\* The panel begins to wait for the user when it hears the offer, which is
\* then no longer on its way.
LEMMA HearStatusKeeps ==
    ASSUME Wellformed, Inv, HearStatus
    PROVE  Wellformed' /\ Inv'
<1>1. toView # <<>> /\ Heard /\ UNCHANGED ledger
  BY DEF HearStatus, Hears
<1>2. /\ WebviewTyped' /\ Murmurs /\ Hushed
      /\ view'.op.phase = "awaiting"
            => view'.op = view.op \/ Head(toView) \in Offerings(view'.op.operation)
  BY HearStatusTyped DEF Hushed
<1>3. Told /\ HostKept /\ Recorded
  BY <1>1, HeardTold, UnchangedRecorded
<1>4. Wellformed'
  BY <1>2, <1>3, WebviewWellformed DEF Recorded
<1>5. ledger'.issued >= ledger.issued
  BY <1>3, IssuedTyped DEF Recorded
<1>6. ASSUME NEW q \in Operations
      PROVE  Guarded(q)' /\ Orderly(q)' /\ ConfirmedOnce(q)'
  <2>1. Guarded(q) /\ Orderly(q) /\ ConfirmedOnce(q)
    BY DEF Inv
  <2>2. Kept(q)
    BY <1>3, RecordedKept
  <2>3. /\ NoMore(toHost, toHost', Beginnings(q))
        /\ NoMore(toHost, toHost', Confirmations(q))
    BY <1>2, HushedHolds
  <2>4. CASE Awaiting(q)' => Awaiting(q)
    BY <1>4, <1>5, <2>1, <2>2, <2>3, <2>4, RequestKept DEF Unspoken
  <2>5. CASE Awaiting(q)' /\ ~Awaiting(q)
    <3>1. Head(toView) \in Offerings(q)
      BY <1>2, <2>5 DEF Awaiting
    <3>2. Head(toView) \in In(toView) /\ toView \in Seq(ViewMessages)
      BY <1>1, HeardTyped DEF Heard, Wellformed
    <3>3. ~None(toView, Offerings(q))
      BY <3>1, <3>2 DEF None
    <3>4. /\ Single(toView, Offerings(q)) /\ Single(toHost, Confirmations(q))
          /\ None(toHost, Confirmations(q)) /\ tasks[q].step \in Offerable
      BY <2>1, <3>3 DEF ConfirmedOnce
    <3> DEFINE S == Offerings(q)
    <3>5. Single(toView, S) /\ Head(toView) \in S
      BY <3>1, <3>4
    <3> HIDE DEF S
    <3>6. None(Tail(toView), S) /\ Single(Tail(toView), S)
      BY <1>1, <3>2, <3>5, SingleTail DEF NoMore
    <3>7. None(toView', S) /\ Single(toView', S)
      BY <1>1, <3>6 DEF Heard
    <3>8. None(toHost', Confirmations(q)) /\ Single(toHost', Confirmations(q))
      BY <2>3, <3>4 DEF NoMore
    <3>9. ConfirmedOnce(q)'
      BY <2>2, <3>4, <3>7, <3>8 DEF ConfirmedOnce, Offerings, Confirmations, Kept, S
    <3>10. Guarded(q)' /\ Orderly(q)'
      BY <1>4, <1>5, <2>1, <2>2, <2>3, GuardedKept, KeptUntouched, OrderlyKept
    <3>11. QED
      BY <3>9, <3>10
  <2>6. QED
    BY <2>4, <2>5
<1>7. QED
  BY <1>4, <1>6 DEF Inv

\* A body is taken only from a request that delivers one.
LEMMA HearImportKeeps ==
    ASSUME Wellformed, Inv, HearImport
    PROVE  Wellformed' /\ Inv'
<1>1. toView # <<>> /\ Heard /\ Head(toView).type = "importContent"
  BY DEF HearImport, Hears
<1>2. PICK r \in Operations : r = Head(toView).operation
  BY HearImportTyped DEF ImportMessages
<1>3. /\ WebviewTyped' /\ Hushed /\ Steady /\ ledger' \in Ledgers
      /\ Head(toView) \in ImportMessages
      /\ \/ UNCHANGED ledger
         \/ \E replaced : ledger' =
               [ledger EXCEPT !.effected = @ \cup {r}, !.replaced = replaced]
  BY <1>2, HearImportTyped DEF Hushed
<1>4. Told /\ HostKept
  BY <1>1, HeardTold
<1>5. CASE UNCHANGED ledger
  BY <1>3, <1>4, <1>5, UnchangedRecorded, HushedKeeps
<1>6. ASSUME NEW replaced,
             ledger' = [ledger EXCEPT !.effected = @ \cup {r}, !.replaced = replaced]
      PROVE  Wellformed' /\ Inv'
  <2>1. Wellformed'
    BY <1>3, <1>4, WebviewWellformed
  <2>2. /\ ledger'.issued = ledger.issued /\ ledger'.cancelled = ledger.cancelled
        /\ ledger'.effected = ledger.effected \cup {r}
    BY <1>6 DEF Wellformed, Ledgers
  <2>3. ledger'.issued >= ledger.issued
    BY <2>2, IssuedTyped
  <2>4. Delivering(r)
    BY <1>1, <1>2, HeardTyped DEF Heard, Delivering
  <2>5. ASSUME NEW q \in Operations \ {r}
        PROVE  Guarded(q)' /\ Orderly(q)' /\ ConfirmedOnce(q)'
    <3>1. Kept(q) /\ Unspoken(q)
      BY <1>3, <1>4, <2>2, HushedUnspoken DEF HostKept, Told, Undelivered, Kept
    <3>2. Guarded(q) /\ Orderly(q) /\ ConfirmedOnce(q)
      BY DEF Inv
    <3>3. QED
      BY <2>1, <2>3, <3>1, <3>2, RequestKept
  <2>6. Guarded(r)' /\ Orderly(r)' /\ ConfirmedOnce(r)'
    <3>1. Guarded(r) /\ Orderly(r) /\ ConfirmedOnce(r)
      BY DEF Inv
    <3>2. /\ tasks' = tasks /\ host' = host /\ Discreet(r)
          /\ Delivering(r)' => Delivering(r)
      BY <1>4 DEF HostKept, Told, Undelivered
    <3>3. Guarded(r)'
      BY <2>2, <2>4, <3>1, <3>2 DEF Guarded
    <3>4. ~Untouched(r)
      BY <2>4, <3>1 DEF Guarded, Untouched, NoTask
    <3>5. Unspoken(r)
      BY <1>3, HushedUnspoken
    <3>6. Orderly(r)'
      BY <2>1, <2>3, <3>1, <3>4, <3>5, OrderlyKept DEF Unspoken
    <3>7. ConfirmedOnce(r)'
      BY <3>1, <3>2, <3>5, ConfirmedKept DEF Unspoken
    <3>8. QED
      BY <3>3, <3>6, <3>7
  <2>7. QED
    BY <2>1, <2>5, <2>6 DEF Inv
<1>7. QED
  BY <1>3, <1>5, <1>6

LEMMA HearKeeps ==
    ASSUME Wellformed, Inv, Hear
    PROVE  Wellformed' /\ Inv'
<1>1. toView # <<>> /\ Heard
  BY DEF Hear, HearStatus, HearActionFailed, HearImport, HearFlush, HearEditAnswer,
         HearExternalChange, Hears
<1>2. Told /\ HostKept
  BY <1>1, HeardTold
<1>3. CASE HearStatus
  BY <1>3, HearStatusKeeps
<1>4. CASE HearImport
  BY <1>4, HearImportKeeps
<1>5. CASE HearFlush
  <2>1. WebviewTyped' /\ Hushed /\ Steady /\ ledger' \in Ledgers
    BY <1>5, HearFlushTyped DEF Hushed
  <2>2. /\ ledger'.issued = ledger.issued /\ ledger'.cancelled = ledger.cancelled
        /\ ledger'.effected = ledger.effected
    BY <1>5 DEF HearFlush, Wellformed, Ledgers
  <2>3. QED
    BY <1>2, <2>1, <2>2, HushedKeeps DEF Recorded
<1>6. CASE HearActionFailed \/ HearEditAnswer \/ HearExternalChange
  <2>1. WebviewTyped' /\ Hushed /\ Steady
    BY <1>6, HearActionFailedTyped, HearEditAnswerTyped, HearExternalChangeTyped
    DEF Hushed
  <2>2. Recorded
    BY <1>6, UnchangedRecorded DEF HearActionFailed, HearEditAnswer, HearExternalChange
  <2>3. QED
    BY <1>2, <2>1, <2>2, HushedKeeps
<1>7. QED
  BY <1>3, <1>4, <1>5, <1>6 DEF Hear

----------------------------------------------------------------------------
(* Around the operations *)

\* What is posted about the document concerns no request.
LEMMA TellsDocument ==
    ASSUME Wellformed, NEW m \in StoredMessages \cup RefusedMessages \cup ForeignMessages,
           Post(<<m>>)
    PROVE  Told
<1>1. <<m>> \in Seq(ViewMessages) /\ In(<<m>>) = {m}
  <2>1. m \in ViewMessages
    BY DEF ViewMessages
  <2>2. QED
    BY <2>1, InFew
<1>2. m.type \in {"editAcknowledged", "editRejected", "externalChange"}
  BY DEF StoredMessages, RefusedMessages, ForeignMessages
<1>3. m.type # "importContent" /\ \A r \in Operations : m \notin Offerings(r)
  BY <1>2 DEF StatusMessages, Offerings
<1>4. /\ toView' \in Seq(ViewMessages) /\ In(toView') \subseteq In(toView) \cup {m}
      /\ \A r \in Operations : Discreet(r)
  BY <1>1, <1>3, Posts DEF None
<1>5. QED
  BY <1>3, <1>4 DEF Told, Undelivered, Delivering

\* The document changes around the requests.
LEMMA AroundKeeps ==
    ASSUME Wellformed, Inv, UNCHANGED <<webview, tasks>>, Told, Recorded,
           host' \in Hosts, host'.claim = host.claim, host'.disposed = host.disposed,
           doc' \in Documents, target' \in Nat
    PROVE  Wellformed' /\ Inv'
<1>1. UNCHANGED <<sync, view, toHost>>
  BY DEF webview
<1>2. Wellformed'
  BY <1>1 DEF Wellformed, HostTyped, WebviewTyped, Told, Undelivered, Recorded
<1>3. ledger'.issued >= ledger.issued
  BY IssuedTyped DEF Recorded
<1>4. ASSUME NEW q \in Operations
      PROVE  Guarded(q)' /\ Orderly(q)' /\ ConfirmedOnce(q)'
  <2>1. Kept(q)
    BY DEF Told, Undelivered, Recorded, Kept
  <2>2. Guarded(q) /\ Orderly(q) /\ ConfirmedOnce(q) /\ Unspoken(q)
    BY <1>1, RestUnspoken DEF Inv
  <2>3. QED
    BY <1>2, <1>3, <2>1, <2>2, RequestKept
<1>5. QED
  BY <1>2, <1>4 DEF Inv

LEMMA HandleEditKeeps ==
    ASSUME Wellformed, Inv, HandleEdit
    PROVE  Wellformed' /\ Inv'
<1> DEFINE request == Head(host.edits)
           current == request.baseRevision = doc.version
           stored  == [type |-> "editAcknowledged", identity |-> Self,
                       editId |-> request.editId, revision |-> doc.version + 1]
           refused == [type |-> "editRejected", identity |-> Self,
                       editId |-> request.editId, revision |-> doc.version,
                       code |-> "STALE_REVISION", hostSnapshot |-> Mutation(doc.body)]
<1>1. /\ host.edits # <<>> /\ host' = [host EXCEPT !.edits = Tail(@)]
      /\ doc' = IF current THEN [version |-> doc.version + 1,
                                 body |-> request.mutation.content]
                           ELSE doc
      /\ Post(<<IF current THEN stored ELSE refused>>)
      /\ UNCHANGED <<webview, tasks, target, ledger>>
  BY DEF HandleEdit
<1>2. host \in Hosts /\ host.edits \in Seq(Requests) /\ doc \in Documents /\ target \in Nat
  BY DEF Wellformed, HostTyped, Hosts
<1>3. request \in Requests /\ Tail(host.edits) \in Seq(Requests)
  BY <1>1, <1>2, InTail
<1>4. host' \in Hosts /\ host'.claim = host.claim /\ host'.disposed = host.disposed
  BY <1>1, <1>2, <1>3 DEF Hosts
<1> HIDE DEF request
<1>5. /\ request.editId \in Nat /\ request.mutation.content \in Contents
      /\ doc.version \in Nat /\ doc.version + 1 \in Nat /\ doc.body \in Contents
  BY <1>2, <1>3 DEF Requests, Mutations, Documents
<1>6. Mutation(doc.body) \in Mutations
  BY <1>5, MutationTyped
<1>7. stored \in StoredMessages
  BY <1>5 DEF StoredMessages
<1>8. refused \in RefusedMessages
  BY <1>5, <1>6 DEF RefusedMessages
<1>9. doc' \in Documents
  BY <1>1, <1>2, <1>5 DEF Documents
<1> HIDE DEF current, stored, refused
<1>10. Told
  BY <1>1, <1>7, <1>8, TellsDocument
<1>11. Recorded
  BY <1>1, UnchangedRecorded
<1>12. QED
  BY <1>1, <1>2, <1>4, <1>9, <1>10, <1>11, AroundKeeps

LEMMA ForeignWriteKeeps ==
    ASSUME Wellformed, Inv, ForeignWrite
    PROVE  Wellformed' /\ Inv'
<1> DEFINE m == [type |-> "externalChange", revision |-> doc.version + 1,
                 snapshot |-> Mutation(Foreign)]
<1>1. /\ ledger' = [ledger EXCEPT !.foreign = @ + 1]
      /\ \/ /\ doc' = [version |-> doc.version + 1, body |-> Foreign]
            /\ Post(<<m>>)
            /\ UNCHANGED target
         \/ target' = target + 1 /\ UNCHANGED <<doc, toView>>
      /\ UNCHANGED <<webview, host, tasks>>
  BY DEF ForeignWrite
<1>2. Recorded
  <2>1. ledger \in Ledgers /\ ledger.foreign + 1 \in Nat
    BY DEF Wellformed, Ledgers
  <2>2. QED
    BY <1>1, <2>1 DEF Ledgers, Recorded
<1>3. host \in Hosts /\ doc \in Documents /\ target \in Nat /\ target + 1 \in Nat
      /\ doc.version + 1 \in Nat
  BY DEF Wellformed, HostTyped, Documents
<1>4. m \in ForeignMessages
  BY <1>3, OperationAssumption, MutationTyped DEF ForeignMessages
<1>5. [version |-> doc.version + 1, body |-> Foreign] \in Documents
  BY <1>3, OperationAssumption DEF Documents
<1> HIDE DEF m
<1>6. doc' \in Documents /\ target' \in Nat
  BY <1>1, <1>3, <1>5
<1>7. Told
  BY <1>1, <1>4, TellsDocument, TellsNothing
<1>8. QED
  BY <1>1, <1>2, <1>3, <1>6, <1>7, AroundKeeps

\* The palette begins a request at once.
LEMMA PaletteKeeps ==
    ASSUME Wellformed, Inv, PaletteStart
    PROVE  Wellformed' /\ Inv'
<1>1. PICK r \in Operations, kind \in Kinds \cap {"export"} :
         NewOperation(r) /\ Begin(r, kind)
  BY DEF PaletteStart
<1>2. ~host.disposed /\ UNCHANGED <<sync, view, toHost, doc, target>>
  BY DEF PaletteStart, webview
<1>3. ledger' \in Ledgers /\ ledger'.issued = r /\ r = ledger.issued + 1
  BY <1>1, NewTyped
<1>4. /\ r > ledger.issued /\ ~(r <= ledger.issued)
      /\ r <= ledger'.issued /\ ledger'.issued >= ledger.issued
  BY <1>3, IssuedTyped
<1>5. ledger'.cancelled = ledger.cancelled /\ ledger'.effected = ledger.effected
  BY <1>1 DEF NewOperation, Wellformed, Ledgers
<1>6. Guarded(r) /\ Orderly(r) /\ ConfirmedOnce(r)
  BY DEF Inv
<1>7. Untouched(r) /\ None(toHost, Beginnings(r))
  BY <1>4, <1>6 DEF Orderly
<1>8. Moved(r) /\ Discreet(r)
  BY <1>1, <1>2, <1>3, <1>5, <1>6, <1>7, BeginMoves
<1>9. SessionTyped' /\ Only(r) /\ Guarded(r)'
  BY <1>8 DEF Moved
<1>10. Wellformed'
  BY <1>2, <1>9 DEF SessionTyped, Wellformed, HostTyped, WebviewTyped
<1>11. ASSUME NEW q \in Operations \ {r}
       PROVE  Guarded(q)' /\ Orderly(q)' /\ ConfirmedOnce(q)'
  <2>1. Kept(q) /\ Unspoken(q)
    BY <1>2, <1>9, OnlyKept, RestUnspoken
  <2>2. Guarded(q) /\ Orderly(q) /\ ConfirmedOnce(q)
    BY DEF Inv
  <2>3. QED
    BY <1>4, <1>10, <2>1, <2>2, RequestKept
<1>12. Unspoken(r)
  BY <1>2, RestUnspoken
<1>13. Orderly(r)'
  <2>1. None(toHost', Beginnings(r))
    BY <1>2, <1>7
  <2>2. QED
    BY <1>4, <1>6, <1>10, <1>12, <2>1, OrderlyKept DEF Unspoken
<1>14. ConfirmedOnce(r)'
  <2>1. tasks[r].step \notin Offerable
    BY <1>7 DEF Untouched, NoTask, Offerable
  <2>2. QED
    BY <1>6, <1>8, <1>12, <2>1, ConfirmedKept DEF Unspoken
<1>15. QED
  BY <1>9, <1>10, <1>11, <1>13, <1>14 DEF Inv

\* The tab closes: every task is over or can only end, except a file that is
\* being replaced.
LEMMA ClosedTask ==
    ASSUME Wellformed, NEW r \in Operations, Guarded(r)
    PROVE  /\ Closed(r) \in TaskStates /\ Shaped(Closed(r))
           /\ Halted(Closed(r)) \/ Closed(r).step \in {"committing", "published"}
           /\ Halted(tasks[r]) => Halted(Closed(r))
           /\ \/ Closed(r).step = tasks[r].step
              \/ tasks[r].step \in {"applying", "restoring"} /\ Closed(r).step = "ended"
           /\ tasks[r] = NoTask => Closed(r) = NoTask
<1>1. PICK old \in TaskStates : old = tasks[r]
  BY TaskTyped
<1>2. Shaped(old) /\ old.step \in Steps /\ old.plan \in Plans \cup {Null}
  BY <1>1 DEF Guarded, TaskStates
<1>3. PICK a \in BOOLEAN : a = (old.step \in Preflight)
  <2>1. CASE old.step \in Preflight
    <3>1. TRUE = (old.step \in Preflight)
      BY <2>1
    <3>2. QED
      BY <3>1
  <2>2. CASE old.step \notin Preflight
    <3>1. FALSE = (old.step \in Preflight)
      BY <2>2
    <3>2. QED
      BY <3>1
  <2>3. QED
    BY <2>1, <2>2
<1>4. a <=> old.step \in Preflight
  BY <1>3
<1>5. CASE Waits(r)
  <2> DEFINE new == [old EXCEPT !.step = "ended", !.plan = Null]
  <2>1. Closed(r) = new
    BY <1>1, <1>5 DEF Closed
  <2>2. /\ new \in TaskStates /\ new.step = "ended" /\ new.plan = Null
        /\ new.aborted = old.aborted
    BY DEF TaskStates, Steps
  <2>3. old.step \in {"applying", "restoring"} /\ ~old.aborted /\ old # NoTask
    BY <1>1, <1>2, <1>5 DEF Waits, At, Shaped, Preflight, NoTask
  <2> HIDE DEF new
  <2>4. Shaped(new) /\ Halted(new)
    BY <2>2, <2>3 DEF Shaped, Halted, Busy, Executing, Export
  <2>5. QED
    BY <1>1, <2>1, <2>2, <2>3, <2>4
<1>6. CASE ~Waits(r)
  <2> DEFINE checked == {"checking", "queued", "staging", "staged"}
             called == [old.plan EXCEPT !.cancelled = TRUE]
  <2>1. called = [old.plan EXCEPT !.cancelled = TRUE]
    OBVIOUS
  <2> HIDE DEF called
  <2>2. ASSUME old.plan # Null
        PROVE  /\ called \in Plans /\ called # Null /\ called.cancelled = TRUE
               /\ called.running = old.plan.running
               /\ called.committing = old.plan.committing
    <3>1. PICK plan \in Plans : plan = old.plan
      BY <1>2, <2>2
    <3>2. called = [plan EXCEPT !.cancelled = TRUE]
      BY <2>1, <3>1
    <3>3. /\ called \in Plans /\ called.running = plan.running
          /\ called.committing = plan.committing
      BY <3>2 DEF Plans
    <3>4. called.cancelled = TRUE
      BY <3>2 DEF Plans
    <3>5. called # Null
      BY <3>3, NoPlanAssumption
    <3>6. QED
      BY <3>1, <3>3, <3>4, <3>5
  <2>3. PICK p \in Plans \cup {Null} :
           p = IF old.plan = Null \/ old.plan.committing THEN old.plan
               ELSE IF ~old.plan.running THEN Null ELSE called
    BY <1>2, <2>2
  <2> DEFINE new == [old EXCEPT !.aborted = a, !.plan = p]
  <2>4. Closed(r) = new
    BY <1>1, <1>3, <1>6, <2>1, <2>3 DEF Closed
  <2>5. /\ new \in TaskStates /\ new.aborted = a
        /\ new.step = old.step /\ new.plan = p
    BY DEF TaskStates
  <2>6. old = NoTask => new = NoTask
    <3>1. SUFFICES ASSUME old = NoTask PROVE new = NoTask
      OBVIOUS
    <3>2. old.step = "none" /\ old.plan = Null /\ old.step \notin Preflight
      BY <3>1 DEF NoTask, Preflight
    <3>3. a = FALSE
      BY <1>4, <3>2
    <3>4. p = Null
      BY <2>3, <3>2
    <3>5. new = [NoTask EXCEPT !.aborted = FALSE, !.plan = Null]
      BY <3>1, <3>3, <3>4
    <3>6. [NoTask EXCEPT !.aborted = FALSE, !.plan = Null] = NoTask
      <4>1. PICK task \in TaskStates : task = NoTask
        BY <3>1
      <4>2. task.aborted = FALSE /\ task.plan = Null
        BY <4>1 DEF NoTask
      <4>3. [task EXCEPT !.aborted = FALSE, !.plan = Null] = task
        BY <4>2 DEF TaskStates
      <4>4. QED
        BY <4>1, <4>3
    <3>7. QED
      BY <3>5, <3>6
  <2> HIDE DEF new
  <2>7. Shaped(new) /\ (Halted(new) \/ new.step \in {"committing", "published"})
        /\ (Halted(old) => Halted(new))
    <3>1. old.step \in {"none", "ended"} \cup Preflight \cup {"offered", "starting"}
                         \cup checked \cup {"committing", "published"}
      BY <1>1, <1>2, <1>6 DEF Steps, Executing, Export, Waits, At
    <3>2. CASE old.step \in {"none", "ended"} \cup Preflight \cup {"offered", "starting"}
      <4>1. p = Null
        BY <1>2, <2>3, <3>2 DEF Shaped, Executing, Export, Preflight
      <4>2. Shaped(new)
        BY <1>4, <2>5, <3>2, <4>1 DEF Shaped, Executing, Export, Preflight
      <4>3. Halted(new)
        BY <1>4, <2>5, <3>2, <4>1 DEF Halted, Busy
      <4>4. QED
        BY <4>2, <4>3
    <3>3. CASE old.step \in checked
      <4>1. old.plan # Null /\ old.plan.running /\ ~old.plan.committing
        BY <1>2, <3>3 DEF Shaped, Executing, Export
      <4>2. p = called /\ ~a
        BY <1>4, <2>3, <3>3, <4>1 DEF Preflight
      <4>3. /\ p # Null /\ p.cancelled = TRUE /\ p.running = TRUE
            /\ p.committing = FALSE
        <5>1. old.plan.running = TRUE /\ old.plan.committing = FALSE
          BY <1>2, <4>1 DEF Plans
        <5>2. QED
          BY <2>2, <4>1, <4>2, <5>1
      <4>4. Shaped(new)
        BY <2>5, <3>3, <4>2, <4>3 DEF Shaped, Executing, Export, Preflight
      <4>5. Halted(new)
        BY <2>5, <3>3, <4>3 DEF Halted
      <4>6. QED
        BY <4>4, <4>5
    <3>4. CASE old.step \in {"committing", "published"}
      <4>1. old.plan # Null /\ old.plan.committing /\ ~old.aborted
        BY <1>2, <3>4 DEF Shaped, Executing, Export, Preflight
      <4>2. p = old.plan /\ ~a
        BY <1>4, <2>3, <3>4, <4>1 DEF Preflight
      <4>3. Shaped(new)
        BY <1>2, <2>5, <3>4, <4>1, <4>2 DEF Shaped
      <4>4. ~Halted(old)
        BY <3>4 DEF Halted, Busy, Preflight
      <4>5. QED
        BY <2>5, <3>4, <4>3, <4>4
    <3>5. QED
      BY <3>1, <3>2, <3>3, <3>4
  <2>8. QED
    BY <1>1, <2>4, <2>5, <2>6, <2>7
<1>7. QED
  BY <1>5, <1>6

\* The webview as it is created.
LEMMA NewWebview ==
    /\ Sound(NewSync) /\ NewView \in Views /\ NewView.op.phase = "idle"
    /\ <<>> \in Seq(HostMessages) /\ <<>> \in Seq(ViewMessages)
<1>1. Sound(Created(1))
  <2>1. Created(1) \in SyncStates
    BY DEF Created, SyncStates
  <2>2. QED
    BY <2>1 DEF Sound, Consistent, Numbered, Held, WaitersOpen, Awake, Created
<1>2. Sound(NewSync)
  <2> DEFINE s == Created(1)
             m == Mutation(Start)
  <2>1. Sound(s) /\ m \in Mutations
    BY <1>1, OperationAssumption, MutationTyped
  <2> HIDE DEF s, m
  <2>2. Sound(AdoptReplacement(s, 1, m, TRUE))
    BY <2>1, AdoptSound
  <2>3. QED
    BY <2>2 DEF NewSync, s, m
<1>3. NewView \in Views
  <2>1. <<>> \in Seq(Applications)
    OBVIOUS
  <2>2. 0 \in 0 .. MaxOperations
    BY OperationAssumption
  <2>3. QED
    BY <2>1, <2>2, OperationAssumption DEF NewView, Views
<1>4. QED
  BY <1>2, <1>3 DEF NewView, Idle

\* Nothing is on its way, and the panel is idle.
LEMMA Silent ==
    ASSUME NEW q \in Operations, view.op.phase = "idle", toHost = <<>>, toView = <<>>
    PROVE  /\ Single(toHost, Beginnings(q)) /\ None(toHost, Beginnings(q))
           /\ ConfirmedOnce(q) /\ ~Delivering(q)
<1>1. DOMAIN <<>> = {}
  OBVIOUS
<1>2. /\ In(toView) = {} /\ In(toHost) = {}
      /\ DOMAIN toView = {} /\ DOMAIN toHost = {}
  BY <1>1 DEF In
<1>3. QED
  BY <1>2 DEF Single, None, ConfirmedOnce, Awaiting, Delivering

LEMMA DisposeKeeps ==
    ASSUME Wellformed, Inv, Dispose
    PROVE  Wellformed' /\ Inv'
<1>1. /\ host' = [host EXCEPT !.disposed = TRUE, !.artifacts = {}]
      /\ tasks' = [r \in Operations |-> Closed(r)]
      /\ toView' = <<>> /\ toHost' = <<>> /\ sync' = NewSync /\ view' = NewView
      /\ UNCHANGED <<doc, target, ledger>>
  BY DEF Dispose
<1>2. host' \in Hosts /\ host'.disposed
  BY <1>1 DEF Wellformed, HostTyped, Hosts
<1>3. \A r \in Operations : Guarded(r) /\ Orderly(r)
  BY DEF Inv
<1>4. tasks' \in [Operations -> TaskStates]
  BY <1>1, <1>3, ClosedTask
<1>5. Wellformed'
  BY <1>1, <1>2, <1>4, NewWebview DEF Wellformed, WebviewTyped, HostTyped
<1>6. ASSUME NEW r \in Operations
      PROVE  Guarded(r)' /\ Orderly(r)' /\ ConfirmedOnce(r)'
  <2>1. Guarded(r) /\ Orderly(r) /\ tasks'[r] = Closed(r)
    BY <1>1, <1>3
  <2>2. /\ Shaped(Closed(r))
        /\ Halted(Closed(r)) \/ Closed(r).step \in {"committing", "published"}
        /\ Halted(tasks[r]) => Halted(Closed(r))
        /\ \/ Closed(r).step = tasks[r].step
           \/ tasks[r].step \in {"applying", "restoring"} /\ Closed(r).step = "ended"
        /\ tasks[r] = NoTask => Closed(r) = NoTask
    BY <2>1, ClosedTask
  <2>3. /\ Single(toHost, Beginnings(r))' /\ None(toHost, Beginnings(r))'
        /\ ConfirmedOnce(r)' /\ ~Delivering(r)'
    <3>1. view'.op.phase = "idle" /\ toHost' = <<>> /\ toView' = <<>>
      BY <1>1, NewWebview
    <3>2. /\ In(toHost') = {} /\ In(toView') = {}
          /\ DOMAIN toHost' = {} /\ DOMAIN toView' = {}
      BY <3>1 DEF In
    <3>3. QED
      BY <3>1, <3>2 DEF Single, None, ConfirmedOnce, Awaiting, Delivering
  <2>4. Guarded(r)'
    BY <1>1, <1>2, <2>1, <2>2, <2>3 DEF Guarded
  <2>5. Orderly(r)'
    BY <1>1, <2>1, <2>2, <2>3 DEF Orderly, Untouched
  <2>6. QED
    BY <2>3, <2>4, <2>5
<1>7. QED
  BY <1>5, <1>6 DEF Inv

----------------------------------------------------------------------------
(* The invariant *)

LEMMA InitHolds ==
    ASSUME Init
    PROVE  Wellformed /\ Inv
<1>1. /\ sync = NewSync /\ view = NewView /\ toHost = <<>> /\ toView = <<>>
      /\ host = [claim |-> 0, edits |-> <<>>, artifacts |-> {}, latest |-> 0,
                 disposed |-> FALSE]
      /\ tasks = [r \in Operations |-> NoTask]
      /\ doc = [version |-> 1, body |-> Start] /\ target = 0
      /\ ledger = [issued |-> 0, typed |-> 0, foreign |-> 0, failures |-> 0,
                   cancelled |-> {}, effected |-> {}, stopped |-> {},
                   flushed |-> [r \in Operations |-> 0],
                   replaced |-> [r \in Operations |-> Null]]
  BY DEF Init
<1>2. 0 \in 0 .. MaxOperations /\ 0 \notin Operations
      /\ \A r \in Operations : r > 0
  BY OperationAssumption DEF Operations
<1>3. NoTask \in TaskStates /\ Shaped(NoTask) /\ ~Busy(NoTask) /\ Halted(NoTask)
      /\ NoTask.step = "none"
  BY DEF NoTask, TaskStates, Steps, Shaped, Busy, Halted, Executing, Export
<1>4. host \in Hosts
  <2>1. <<>> \in Seq(Requests)
    OBVIOUS
  <2>2. QED
    BY <1>1, <1>2, <2>1 DEF Hosts
<1>5. doc \in Documents /\ target \in Nat /\ ledger \in Ledgers
  BY <1>1, <1>2, OperationAssumption DEF Documents, Ledgers
<1>6. Wellformed
  BY <1>1, <1>3, <1>4, <1>5, NewWebview DEF Wellformed, WebviewTyped, HostTyped
<1>7. ASSUME NEW r \in Operations PROVE Guarded(r) /\ Orderly(r) /\ ConfirmedOnce(r)
  <2>1. /\ Single(toHost, Beginnings(r)) /\ None(toHost, Beginnings(r))
        /\ ConfirmedOnce(r) /\ ~Delivering(r)
    BY <1>1, NewWebview, Silent
  <2>2. tasks[r] = NoTask /\ host.claim # r /\ ~host.disposed
    BY <1>1, <1>2
  <2>3. r \notin ledger.cancelled /\ r \notin ledger.effected
    BY <1>1
  <2>4. Guarded(r)
    BY <1>3, <2>1, <2>2, <2>3 DEF Guarded
  <2>5. Orderly(r)
    BY <2>1, <2>2, <2>3 DEF Orderly, Untouched
  <2>6. QED
    BY <2>1, <2>4, <2>5
<1>8. QED
  BY <1>6, <1>7 DEF Inv

LEMMA RestKeeps ==
    ASSUME Wellformed, Inv, UNCHANGED vars
    PROVE  Wellformed' /\ Inv'
<1>1. /\ UNCHANGED <<sync, view, toHost, toView, host, tasks, doc, target, ledger>>
  BY DEF vars
<1>2. Wellformed'
  BY <1>1 DEF Wellformed, WebviewTyped, HostTyped
<1>3. Inv'
  BY <1>1 DEF Inv, Guarded, Orderly, Untouched, ConfirmedOnce, Awaiting, Delivering,
              Beginnings, Offerings, Confirmations
<1>4. QED
  BY <1>2, <1>3

LEMMA NextKeeps ==
    ASSUME Wellformed, Inv, [Next]_vars
    PROVE  Wellformed' /\ Inv'
<1>1. CASE Type
  BY <1>1, TypeKeeps
<1>2. CASE Prepare \/ RetryOperation \/ ResultAction
  BY <1>2, WishesKeep
<1>3. CASE Confirm
  BY <1>3, ConfirmKeeps
<1>4. CASE Cancel
  BY <1>4, CancelKeeps
<1>5. CASE PaletteStart
  BY <1>5, PaletteKeeps
<1>6. CASE Dispose
  BY <1>6, DisposeKeeps
<1>7. CASE Debounce
  BY <1>7, DebounceKeeps
<1>8. CASE Hear
  BY <1>8, HearKeeps
<1>9. CASE Arrive
  BY <1>9, ArriveKeeps
<1>10. CASE HandleEdit
  BY <1>10, HandleEditKeeps
<1>11. CASE ForeignWrite
  BY <1>11, ForeignWriteKeeps
<1>12. CASE Tasks
  BY <1>12, TasksKeep DEF Tasks
<1>13. CASE UNCHANGED vars
  BY <1>13, RestKeeps
<1>14. QED
  BY <1>1, <1>2, <1>3, <1>4, <1>5, <1>6, <1>7, <1>8, <1>9, <1>10, <1>11, <1>12, <1>13
  DEF Next, User

LEMMA Invariant == Spec => [](Wellformed /\ Inv)
<1>1. Init => Wellformed /\ Inv
  BY InitHolds
<1>2. (Wellformed /\ Inv) /\ [Next]_vars => (Wellformed /\ Inv)'
  BY NextKeeps
<1>3. QED
  BY <1>1, <1>2, PTL DEF Spec

----------------------------------------------------------------------------
(* What follows for the reader *)

\* The session's variables and the panel stay within their types
\* (SdocEditorProvider.ts, fileOperations.ts), whatever is posted, confirmed,
\* cancelled or closed.
THEOREM TypeCorrect == Spec => []TypeOK
<1>1. Wellformed => TypeOK
  <2>1. SUFFICES ASSUME Wellformed PROVE TypeOK
    OBVIOUS
  <2>2. sync \in SyncStates /\ view \in Views
    BY <2>1 DEF Wellformed, WebviewTyped, Sound, Consistent
  <2>3. view.body \in Contents /\ view.op \in Shown \cup {Idle}
    BY <2>2 DEF Views
  <2>4. /\ view.op.phase \in {"idle", "preflighting", "awaiting", "running",
                              "succeeded", "failed", "cancelled"}
        /\ view.op.operation \in 0 .. MaxOperations
    <3>1. 0 \in 0 .. MaxOperations /\ Operations \subseteq 0 .. MaxOperations
      BY OperationAssumption DEF Operations
    <3>2. PICK op \in Shown \cup {Idle} : op = view.op
      BY <2>3
    <3>3. CASE op \in Shown
      BY <3>1, <3>2, <3>3 DEF Shown
    <3>4. CASE op = Idle
      BY <3>1, <3>2, <3>4 DEF Idle
    <3>5. QED
      BY <3>2, <3>3, <3>4
  <2>5. host.claim \in 0 .. MaxOperations
    BY <2>1 DEF Wellformed, HostTyped, Hosts
  <2>6. doc \in [version : Nat, body : Contents] /\ target \in Nat
    BY <2>1 DEF Wellformed, HostTyped, Documents
  <2>7. QED
    BY <2>1, <2>2, <2>3, <2>4, <2>5, <2>6, TaskTyped DEF TypeOK
<1>2. QED
  BY <1>1, Invariant, PTL

\* A request the host reported cancelled (fileOperationCancel, or a preflight
\* and a plan that saw their AbortController) never writes its file nor
\* replaces the body: cancelled and effected are apart for good.
THEOREM CancellationHolds == Spec => []CancelledMeansUntouched
<1>1. Wellformed /\ Inv => CancelledMeansUntouched
  <2>1. SUFFICES ASSUME Wellformed, Inv PROVE CancelledMeansUntouched
    OBVIOUS
  <2>2. ledger.cancelled \in SUBSET Operations
    BY <2>1 DEF Wellformed, Ledgers
  <2>3. \A r \in Operations : r \in ledger.effected => r \notin ledger.cancelled
    BY <2>1 DEF Inv, Guarded
  <2>4. QED
    BY <2>2, <2>3 DEF CancelledMeansUntouched
<1>2. QED
  BY <1>1, Invariant, PTL

\* Whatever is being written, imported or undone holds the session's claim
\* (claimFileOperation, releaseFileOperation): no other operation begins
\* beside it while the editor is open.
THEOREM ClaimHeld == Spec => []ClaimCoversEffects
<1>1. Wellformed /\ Inv => ClaimCoversEffects
  <2>1. SUFFICES ASSUME Inv, NEW r \in Operations, ~host.disposed,
                        tasks[r].step \in {"applying", "restoring", "committing",
                                           "published"}
                 PROVE  host.claim = r
    BY DEF ClaimCoversEffects
  <2>2. Guarded(r) /\ Busy(tasks[r])
    BY <2>1 DEF Inv, Busy
  <2>3. Shaped(tasks[r])
    BY <2>2 DEF Guarded
  <2>4. ~Halted(tasks[r])
    BY <2>1 DEF Halted, Busy, Preflight
  <2>5. QED
    BY <2>1, <2>2, <2>4 DEF Guarded
<1>2. QED
  BY <1>1, Invariant, PTL

\* A step of a task once the editor is closed.
LEMMA ClosedTaskEnds ==
    ASSUME Wellformed, Inv, host.disposed, NEW r \in Operations,
           Task(r) \/ Choose(r) \/ Fails(r)
    PROVE  tasks'[r].step \notin {"committing", "applying"}
<1>1. Guarded(r)
  BY DEF Inv
<1>2. Moved(r) /\ Busy(tasks[r])
  BY <1>1, TaskProceeds DEF Proceeds
<1>3. CASE Halted(tasks[r])
  <2>1. Halted(tasks'[r])
    BY <1>2, <1>3 DEF Moved
  <2>2. QED
    BY <2>1 DEF Halted, Busy, Preflight
<1>4. CASE tasks[r].step \in {"committing", "published"}
  <2>1. tasks' = Goto(r, "published") \/ tasks' = Ended(r)
    BY <1>4 DEF Task, Rendered, Sized, Read, Offered, StartPlan, CheckTarget, Stage,
            Staged, Validate, Publish, Published, FlushTimesOut, ImportTimesOut, Waits,
            Choose, Fails, At
  <2>2. tasks'[r].step \in {"published", "ended"}
    <3>1. CASE tasks' = Goto(r, "published")
      <4>1. tasks'[r] = [tasks[r] EXCEPT !.step = "published"] /\ tasks[r] \in TaskStates
        BY <3>1 DEF Goto, Wellformed, HostTyped
      <4>2. QED
        BY <4>1 DEF TaskStates
    <3>2. CASE tasks' = Ended(r)
      BY <3>2, EndedTask
    <3>3. QED
      BY <2>1, <3>1, <3>2
  <2>3. QED
    BY <2>2
<1>5. QED
  BY <1>1, <1>3, <1>4 DEF Guarded

\* Once the editor is closed (clearSession, the disposed controllers) no
\* commit begins: what was prepared is neither written nor applied.
THEOREM ClosedIsFinal == Spec => ClosedCommitsNothing
<1>1. ASSUME Wellformed, Inv, Next, host.disposed, NEW r \in Operations,
             tasks'[r].step \in {"committing", "applying"}
      PROVE  tasks'[r].step = tasks[r].step
  <2>1. CASE HandleEdit
    BY <2>1 DEF HandleEdit
  <2>2. CASE Tasks
    <3>1. PICK q \in Operations : Task(q) \/ Choose(q) \/ Fails(q)
      BY <2>2 DEF Tasks
    <3>2. q # r
      BY <1>1, <3>1, ClosedTaskEnds
    <3>3. Only(q)
      BY <1>1, <3>1, TaskProceeds DEF Inv, Proceeds, Moved
    <3>4. QED
      BY <3>2, <3>3 DEF Only
  <2>3. ~User /\ ~Debounce /\ ~Hear /\ ~Arrive /\ ~ForeignWrite
    <3>1. ~Hear
      BY <1>1 DEF Hear, HearStatus, HearActionFailed, HearImport, HearFlush,
                  HearEditAnswer, HearExternalChange, Hears
    <3>2. ~Arrive
      BY <1>1 DEF Arrive, ArrivePrepare, ArriveAgain, ArriveExecute, ArriveCancel,
                  ArriveUndo, ArriveApplied, ArriveFlushAnswer, ArriveEdit, Arrives
    <3>3. ~User
      BY <1>1 DEF User, Type, Prepare, Confirm, Cancel, RetryOperation, ResultAction,
                  PaletteStart, Dispose, NewOperation
    <3>4. QED
      BY <1>1, <3>1, <3>2, <3>3 DEF Debounce, ForeignWrite
  <2>4. QED
    BY <1>1, <2>1, <2>2, <2>3 DEF Next
<1>2. Wellformed /\ Inv /\ [Next]_vars
         => [host.disposed =>
               \A r \in Operations :
                  tasks'[r].step \in {"committing", "applying"}
                     => tasks'[r].step = tasks[r].step]_vars
  BY <1>1
<1>3. QED
  BY <1>2, Invariant, PTL DEF Spec, ClosedCommitsNothing

\* A confirmation on its way is the only one of its request, and its plan
\* waits, is gone or was never there.
PlanStartsOnce ==
    \A r \in Operations :
        /\ \A i, j \in DOMAIN toHost :
              toHost[i] \in Confirmations(r) /\ toHost[j] \in Confirmations(r) => i = j
        /\ In(toHost) \cap Confirmations(r) # {}
              => tasks[r].plan = Null \/ ~tasks[r].plan.running

\* No confirmation reaches a plan that runs already: the panel asks once for
\* each offer, and a plan is offered once, so that executePlan's answer
\* PLAN_ALREADY_RUNNING (FileOperationPlanRegistry) is never given.
THEOREM NeverRunsTwice == Spec => []PlanStartsOnce
<1>1. Wellformed /\ Inv => PlanStartsOnce
  <2>1. SUFFICES ASSUME Wellformed, Inv, NEW r \in Operations
                 PROVE  /\ Single(toHost, Confirmations(r))
                        /\ ~None(toHost, Confirmations(r))
                              => tasks[r].plan = Null \/ ~tasks[r].plan.running
    BY DEF PlanStartsOnce, Single, None
  <2>2. Guarded(r) /\ ConfirmedOnce(r)
    BY <2>1 DEF Inv
  <2>3. Shaped(tasks[r])
    BY <2>2 DEF Guarded
  <2>4. ~None(toHost, Confirmations(r)) => tasks[r].step \in Offerable
    BY <2>2 DEF ConfirmedOnce
  <2>5. tasks[r].step \in Offerable => tasks[r].plan = Null \/ ~tasks[r].plan.running
    BY <2>3 DEF Shaped, Offerable, Executing, Export
  <2>6. QED
    BY <2>2, <2>4, <2>5 DEF ConfirmedOnce
<1>2. QED
  BY <1>1, Invariant, PTL
=============================================================================
