------------------------ MODULE SaveLifecycle_proofs ------------------------
(***************************************************************************)
(* For every number of drafts, saves, refusals, timeouts and failures: a   *)
(* save whose flush failed is never shown as saved, and when "saved" is    *)
(* shown, the file holds everything that had been typed as the webview was *)
(* last asked to flush.                                                    *)
(***************************************************************************)
EXTENDS SaveLifecycle, SyncOperations_proofs

----------------------------------------------------------------------------
(* Queues: one message of a kind, and messages in the order of saves *)

\* At most one message of the queue is in S.
Once(q, S) == \A i, j \in DOMAIN q : q[i] \in S /\ q[j] \in S => i = j

\* What a queue holds, its head apart.
LEMMA HeadApart ==
    ASSUME NEW S, NEW q \in Seq(S), q # <<>>, NEW T
    PROVE  /\ \A x \in In(q) : x = Head(q) \/ x \in In(Tail(q))
           /\ Once(q, T) => Once(Tail(q), T)
           /\ Once(q, T) /\ Head(q) \in T => In(Tail(q)) \cap T = {}
<1> DEFINE p == Tail(q)
<1>1. /\ p \in Seq(S)
      /\ Len(p) = Len(q) - 1
      /\ \A i \in 1 .. Len(p) : p[i] = q[i + 1]
  BY HeadTailProperties
<1>2. Head(q) = q[1]
  BY InTail
<1> HIDE DEF p
<1>3. /\ Len(q) \in Nat \ {0}
      /\ DOMAIN q = 1 .. Len(q)
      /\ DOMAIN p = 1 .. Len(q) - 1
  BY <1>1, LenProperties, EmptySeq
<1>4. \A i \in DOMAIN q : i = 1 \/ (i - 1 \in DOMAIN p /\ p[i - 1] = q[i])
  <2> SUFFICES ASSUME NEW i \in DOMAIN q, i # 1
               PROVE  i - 1 \in DOMAIN p /\ p[i - 1] = q[i]
    OBVIOUS
  <2>1. i - 1 \in 1 .. Len(p) /\ (i - 1) + 1 = i
    BY <1>1, <1>3
  <2>2. QED
    BY <1>1, <1>3, <2>1
<1>5. \A i \in DOMAIN p : /\ i + 1 \in DOMAIN q /\ i + 1 # 1 /\ p[i] = q[i + 1]
                          /\ i \in Nat
  BY <1>1, <1>3
<1>6. 1 \in DOMAIN q
  BY <1>3
<1>7. \A x \in In(q) : x = Head(q) \/ x \in In(p)
  BY <1>2, <1>4 DEF In
<1>8. ASSUME Once(q, T)
      PROVE  Once(p, T)
  <2> SUFFICES ASSUME NEW i \in DOMAIN p, NEW j \in DOMAIN p, p[i] \in T, p[j] \in T
               PROVE  i = j
    BY DEF Once
  <2>1. i + 1 = j + 1
    BY <1>5, <1>8 DEF Once
  <2>2. QED
    BY <1>5, <2>1
<1>9. ASSUME Once(q, T), Head(q) \in T
      PROVE  In(p) \cap T = {}
  <2> SUFFICES ASSUME NEW i \in DOMAIN p, p[i] \in T
               PROVE  FALSE
    BY DEF In
  <2>1. QED
    BY <1>2, <1>5, <1>6, <1>9 DEF Once
<1>10. QED
  BY <1>7, <1>8, <1>9 DEF p

\* What a queue holds with one message more, or two.
LEMMA OneMore ==
    ASSUME NEW S, NEW q \in Seq(S), NEW x \in S
    PROVE  /\ q \o <<x>> = Append(q, x)
           /\ q \o <<x>> \in Seq(S)
           /\ In(q \o <<x>>) = In(q) \cup {x}
<1> DEFINE p == q \o <<x>>
           r == Append(q, x)
<1>1. r = p
  BY AppendIsConcat
<1>2. r \in Seq(S) /\ In(r) = In(q) \cup {x}
  BY InAppend
<1> HIDE DEF p, r
<1>3. p = r /\ p \in Seq(S) /\ In(p) = In(q) \cup {x}
  BY <1>1, <1>2
<1>4. QED
  BY <1>3 DEF p, r

\* The same for the two messages a save begins with.
LEMMA TwoMore ==
    ASSUME NEW S, NEW q \in Seq(S), NEW x \in S, NEW y \in S
    PROVE  /\ q \o <<x, y>> = Append(Append(q, x), y)
           /\ q \o <<x, y>> \in Seq(S)
           /\ In(q \o <<x, y>>) = In(q) \cup {x, y}
<1> DEFINE a == <<x>>
           b == <<y>>
           c == <<x, y>>
           r == Append(q, x)
           p == q \o a
           t == Append(r, y)
<1>1. a \in Seq(S) /\ b \in Seq(S) /\ c \in Seq(S)
  OBVIOUS
<1>2. a \o b = c
  <2>1. /\ Len(a) = 1 /\ Len(b) = 1 /\ Len(c) = 2
        /\ a[1] = x /\ b[1] = y /\ c[1] = x /\ c[2] = y
    OBVIOUS
  <2> HIDE DEF a, b, c
  <2> DEFINE d == a \o b
  <2>2. /\ d \in Seq(S) /\ Len(d) = Len(a) + Len(b)
        /\ \A i \in 1 .. Len(a) + Len(b) : d[i] = IF i <= Len(a) THEN a[i] ELSE b[i - Len(a)]
    BY <1>1, ConcatProperties
  <2> HIDE DEF d
  <2>3. Len(d) = 2 /\ d[1] = x /\ d[2] = y
    BY <2>1, <2>2
  <2>4. \A i \in 1 .. Len(d) : d[i] = c[i]
    BY <2>1, <2>3
  <2>5. d = c
    BY <1>1, <2>1, <2>2, <2>3, <2>4, SeqEqual
  <2>6. QED
    BY <2>5 DEF d
<1>3. r = p /\ r \in Seq(S) /\ In(r) = In(q) \cup {x}
  BY AppendIsConcat, InAppend
<1>4. p \o b = q \o (a \o b)
  <2> HIDE DEF a, b
  <2>1. QED
    BY <1>1, ConcatAssociative
<1> HIDE DEF r, p
<1>5. t = r \o b /\ t \in Seq(S) /\ In(t) = In(r) \cup {y}
  BY <1>3, AppendIsConcat, InAppend
<1> HIDE DEF a, b, c, t
<1>6. q \o c = t
  BY <1>2, <1>3, <1>4, <1>5
<1>7. QED
  BY <1>3, <1>5, <1>6 DEF c, r, t

\* At most one stays at most one where only one of two queues has any.
LEMMA OnceConcat ==
    ASSUME NEW S, NEW q \in Seq(S), NEW r \in Seq(S), NEW T,
           Once(q, T), Once(r, T), In(q) \cap T = {} \/ In(r) \cap T = {}
    PROVE  Once(q \o r, T)
<1> DEFINE p == q \o r
<1>1. /\ p \in Seq(S)
      /\ Len(p) = Len(q) + Len(r)
      /\ \A i \in 1 .. Len(q) + Len(r) :
            p[i] = IF i <= Len(q) THEN q[i] ELSE r[i - Len(q)]
  BY ConcatProperties
<1> HIDE DEF p
<1>2. /\ Len(q) \in Nat /\ Len(r) \in Nat
      /\ DOMAIN q = 1 .. Len(q)
      /\ DOMAIN r = 1 .. Len(r)
      /\ DOMAIN p = 1 .. Len(q) + Len(r)
  BY <1>1, LenProperties
<1>3. \A i \in DOMAIN p :
         \/ i \in DOMAIN q /\ p[i] = q[i]
         \/ i - Len(q) \in DOMAIN r /\ p[i] = r[i - Len(q)]
  BY <1>1, <1>2
<1>4. (\A i \in DOMAIN q : q[i] \notin T) \/ (\A i \in DOMAIN r : r[i] \notin T)
  BY DEF In
<1>5. \A i, j \in DOMAIN p : p[i] \in T /\ p[j] \in T => i = j
  <2> SUFFICES ASSUME NEW i \in DOMAIN p, NEW j \in DOMAIN p, p[i] \in T, p[j] \in T
               PROVE  i = j
    BY Zenon
  <2>1. \/ i \in DOMAIN q /\ j \in DOMAIN q /\ q[i] \in T /\ q[j] \in T
        \/ /\ i - Len(q) \in DOMAIN r /\ j - Len(q) \in DOMAIN r
           /\ r[i - Len(q)] \in T /\ r[j - Len(q)] \in T
    BY <1>3, <1>4
  <2>2. i = j \/ i - Len(q) = j - Len(q)
    BY <2>1 DEF Once
  <2>3. QED
    BY <1>2, <2>2
<1>6. QED
  BY <1>5 DEF Once, p

\* The messages about saves, and their order: that of the saves, and within one
\* the order in which it goes on.
IsSave(m) == m.type \in {"documentSaveState", "requestFlush"}

Generation(m) == IF m.type = "requestFlush" THEN m.flush ELSE m.saveGeneration

Stage(m) ==
    IF m.type = "requestFlush" THEN 1
    ELSE IF m.phase = "saving" THEN 0 ELSE IF m.phase = "failed" THEN 2 ELSE 3

Rank(m) == 4 * Generation(m) + Stage(m)

\* x before y; "saved" may be said twice.
Ordered(x, y) ==
    IsSave(x) /\ IsSave(y) => \/ Rank(x) < Rank(y)
                              \/ Rank(x) = Rank(y) /\ Stage(x) = 3

Orderly(q) == \A i, j \in DOMAIN q : i < j => Ordered(q[i], q[j])

\* Ranks are numbers.
LEMMA RankTyped ==
    ASSUME NEW m \in Inbox, IsSave(m)
    PROVE  Generation(m) \in Nat \ {0} /\ Stage(m) \in 0 .. 3 /\ Rank(m) \in Nat
<1>1. m.type = "requestFlush" => m.flush \in 1 .. MaxSaves
  BY DEF Inbox
<1>2. m.type = "documentSaveState" => m.saveGeneration \in Nat \ {0}
  BY DEF Inbox
<1>3. Generation(m) \in Nat \ {0}
  BY <1>1, <1>2 DEF IsSave, Generation
<1>4. Stage(m) \in 0 .. 3
  BY DEF Stage
<1>5. QED
  BY <1>3, <1>4 DEF Rank

\* The head comes first.
LEMMA OrderlyTail ==
    ASSUME NEW S, NEW q \in Seq(S), q # <<>>, Orderly(q)
    PROVE  /\ Orderly(Tail(q))
           /\ \A x \in In(Tail(q)) : Ordered(Head(q), x)
<1> DEFINE p == Tail(q)
<1>1. /\ 1 \in DOMAIN q /\ Head(q) = q[1]
      /\ \A i \in DOMAIN p : i + 1 \in DOMAIN q /\ p[i] = q[i + 1]
      /\ \A i \in DOMAIN p : i # 0 /\ i \in Nat
  BY InTail
<1> HIDE DEF p
<1>2. Orderly(p)
  <2> SUFFICES ASSUME NEW i \in DOMAIN p, NEW j \in DOMAIN p, i < j
               PROVE  Ordered(p[i], p[j])
    BY DEF Orderly
  <2>1. i + 1 < j + 1
    BY <1>1
  <2>2. QED
    BY <1>1, <2>1 DEF Orderly
<1>3. \A i \in DOMAIN p : 1 < i + 1
  BY <1>1
<1>4. \A x \in In(p) : Ordered(Head(q), x)
  BY <1>1, <1>3 DEF Orderly, In
<1>5. QED
  BY <1>2, <1>4 DEF p

\* A message that no other follows joins at the end.
LEMMA OrderlyAppend ==
    ASSUME NEW S, NEW q \in Seq(S), NEW x \in S, Orderly(q),
           \A y \in In(q) : Ordered(y, x)
    PROVE  Orderly(Append(q, x))
<1> DEFINE p == Append(q, x)
<1>1. /\ p \in Seq(S)
      /\ Len(p) = Len(q) + 1
      /\ \A i \in 1 .. Len(q) : p[i] = q[i]
      /\ p[Len(q) + 1] = x
  BY AppendProperties
<1> HIDE DEF p
<1>2. /\ Len(q) \in Nat
      /\ DOMAIN q = 1 .. Len(q)
      /\ DOMAIN p = 1 .. Len(q) + 1
  BY <1>1, LenProperties
<1>3. ASSUME NEW i \in DOMAIN p, NEW j \in DOMAIN p, i < j
      PROVE  Ordered(p[i], p[j])
  <2>1. i \in DOMAIN q /\ p[i] = q[i]
    BY <1>1, <1>2, <1>3
  <2>2. CASE j \in DOMAIN q
    BY <1>1, <1>2, <1>3, <2>1, <2>2 DEF Orderly
  <2>3. CASE j \notin DOMAIN q
    <3>1. j = Len(q) + 1
      BY <1>2, <2>3
    <3>2. QED
      BY <1>1, <2>1, <3>1 DEF In
  <2>4. QED
    BY <2>2, <2>3
<1>4. QED
  BY <1>3 DEF Orderly, p

----------------------------------------------------------------------------
(* Drafts and requests: the invariant *)

Edits   == {m \in Outbox : m.type = "edit"}
Replies == {m \in Inbox : m.type \in {"editAcknowledged", "editRejected"}}

\* No edit is under way.
Idle ==
    /\ sync.inFlight = Null
    /\ In(toHost) \cap Edits = {} /\ queue = <<>> /\ In(toView) \cap Replies = {}
    /\ applied = "unknown"
    /\ buffer.draft = sync.acknowledgedGeneration

\* The edit is on its way to the host.
Posted ==
    /\ sync.inFlight # Null
    /\ \A m \in In(toHost) \cap Edits : m.request = sync.inFlight
    /\ queue = <<>> /\ In(toView) \cap Replies = {}
    /\ applied = "unknown"
    /\ buffer.draft = sync.acknowledgedGeneration

\* The host works on it.
Queued ==
    /\ sync.inFlight # Null
    /\ In(toHost) \cap Edits = {} /\ In(toView) \cap Replies = {}
    /\ queue = <<sync.inFlight>>
    /\ buffer.draft = IF applied = "applied" THEN sync.inFlight.localGeneration
                                             ELSE sync.acknowledgedGeneration

\* The host has answered.
Replied ==
    /\ sync.inFlight # Null
    /\ In(toHost) \cap Edits = {} /\ queue = <<>>
    /\ \A m \in In(toView) \cap Replies :
          buffer.draft = IF m.type = "editAcknowledged" THEN sync.inFlight.localGeneration
                                                        ELSE sync.acknowledgedGeneration
    /\ applied = "unknown"
    /\ buffer.draft \in {sync.acknowledgedGeneration, sync.inFlight.localGeneration}

\* One edit is under way at a time, and the buffer holds what is confirmed, or
\* what will be when the answer is heard.
OneEdit ==
    /\ Once(toHost, Edits) /\ Once(toView, Replies)
    /\ Idle \/ Posted \/ Queued \/ Replied

\* The answered flushes among the messages to the host.
Answered == {m \in In(toHost) : m.type \in {"flushComplete", "flushFailed"}}

\* Flushes are those of saves that began.
Known ==
    /\ \A w \in sync.flushWaiters : w.flush \in DOMAIN flushes
    /\ \A m \in Answered : m.flush \in DOMAIN flushes
    /\ \A m \in In(toView) : m.type = "requestFlush" => m.flush \in DOMAIN flushes

\* The first inductive invariant.
Typed == TypeOK /\ Sound(sync) /\ OneEdit /\ Known

\* What the messages carry.
LEMMA InboxFields ==
    ASSUME NEW m \in Inbox
    PROVE  /\ m.type \in {"editAcknowledged", "editRejected", "documentSaveState",
                          "requestFlush"}
           /\ m.type \in {"editAcknowledged", "editRejected"} =>
                 m.identity = Self /\ m.editId \in Nat /\ m.revision \in Nat
           /\ m.type = "editRejected" =>
                 m.code = "WRITE_FAILED" /\ m.hostSnapshot = Start
           /\ m.type = "documentSaveState" =>
                 m.saveGeneration \in Nat \ {0} /\ m.revision \in Nat /\ m.phase \in Phases
           /\ m.type = "requestFlush" => m.flush \in 1 .. MaxSaves
BY DEF Inbox

\* The same for the messages of the webview.
LEMMA OutboxFields ==
    ASSUME NEW m \in Outbox
    PROVE  /\ m.type = "edit" => m.request \in Requests
           /\ m.type \in {"flushComplete", "flushFailed"} => m.flush \in 1 .. MaxSaves
           /\ m.type \in {"edit", "flushComplete", "flushFailed"}
BY DEF Outbox

\* What is in the buffer was never less than what is confirmed.
LEMMA BufferAhead ==
    ASSUME Typed
    PROVE  /\ buffer.draft \in Nat /\ sync.acknowledgedGeneration \in Nat
           /\ sync.acknowledgedGeneration <= buffer.draft
           /\ sync.inFlight # Null =>
                 /\ sync.inFlight \in Requests
                 /\ sync.inFlight.localGeneration \in Nat
                 /\ sync.acknowledgedGeneration < sync.inFlight.localGeneration
<1>1. sync \in SyncStates /\ buffer.draft \in Nat
  BY DEF Typed, TypeOK
<1>2. sync.acknowledgedGeneration \in Nat /\ sync.inFlight \in Requests \cup {Null}
  BY <1>1 DEF SyncStates
<1>3. sync.inFlight # Null => sync.inFlight.localGeneration \in Nat
  BY <1>2 DEF Requests
<1>4. sync.inFlight # Null => sync.acknowledgedGeneration < sync.inFlight.localGeneration
  BY DEF Typed, Sound, Consistent, Numbered
<1>5. \/ buffer.draft = sync.acknowledgedGeneration
      \/ sync.inFlight # Null /\ buffer.draft = sync.inFlight.localGeneration
  BY DEF Typed, OneEdit, Idle, Posted, Queued, Replied
<1>6. QED
  BY <1>1, <1>2, <1>3, <1>4, <1>5

\* A step that touches neither the queue of edits nor the buffer, and at most
\* sends where nothing was under way.
LEMMA EditsKept ==
    ASSUME Typed, UNCHANGED <<queue, applied, buffer>>,
           Travels(sync, sync'), Patient(sync, sync'),
           Once(toHost', Edits), Once(toView', Replies),
           In(toView') \cap Replies \subseteq In(toView),
           \A m \in In(toHost') \cap Edits :
              \/ m \in In(toHost)
              \/ sync'.nextEditId # sync.nextEditId /\ m.request = sync'.inFlight
    PROVE  OneEdit'
<1>1. sync.nextEditId \in Nat
  BY DEF Typed, TypeOK, SyncStates
<1>2. CASE sync'.nextEditId = sync.nextEditId
  <2>1. /\ sync'.inFlight = sync.inFlight
        /\ sync'.acknowledgedGeneration = sync.acknowledgedGeneration
        /\ In(toHost') \cap Edits \subseteq In(toHost)
    BY <1>2 DEF Patient
  <2>2. Idle => Idle'
    BY <2>1 DEF Idle
  <2>3. Posted => Posted'
    BY <2>1 DEF Posted
  <2>4. Queued => Queued'
    BY <2>1 DEF Queued
  <2>5. Replied => Replied'
    BY <2>1 DEF Replied
  <2>6. QED
    BY <2>2, <2>3, <2>4, <2>5 DEF Typed, OneEdit
<1>3. CASE sync'.nextEditId # sync.nextEditId
  <2>1. sync.inFlight = Null /\ sync'.inFlight # Null
        /\ sync'.acknowledgedGeneration = sync.acknowledgedGeneration
    BY <1>1, <1>3 DEF Patient, Travels
  <2>2. Idle
    BY <2>1 DEF Typed, OneEdit, Idle, Posted, Queued, Replied
  <2>3. Posted'
    BY <2>1, <2>2 DEF Idle, Posted
  <2>4. QED
    BY <2>3 DEF OneEdit
<1>4. QED
  BY <1>2, <1>3

----------------------------------------------------------------------------
(* Drafts and requests: turns of the webview *)

\* A message that tells the host of a settled flush.
Answering(m, t) ==
    /\ m.flush \in 1 .. MaxSaves
    /\ \E w \in sync.flushWaiters : w.flush = m.flush
    /\ m.type = "flushComplete" =>
          \E w \in sync.flushWaiters : /\ w.flush = m.flush
                                       /\ w.generation <= t.acknowledgedGeneration

\* What a turn of the webview posts.
LEMMA MovesPost ==
    ASSUME Typed, NEW t, Sound(t), Travels(sync, t),
           NEW posted \in Seq(FlushMessages(MaxSaves)), Moves(t, posted)
    PROVE  /\ sync' = t
           /\ toHost' \in Seq(Outbox)
           /\ t.nextEditId = sync.nextEditId \/ In(toHost) \cap Edits = {}
                 => Once(toHost', Edits)
           /\ \A m \in In(toHost') :
                 \/ m \in In(toHost)
                 \/ m \in In(posted)
                 \/ m \in Edits /\ t.nextEditId # sync.nextEditId /\ m.request = t.inFlight
                 \/ m \in Answered' /\ Answering(m, t)
<1> DEFINE edits == IF Sends(sync, t) THEN <<[type |-> "edit", request |-> t.inFlight]>>
                                      ELSE <<>>
           answers == Answers(sync, t, MaxSaves)
<1>1. /\ sync' = t
      /\ toHost' = ((toHost \o edits) \o answers) \o posted
      /\ sync \in SyncStates /\ t \in SyncStates
      /\ toHost \in Seq(Outbox) /\ MaxSaves \in Nat
  BY StartAssumption DEF Moves, Typed, TypeOK, Sound, Consistent
<1>2. FlushMessages(MaxSaves) \subseteq Outbox \ Edits
  BY DEF FlushMessages, Outbox, Edits
<1>3. /\ edits \in Seq(Outbox) /\ Once(edits, Edits)
      /\ t.nextEditId = sync.nextEditId => In(edits) = {}
      /\ \A m \in In(edits) :
            m \in Edits /\ t.nextEditId # sync.nextEditId /\ m.request = t.inFlight
  <2>1. CASE Sends(sync, t)
    <3> DEFINE m == [type |-> "edit", request |-> t.inFlight]
    <3>1. t.nextEditId # sync.nextEditId
      BY <1>1, <2>1 DEF Sends, SyncStates
    <3>2. t.inFlight \in Requests
      BY <1>1, <3>1 DEF Travels, SyncStates
    <3>3. m \in Outbox /\ m \in Edits /\ m.request = t.inFlight
      BY <3>2 DEF Outbox, Edits
    <3>4. edits = <<m>>
      BY <2>1
    <3> HIDE DEF m, edits
    <3>5. edits \in Seq(Outbox) /\ In(edits) = {m}
      BY <3>3, <3>4, InFew
    <3>6. DOMAIN edits = {1}
      BY <3>4
    <3>7. QED
      BY <3>1, <3>3, <3>5, <3>6 DEF Once
  <2>2. CASE ~Sends(sync, t)
    <3>1. edits = <<>>
      BY <2>2
    <3> HIDE DEF edits
    <3>2. edits \in Seq(Outbox) /\ In(edits) = {}
      BY <3>1, InFew
    <3>3. DOMAIN edits = {}
      BY <3>1
    <3>4. QED
      BY <3>2, <3>3 DEF Once
  <2>3. QED
    BY <2>1, <2>2
<1>4. /\ answers \in Seq(Outbox) /\ In(answers) \cap Edits = {}
      /\ \A m \in In(answers) : m.type \in {"flushComplete", "flushFailed"} /\ Answering(m, t)
  <2>1. /\ answers \in Seq(FlushMessages(MaxSaves))
        /\ \A m \in In(answers) :
              /\ m.type \in {"flushComplete", "flushFailed"}
              /\ m.flush \in 1 .. MaxSaves
              /\ \E w \in sync.flushWaiters : w.flush = m.flush
              /\ ~\E w \in t.flushWaiters : w.flush = m.flush
              /\ m.type = "flushComplete" =>
                    \E w \in sync.flushWaiters :
                       /\ w.flush = m.flush
                       /\ w.generation <= t.acknowledgedGeneration
    <3>1. sync \in SyncStates /\ t \in SyncStates /\ MaxSaves \in Nat
      BY <1>1
    <3>2. QED
      BY <3>1, AnswersTyped
  <2> HIDE DEF answers
  <2>3. \A m \in In(answers) : m.type \in {"flushComplete", "flushFailed"} /\ Answering(m, t)
    BY <2>1 DEF Answering
  <2>2. QED
    BY <1>2, <2>1, <2>3, SeqMonotonic, InTyped
<1>5. posted \in Seq(Outbox) /\ In(posted) \cap Edits = {}
  BY <1>2, SeqMonotonic, InTyped
<1> HIDE DEF edits, answers
<1>6. /\ toHost \o edits \in Seq(Outbox)
      /\ In(toHost \o edits) \subseteq In(toHost) \cup In(edits)
  BY <1>1, <1>3, InConcat
<1>7. /\ (toHost \o edits) \o answers \in Seq(Outbox)
      /\ In((toHost \o edits) \o answers) \subseteq In(toHost \o edits) \cup In(answers)
  BY <1>4, <1>6, InConcat
<1>8. /\ toHost' \in Seq(Outbox)
      /\ In(toHost') \subseteq In((toHost \o edits) \o answers) \cup In(posted)
  BY <1>1, <1>5, <1>7, InConcat
<1>9. ASSUME t.nextEditId = sync.nextEditId \/ In(toHost) \cap Edits = {}
      PROVE  Once(toHost', Edits)
  <2>1. Once(toHost \o edits, Edits)
    <3>1. Once(toHost, Edits)
      BY DEF Typed, OneEdit
    <3>2. In(toHost) \cap Edits = {} \/ In(edits) \cap Edits = {}
      BY <1>3, <1>9
    <3>3. QED
      BY <1>1, <1>3, <3>1, <3>2, OnceConcat
  <2>2. Once(answers, Edits) /\ Once(posted, Edits)
    BY <1>4, <1>5 DEF Once, In
  <2>3. Once((toHost \o edits) \o answers, Edits)
    BY <1>4, <1>6, <2>1, <2>2, OnceConcat
  <2>4. Once(((toHost \o edits) \o answers) \o posted, Edits)
    BY <1>5, <1>7, <2>2, <2>3, OnceConcat
  <2>5. QED
    BY <1>1, <2>4
<1>10. \A m \in In(toHost') : \/ m \in In(toHost) \/ m \in In(edits)
                              \/ m \in In(answers) \/ m \in In(posted)
  BY <1>6, <1>7, <1>8
<1>11. \A m \in In(toHost') \cap In(answers) : m \in Answered'
  BY <1>4 DEF Answered
<1>12. QED
  BY <1>1, <1>3, <1>4, <1>8, <1>9, <1>10, <1>11

\* A message is heard.
LEMMA HeardMessage ==
    ASSUME Typed, toView # <<>>, toView' = Tail(toView)
    PROVE  /\ Head(toView) \in Inbox /\ Head(toView) \in In(toView)
           /\ In(toView) \subseteq Inbox
           /\ toView' \in Seq(Inbox) /\ In(toView') \subseteq In(toView)
           /\ \A m \in In(toView) : m = Head(toView) \/ m \in In(toView')
           /\ Once(toView', Replies)
           /\ Head(toView) \in Replies => In(toView') \cap Replies = {}
<1>1. toView \in Seq(Inbox) /\ Once(toView, Replies)
  BY DEF Typed, TypeOK, OneEdit
<1>2. /\ Head(toView) \in Inbox /\ Head(toView) \in In(toView)
      /\ Tail(toView) \in Seq(Inbox) /\ In(Tail(toView)) \subseteq In(toView)
  BY <1>1, InTail
<1>3. /\ \A m \in In(toView) : m = Head(toView) \/ m \in In(Tail(toView))
      /\ Once(toView, Replies) => Once(Tail(toView), Replies)
      /\ Once(toView, Replies) /\ Head(toView) \in Replies
            => In(Tail(toView)) \cap Replies = {}
  BY <1>1, HeadApart
<1>4. In(toView) \subseteq Inbox
  BY <1>1, InTyped
<1>5. QED
  BY <1>1, <1>2, <1>3, <1>4

\* Whatever the webview does in a turn, types and the flushes' numbers hold.
LEMMA TurnTyped ==
    ASSUME Typed, NEW t, Sound(t), Travels(sync, t),
           NEW posted \in Seq(FlushMessages(MaxSaves)), Moves(t, posted), HostUnchanged,
           toView' \in Seq(Inbox), In(toView') \subseteq In(toView),
           shown' \in SaveStates, asked' \in Nat,
           \A w \in t.flushWaiters : w.flush \in DOMAIN flushes,
           \A m \in In(posted) : m.flush \in DOMAIN flushes
    PROVE  TypeOK' /\ Sound(sync') /\ Known'
<1>1. /\ sync' = t /\ toHost' \in Seq(Outbox)
      /\ \A m \in In(toHost') :
            \/ m \in In(toHost)
            \/ m \in In(posted)
            \/ m \in Edits /\ t.nextEditId # sync.nextEditId /\ m.request = t.inFlight
            \/ m \in Answered' /\ Answering(m, t)
  BY MovesPost
<1>2. UNCHANGED <<queue, applied, flushes, buffer, saving, disk, chances>>
  BY DEF HostUnchanged, storage
<1>3. TypeOK'
  <2>1. sync' \in SyncStates
    BY <1>1 DEF Sound, Consistent
  <2>2. QED
    BY <1>1, <1>2, <2>1 DEF Typed, TypeOK
<1>4. \A m \in Answered' : m.flush \in DOMAIN flushes
  <2> SUFFICES ASSUME NEW m \in Answered'
               PROVE  m.flush \in DOMAIN flushes
    OBVIOUS
  <2>1. m \in In(toHost') /\ m.type \in {"flushComplete", "flushFailed"}
    BY DEF Answered
  <2>2. CASE m \in In(toHost)
    BY <2>1, <2>2 DEF Typed, Known, Answered
  <2>3. CASE m \in Edits
    BY <2>1, <2>3 DEF Edits
  <2>4. CASE Answering(m, t)
    BY <2>4 DEF Answering, Typed, Known
  <2>5. QED
    BY <1>1, <2>1, <2>2, <2>3, <2>4
<1>5. Known'
  BY <1>1, <1>2, <1>4 DEF Typed, Known
<1>6. QED
  BY <1>1, <1>3, <1>5

\* A turn that confirms nothing and sends only where nothing is under way.
LEMMA PatientTyped ==
    ASSUME Typed, NEW t, Sound(t), Travels(sync, t), Patient(sync, t),
           NEW posted \in Seq(FlushMessages(MaxSaves)), Moves(t, posted), HostUnchanged,
           toView' \in Seq(Inbox), In(toView') \subseteq In(toView), Once(toView', Replies),
           shown' \in SaveStates, asked' \in Nat,
           \A w \in t.flushWaiters : w.flush \in DOMAIN flushes,
           \A m \in In(posted) : m.flush \in DOMAIN flushes
    PROVE  Typed'
<1>1. TypeOK' /\ Sound(sync') /\ Known'
  BY TurnTyped
<1>2. /\ sync' = t
      /\ t.nextEditId = sync.nextEditId \/ In(toHost) \cap Edits = {} => Once(toHost', Edits)
      /\ \A m \in In(toHost') :
            \/ m \in In(toHost)
            \/ m \in In(posted)
            \/ m \in Edits /\ t.nextEditId # sync.nextEditId /\ m.request = t.inFlight
            \/ m \in Answered' /\ Answering(m, t)
  BY MovesPost
<1>3. t.nextEditId # sync.nextEditId => In(toHost) \cap Edits = {}
  BY DEF Patient, Typed, OneEdit, Idle, Posted, Queued, Replied
<1>4. UNCHANGED <<queue, applied, buffer>>
  BY DEF HostUnchanged, storage
<1>5. In(posted) \cap Edits = {}
  <2>1. In(posted) \subseteq FlushMessages(MaxSaves)
    BY InTyped
  <2>2. QED
    BY <2>1 DEF FlushMessages, Edits
<1>6. \A m \in In(toHost') \cap Edits :
         \/ m \in In(toHost)
         \/ sync'.nextEditId # sync.nextEditId /\ m.request = sync'.inFlight
  BY <1>2, <1>5 DEF Answered, Edits
<1>7. OneEdit'
  BY <1>2, <1>3, <1>4, <1>6, EditsKept
<1>8. QED
  BY <1>1, <1>7 DEF Typed

\* What a turn that hears nothing leaves alone.
LEMMA NothingHeard ==
    ASSUME Typed, UNCHANGED <<shown, toView, asked>>
    PROVE  /\ toView' \in Seq(Inbox) /\ In(toView') \subseteq In(toView)
           /\ Once(toView', Replies) /\ shown' \in SaveStates /\ asked' \in Nat
           /\ \A w \in sync.flushWaiters : w.flush \in DOMAIN flushes
           /\ <<>> \in Seq(FlushMessages(MaxSaves)) /\ In(<<>>) = {}
BY InFew DEF Typed, TypeOK, OneEdit, Known

\* A draft is submitted: it is sent where no edit is under way.
LEMMA SubmitTyped ==
    ASSUME Typed, Submit
    PROVE  Typed'
<1> DEFINE t == SubmitContent(sync, Start, TRUE)
           none == <<>>
<1>1. Moves(t, none) /\ HostUnchanged /\ UNCHANGED <<shown, toView, asked>>
  BY DEF Submit
<1>2. /\ Sound(t) /\ Travels(sync, t) /\ Patient(sync, t)
      /\ t.flushWaiters \subseteq sync.flushWaiters
  BY SubmitSound, SubmitKeeps, SubmitPatient, StartAssumption
     DEF SubmitContent, Typed, Keeps, Advances
<1>3. none \in Seq(FlushMessages(MaxSaves)) /\ In(none) = {}
  BY InFew
<1> HIDE DEF t, none
<1>4. QED
  BY <1>1, <1>2, <1>3, NothingHeard, PatientTyped

\* A failed edit is tried again, and none was under way.
LEMMA RetrySyncTyped ==
    ASSUME Typed, RetrySync
    PROVE  Typed'
<1> DEFINE t == Retry(sync, Null)
           none == <<>>
<1>1. Moves(t, none) /\ HostUnchanged /\ UNCHANGED <<shown, toView, asked>>
  BY DEF RetrySync
<1>2. /\ Sound(t) /\ Travels(sync, t) /\ Patient(sync, t)
      /\ t.flushWaiters \subseteq sync.flushWaiters
  BY RetrySound, RetryKeeps, RetryPatient DEF Typed, Keeps, Advances
<1>3. none \in Seq(FlushMessages(MaxSaves)) /\ In(none) = {}
  BY InFew
<1> HIDE DEF t, none
<1>4. QED
  BY <1>1, <1>2, <1>3, NothingHeard, PatientTyped

\* The coordinator has a draft before and after every turn.
LEMMA SameTurn ==
    ASSUME Typed
    PROVE  Travels(sync, sync) /\ Patient(sync, sync)
BY DEF Travels, Patient

\* What becomes of the shown state has its type.
LEMMA ShownTyped ==
    ASSUME TypeOK, NEW m \in Inbox
    PROVE  /\ m.type = "editAcknowledged" =>
                 MarkHostDocumentDirty(shown, m.revision) \in SaveStates
           /\ m.type = "documentSaveState" =>
                 ObserveDocumentSaveState(shown, m) \in SaveStates
<1>1. shown \in SaveStates
  BY DEF TypeOK
<1>2. ASSUME m.type = "editAcknowledged"
      PROVE  MarkHostDocumentDirty(shown, m.revision) \in SaveStates
  BY <1>1, <1>2, InboxFields DEF MarkHostDocumentDirty, SaveStates, Phases, Larger
<1>3. ASSUME m.type = "documentSaveState"
      PROVE  ObserveDocumentSaveState(shown, m) \in SaveStates
  BY <1>1, <1>3, InboxFields DEF ObserveDocumentSaveState, SaveStates, Larger
<1>4. QED
  BY <1>2, <1>3

\* The edit under way is confirmed: the buffer holds it, and the next may leave.
LEMMA HearAcknowledgementTyped ==
    ASSUME Typed, HearAcknowledgement
    PROVE  Typed'
<1> DEFINE m == Head(toView)
           t == Acknowledge(sync, m)
           none == <<>>
<1>1. /\ toView # <<>> /\ m.type = "editAcknowledged" /\ toView' = Tail(toView)
      /\ HostUnchanged /\ Moves(t, none) /\ asked' = asked
      /\ shown' = IF Acknowledges(sync, m) THEN MarkHostDocumentDirty(shown, m.revision)
                                           ELSE shown
  BY DEF HearAcknowledgement, Hears
<1>2. /\ m \in Inbox /\ m \in In(toView) /\ toView' \in Seq(Inbox)
      /\ In(toView') \subseteq In(toView) /\ Once(toView', Replies)
      /\ m \in Replies => In(toView') \cap Replies = {}
  BY <1>1, HeardMessage
<1>3. m \in Replies /\ m.revision \in Nat
  BY <1>1, <1>2, InboxFields DEF Replies
<1>4. Sound(t) /\ Travels(sync, t) /\ t.flushWaiters \subseteq sync.flushWaiters
  BY <1>3, AcknowledgeSound, AcknowledgeKeeps DEF Typed, Keeps, Advances
<1>5. shown' \in SaveStates /\ asked' \in Nat
  BY <1>1, <1>2, ShownTyped DEF Typed, TypeOK
<1>6. none \in Seq(FlushMessages(MaxSaves)) /\ In(none) = {}
  BY InFew
<1>7. \A w \in t.flushWaiters : w.flush \in DOMAIN flushes
  BY <1>4 DEF Typed, Known
<1>8. CASE ~Acknowledges(sync, m)
  <2>1. t = sync
    BY <1>8 DEF Acknowledge
  <2>2. Patient(sync, t)
    BY <2>1, SameTurn
  <2> HIDE DEF t, none, m
  <2>3. QED
    BY <1>1, <1>2, <1>4, <1>5, <1>6, <1>7, <2>2, PatientTyped
<1>9. CASE Acknowledges(sync, m)
  <2>1. /\ t.nextEditId = sync.nextEditId => t.inFlight = Null
        /\ t.acknowledgedGeneration = sync.inFlight.localGeneration
    BY <1>3, <1>9, AcknowledgeEnds DEF Typed
  <2> HIDE DEF t, none, m
  <2>2. TypeOK' /\ Sound(sync') /\ Known'
    BY <1>1, <1>2, <1>4, <1>5, <1>6, <1>7, TurnTyped
  <2>3. /\ sync' = t
        /\ t.nextEditId = sync.nextEditId \/ In(toHost) \cap Edits = {} => Once(toHost', Edits)
        /\ \A n \in In(toHost') :
              \/ n \in In(toHost)
              \/ n \in In(none)
              \/ n \in Edits /\ t.nextEditId # sync.nextEditId /\ n.request = t.inFlight
              \/ n \in Answered' /\ Answering(n, t)
    BY <1>1, <1>4, <1>6, MovesPost
  <2>4. Replied /\ sync.inFlight # Null
    BY <1>2, <1>3, <1>9 DEF Typed, OneEdit, Idle, Posted, Queued, Acknowledges, MatchesInFlight
  <2>5. /\ buffer.draft = sync.inFlight.localGeneration
        /\ In(toHost) \cap Edits = {} /\ queue = <<>> /\ applied = "unknown"
    BY <1>1, <1>2, <1>3, <2>4 DEF Replied
  <2>6. /\ In(toView') \cap Replies = {}
        /\ UNCHANGED <<queue, applied, buffer>>
    BY <1>1, <1>2, <1>3 DEF HostUnchanged, storage
  <2>7. \A n \in In(toHost') \cap Edits :
           t.nextEditId # sync.nextEditId /\ n.request = t.inFlight
    BY <1>6, <2>3, <2>5 DEF Answered, Edits
  <2>8. CASE t.nextEditId = sync.nextEditId
    <3>1. Idle'
      BY <2>1, <2>3, <2>5, <2>6, <2>7, <2>8 DEF Idle
    <3>2. QED
      BY <1>2, <2>2, <2>3, <2>8, <3>1 DEF Typed, OneEdit
  <2>9. CASE t.nextEditId # sync.nextEditId
    <3>1. t.inFlight # Null
      BY <1>4, <2>9 DEF Travels
    <3>2. Posted'
      BY <2>1, <2>3, <2>5, <2>6, <2>7, <3>1 DEF Posted
    <3>3. QED
      BY <1>2, <2>2, <2>3, <2>5, <3>2 DEF Typed, OneEdit
  <2>10. QED
    BY <2>8, <2>9
<1>10. QED
  BY <1>8, <1>9

\* The edit under way is refused: the buffer holds what was confirmed before.
LEMMA HearRejectionTyped ==
    ASSUME Typed, HearRejection
    PROVE  Typed'
<1> DEFINE m == Head(toView)
           t == Reject(sync, m)
           none == <<>>
<1>1. /\ toView # <<>> /\ m.type = "editRejected" /\ toView' = Tail(toView)
      /\ HostUnchanged /\ Moves(t, none) /\ asked' = asked /\ shown' = shown
  BY DEF HearRejection, Hears
<1>2. /\ m \in Inbox /\ m \in In(toView) /\ toView' \in Seq(Inbox)
      /\ In(toView') \subseteq In(toView) /\ Once(toView', Replies)
      /\ m \in Replies => In(toView') \cap Replies = {}
  BY <1>1, HeardMessage
<1>3. m \in Replies /\ m.revision \in Nat /\ m.code \in ErrorCodes
      /\ m.hostSnapshot \in Mutations \cup {Null}
  BY <1>1, <1>2, InboxFields, StartAssumption DEF Replies, ErrorCodes
<1>4. Sound(t) /\ Travels(sync, t) /\ t.flushWaiters \subseteq sync.flushWaiters
  BY <1>3, RejectSound, RejectKeeps DEF Typed, Keeps, Advances
<1>5. shown' \in SaveStates /\ asked' \in Nat
  BY <1>1 DEF Typed, TypeOK
<1>6. none \in Seq(FlushMessages(MaxSaves)) /\ In(none) = {}
  BY InFew
<1>7. \A w \in t.flushWaiters : w.flush \in DOMAIN flushes
  BY <1>4 DEF Typed, Known
<1>8. IF MatchesInFlight(sync, m)
      THEN /\ t.inFlight = Null /\ t.nextEditId = sync.nextEditId
           /\ t.acknowledgedGeneration = sync.acknowledgedGeneration
      ELSE t = sync
  BY RejectEnds DEF Typed
<1> HIDE DEF t, none, m
<1>9. CASE ~MatchesInFlight(sync, m)
  <2>1. Patient(sync, t)
    BY <1>8, <1>9, SameTurn
  <2>2. QED
    BY <1>1, <1>2, <1>4, <1>5, <1>6, <1>7, <2>1, PatientTyped
<1>10. CASE MatchesInFlight(sync, m)
  <2>1. TypeOK' /\ Sound(sync') /\ Known'
    BY <1>1, <1>2, <1>4, <1>5, <1>6, <1>7, TurnTyped
  <2>2. /\ sync' = t /\ Once(toHost', Edits)
        /\ \A n \in In(toHost') :
              \/ n \in In(toHost)
              \/ n \in In(none)
              \/ n \in Edits /\ t.nextEditId # sync.nextEditId /\ n.request = t.inFlight
              \/ n \in Answered' /\ Answering(n, t)
    BY <1>1, <1>4, <1>6, <1>8, <1>10, MovesPost
  <2>3. Replied /\ sync.inFlight # Null
    BY <1>2, <1>3, <1>10 DEF Typed, OneEdit, Idle, Posted, Queued, MatchesInFlight
  <2>4. /\ buffer.draft = sync.acknowledgedGeneration
        /\ In(toHost) \cap Edits = {} /\ queue = <<>> /\ applied = "unknown"
    BY <1>1, <1>2, <1>3, <2>3 DEF Replied
  <2>5. /\ In(toView') \cap Replies = {}
        /\ UNCHANGED <<queue, applied, buffer>>
    BY <1>1, <1>2, <1>3 DEF HostUnchanged, storage
  <2>6. In(toHost') \cap Edits = {}
    BY <1>6, <1>8, <1>10, <2>2, <2>4 DEF Answered, Edits
  <2>7. Idle'
    BY <1>8, <1>10, <2>2, <2>4, <2>5, <2>6 DEF Idle
  <2>8. QED
    BY <1>2, <2>1, <2>2, <2>7 DEF Typed, OneEdit
<1>11. QED
  BY <1>9, <1>10

\* A report on a save concerns no edit.
LEMMA HearSaveStateTyped ==
    ASSUME Typed, HearSaveState
    PROVE  Typed'
<1> DEFINE m == Head(toView)
<1>1. /\ toView # <<>> /\ m.type = "documentSaveState" /\ toView' = Tail(toView)
      /\ UNCHANGED <<sync, toHost, asked>> /\ HostUnchanged
      /\ shown' = ObserveDocumentSaveState(shown, m)
  BY DEF HearSaveState, Hears
<1>2. /\ m \in Inbox /\ toView' \in Seq(Inbox)
      /\ In(toView') \subseteq In(toView) /\ Once(toView', Replies)
  BY <1>1, HeardMessage
<1> HIDE DEF m
<1>3. UNCHANGED <<queue, applied, flushes, buffer, saving, disk, chances>>
  BY <1>1 DEF HostUnchanged, storage
<1>4. shown' \in SaveStates
  BY <1>1, <1>2, ShownTyped DEF Typed
<1>5. TypeOK'
  BY <1>1, <1>2, <1>3, <1>4 DEF Typed, TypeOK
<1>6. Travels(sync, sync') /\ Patient(sync, sync')
  BY <1>1, SameTurn
<1>7. Once(toHost', Edits)
  BY <1>1 DEF Typed, OneEdit
<1>8. OneEdit'
  BY <1>1, <1>2, <1>3, <1>6, <1>7, EditsKept
<1>9. Known'
  <2>1. Answered' = Answered
    BY <1>1 DEF Answered
  <2>2. QED
    BY <1>1, <1>2, <1>3, <2>1 DEF Typed, Known
<1>10. QED
  BY <1>1, <1>5, <1>8, <1>9 DEF Typed

\* The flush that is asked for: the draft of a transient failure is sent again, and
\* the barrier is the newest draft, which is the one `asked` notes.
LEMMA FlushTurn ==
    ASSUME Typed, HearFlush
    PROVE  LET flush == Head(toView).flush
           IN  /\ flush \in DOMAIN flushes /\ flush \in 1 .. MaxSaves
               /\ asked' = sync.localGeneration
               /\ UNCHANGED shown
               /\ \E t, posted :
                     /\ Sound(t) /\ Travels(sync, t) /\ Patient(sync, t)
                     /\ \A w \in t.flushWaiters :
                           \/ w \in sync.flushWaiters
                           \/ w.flush = flush /\ w.generation = sync.localGeneration
                     /\ posted \in Seq(FlushMessages(MaxSaves))
                     /\ \A m \in In(posted) :
                           /\ m.type \in {"flushComplete", "flushFailed"}
                           /\ m.flush = flush
                           /\ m.type = "flushComplete" =>
                                 sync.localGeneration <= sync.acknowledgedGeneration
                     /\ Moves(t, posted)
<1> DEFINE flush == Head(toView).flush
           retried == RetryBeforeSave(sync)
           g == retried.localGeneration
           t == FlushThrough(retried, flush, g)
           posted == AnswersAtOnce(retried, flush)
<1>1. /\ toView # <<>> /\ Head(toView).type = "requestFlush" /\ toView' = Tail(toView)
      /\ Moves(t, posted)
      /\ asked' = sync.localGeneration /\ UNCHANGED shown
  BY DEF HearFlush, Hears, AfterAcknowledged
<1>2. flush \in DOMAIN flushes /\ flush \in 1 .. MaxSaves
  <2>1. Head(toView) \in Inbox /\ Head(toView) \in In(toView)
    BY <1>1, HeardMessage
  <2>2. QED
    BY <1>1, <2>1, InboxFields DEF Typed, Known
<1>3. flush \in Nat
  BY <1>2, StartAssumption
<1> HIDE DEF flush
<1>4. /\ Sound(retried) /\ Keeps(sync, retried) /\ Patient(sync, retried)
      /\ g = sync.localGeneration
      /\ retried.flushWaiters \subseteq sync.flushWaiters
  <2>1. CASE CanRetry(sync)
    <3>1. retried = Retry(sync, Null)
      BY <2>1 DEF RetryBeforeSave
    <3> HIDE DEF retried
    <3>2. QED
      BY <3>1, RetrySound, RetryKeeps, RetryPatient DEF Typed, Advances
  <2>2. CASE ~CanRetry(sync)
    <3>1. retried = sync
      BY <2>2 DEF RetryBeforeSave
    <3> HIDE DEF retried
    <3>2. Keeps(sync, sync)
      BY SameKeeps DEF Typed, TypeOK
    <3>3. QED
      BY <3>1, <3>2, SameTurn DEF Typed
  <2>3. QED
    BY <2>1, <2>2
<1> HIDE DEF retried
<1>5. /\ Sound(t)
      /\ t.acknowledgedGeneration = retried.acknowledgedGeneration
      /\ t.flushWaiters \subseteq retried.flushWaiters \cup
            {[flush |-> flush, generation |-> g]}
  BY <1>3, <1>4, FlushSound
<1>6. Travels(sync, t)
  BY <1>4, FlushKeeps DEF Keeps
<1>7. Patient(sync, t)
  <2>1. t.inFlight = retried.inFlight /\ t.nextEditId = retried.nextEditId
    BY <1>4 DEF FlushThrough, Sound, Consistent, SyncStates
  <2> HIDE DEF t
  <2>2. QED
    BY <1>4, <1>5, <2>1 DEF Patient
<1> HIDE DEF t
<1>8. \A w \in t.flushWaiters :
         \/ w \in sync.flushWaiters
         \/ w.flush = flush /\ w.generation = sync.localGeneration
  <2> DEFINE waiter == [flush |-> flush, generation |-> g]
  <2>1. waiter.flush = flush /\ waiter.generation = g
    OBVIOUS
  <2>2. \A w \in t.flushWaiters : w \in retried.flushWaiters \/ w = waiter
    BY <1>5
  <2> HIDE DEF waiter
  <2>3. QED
    BY <1>4, <2>1, <2>2
<1>9. retried.acknowledgedGeneration = sync.acknowledgedGeneration
  BY <1>4 DEF Patient
<1>10. /\ posted \in Seq(FlushMessages(MaxSaves))
       /\ \A m \in In(posted) :
             /\ m.type \in {"flushComplete", "flushFailed"}
             /\ m.flush = flush
             /\ m.type = "flushComplete" =>
                   sync.localGeneration <= sync.acknowledgedGeneration
  <2> DEFINE yes == FlushAnswer(flush, TRUE)
             no  == FlushAnswer(flush, FALSE)
  <2>1. /\ yes \in FlushMessages(MaxSaves) /\ yes.flush = flush /\ yes.type = "flushComplete"
        /\ no \in FlushMessages(MaxSaves) /\ no.flush = flush /\ no.type = "flushFailed"
    BY <1>2 DEF FlushAnswer, FlushMessages
  <2>2. \/ posted = <<yes>> /\ g <= retried.acknowledgedGeneration
        \/ posted = <<no>>
        \/ posted = <<>>
    BY DEF AnswersAtOnce, FlushResolves, FlushRejects
  <2> HIDE DEF yes, no
  <2>3. /\ <<yes>> \in Seq(FlushMessages(MaxSaves)) /\ In(<<yes>>) = {yes}
        /\ <<no>> \in Seq(FlushMessages(MaxSaves)) /\ In(<<no>>) = {no}
        /\ <<>> \in Seq(FlushMessages(MaxSaves)) /\ In(<<>>) = {}
    BY <2>1, InFew
  <2> HIDE DEF posted, g
  <2>4. CASE posted = <<yes>> /\ g <= retried.acknowledgedGeneration
    BY <1>4, <1>9, <2>1, <2>3, <2>4
  <2>5. CASE posted = <<no>>
    BY <2>1, <2>3, <2>5
  <2>6. CASE posted = <<>>
    BY <2>3, <2>6
  <2>7. QED
    BY <2>2, <2>4, <2>5, <2>6
<1> HIDE DEF posted
<1>11. QED
  BY <1>1, <1>2, <1>5, <1>6, <1>7, <1>8, <1>10 DEF flush

\* A flush that is asked for keeps the invariant.
LEMMA HearFlushTyped ==
    ASSUME Typed, HearFlush
    PROVE  Typed'
<1> DEFINE flush == Head(toView).flush
<1>1. /\ flush \in DOMAIN flushes
      /\ asked' = sync.localGeneration /\ UNCHANGED shown
  BY FlushTurn
<1>2. PICK t, posted :
         /\ Sound(t) /\ Travels(sync, t) /\ Patient(sync, t)
         /\ \A w \in t.flushWaiters :
               \/ w \in sync.flushWaiters
               \/ w.flush = flush /\ w.generation = sync.localGeneration
         /\ posted \in Seq(FlushMessages(MaxSaves))
         /\ \A m \in In(posted) :
               /\ m.type \in {"flushComplete", "flushFailed"}
               /\ m.flush = flush
               /\ m.type = "flushComplete" =>
                     sync.localGeneration <= sync.acknowledgedGeneration
         /\ Moves(t, posted)
  BY FlushTurn
<1> HIDE DEF flush
<1>3. toView # <<>> /\ toView' = Tail(toView) /\ HostUnchanged
  BY DEF HearFlush, Hears
<1>4. toView' \in Seq(Inbox) /\ In(toView') \subseteq In(toView) /\ Once(toView', Replies)
  BY <1>3, HeardMessage
<1>5. shown' \in SaveStates /\ asked' \in Nat
  BY <1>1 DEF Typed, TypeOK, SyncStates
<1>6. \A w \in t.flushWaiters : w.flush \in DOMAIN flushes
  BY <1>1, <1>2 DEF Typed, Known
<1>7. \A m \in In(posted) : m.flush \in DOMAIN flushes
  BY <1>1, <1>2
<1>8. QED
  BY <1>2, <1>3, <1>4, <1>5, <1>6, <1>7, PatientTyped

----------------------------------------------------------------------------
(* Drafts and requests: steps of the host *)

Outcomes == {"waiting", "resolved", "rejected", "none"}

\* A message of the host joins those on their way.
LEMMA PostOne ==
    ASSUME Typed, NEW m \in Inbox, Post(<<m>>)
    PROVE  /\ toView' = Append(toView, m)
           /\ toView' \in Seq(Inbox)
           /\ In(toView') = In(toView) \cup {m}
           /\ m \notin Replies \/ In(toView) \cap Replies = {} => Once(toView', Replies)
<1>1. toView \in Seq(Inbox) /\ Once(toView, Replies)
  BY DEF Typed, TypeOK, OneEdit
<1> DEFINE one == <<m>>
<1>2. one \in Seq(Inbox) /\ In(one) = {m} /\ DOMAIN one = {1}
  BY InFew
<1>3. toView' = toView \o one
  BY DEF Post
<1>4. /\ toView \o one = Append(toView, m)
      /\ toView \o one \in Seq(Inbox)
      /\ In(toView \o one) = In(toView) \cup {m}
  BY <1>1, OneMore
<1> HIDE DEF one
<1>5. Once(one, Replies)
  BY <1>2 DEF Once
<1>6. ASSUME m \notin Replies \/ In(toView) \cap Replies = {}
      PROVE  Once(toView', Replies)
  <2>1. In(toView) \cap Replies = {} \/ In(one) \cap Replies = {}
    BY <1>2, <1>6
  <2>2. QED
    BY <1>1, <1>2, <1>3, <1>5, <2>1, OnceConcat
<1>7. QED
  BY <1>3, <1>4, <1>6

\* The host's report on a save.
LEMMA SaveStateTyped ==
    ASSUME Typed, NEW g \in Nat \ {0}, NEW phase \in Phases
    PROVE  LET m == SaveState(g, phase)
           IN  /\ m \in Inbox /\ m \notin Replies /\ IsSave(m)
               /\ m.type = "documentSaveState" /\ m.saveGeneration = g /\ m.phase = phase
<1>1. buffer.version \in Nat
  BY DEF Typed, TypeOK
<1>2. QED
  BY <1>1 DEF SaveState, Inbox, Replies, IsSave

\* The numbers of the saves.
LEMMA FlushNumbers ==
    ASSUME Typed
    PROVE  /\ flushes \in Seq(Outcomes) /\ Len(flushes) \in Nat
           /\ DOMAIN flushes = 1 .. Len(flushes)
           /\ \A f \in DOMAIN flushes : f \in Nat \ {0} /\ flushes[f] \in Outcomes
<1>1. flushes \in Seq(Outcomes)
  BY DEF Typed, TypeOK, Outcomes
<1>2. QED
  BY <1>1, LenProperties

\* The first answer to a flush counts; one that fails is reported.
LEMMA Settling ==
    ASSUME Typed, NEW flush \in DOMAIN flushes, NEW outcome \in {"resolved", "rejected"},
           SettleFlush(flush, outcome)
    PROVE  /\ flushes' \in Seq(Outcomes) /\ Len(flushes') = Len(flushes)
           /\ DOMAIN flushes' = DOMAIN flushes
           /\ toView' \in Seq(Inbox) /\ Once(toView', Replies)
           /\ \A f \in DOMAIN flushes : \/ flushes'[f] = flushes[f]
                                        \/ f = flush
           /\ \/ flushes' = flushes /\ toView' = toView
              \/ /\ flushes[flush] = "waiting" /\ flushes'[flush] = outcome
                 /\ \/ outcome = "resolved" /\ toView' = toView
                    \/ \E m \in Inbox :
                          /\ outcome = "rejected"
                          /\ m.type = "documentSaveState" /\ IsSave(m) /\ m \notin Replies
                          /\ m.saveGeneration = flush /\ m.phase = "failed"
                          /\ toView' = Append(toView, m)
                          /\ In(toView') = In(toView) \cup {m}
<1>1. /\ flushes \in Seq(Outcomes) /\ Len(flushes) \in Nat
      /\ DOMAIN flushes = 1 .. Len(flushes) /\ flush \in Nat \ {0}
  BY FlushNumbers
<1>2. toView \in Seq(Inbox) /\ Once(toView, Replies)
  BY DEF Typed, TypeOK, OneEdit
<1>3. CASE flushes[flush] # "waiting"
  <2>1. flushes' = flushes /\ toView' = toView
    BY <1>3 DEF SettleFlush
  <2>2. QED
    BY <1>1, <1>2, <2>1
<1>4. CASE flushes[flush] = "waiting"
  <2> DEFINE next == [flushes EXCEPT ![flush] = outcome]
  <2>1. /\ flushes' = next
        /\ IF outcome = "rejected" THEN Post(<<SaveState(flush, "failed")>>)
                                   ELSE UNCHANGED toView
    BY <1>4 DEF SettleFlush
  <2>2. /\ next \in Seq(Outcomes) /\ Len(next) = Len(flushes)
        /\ \A f \in DOMAIN flushes : f # flush => next[f] = flushes[f]
        /\ next[flush] = outcome /\ DOMAIN next = DOMAIN flushes
    BY <1>1, ExceptSeq DEF Outcomes
  <2> HIDE DEF next
  <2>3. CASE outcome = "rejected"
    <3> DEFINE m == SaveState(flush, "failed")
    <3>1. /\ m \in Inbox /\ m \notin Replies /\ IsSave(m)
          /\ m.type = "documentSaveState" /\ m.saveGeneration = flush /\ m.phase = "failed"
      BY <1>1, SaveStateTyped DEF Phases
    <3>2. Post(<<m>>)
      BY <2>1, <2>3
    <3> HIDE DEF m
    <3>3. /\ toView' = Append(toView, m) /\ toView' \in Seq(Inbox)
          /\ In(toView') = In(toView) \cup {m} /\ Once(toView', Replies)
      BY <3>1, <3>2, PostOne
    <3>4. QED
      BY <1>4, <2>1, <2>2, <2>3, <3>1, <3>3
  <2>4. CASE outcome = "resolved"
    BY <1>2, <1>4, <2>1, <2>2, <2>4
  <2>5. QED
    BY <2>3, <2>4
<1>5. QED
  BY <1>3, <1>4

\* The head of the webview's messages.
LEMMA ArrivedMessage ==
    ASSUME Typed, toHost # <<>>, toHost' = Tail(toHost)
    PROVE  /\ Head(toHost) \in Outbox /\ Head(toHost) \in In(toHost)
           /\ toHost' \in Seq(Outbox) /\ In(toHost') \subseteq In(toHost)
           /\ Once(toHost', Edits)
           /\ Head(toHost) \in Edits => In(toHost') \cap Edits = {}
<1>1. toHost \in Seq(Outbox) /\ Once(toHost, Edits)
  BY DEF Typed, TypeOK, OneEdit
<1>2. /\ Head(toHost) \in Outbox /\ Head(toHost) \in In(toHost)
      /\ Tail(toHost) \in Seq(Outbox) /\ In(Tail(toHost)) \subseteq In(toHost)
  BY <1>1, InTail
<1>3. /\ Once(toHost, Edits) => Once(Tail(toHost), Edits)
      /\ Once(toHost, Edits) /\ Head(toHost) \in Edits => In(Tail(toHost)) \cap Edits = {}
  BY <1>1, HeadApart
<1>4. QED
  BY <1>1, <1>2, <1>3

\* A step of the host that leaves the edit under way where it is.
LEMMA HostKeeps ==
    ASSUME Typed, UNCHANGED <<sync, queue, applied, buffer>>,
           toHost' \in Seq(Outbox), In(toHost') \subseteq In(toHost), Once(toHost', Edits),
           Once(toView', Replies), In(toView') \cap Replies \subseteq In(toView)
    PROVE  OneEdit'
<1>1. Travels(sync, sync') /\ Patient(sync, sync')
  BY SameTurn
<1>2. QED
  BY <1>1, EditsKept

\* What arrives of the webview.
Arrives(kind, outcome) ==
    /\ toHost # <<>> /\ toHost' = Tail(toHost) /\ Head(toHost).type = kind
    /\ SettleFlush(Head(toHost).flush, outcome)
    /\ UNCHANGED <<sync, shown, queue, applied, storage, chances, asked>>

ArrivesEdit ==
    /\ toHost # <<>> /\ toHost' = Tail(toHost) /\ Head(toHost).type = "edit"
    /\ queue' = Append(queue, Head(toHost).request)
    /\ UNCHANGED <<sync, shown, toView, applied, flushes, storage, chances, asked>>

\* An edit arrives, or the answer to a flush.
LEMMA ArriveCases ==
    ASSUME Arrive
    PROVE  \/ ArrivesEdit
           \/ Arrives("flushComplete", "resolved")
           \/ Arrives("flushFailed", "rejected")
BY DEF Arrive, ArrivesEdit, Arrives

\* The edit on its way joins the serial queue, which was empty.
LEMMA ArrivesEditTyped ==
    ASSUME Typed, ArrivesEdit
    PROVE  Typed'
<1> DEFINE m == Head(toHost)
<1>1. /\ toHost # <<>> /\ toHost' = Tail(toHost) /\ m.type = "edit"
      /\ queue' = Append(queue, m.request)
      /\ UNCHANGED <<sync, shown, toView, applied, flushes, buffer, saving, disk,
                     chances, asked>>
  BY DEF ArrivesEdit, storage
<1>2. /\ m \in Outbox /\ m \in In(toHost)
      /\ toHost' \in Seq(Outbox) /\ In(toHost') \subseteq In(toHost)
      /\ Once(toHost', Edits)
      /\ m \in Edits => In(toHost') \cap Edits = {}
  BY <1>1, ArrivedMessage
<1> HIDE DEF m
<1>3. m \in Edits /\ m.request \in Requests
  BY <1>1, <1>2, OutboxFields DEF Edits
<1>4. Posted
  BY <1>2, <1>3 DEF Typed, OneEdit, Idle, Posted, Queued, Replied
<1>5. queue' = <<sync.inFlight>> /\ sync.inFlight \in Requests
  BY <1>1, <1>2, <1>3, <1>4 DEF Posted
<1>6. Queued'
  BY <1>1, <1>2, <1>3, <1>4, <1>5 DEF Posted, Queued
<1>7. OneEdit'
  BY <1>1, <1>2, <1>6 DEF Typed, OneEdit
<1>8. TypeOK'
  <2>1. queue' \in Seq(Requests)
    BY <1>5
  <2>2. QED
    BY <1>1, <1>2, <2>1 DEF Typed, TypeOK
<1>9. Known'
  <2>1. Answered' \subseteq Answered
    BY <1>2 DEF Answered
  <2>2. QED
    BY <1>1, <2>1 DEF Typed, Known
<1>10. QED
  BY <1>1, <1>7, <1>8, <1>9 DEF Typed

\* The answer to a flush concerns no edit.
LEMMA ArrivesTyped ==
    ASSUME Typed, NEW kind \in {"flushComplete", "flushFailed"},
           NEW outcome \in {"resolved", "rejected"}, Arrives(kind, outcome)
    PROVE  Typed'
<1> DEFINE m == Head(toHost)
<1>1. /\ toHost # <<>> /\ toHost' = Tail(toHost) /\ m.type = kind
      /\ SettleFlush(m.flush, outcome)
      /\ UNCHANGED <<sync, shown, queue, applied, buffer, saving, disk, chances, asked>>
  BY DEF Arrives, storage
<1>2. /\ m \in Outbox /\ m \in In(toHost)
      /\ toHost' \in Seq(Outbox) /\ In(toHost') \subseteq In(toHost) /\ Once(toHost', Edits)
  BY <1>1, ArrivedMessage
<1> HIDE DEF m
<1>3. m.flush \in DOMAIN flushes
  BY <1>1, <1>2 DEF Typed, Known, Answered
<1>4. /\ flushes' \in Seq(Outcomes) /\ DOMAIN flushes' = DOMAIN flushes
      /\ toView' \in Seq(Inbox) /\ Once(toView', Replies)
      /\ \A n \in In(toView') : \/ n \in In(toView)
                                \/ n \notin Replies /\ n.type = "documentSaveState"
  BY <1>1, <1>3, Settling
<1>5. OneEdit'
  BY <1>1, <1>2, <1>4, HostKeeps
<1>6. TypeOK'
  BY <1>1, <1>2, <1>4 DEF Typed, TypeOK, Outcomes
<1>7. Known'
  <2>1. Answered' \subseteq Answered
    BY <1>2 DEF Answered
  <2>2. QED
    BY <1>1, <1>4, <2>1 DEF Typed, Known
<1>8. QED
  BY <1>1, <1>5, <1>6, <1>7 DEF Typed

\* The edit in the queue is applied or refused.
LEMMA ApplyEditTyped ==
    ASSUME Typed, ApplyEdit
    PROVE  Typed'
<1>1. /\ queue # <<>> /\ applied = "unknown"
      /\ UNCHANGED <<sync, shown, toHost, toView, queue, flushes, saving, disk, asked>>
  BY DEF ApplyEdit, webview
<1>2. Queued /\ Head(queue) = sync.inFlight
  BY <1>1 DEF Typed, OneEdit, Idle, Posted, Queued, Replied
<1>3. sync.inFlight \in Requests /\ sync.inFlight.localGeneration \in Nat
  BY <1>2, BufferAhead DEF Queued
<1>4. /\ applied' \in {"applied", "refused"}
      /\ buffer' \in [version : Nat, draft : Nat]
      /\ buffer'.draft = IF applied' = "applied" THEN sync.inFlight.localGeneration
                                                 ELSE sync.acknowledgedGeneration
      /\ chances' \in [refusals : Nat, timeouts : Nat, failures : Nat]
  <2>1. /\ buffer \in [version : Nat, draft : Nat]
        /\ chances \in [refusals : Nat, timeouts : Nat, failures : Nat]
    BY DEF Typed, TypeOK
  <2>2. CASE /\ applied' = "applied"
             /\ buffer' = [version |-> buffer.version + 1,
                           draft   |-> Head(queue).localGeneration]
             /\ UNCHANGED chances
    BY <1>2, <1>3, <2>1, <2>2
  <2>3. CASE applied' = "refused" /\ Chance("refusals") /\ UNCHANGED buffer
    BY <1>1, <1>2, <2>1, <2>3 DEF Queued, Chance
  <2>4. QED
    BY <2>2, <2>3 DEF ApplyEdit
<1>5. Queued'
  BY <1>1, <1>2, <1>4 DEF Queued
<1>6. OneEdit'
  BY <1>1, <1>5 DEF Typed, OneEdit
<1>7. TypeOK'
  BY <1>1, <1>4 DEF Typed, TypeOK
<1>8. Known'
  BY <1>1 DEF Typed, Known, Answered
<1>9. QED
  BY <1>1, <1>6, <1>7, <1>8 DEF Typed

\* The edit leaves the queue as the only answer on its way.
LEMMA AnswerEditTyped ==
    ASSUME Typed, AnswerEdit
    PROVE  /\ Typed'
           /\ \E m \in Replies : /\ toView' = Append(toView, m)
                                 /\ In(toView') = In(toView) \cup {m}
<1>1. /\ applied # "unknown" /\ applied' = "unknown" /\ queue' = Tail(queue)
      /\ Post(<<Answer(Head(queue).editId)>>)
      /\ UNCHANGED <<sync, shown, toHost, flushes, buffer, saving, disk, chances, asked>>
  BY DEF AnswerEdit, webview, storage
<1>2. Queued /\ Head(queue) = sync.inFlight /\ queue' = <<>>
  <2>1. Queued
    BY <1>1 DEF Typed, OneEdit, Idle, Posted, Queued, Replied
  <2>2. queue = <<sync.inFlight>>
    BY <2>1 DEF Queued
  <2>3. QED
    BY <1>1, <2>1, <2>2
<1> DEFINE editId == sync.inFlight.editId
           m == Answer(editId)
<1>3. editId \in Nat
  BY <1>2, BufferAhead DEF Queued, Requests
<1>4. buffer.version \in Nat /\ applied \in {"applied", "refused"}
  BY <1>1 DEF Typed, TypeOK
<1> HIDE DEF editId
<1>5. /\ m \in Inbox /\ m \in Replies
      /\ (m.type = "editAcknowledged") <=> (applied = "applied")
  BY <1>3, <1>4 DEF Answer, Inbox, Replies
<1>6. Post(<<m>>)
  BY <1>1, <1>2 DEF editId
<1> HIDE DEF m
<1>7. In(toView) \cap Replies = {}
  BY <1>2 DEF Queued
<1>8. /\ toView' = Append(toView, m) /\ toView' \in Seq(Inbox)
      /\ In(toView') = In(toView) \cup {m} /\ Once(toView', Replies)
  BY <1>5, <1>6, <1>7, PostOne
<1>9. Replied'
  BY <1>1, <1>2, <1>5, <1>7, <1>8 DEF Queued, Replied
<1>10. OneEdit'
  BY <1>1, <1>8, <1>9 DEF Typed, OneEdit
<1>11. TypeOK'
  <2>1. queue' \in Seq(Requests)
    BY <1>2
  <2>2. QED
    BY <1>1, <1>8, <2>1 DEF Typed, TypeOK
<1>12. Known'
  <2>1. m.type # "requestFlush" /\ Answered' = Answered
    BY <1>1, <1>5 DEF Replies, Answered
  <2>2. QED
    BY <1>1, <1>8, <2>1 DEF Typed, Known
<1>13. QED
  BY <1>1, <1>5, <1>8, <1>10, <1>11, <1>12 DEF Typed

\* A save begins: two messages, and a flush under the next number.
LEMMA WillSaved ==
    ASSUME Typed, WillSave
    PROVE  /\ saving.stage = "idle"
           /\ saving' = [stage |-> "preparing", draft |-> saving.draft]
           /\ UNCHANGED <<sync, shown, toHost, queue, applied, buffer, disk, chances, asked>>
           /\ flushes' \in Seq(Outcomes) /\ Len(flushes') = Len(flushes) + 1
           /\ DOMAIN flushes' = 1 .. Len(flushes) + 1
           /\ Len(flushes) + 1 \in 1 .. MaxSaves
           /\ \A f \in DOMAIN flushes : f \in DOMAIN flushes' /\ flushes'[f] = flushes[f]
           /\ flushes'[Len(flushes) + 1] = "waiting"
           /\ toView' \in Seq(Inbox) /\ Once(toView', Replies)
           /\ \E a, b \in Inbox \ Replies :
                 /\ a.type = "documentSaveState" /\ a.phase = "saving"
                 /\ a.saveGeneration = Len(flushes) + 1
                 /\ b.type = "requestFlush" /\ b.flush = Len(flushes) + 1
                 /\ toView' = Append(Append(toView, a), b)
                 /\ In(toView') = In(toView) \cup {a, b}
<1> DEFINE g == Len(flushes) + 1
           a == SaveState(g, "saving")
           b == [type |-> "requestFlush", flush |-> g]
           two == <<a, b>>
<1>1. /\ saving.stage = "idle" /\ Len(flushes) < MaxSaves
      /\ saving' = [saving EXCEPT !.stage = "preparing"]
      /\ flushes' = Append(flushes, "waiting")
      /\ toView' = toView \o two
      /\ UNCHANGED <<sync, shown, toHost, queue, applied, buffer, disk, chances, asked>>
  BY DEF WillSave, webview, Post, saveGeneration
<1>2. /\ flushes \in Seq(Outcomes) /\ Len(flushes) \in Nat
      /\ DOMAIN flushes = 1 .. Len(flushes)
  BY FlushNumbers
<1>3. g \in 1 .. MaxSaves /\ g \in Nat \ {0}
  BY <1>1, <1>2, StartAssumption
<1>4. /\ flushes' \in Seq(Outcomes) /\ Len(flushes') = g
      /\ \A f \in 1 .. Len(flushes) : flushes'[f] = flushes[f]
      /\ flushes'[g] = "waiting"
  BY <1>1, <1>2, AppendProperties DEF Outcomes
<1>5. /\ DOMAIN flushes' = 1 .. g
      /\ \A f \in DOMAIN flushes : f \in DOMAIN flushes' /\ flushes'[f] = flushes[f]
  BY <1>2, <1>4, LenProperties
<1>6. saving' = [stage |-> "preparing", draft |-> saving.draft]
  BY <1>1 DEF Typed, TypeOK
<1>7. /\ a \in Inbox \ Replies
      /\ a.type = "documentSaveState" /\ a.phase = "saving" /\ a.saveGeneration = g
  BY <1>3, SaveStateTyped DEF Phases
<1>8. /\ b \in Inbox \ Replies
      /\ b.type = "requestFlush" /\ b.flush = g
  BY <1>3 DEF Inbox, Replies
<1>9. toView \in Seq(Inbox) /\ Once(toView, Replies)
  BY DEF Typed, TypeOK, OneEdit
<1> HIDE DEF a, b
<1>10. /\ toView \o two = Append(Append(toView, a), b)
       /\ toView \o two \in Seq(Inbox)
       /\ In(toView \o two) = In(toView) \cup {a, b}
  BY <1>7, <1>8, <1>9, TwoMore
<1>11. Once(toView', Replies)
  <2> DEFINE first == Append(toView, a)
             one == <<a>>
             other == <<b>>
  <2>1. /\ one \in Seq(Inbox) /\ In(one) = {a} /\ DOMAIN one = {1}
        /\ other \in Seq(Inbox) /\ In(other) = {b} /\ DOMAIN other = {1}
    <3>1. a \in Inbox /\ b \in Inbox
      BY <1>7, <1>8
    <3>2. one \in Seq(Inbox) /\ In(one) = {a} /\ other \in Seq(Inbox) /\ In(other) = {b}
      BY <3>1, InFew
    <3>3. DOMAIN one = {1} /\ DOMAIN other = {1}
      OBVIOUS
    <3>4. QED
      BY <3>2, <3>3
  <2> HIDE DEF one, other
  <2>2. Once(one, Replies) /\ Once(other, Replies)
    BY <2>1 DEF Once
  <2>3. In(one) \cap Replies = {} /\ In(other) \cap Replies = {}
    BY <1>7, <1>8, <2>1
  <2>4. first = toView \o one /\ first \in Seq(Inbox)
    BY <1>7, <1>9, OneMore DEF one
  <2>5. Once(first, Replies)
    BY <1>9, <2>1, <2>2, <2>3, <2>4, OnceConcat
  <2> HIDE DEF first
  <2>6. Append(first, b) = first \o other
    BY <1>8, <2>4, OneMore DEF other
  <2>7. Once(first \o other, Replies)
    BY <2>1, <2>2, <2>3, <2>4, <2>5, OnceConcat
  <2>8. QED
    BY <1>1, <1>10, <2>6, <2>7 DEF first
<1> HIDE DEF two, g
<1>12. /\ toView' \in Seq(Inbox)
       /\ toView' = Append(Append(toView, a), b)
       /\ In(toView') = In(toView) \cup {a, b}
  BY <1>1, <1>10
<1>13. QED
  BY <1>1, <1>3, <1>4, <1>5, <1>6, <1>7, <1>8, <1>11, <1>12 DEF g

\* The beginning of a save concerns no edit.
LEMMA WillSaveTyped ==
    ASSUME Typed, WillSave
    PROVE  Typed'
<1>1. /\ saving' = [stage |-> "preparing", draft |-> saving.draft]
      /\ UNCHANGED <<sync, shown, toHost, queue, applied, buffer, disk, chances, asked>>
      /\ flushes' \in Seq(Outcomes)
      /\ DOMAIN flushes' = 1 .. Len(flushes) + 1
      /\ Len(flushes) + 1 \in 1 .. MaxSaves
      /\ \A f \in DOMAIN flushes : f \in DOMAIN flushes'
      /\ toView' \in Seq(Inbox) /\ Once(toView', Replies)
  BY WillSaved
<1>2. PICK a \in Inbox \ Replies, b \in Inbox \ Replies :
         /\ a.type = "documentSaveState"
         /\ b.type = "requestFlush" /\ b.flush = Len(flushes) + 1
         /\ In(toView') = In(toView) \cup {a, b}
  BY WillSaved
<1>3. OneEdit'
  <2>1. toHost' \in Seq(Outbox) /\ Once(toHost', Edits)
    BY <1>1 DEF Typed, TypeOK, OneEdit
  <2>2. QED
    BY <1>1, <1>2, <2>1, HostKeeps
<1>4. TypeOK'
  BY <1>1 DEF Typed, TypeOK, Outcomes
<1>5. Known'
  <2>1. Answered' = Answered
    BY <1>1 DEF Answered
  <2>2. Len(flushes) + 1 \in DOMAIN flushes'
    BY <1>1
  <2>3. QED
    BY <1>1, <1>2, <2>1, <2>2 DEF Typed, Known
<1>6. QED
  BY <1>1, <1>3, <1>4, <1>5 DEF Typed

\* A flush that times out concerns no edit.
LEMMA FlushTimesOutTyped ==
    ASSUME Typed, FlushTimesOut
    PROVE  Typed'
<1>1. PICK flush \in DOMAIN flushes : SettleFlush(flush, "rejected")
  BY DEF FlushTimesOut
<1>2. UNCHANGED <<sync, shown, toHost, queue, applied, buffer, saving, disk, asked>>
  BY DEF FlushTimesOut, webview, storage
<1>3. /\ flushes' \in Seq(Outcomes) /\ DOMAIN flushes' = DOMAIN flushes
      /\ toView' \in Seq(Inbox) /\ Once(toView', Replies)
      /\ \A n \in In(toView') : \/ n \in In(toView)
                                \/ n \notin Replies /\ n.type = "documentSaveState"
  BY <1>1, Settling
<1>4. chances' \in [refusals : Nat, timeouts : Nat, failures : Nat]
  <2>1. chances \in [refusals : Nat, timeouts : Nat, failures : Nat]
    BY DEF Typed, TypeOK
  <2>2. chances.timeouts > 0 /\ chances' = [chances EXCEPT !.timeouts = @ - 1]
    BY DEF FlushTimesOut, Chance
  <2>3. QED
    BY <2>1, <2>2
<1>5. OneEdit'
  <2>1. toHost' \in Seq(Outbox) /\ Once(toHost', Edits)
    BY <1>2 DEF Typed, TypeOK, OneEdit
  <2>2. QED
    BY <1>2, <1>3, <2>1, HostKeeps
<1>6. TypeOK'
  BY <1>2, <1>3, <1>4 DEF Typed, TypeOK, Outcomes
<1>7. Known'
  <2>1. Answered' = Answered
    BY <1>2 DEF Answered
  <2>2. QED
    BY <1>2, <1>3, <2>1 DEF Typed, Known
<1>8. QED
  BY <1>2, <1>5, <1>6, <1>7 DEF Typed

\* A save ends: the first of all may be one that no participant saw.
LEMMA DidSaved ==
    ASSUME Typed, DidSave
    PROVE  /\ saving.stage = "writing"
           /\ saving' = [stage |-> "idle", draft |-> saving.draft]
           /\ disk' = saving.draft
           /\ UNCHANGED <<sync, shown, toHost, queue, applied, buffer, chances, asked>>
           /\ flushes' \in Seq(Outcomes)
           /\ \/ flushes' = flushes
              \/ DOMAIN flushes = {} /\ DOMAIN flushes' = {1} /\ flushes'[1] = "none"
           /\ Len(flushes') \in DOMAIN flushes' /\ Len(flushes') \in Nat \ {0}
           /\ DOMAIN flushes' = 1 .. Len(flushes')
           /\ toView' \in Seq(Inbox) /\ Once(toView', Replies)
           /\ \E m \in Inbox \ Replies :
                 /\ m.type = "documentSaveState" /\ m.phase = "saved"
                 /\ m.saveGeneration = Len(flushes')
                 /\ toView' = Append(toView, m)
                 /\ In(toView') = In(toView) \cup {m}
<1> DEFINE g == Len(flushes')
           m == SaveState(g, "saved")
<1>1. /\ saving.stage = "writing"
      /\ saving' = [saving EXCEPT !.stage = "idle"]
      /\ disk' = saving.draft
      /\ flushes' = IF Len(flushes) = 0 THEN <<"none">> ELSE flushes
      /\ Post(<<m>>)
      /\ UNCHANGED <<sync, shown, toHost, queue, applied, buffer, chances, asked>>
  BY DEF DidSave, webview, saveGeneration
<1>2. /\ flushes \in Seq(Outcomes) /\ Len(flushes) \in Nat
      /\ DOMAIN flushes = 1 .. Len(flushes)
  BY FlushNumbers
<1>3. /\ flushes' \in Seq(Outcomes)
      /\ \/ flushes' = flushes /\ g # 0
         \/ DOMAIN flushes = {} /\ DOMAIN flushes' = {1} /\ g = 1 /\ flushes'[1] = "none"
  <2>1. CASE Len(flushes) = 0
    <3>1. flushes' = <<"none">>
      BY <1>1, <2>1
    <3>2. flushes' \in Seq(Outcomes) /\ DOMAIN flushes' = {1} /\ g = 1 /\ flushes'[1] = "none"
      BY <3>1 DEF Outcomes
    <3>3. QED
      BY <1>2, <2>1, <3>2
  <2>2. CASE Len(flushes) # 0
    BY <1>1, <1>2, <2>2
  <2>3. QED
    BY <2>1, <2>2
<1>4. g \in Nat /\ DOMAIN flushes' = 1 .. g
  BY <1>3, LenProperties
<1>5. g \in DOMAIN flushes' /\ g \in Nat \ {0}
  BY <1>3, <1>4
<1>6. saving' = [stage |-> "idle", draft |-> saving.draft]
  BY <1>1 DEF Typed, TypeOK
<1> HIDE DEF g
<1>7. /\ m \in Inbox \ Replies
      /\ m.type = "documentSaveState" /\ m.phase = "saved" /\ m.saveGeneration = g
  BY <1>5, SaveStateTyped DEF Phases
<1> HIDE DEF m
<1>8. /\ toView' = Append(toView, m) /\ toView' \in Seq(Inbox)
      /\ In(toView') = In(toView) \cup {m} /\ Once(toView', Replies)
  BY <1>1, <1>7, PostOne
<1>9. QED
  BY <1>1, <1>3, <1>4, <1>5, <1>6, <1>7, <1>8 DEF g

\* The end of a save concerns no edit.
LEMMA DidSaveTyped ==
    ASSUME Typed, DidSave
    PROVE  Typed'
<1>1. /\ saving' = [stage |-> "idle", draft |-> saving.draft]
      /\ disk' = saving.draft
      /\ UNCHANGED <<sync, shown, toHost, queue, applied, buffer, chances, asked>>
      /\ flushes' \in Seq(Outcomes)
      /\ flushes' = flushes \/ DOMAIN flushes = {}
      /\ toView' \in Seq(Inbox) /\ Once(toView', Replies)
  BY DidSaved
<1>2. PICK m \in Inbox \ Replies :
         m.type = "documentSaveState" /\ In(toView') = In(toView) \cup {m}
  BY DidSaved
<1>3. OneEdit'
  <2>1. toHost' \in Seq(Outbox) /\ Once(toHost', Edits)
    BY <1>1 DEF Typed, TypeOK, OneEdit
  <2>2. QED
    BY <1>1, <1>2, <2>1, HostKeeps
<1>4. TypeOK'
  BY <1>1 DEF Typed, TypeOK, Outcomes
<1>5. Known'
  <2>1. Answered' = Answered
    BY <1>1 DEF Answered
  <2>2. QED
    BY <1>1, <1>2, <2>1 DEF Typed, Known
<1>6. QED
  BY <1>1, <1>3, <1>4, <1>5 DEF Typed

----------------------------------------------------------------------------
(* Drafts and requests: VS Code, and every step *)

\* What VS Code does between a save's beginning and its end.
VSCode == StartWrite \/ StartWriteWithoutParticipants \/ WriteFails

\* They leave all but the save alone.
LEMMA VSCodeSteps ==
    ASSUME Typed, VSCode
    PROVE  /\ UNCHANGED <<sync, shown, toHost, toView, queue, applied, flushes, buffer,
                          disk, asked>>
           /\ \/ /\ saving' = [stage |-> "writing", draft |-> buffer.draft]
                 /\ \/ saving.stage = "preparing" /\ flushes[Len(flushes)] # "waiting"
                    \/ saving.stage = "idle"
              \/ saving' = [stage |-> "idle", draft |-> saving.draft]
                 /\ saving.stage = "writing"
           /\ chances' \in [refusals : Nat, timeouts : Nat, failures : Nat]
<1>1. /\ chances \in [refusals : Nat, timeouts : Nat, failures : Nat]
      /\ saving \in [stage : {"idle", "preparing", "writing"}, draft : Nat]
  BY DEF Typed, TypeOK
<1>2. UNCHANGED <<sync, shown, toHost, toView, queue, applied, flushes, buffer, disk, asked>>
  BY DEF VSCode, StartWrite, StartWriteWithoutParticipants, WriteFails, HostIdle, webview
<1>3. \/ saving' = Writing /\ UNCHANGED chances
         /\ \/ saving.stage = "preparing" /\ flushes[Len(flushes)] # "waiting"
            \/ saving.stage = "idle"
      \/ saving' = [saving EXCEPT !.stage = "idle"] /\ Chance("failures")
         /\ saving.stage = "writing"
  BY DEF VSCode, StartWrite, StartWriteWithoutParticipants, WriteFails, saveGeneration
<1>4. QED
  BY <1>1, <1>2, <1>3 DEF Writing, Chance

\* They concern no edit.
LEMMA VSCodeTyped ==
    ASSUME Typed, VSCode
    PROVE  Typed'
<1>1. /\ UNCHANGED <<sync, shown, toHost, toView, queue, applied, flushes, buffer,
                     disk, asked>>
      /\ \/ saving' = [stage |-> "writing", draft |-> buffer.draft]
         \/ saving' = [stage |-> "idle", draft |-> saving.draft]
      /\ chances' \in [refusals : Nat, timeouts : Nat, failures : Nat]
  BY VSCodeSteps
<1>2. OneEdit'
  BY <1>1 DEF Typed, OneEdit, Idle, Posted, Queued, Replied
<1>3. TypeOK'
  BY <1>1 DEF Typed, TypeOK
<1>4. Known'
  BY <1>1 DEF Typed, Known, Answered
<1>5. QED
  BY <1>1, <1>2, <1>3, <1>4 DEF Typed

\* The session opens with nothing under way.
LEMMA InitTyped ==
    ASSUME Init
    PROVE  Typed
<1> DEFINE s == Created(1)
<1>1. sync = AdoptReplacement(s, 1, Start, TRUE)
  BY DEF Init
<1>2. Sound(s)
  BY DEF Created, Sound, Consistent, Awake, Numbered, Held, WaitersOpen, SyncStates
<1>3. s.localGeneration = 0 /\ s.inFlight = Null /\ s.flushWaiters = {}
  BY DEF Created
<1>4. Sound(sync) /\ sync.flushWaiters \subseteq s.flushWaiters
  BY <1>1, <1>2, AdoptSound, StartAssumption DEF Advances
<1>5. sync.inFlight = Null /\ sync.acknowledgedGeneration = s.localGeneration
  BY <1>1, <1>2 DEF AdoptReplacement, SettleFlushWaiters, Sound, Consistent, SyncStates
<1> HIDE DEF s
<1>6. /\ toHost = <<>> /\ toView = <<>> /\ queue = <<>> /\ applied = "unknown"
      /\ flushes = <<>> /\ buffer = [version |-> 1, draft |-> 0]
  BY DEF Init
<1>7. In(toHost) = {} /\ In(toView) = {} /\ DOMAIN toHost = {} /\ DOMAIN toView = {}
  <2>1. In(toHost) = {} /\ In(toView) = {}
    BY <1>6, InFew
  <2>2. DOMAIN toHost = {} /\ DOMAIN toView = {}
    BY <1>6
  <2>3. QED
    BY <2>1, <2>2
<1>8. TypeOK
  <2>1. shown \in SaveStates
    BY DEF Init, CreateHostDocumentSaveState, SaveStates, Phases
  <2>2. /\ toHost \in Seq(Outbox) /\ toView \in Seq(Inbox) /\ queue \in Seq(Requests)
        /\ flushes \in Seq({"waiting", "resolved", "rejected", "none"})
    BY <1>6
  <2>3. /\ buffer \in [version : Nat, draft : Nat]
        /\ saving \in [stage : {"idle", "preparing", "writing"}, draft : Nat]
        /\ chances \in [refusals : Nat, timeouts : Nat, failures : Nat]
        /\ disk \in Nat /\ asked \in Nat
        /\ applied \in {"unknown", "applied", "refused"}
    BY StartAssumption DEF Init
  <2>4. QED
    BY <1>4, <2>1, <2>2, <2>3 DEF TypeOK, Sound, Consistent
<1>9. Idle
  BY <1>3, <1>5, <1>6, <1>7 DEF Idle
<1>10. OneEdit
  BY <1>7, <1>9 DEF OneEdit, Once
<1>11. Known
  BY <1>3, <1>4, <1>7 DEF Known, Answered
<1>12. QED
  BY <1>4, <1>8, <1>10, <1>11 DEF Typed

\* Every step keeps the first invariant.
LEMMA NextTyped ==
    ASSUME Typed, [Next]_vars
    PROVE  Typed'
<1>1. CASE Submit
  BY <1>1, SubmitTyped
<1>2. CASE RetrySync
  BY <1>2, RetrySyncTyped
<1>3. CASE Hear
  BY <1>3, HearAcknowledgementTyped, HearRejectionTyped, HearSaveStateTyped, HearFlushTyped
     DEF Hear
<1>4. CASE Arrive
  BY <1>4, ArriveCases, ArrivesEditTyped, ArrivesTyped
<1>5. CASE ApplyEdit
  BY <1>5, ApplyEditTyped
<1>6. CASE AnswerEdit
  BY <1>6, AnswerEditTyped
<1>7. CASE WillSave
  BY <1>7, WillSaveTyped
<1>8. CASE FlushTimesOut
  BY <1>8, FlushTimesOutTyped
<1>9. CASE DidSave
  BY <1>9, DidSaveTyped
<1>10. CASE VSCode
  BY <1>10, VSCodeTyped
<1>11. CASE UNCHANGED vars
  <2>1. UNCHANGED <<sync, shown, toHost, toView, queue, applied, flushes, buffer,
                    saving, disk, chances, asked>>
    BY <1>11 DEF vars
  <2>2. QED
    BY <2>1 DEF Typed, TypeOK, OneEdit, Idle, Posted, Queued, Replied, Known, Answered
<1>12. QED
  BY <1>1, <1>2, <1>3, <1>4, <1>5, <1>6, <1>7, <1>8, <1>9, <1>10, <1>11 DEF Next, VSCode

\* The types of the save lifecycle, and with them: one edit is under way at a
\* time, from the coordinator's request in flight through the serial queue to the
\* host's answer, and the text document holds what is confirmed, or what will be.
THEOREM TypeCorrect == Spec => []TypeOK
<1>1. Spec => []Typed
  BY InitTyped, NextTyped, PTL DEF Spec
<1>2. Typed => TypeOK
  BY DEF Typed
<1>3. QED
  BY <1>1, <1>2, PTL

----------------------------------------------------------------------------
(* Failed flushes: the invariant *)

\* Only the flush of the save being prepared is undecided, and only a first save
\* has none.
Settled ==
    \A f \in DOMAIN flushes :
       /\ flushes[f] = "waiting" => f = Len(flushes) /\ saving.stage = "preparing"
       /\ flushes[f] = "none" => f = 1

\* What the host reports of a save is so.
Truthful(m) ==
    /\ m.saveGeneration \in DOMAIN flushes /\ m.phase # "dirty"
    /\ m.phase = "saved" => flushes[m.saveGeneration] # "waiting"
    /\ m.phase = "failed" => flushes[m.saveGeneration] = "rejected"

Reported == \A m \in In(toView) : m.type = "documentSaveState" => Truthful(m)

\* What is shown was reported; a save shown as saved has nothing more to report.
Status ==
    /\ shown.saveGeneration # 0 => shown.saveGeneration \in DOMAIN flushes
    /\ shown.phase = "saved" =>
          /\ shown.saveGeneration # 0 => flushes[shown.saveGeneration] # "waiting"
          /\ \A m \in In(toView) : IsSave(m) => Rank(m) >= 4 * shown.saveGeneration + 3

Says(m, g, phase) ==
    m.type = "documentSaveState" /\ m.saveGeneration = g /\ m.phase = phase

\* A flush that failed is shown, was shown, or is about to be.
Rejected ==
    \A f \in DOMAIN flushes : flushes[f] = "rejected" =>
       \/ shown.saveGeneration > f
       \/ shown.saveGeneration = f /\ shown.phase \in {"failed", "dirty"}
       \/ \E m \in In(toView) : Says(m, f, "failed")

\* The second inductive invariant.
Saves == Settled /\ Orderly(toView) /\ Reported /\ Status /\ Rejected

\* What a report that still comes says of the save that is shown.
LEMMA SaidRank ==
    ASSUME Typed, NEW m \in In(toView), m.type = "documentSaveState"
    PROVE  /\ m \in Inbox /\ IsSave(m)
           /\ m.saveGeneration \in Nat \ {0} /\ m.phase \in Phases
           /\ Rank(m) = 4 * m.saveGeneration
                        + (IF m.phase = "saving" THEN 0
                           ELSE IF m.phase = "failed" THEN 2 ELSE 3)
<1>1. m \in Inbox
  BY InTyped DEF Typed, TypeOK
<1>2. QED
  BY <1>1, InboxFields DEF IsSave, Rank, Generation, Stage

\* A step that says nothing new of a save, and shows at most that the document
\* has changed.
LEMMA SavesKept ==
    ASSUME Typed, Saves, flushes' = flushes, Settled', Orderly(toView'),
           \A m \in In(toView') : IsSave(m) => m \in In(toView),
           \A m \in In(toView) : m.type = "documentSaveState" => m \in In(toView'),
           \/ shown' = shown
           \/ /\ shown'.saveGeneration = shown.saveGeneration
              /\ shown'.phase = IF shown.phase = "saving" THEN "saving" ELSE "dirty"
    PROVE  Saves'
<1>1. Reported'
  BY DEF Saves, Reported, Truthful, IsSave
<1>2. Status'
  BY DEF Saves, Status
<1>3. Rejected'
  BY DEF Saves, Rejected, Says
<1>4. QED
  BY <1>1, <1>2, <1>3 DEF Saves

\* The same where no message is sent or heard.
LEMMA SavesStill ==
    ASSUME Typed, Saves, UNCHANGED <<flushes, toView, shown>>, Settled'
    PROVE  Saves'
<1>1. Orderly(toView')
  BY DEF Saves
<1>2. QED
  BY <1>1, SavesKept

\* The same where one message is heard that reports no save.
LEMMA SavesHeard ==
    ASSUME Typed, Saves, UNCHANGED <<flushes, saving>>,
           toView # <<>>, toView' = Tail(toView), Head(toView).type # "documentSaveState",
           \/ shown' = shown
           \/ /\ shown'.saveGeneration = shown.saveGeneration
              /\ shown'.phase = IF shown.phase = "saving" THEN "saving" ELSE "dirty"
    PROVE  Saves'
<1>1. toView \in Seq(Inbox)
  BY DEF Typed, TypeOK
<1>2. Orderly(toView')
  BY <1>1, OrderlyTail DEF Saves
<1>3. /\ In(toView') \subseteq In(toView)
      /\ \A m \in In(toView) : m = Head(toView) \/ m \in In(toView')
  BY HeardMessage
<1>4. Settled'
  BY DEF Saves, Settled
<1>5. QED
  BY <1>2, <1>3, <1>4, SavesKept

\* A report is heard.
LEMMA HearSaveStateSaves ==
    ASSUME Typed, Saves, HearSaveState
    PROVE  Saves'
<1> DEFINE m == Head(toView)
<1>1. /\ toView # <<>> /\ m.type = "documentSaveState" /\ toView' = Tail(toView)
      /\ UNCHANGED <<flushes, saving>>
      /\ shown' = ObserveDocumentSaveState(shown, m)
  BY DEF HearSaveState, Hears, HostUnchanged, storage
<1>2. /\ m \in In(toView) /\ In(toView') \subseteq In(toView)
      /\ \A n \in In(toView) : n = m \/ n \in In(toView')
  BY <1>1, HeardMessage
<1>3. toView \in Seq(Inbox) /\ shown \in SaveStates
  BY DEF Typed, TypeOK
<1>4. Orderly(toView') /\ \A n \in In(toView') : Ordered(m, n)
  BY <1>1, <1>3, OrderlyTail DEF Saves
<1> HIDE DEF m
<1>5. /\ m \in Inbox /\ IsSave(m)
      /\ m.saveGeneration \in Nat \ {0} /\ m.phase \in Phases
      /\ Rank(m) = 4 * m.saveGeneration
                   + (IF m.phase = "saving" THEN 0 ELSE IF m.phase = "failed" THEN 2 ELSE 3)
  BY <1>1, <1>2, SaidRank
<1>6. Truthful(m)
  BY <1>1, <1>2 DEF Saves, Reported
<1>7. Settled'
  BY <1>1 DEF Saves, Settled
<1>8. Reported'
  BY <1>1, <1>2 DEF Saves, Reported, Truthful
<1>9. CASE ~Observes(shown, m)
  <2>1. shown' = shown
    BY <1>1, <1>9 DEF ObserveDocumentSaveState
  <2>2. Status'
    BY <1>1, <1>2, <2>1 DEF Saves, Status
  <2>3. Rejected'
    <3> SUFFICES ASSUME NEW f \in DOMAIN flushes, flushes[f] = "rejected"
                 PROVE  \/ shown.saveGeneration > f
                        \/ shown.saveGeneration = f /\ shown.phase \in {"failed", "dirty"}
                        \/ \E n \in In(toView') : Says(n, f, "failed")
      BY <1>1, <2>1 DEF Rejected
    <3>1. CASE Says(m, f, "failed")
      <4>1. shown.phase = "saved" => Rank(m) >= 4 * shown.saveGeneration + 3
        BY <1>2, <1>5 DEF Saves, Status
      <4>2. m.saveGeneration = f /\ m.phase = "failed" /\ Rank(m) = 4 * f + 2
        BY <1>5, <3>1 DEF Says
      <4>3. f \in Nat /\ shown.saveGeneration \in Nat /\ shown.phase \in Phases
        BY <1>3, <1>5, <4>2 DEF SaveStates
      <4>4. \/ shown.saveGeneration > f
            \/ shown.saveGeneration = f /\ shown.phase # "saving"
        BY <1>9, <4>2, <4>3 DEF Observes, IsTerminal
      <4>5. shown.saveGeneration = f => shown.phase # "saved"
        BY <4>1, <4>2, <4>3
      <4>6. QED
        BY <4>3, <4>4, <4>5 DEF Phases
    <3>2. CASE ~Says(m, f, "failed")
      BY <1>2, <3>2 DEF Saves, Rejected
    <3>3. QED
      BY <3>1, <3>2
  <2>4. QED
    BY <1>4, <1>7, <1>8, <2>2, <2>3 DEF Saves
<1>10. CASE Observes(shown, m)
  <2>1. shown'.saveGeneration = m.saveGeneration /\ shown'.phase = m.phase
    BY <1>1, <1>10 DEF ObserveDocumentSaveState
  <2>2. Status'
    <3>1. m.saveGeneration \in DOMAIN flushes
      BY <1>6 DEF Truthful
    <3>2. ASSUME m.phase = "saved"
          PROVE  /\ flushes[m.saveGeneration] # "waiting"
                 /\ \A n \in In(toView') : IsSave(n) => Rank(n) >= 4 * m.saveGeneration + 3
      <4>1. flushes[m.saveGeneration] # "waiting"
        BY <1>6, <3>2 DEF Truthful
      <4>2. ASSUME NEW n \in In(toView'), IsSave(n)
            PROVE  Rank(n) >= 4 * m.saveGeneration + 3
        <5>1. n \in Inbox
          BY <1>2, <1>3, InTyped
        <5>2. Rank(n) \in Nat
          BY <4>2, <5>1, RankTyped
        <5>3. Rank(m) < Rank(n) \/ Rank(m) = Rank(n)
          BY <1>4, <1>5, <4>2 DEF Ordered
        <5>4. QED
          BY <1>5, <3>2, <5>2, <5>3
      <4>3. QED
        BY <4>1, <4>2
    <3>3. QED
      BY <1>1, <2>1, <3>1, <3>2 DEF Status
  <2>3. Rejected'
    <3> SUFFICES ASSUME NEW f \in DOMAIN flushes, flushes[f] = "rejected"
                 PROVE  \/ m.saveGeneration > f
                        \/ m.saveGeneration = f /\ m.phase \in {"failed", "dirty"}
                        \/ \E n \in In(toView') : Says(n, f, "failed")
      BY <1>1, <2>1 DEF Rejected
    <3>1. /\ f \in Nat /\ shown.saveGeneration \in Nat /\ m.saveGeneration \in Nat
          /\ m.phase # "dirty"
      BY <1>3, <1>5, <1>6, FlushNumbers DEF SaveStates, Truthful
    <3>2. CASE shown.saveGeneration > f
      BY <1>10, <3>1, <3>2 DEF Observes
    <3>3. CASE shown.saveGeneration = f /\ shown.phase \in {"failed", "dirty"}
      BY <1>10, <3>1, <3>3 DEF Observes, IsTerminal
    <3>4. CASE \E n \in In(toView) : Says(n, f, "failed")
      BY <1>2, <3>4 DEF Says
    <3>5. QED
      BY <3>2, <3>3, <3>4 DEF Saves, Rejected
  <2>4. QED
    BY <1>4, <1>7, <1>8, <2>2, <2>3 DEF Saves
<1>11. QED
  BY <1>9, <1>10

\* A flush is settled: where it failed, the report is new, and the save was not
\* reported as over.
LEMMA SettlingSaves ==
    ASSUME Typed, Saves, NEW flush \in DOMAIN flushes,
           NEW outcome \in {"resolved", "rejected"}, SettleFlush(flush, outcome),
           UNCHANGED <<shown, saving>>
    PROVE  Saves'
<1>1. /\ Len(flushes') = Len(flushes) /\ DOMAIN flushes' = DOMAIN flushes
      /\ toView' \in Seq(Inbox) /\ toView \in Seq(Inbox)
      /\ \A f \in DOMAIN flushes : flushes'[f] = flushes[f] \/ f = flush
  BY Settling DEF Typed, TypeOK
<1>2. \/ flushes' = flushes /\ toView' = toView
      \/ /\ flushes[flush] = "waiting" /\ flushes'[flush] = outcome
         /\ \/ outcome = "resolved" /\ toView' = toView
            \/ \E m \in Inbox :
                  /\ outcome = "rejected"
                  /\ m.type = "documentSaveState" /\ IsSave(m) /\ m \notin Replies
                  /\ m.saveGeneration = flush /\ m.phase = "failed"
                  /\ toView' = Append(toView, m)
                  /\ In(toView') = In(toView) \cup {m}
  BY Settling
<1>3. CASE flushes' = flushes /\ toView' = toView
  <2>1. Settled'
    BY <1>3 DEF Saves, Settled
  <2>2. QED
    BY <1>3, <2>1, SavesStill
<1>4. CASE flushes[flush] = "waiting" /\ flushes'[flush] = outcome
  <2>1. Settled'
    BY <1>1, <1>4 DEF Saves, Settled
  <2>2. \A m \in In(toView) : m.type = "documentSaveState" => Truthful(m) /\ Truthful(m)'
    BY <1>1, <1>4 DEF Saves, Reported, Truthful
  <2>3. /\ shown.saveGeneration # 0 => shown.saveGeneration \in DOMAIN flushes'
        /\ shown.phase = "saved" /\ shown.saveGeneration # 0 =>
              /\ flushes'[shown.saveGeneration] # "waiting"
              /\ shown.saveGeneration # flush
    BY <1>1, <1>4 DEF Saves, Status
  <2>4. CASE outcome = "resolved" /\ toView' = toView
    <3>1. Orderly(toView')
      BY <2>4 DEF Saves
    <3>2. Reported'
      BY <2>2, <2>4 DEF Reported
    <3>3. Status'
      BY <2>3, <2>4 DEF Saves, Status
    <3>4. Rejected'
      BY <1>1, <1>4, <2>4 DEF Saves, Rejected
    <3>5. QED
      BY <2>1, <3>1, <3>2, <3>3, <3>4 DEF Saves
  <2>5. ASSUME NEW m \in Inbox,
               outcome = "rejected",
               m.type = "documentSaveState", IsSave(m), m \notin Replies,
               m.saveGeneration = flush, m.phase = "failed",
               toView' = Append(toView, m),
               In(toView') = In(toView) \cup {m}
        PROVE  Saves'
    <3>1. Rank(m) = 4 * flush + 2 /\ Stage(m) = 2 /\ flush \in Nat \ {0}
      BY <2>5, InboxFields DEF Rank, Generation, Stage
    <3>2. \A y \in In(toView) : Ordered(y, m)
      <4> SUFFICES ASSUME NEW y \in In(toView), IsSave(y)
                   PROVE  Rank(y) < Rank(m)
        BY DEF Ordered
      <4>1. y \in Inbox
        BY <1>1, InTyped
      <4>2. CASE y.type = "requestFlush"
        <5>1. y.flush \in DOMAIN flushes /\ Rank(y) = 4 * y.flush + 1
          BY <4>2 DEF Typed, Known, Rank, Generation, Stage
        <5>2. flush = Len(flushes)
          BY <1>4 DEF Saves, Settled
        <5>3. y.flush \in Nat /\ y.flush <= flush
          BY <5>1, <5>2, FlushNumbers
        <5>4. QED
          BY <3>1, <5>1, <5>3
      <4>3. CASE y.type = "documentSaveState"
        <5>1. Truthful(y)
          BY <2>2, <4>3
        <5>2. y.saveGeneration \in DOMAIN flushes
          BY <5>1 DEF Truthful
        <5>3. flush = Len(flushes)
          BY <1>4 DEF Saves, Settled
        <5>4. y.saveGeneration \in Nat /\ y.saveGeneration <= flush
          BY <5>2, <5>3, FlushNumbers
        <5>5. /\ y.phase \in Phases
              /\ Rank(y) = 4 * y.saveGeneration
                           + (IF y.phase = "saving" THEN 0
                              ELSE IF y.phase = "failed" THEN 2 ELSE 3)
          BY <4>3, SaidRank
        <5>6. y.saveGeneration = flush => y.phase = "saving"
          BY <1>4, <5>1, <5>5 DEF Truthful, Phases
        <5>7. QED
          BY <3>1, <5>4, <5>5, <5>6
      <4>4. QED
        BY <4>2, <4>3 DEF IsSave
    <3>3. Orderly(toView')
      BY <1>1, <2>5, <3>2, OrderlyAppend DEF Saves
    <3>4. Reported'
      <4>1. Truthful(m)'
        BY <1>1, <1>4, <2>5 DEF Truthful
      <4>2. QED
        BY <2>2, <2>5, <4>1 DEF Reported
    <3>5. Status'
      <4>1. ASSUME shown.phase = "saved"
            PROVE  Rank(m) >= 4 * shown.saveGeneration + 3
        <5>1. shown.saveGeneration \in Nat
          BY DEF Typed, TypeOK, SaveStates
        <5>2. flush = Len(flushes)
          BY <1>4 DEF Saves, Settled
        <5>3. shown.saveGeneration < flush
          BY <1>1, <2>3, <3>1, <4>1, <5>1, <5>2, FlushNumbers
        <5>4. QED
          BY <3>1, <5>1, <5>3
      <4>2. QED
        BY <2>3, <2>5, <4>1 DEF Saves, Status
    <3>6. Rejected'
      <4>1. Says(m, flush, "failed")
        BY <2>5 DEF Says
      <4>2. QED
        BY <1>1, <2>5, <4>1 DEF Saves, Rejected
    <3>7. QED
      BY <2>1, <3>3, <3>4, <3>5, <3>6 DEF Saves
  <2>6. QED
    BY <1>2, <1>3, <1>4, <2>4, <2>5
<1>5. QED
  BY <1>2, <1>3, <1>4

\* Messages on their way belong to saves that began.
LEMMA RankBelow ==
    ASSUME Typed, Saves, NEW y \in In(toView), IsSave(y)
    PROVE  /\ y \in Inbox /\ Rank(y) \in Nat
           /\ Generation(y) \in DOMAIN flushes
           /\ Rank(y) <= 4 * Len(flushes) + 3
           /\ Rank(y) = 4 * Len(flushes) + 3 => Stage(y) = 3
<1>1. y \in Inbox
  BY InTyped DEF Typed, TypeOK
<1>2. /\ Generation(y) \in Nat \ {0} /\ Stage(y) \in 0 .. 3 /\ Rank(y) \in Nat
      /\ Rank(y) = 4 * Generation(y) + Stage(y)
  BY <1>1, RankTyped DEF Rank
<1>3. Generation(y) \in DOMAIN flushes
  BY DEF Typed, Known, Saves, Reported, Truthful, Generation, IsSave
<1>4. Generation(y) <= Len(flushes) /\ Len(flushes) \in Nat
  BY <1>3, FlushNumbers
<1>5. QED
  BY <1>1, <1>2, <1>3, <1>4

\* A save begins: its messages come after all others.
LEMMA WillSaveSaves ==
    ASSUME Typed, Saves, WillSave
    PROVE  Saves'
<1> DEFINE g == Len(flushes) + 1
<1>1. /\ saving.stage = "idle" /\ saving'.stage = "preparing"
      /\ shown' = shown
      /\ Len(flushes') = g /\ DOMAIN flushes' = 1 .. g
      /\ \A f \in DOMAIN flushes : f \in DOMAIN flushes' /\ flushes'[f] = flushes[f]
      /\ flushes'[g] = "waiting"
  BY WillSaved
<1>2. PICK a \in Inbox \ Replies, b \in Inbox \ Replies :
         /\ a.type = "documentSaveState" /\ a.phase = "saving"
         /\ a.saveGeneration = g
         /\ b.type = "requestFlush" /\ b.flush = g
         /\ toView' = Append(Append(toView, a), b)
         /\ In(toView') = In(toView) \cup {a, b}
  BY WillSaved
<1>3. /\ DOMAIN flushes = 1 .. Len(flushes) /\ Len(flushes) \in Nat
      /\ toView \in Seq(Inbox)
  BY FlushNumbers DEF Typed, TypeOK
<1>4. g \in Nat \ {0} /\ g \notin DOMAIN flushes /\ g \in DOMAIN flushes'
  BY <1>1, <1>3
<1>5. \A f \in DOMAIN flushes' : f \in DOMAIN flushes \/ f = g
  BY <1>1, <1>3
<1>6. /\ Rank(a) = 4 * g /\ Rank(b) = 4 * g + 1 /\ IsSave(a) /\ IsSave(b)
  BY <1>2, <1>4 DEF Rank, Generation, Stage, IsSave
<1>7. \A y \in In(toView) : IsSave(y) => Rank(y) \in Nat /\ Rank(y) < 4 * g
  BY <1>3, RankBelow
<1> HIDE DEF g
<1>8. Settled'
  BY <1>1, <1>5 DEF Saves, Settled
<1>9. Orderly(toView')
  <2> DEFINE first == Append(toView, a)
  <2>1. Orderly(first) /\ first \in Seq(Inbox) /\ In(first) = In(toView) \cup {a}
    <3>1. \A y \in In(toView) : Ordered(y, a)
      BY <1>6, <1>7 DEF Ordered
    <3>2. QED
      BY <1>2, <1>3, <3>1, OrderlyAppend, InAppend DEF Saves
  <2> HIDE DEF first
  <2>2. \A y \in In(first) : Ordered(y, b)
    <3> SUFFICES ASSUME NEW y \in In(first), IsSave(y)
                 PROVE  Rank(y) < Rank(b)
      BY DEF Ordered
    <3>1. CASE y = a
      BY <1>4, <1>6, <3>1
    <3>2. CASE y \in In(toView)
      BY <1>4, <1>6, <1>7, <3>2
    <3>3. QED
      BY <2>1, <3>1, <3>2
  <2>3. Orderly(Append(first, b))
    BY <1>2, <2>1, <2>2, OrderlyAppend
  <2>4. QED
    BY <1>2, <2>3 DEF first
<1>10. Reported'
  <2>1. Truthful(a)'
    BY <1>1, <1>2, <1>4 DEF Truthful
  <2>2. \A m \in In(toView) : m.type = "documentSaveState" => Truthful(m)'
    BY <1>1 DEF Saves, Reported, Truthful
  <2>3. QED
    BY <1>2, <2>1, <2>2 DEF Reported
<1>11. Status'
  <2>1. shown.saveGeneration \in Nat /\ (shown.phase = "saved" => shown.saveGeneration < g)
    BY <1>1, <1>3 DEF Saves, Status, Typed, TypeOK, SaveStates, g
  <2>2. shown.phase = "saved" => \A m \in In(toView') :
           IsSave(m) => Rank(m) >= 4 * shown.saveGeneration + 3
    BY <1>2, <1>4, <1>6, <2>1 DEF Saves, Status
  <2>3. QED
    BY <1>1, <2>2 DEF Saves, Status
<1>12. Rejected'
  BY <1>1, <1>2, <1>5 DEF Saves, Rejected
<1>13. QED
  BY <1>8, <1>9, <1>10, <1>11, <1>12 DEF Saves

\* A save ends, decided: its report comes after all others.
LEMMA DidSaveSaves ==
    ASSUME Typed, Saves, DidSave
    PROVE  Saves'
<1> DEFINE g == Len(flushes')
<1>1. /\ saving.stage = "writing" /\ saving'.stage = "idle"
      /\ shown' = shown
      /\ \/ flushes' = flushes
         \/ DOMAIN flushes = {} /\ DOMAIN flushes' = {1} /\ flushes'[1] = "none"
      /\ g \in DOMAIN flushes' /\ g \in Nat \ {0}
      /\ DOMAIN flushes' = 1 .. g
  BY DidSaved
<1>2. PICK m \in Inbox \ Replies :
         /\ m.type = "documentSaveState" /\ m.phase = "saved" /\ m.saveGeneration = g
         /\ toView' = Append(toView, m)
         /\ In(toView') = In(toView) \cup {m}
  BY DidSaved
<1>3. /\ Len(flushes) \in Nat /\ DOMAIN flushes = 1 .. Len(flushes)
      /\ toView \in Seq(Inbox)
  BY FlushNumbers DEF Typed, TypeOK
<1> HIDE DEF g
<1>4. Len(flushes) <= g
  BY <1>1, <1>3 DEF g
<1>5. IsSave(m) /\ Stage(m) = 3 /\ Rank(m) = 4 * g + 3
  BY <1>1, <1>2 DEF IsSave, Rank, Generation, Stage
<1>6. Settled'
  BY <1>1 DEF Saves, Settled
<1>7. Orderly(toView')
  <2>1. \A y \in In(toView) : Ordered(y, m)
    <3> SUFFICES ASSUME NEW y \in In(toView), IsSave(y)
                 PROVE  \/ Rank(y) < Rank(m)
                        \/ Rank(y) = Rank(m) /\ Stage(y) = 3
      BY DEF Ordered
    <3>1. /\ Rank(y) \in Nat /\ Rank(y) <= 4 * Len(flushes) + 3
          /\ Rank(y) = 4 * Len(flushes) + 3 => Stage(y) = 3
      BY RankBelow
    <3>2. QED
      BY <1>1, <1>3, <1>4, <1>5, <3>1
  <2>2. QED
    BY <1>2, <1>3, <2>1, OrderlyAppend DEF Saves
<1>8. \A f \in DOMAIN flushes : f \in DOMAIN flushes' /\ flushes'[f] = flushes[f]
  BY <1>1
<1>9. Reported'
  <2>1. Truthful(m)'
    BY <1>1, <1>2, <1>6 DEF Settled, Truthful
  <2>2. \A n \in In(toView) : n.type = "documentSaveState" => Truthful(n)'
    BY <1>8 DEF Saves, Reported, Truthful
  <2>3. QED
    BY <1>2, <2>1, <2>2 DEF Reported
<1>10. Status'
  <2>1. shown.saveGeneration \in Nat /\ shown.saveGeneration <= g
    <3>1. shown.saveGeneration \in Nat
      BY DEF Typed, TypeOK, SaveStates
    <3>2. shown.saveGeneration # 0 => shown.saveGeneration <= Len(flushes)
      BY <1>3 DEF Saves, Status
    <3>3. QED
      BY <1>1, <1>3, <1>4, <3>1, <3>2
  <2>2. shown.phase = "saved" => \A n \in In(toView') :
           IsSave(n) => Rank(n) >= 4 * shown.saveGeneration + 3
    BY <1>1, <1>2, <1>5, <2>1 DEF Saves, Status
  <2>3. QED
    BY <1>1, <1>8, <2>2 DEF Saves, Status
<1>11. Rejected'
  BY <1>1, <1>2, <1>8 DEF Saves, Rejected
<1>12. QED
  BY <1>6, <1>7, <1>9, <1>10, <1>11 DEF Saves

\* The answer to an edit says nothing of a save.
LEMMA AnswerEditSaves ==
    ASSUME Typed, Saves, AnswerEdit
    PROVE  Saves'
<1>1. PICK m \in Replies : toView' = Append(toView, m) /\ In(toView') = In(toView) \cup {m}
  BY AnswerEditTyped
<1>2. UNCHANGED <<shown, flushes, saving>>
  BY DEF AnswerEdit, webview, storage
<1>3. m \in Inbox /\ ~IsSave(m) /\ toView \in Seq(Inbox)
  BY DEF Replies, IsSave, Typed, TypeOK
<1>4. Orderly(toView')
  <2>1. \A y \in In(toView) : Ordered(y, m)
    BY <1>3 DEF Ordered
  <2>2. QED
    BY <1>1, <1>3, <2>1, OrderlyAppend DEF Saves
<1>5. Settled'
  BY <1>2 DEF Saves, Settled
<1>6. QED
  BY <1>1, <1>2, <1>3, <1>4, <1>5, SavesKept

\* A write begins when the flush is decided.
LEMMA VSCodeSaves ==
    ASSUME Typed, Saves, VSCode
    PROVE  Saves'
<1>1. /\ UNCHANGED <<shown, toView, flushes>>
      /\ \/ saving.stage = "preparing" /\ flushes[Len(flushes)] # "waiting"
         \/ saving.stage # "preparing"
  BY VSCodeSteps
<1>2. Settled'
  BY <1>1 DEF Saves, Settled
<1>3. QED
  BY <1>1, <1>2, SavesStill

\* A confirmed edit shows at most that the document has changed.
LEMMA HearAcknowledgementSaves ==
    ASSUME Typed, Saves, HearAcknowledgement
    PROVE  Saves'
<1> DEFINE m == Head(toView)
<1>1. /\ toView # <<>> /\ m.type = "editAcknowledged" /\ toView' = Tail(toView)
      /\ UNCHANGED <<flushes, saving>>
      /\ shown' = shown \/ shown' = MarkHostDocumentDirty(shown, m.revision)
  BY DEF HearAcknowledgement, Hears, HostUnchanged, storage
<1>2. shown \in SaveStates
  BY DEF Typed, TypeOK
<1> HIDE DEF m
<1>3. shown' = MarkHostDocumentDirty(shown, m.revision) =>
         /\ shown'.saveGeneration = shown.saveGeneration
         /\ shown'.phase = IF shown.phase = "saving" THEN "saving" ELSE "dirty"
  BY <1>2 DEF MarkHostDocumentDirty, SaveStates
<1>4. QED
  BY <1>1, <1>3, SavesHeard DEF m

\* No save has begun.
LEMMA InitSaves ==
    ASSUME Init
    PROVE  Saves
<1>1. flushes = <<>> /\ toView = <<>> /\ shown.saveGeneration = 0
  BY DEF Init, CreateHostDocumentSaveState
<1>2. DOMAIN flushes = {} /\ DOMAIN toView = {}
  BY <1>1
<1>3. In(toView) = {}
  BY <1>1, InFew
<1>4. QED
  BY <1>1, <1>2, <1>3 DEF Saves, Settled, Orderly, Reported, Status, Rejected

\* Every step keeps the second invariant.
LEMMA NextSaves ==
    ASSUME Typed, Saves, [Next]_vars
    PROVE  Saves'
<1>1. CASE Submit \/ RetrySync
  <2>1. UNCHANGED <<shown, toView, flushes, saving>>
    BY <1>1 DEF Submit, RetrySync, HostUnchanged, storage
  <2>2. Settled'
    BY <2>1 DEF Saves, Settled
  <2>3. QED
    BY <2>1, <2>2, SavesStill
<1>2. CASE HearRejection \/ HearFlush
  <2>1. /\ toView # <<>> /\ toView' = Tail(toView)
        /\ Head(toView).type # "documentSaveState"
        /\ UNCHANGED <<shown, flushes, saving>>
    BY <1>2 DEF HearRejection, HearFlush, Hears, HostUnchanged, storage
  <2>2. QED
    BY <2>1, SavesHeard
<1>3. CASE ArrivesEdit \/ ApplyEdit
  <2>1. UNCHANGED <<shown, toView, flushes, saving>>
    BY <1>3 DEF ArrivesEdit, ApplyEdit, webview, storage
  <2>2. Settled'
    BY <2>1 DEF Saves, Settled
  <2>3. QED
    BY <2>1, <2>2, SavesStill
<1>4. ASSUME NEW kind \in {"flushComplete", "flushFailed"},
             NEW outcome \in {"resolved", "rejected"}, Arrives(kind, outcome)
      PROVE  Saves'
  <2>1. /\ SettleFlush(Head(toHost).flush, outcome)
        /\ UNCHANGED <<shown, saving>>
        /\ Head(toHost) \in In(toHost) /\ Head(toHost).type = kind
    BY <1>4, ArrivedMessage DEF Arrives, storage
  <2>2. Head(toHost).flush \in DOMAIN flushes
    BY <2>1 DEF Typed, Known, Answered
  <2>3. QED
    BY <2>1, <2>2, SettlingSaves
<1>5. CASE FlushTimesOut
  <2>1. PICK flush \in DOMAIN flushes : SettleFlush(flush, "rejected")
    BY <1>5 DEF FlushTimesOut
  <2>2. UNCHANGED <<shown, saving>>
    BY <1>5 DEF FlushTimesOut, webview, storage
  <2>3. QED
    BY <2>1, <2>2, SettlingSaves
<1>6. CASE UNCHANGED vars
  <2>1. UNCHANGED <<shown, toView, flushes, saving>>
    BY <1>6 DEF vars
  <2>2. Settled'
    BY <2>1 DEF Saves, Settled
  <2>3. QED
    BY <2>1, <2>2, SavesStill
<1>7. CASE Arrive
  BY <1>3, <1>4, <1>7, ArriveCases
<1>8. CASE Hear
  BY <1>2, <1>8, HearAcknowledgementSaves, HearSaveStateSaves DEF Hear
<1>9. QED
  BY <1>1, <1>3, <1>5, <1>6, <1>7, <1>8, AnswerEditSaves, WillSaveSaves, DidSaveSaves,
     VSCodeSaves DEF Next, VSCode

\* A save whose flush failed or timed out is never shown as saved, although VS Code
\* goes on, writes the file and reports success for it: the report of the failure
\* is posted before that of the write, and the first terminal report of a save is
\* the one that stays.
THEOREM FailedNotSaved == Spec => []FailedFlushNotSaved
<1>1. Init => Typed /\ Saves
  BY InitTyped, InitSaves
<1>2. Typed /\ Saves /\ [Next]_vars => (Typed /\ Saves)'
  BY NextTyped, NextSaves
<1>3. Typed /\ Saves => FailedFlushNotSaved
  <2> SUFFICES ASSUME Typed, Saves, shown.phase = "saved", shown.saveGeneration # 0
               PROVE  flushes[shown.saveGeneration] \in {"resolved", "none"}
    BY DEF FailedFlushNotSaved
  <2> DEFINE g == shown.saveGeneration
  <2>1. g \in DOMAIN flushes /\ flushes[g] # "waiting"
    BY DEF Saves, Status
  <2>2. g \in Nat /\ flushes[g] \in Outcomes
    BY <2>1, FlushNumbers
  <2>3. ~\E m \in In(toView) : Says(m, g, "failed")
    <3> SUFFICES ASSUME NEW m \in In(toView), Says(m, g, "failed")
                 PROVE  FALSE
      OBVIOUS
    <3>1. IsSave(m) /\ Rank(m) = 4 * g + 2
      BY SaidRank DEF Says
    <3>2. Rank(m) >= 4 * g + 3
      BY <3>1 DEF Saves, Status
    <3>3. QED
      BY <2>2, <3>1, <3>2
  <2>4. flushes[g] # "rejected"
    BY <2>1, <2>2, <2>3 DEF Saves, Rejected
  <2>5. QED
    BY <2>1, <2>2, <2>4 DEF Outcomes
<1>4. QED
  BY <1>1, <1>2, <1>3, PTL DEF Spec

----------------------------------------------------------------------------
(* The barrier: the invariant *)

\* The webview has not heard of flush f yet.
Asked(f) == \E m \in In(toView) : m.type = "requestFlush" /\ m.flush = f

\* A flush unheard of has no answer, and the later ones are unheard of too.
Unheard ==
    \A f \in DOMAIN flushes : Asked(f) =>
       /\ flushes[f] \in {"waiting", "rejected"}
       /\ \A g \in DOMAIN flushes : g > f => Asked(g)
       /\ \A w \in sync.flushWaiters : w.flush # f
       /\ \A m \in Answered : m.flush # f

\* Who hears of a flush has heard of its save.
Announced ==
    \A f \in DOMAIN flushes : flushes[f] # "none" =>
       \/ shown.saveGeneration >= f
       \/ Asked(f) /\ \E m \in In(toView) : Says(m, f, "saving")

\* The last flush the webview has heard of: `asked` is the draft it is for.
LastHeard(f) ==
    /\ f \in DOMAIN flushes /\ flushes[f] # "none"
    /\ \A g \in DOMAIN flushes : Asked(g) <=> g > f

SavedAs(f) ==
    \/ \E m \in In(toView) : Says(m, f, "saved")
    \/ shown.saveGeneration = f /\ shown.phase = "saved"

\* From the waiter over the answer and the resolved flush to the file.
Covered(f) ==
    /\ \A w \in sync.flushWaiters : w.flush = f => w.generation = asked
    /\ \A m \in Answered : m.type = "flushComplete" /\ m.flush = f => asked <= buffer.draft
    /\ flushes[f] = "resolved" => asked <= buffer.draft
    /\ flushes[f] = "resolved" /\ SavedAs(f) => asked <= disk

\* What is written is what the buffer held, and no older than the file.
Written ==
    /\ saving.stage = "writing" /\ DOMAIN flushes # {}
          /\ flushes[Len(flushes)] = "resolved" => asked <= saving.draft
    /\ disk <= buffer.draft
    /\ saving.stage = "writing" => disk <= saving.draft /\ saving.draft <= buffer.draft

\* The third inductive invariant.
Barrier ==
    /\ Unheard /\ Announced /\ Written
    /\ asked # 0 => \E f \in DOMAIN flushes : LastHeard(f)
    /\ \A f \in DOMAIN flushes : LastHeard(f) => Covered(f)

\* Numbers compared below.
LEMMA BarrierNumbers ==
    ASSUME TypeOK
    PROVE  /\ asked \in Nat /\ disk \in Nat /\ buffer.draft \in Nat /\ saving.draft \in Nat
           /\ sync.acknowledgedGeneration \in Nat /\ sync.localGeneration \in Nat
           /\ shown.saveGeneration \in Nat
           /\ \A w \in sync.flushWaiters : w.flush \in Nat /\ w.generation \in Nat
BY DEF TypeOK, SyncStates, SaveStates, Waiters

\* The same after a step.
LEMMA BarrierNumbersNext ==
    ASSUME TypeOK'
    PROVE  /\ asked' \in Nat /\ disk' \in Nat /\ buffer'.draft \in Nat
           /\ saving'.draft \in Nat /\ sync'.acknowledgedGeneration \in Nat
           /\ shown'.saveGeneration \in Nat
BY DEF TypeOK, SyncStates, SaveStates

\* BufferAhead, after a step.
LEMMA BufferAheadNext ==
    ASSUME Typed'
    PROVE  sync'.acknowledgedGeneration <= buffer'.draft
<1>1. sync' \in SyncStates /\ buffer'.draft \in Nat
  BY DEF Typed, TypeOK
<1>2. sync'.acknowledgedGeneration \in Nat /\ sync'.inFlight \in Requests \cup {Null}
  BY <1>1 DEF SyncStates
<1>3. sync'.inFlight # Null => sync'.inFlight.localGeneration \in Nat
  BY <1>2 DEF Requests
<1>4. sync'.inFlight # Null
         => sync'.acknowledgedGeneration < sync'.inFlight.localGeneration
  BY DEF Typed, Sound, Consistent, Numbered
<1>5. \/ buffer'.draft = sync'.acknowledgedGeneration
      \/ sync'.inFlight # Null /\ buffer'.draft = sync'.inFlight.localGeneration
  BY DEF Typed, OneEdit, Idle, Posted, Queued, Replied
<1>6. QED
  BY <1>1, <1>2, <1>3, <1>4, <1>5

\* Only the newest flush can be resolved before the webview has heard of all.
LEMMA NewestHeard ==
    ASSUME Typed, Barrier, NEW f \in DOMAIN flushes, LastHeard(f),
           NEW g \in DOMAIN flushes, f <= g, flushes[g] = "resolved"
    PROVE  g = f
<1>1. ~Asked(g)
  BY DEF Barrier, Unheard
<1>2. ~(g > f)
  BY <1>1 DEF LastHeard
<1>3. QED
  BY <1>2, FlushNumbers

\* What the webview answers in a turn that is asked for no flush.
Quiet ==
    /\ sync'.flushWaiters \subseteq sync.flushWaiters
    /\ \A m \in Answered' : m \in Answered \/ Answering(m, sync')

\* A turn without a flush answers waiters of the state before, and adds none.
LEMMA QuietTurn ==
    ASSUME Typed, NEW t, Sound(t), Travels(sync, t),
           t.flushWaiters \subseteq sync.flushWaiters,
           NEW none, none = <<>>, Moves(t, none)
    PROVE  Quiet
<1>1. none \in Seq(FlushMessages(MaxSaves)) /\ In(none) = {}
  BY InFew
<1>2. /\ sync' = t
      /\ \A m \in In(toHost') :
            \/ m \in In(toHost)
            \/ m \in In(none)
            \/ m \in Edits /\ t.nextEditId # sync.nextEditId /\ m.request = t.inFlight
            \/ m \in Answered' /\ Answering(m, t)
  BY <1>1, MovesPost
<1>3. ASSUME NEW m \in Answered'
      PROVE  m \in Answered \/ Answering(m, sync')
  <2>1. m \in In(toHost') /\ m.type \in {"flushComplete", "flushFailed"}
    BY DEF Answered
  <2>2. m \notin Edits
    BY <2>1 DEF Edits
  <2>3. QED
    BY <1>1, <1>2, <2>1, <2>2 DEF Answered
<1>4. QED
  BY <1>2, <1>3 DEF Quiet

\* These are the turns in which the webview hears of no save.
LEMMA QuietSteps ==
    ASSUME Typed, Submit \/ RetrySync \/ HearAcknowledgement \/ HearRejection
    PROVE  Quiet
<1> DEFINE none == <<>>
           m == Head(toView)
<1>1. CASE Submit
  <2> DEFINE t == SubmitContent(sync, Start, TRUE)
  <2>1. Moves(t, none)
    BY <1>1 DEF Submit
  <2>2. Sound(t) /\ Travels(sync, t) /\ t.flushWaiters \subseteq sync.flushWaiters
    BY SubmitSound, SubmitKeeps, StartAssumption DEF SubmitContent, Typed, Keeps, Advances
  <2> HIDE DEF t
  <2>3. QED
    BY <2>1, <2>2, QuietTurn
<1>2. CASE RetrySync
  <2> DEFINE t == Retry(sync, Null)
  <2>1. Moves(t, none)
    BY <1>2 DEF RetrySync
  <2>2. Sound(t) /\ Travels(sync, t) /\ t.flushWaiters \subseteq sync.flushWaiters
    BY RetrySound, RetryKeeps DEF Typed, Keeps, Advances
  <2> HIDE DEF t
  <2>3. QED
    BY <2>1, <2>2, QuietTurn
<1>3. CASE HearAcknowledgement
  <2> DEFINE t == Acknowledge(sync, m)
  <2>1. toView # <<>> /\ toView' = Tail(toView) /\ m.type = "editAcknowledged" /\ Moves(t, none)
    BY <1>3 DEF HearAcknowledgement, Hears
  <2>2. m \in Inbox
    BY <2>1, HeardMessage
  <2>3. m.revision \in Nat
    BY <2>1, <2>2, InboxFields
  <2>4. Sound(t) /\ Travels(sync, t) /\ t.flushWaiters \subseteq sync.flushWaiters
    BY <2>3, AcknowledgeSound, AcknowledgeKeeps DEF Typed, Keeps, Advances
  <2> HIDE DEF t
  <2>5. QED
    BY <2>1, <2>4, QuietTurn
<1>4. CASE HearRejection
  <2> DEFINE t == Reject(sync, m)
  <2>1. toView # <<>> /\ toView' = Tail(toView) /\ m.type = "editRejected" /\ Moves(t, none)
    BY <1>4 DEF HearRejection, Hears
  <2>2. m \in Inbox
    BY <2>1, HeardMessage
  <2>3. m.revision \in Nat /\ m.code \in ErrorCodes /\ m.hostSnapshot \in Mutations \cup {Null}
    BY <2>1, <2>2, InboxFields, StartAssumption DEF ErrorCodes
  <2>4. Sound(t) /\ Travels(sync, t) /\ t.flushWaiters \subseteq sync.flushWaiters
    BY <2>3, RejectSound, RejectKeeps DEF Typed, Keeps, Advances
  <2> HIDE DEF t
  <2>5. QED
    BY <2>1, <2>4, QuietTurn
<1>5. QED
  BY <1>1, <1>2, <1>3, <1>4

\* A step that neither asks for a flush nor decides one nor writes the file.
LEMMA BarrierKept ==
    ASSUME Typed, Saves, Barrier, Typed', UNCHANGED <<flushes, asked, disk>>,
           \A f \in DOMAIN flushes : Asked(f)' <=> Asked(f),
           \A f \in DOMAIN flushes : SavedAs(f)' => SavedAs(f),
           Quiet, buffer.draft <= buffer'.draft, Announced', Written'
    PROVE  Barrier'
<1>1. Unheard'
  <2> SUFFICES ASSUME NEW f \in DOMAIN flushes, Asked(f)
               PROVE  /\ flushes[f] \in {"waiting", "rejected"}
                      /\ \A g \in DOMAIN flushes : g > f => Asked(g)'
                      /\ \A w \in sync'.flushWaiters : w.flush # f
                      /\ \A m \in Answered' : m.flush # f
    BY DEF Unheard
  <2>1. /\ flushes[f] \in {"waiting", "rejected"}
        /\ \A g \in DOMAIN flushes : g > f => Asked(g)
        /\ \A w \in sync.flushWaiters : w.flush # f
        /\ \A m \in Answered : m.flush # f
    BY DEF Barrier, Unheard
  <2>2. \A m \in Answered' : m.flush # f
    BY <2>1 DEF Quiet, Answering
  <2>3. QED
    BY <2>1, <2>2 DEF Quiet
<1>2. \A f \in DOMAIN flushes : LastHeard(f)' <=> LastHeard(f)
  BY DEF LastHeard
<1>3. ASSUME NEW f \in DOMAIN flushes, LastHeard(f)
      PROVE  Covered(f)'
  <2>1. Covered(f)
    BY <1>3 DEF Barrier
  <2>2. /\ asked \in Nat /\ buffer.draft \in Nat /\ buffer'.draft \in Nat
        /\ sync'.acknowledgedGeneration \in Nat
        /\ sync'.acknowledgedGeneration <= buffer'.draft
    BY BarrierNumbers, BarrierNumbersNext, BufferAheadNext DEF Typed
  <2>3. \A w \in sync'.flushWaiters : w.flush = f => w.generation = asked
    BY <2>1 DEF Covered, Quiet
  <2>4. ASSUME NEW m \in Answered', m.type = "flushComplete", m.flush = f
        PROVE  asked <= buffer'.draft
    <3>1. CASE m \in Answered
      <4>1. asked <= buffer.draft
        BY <2>1, <2>4, <3>1 DEF Covered
      <4>2. QED
        BY <2>2, <4>1
    <3>2. CASE Answering(m, sync')
      <4>1. PICK w \in sync.flushWaiters : /\ w.flush = f
                                           /\ w.generation <= sync'.acknowledgedGeneration
        BY <2>4, <3>2 DEF Answering
      <4>2. w.generation = asked
        BY <2>1, <4>1 DEF Covered
      <4>3. QED
        BY <2>2, <4>1, <4>2
    <3>3. QED
      BY <3>1, <3>2 DEF Quiet
  <2>5. flushes[f] = "resolved" => asked <= buffer'.draft
    BY <2>1, <2>2 DEF Covered
  <2>6. flushes[f] = "resolved" /\ SavedAs(f)' => asked <= disk
    BY <2>1 DEF Covered
  <2>7. QED
    BY <2>3, <2>4, <2>5, <2>6 DEF Covered
<1>4. QED
  BY <1>1, <1>2, <1>3 DEF Barrier

\* Nothing was said or heard of a save.
LEMMA SaidNothing ==
    ASSUME Barrier, UNCHANGED <<flushes, saving, disk, asked>>,
           \A m \in In(toView') : IsSave(m) => m \in In(toView),
           \A m \in In(toView) : IsSave(m) => m \in In(toView'),
           \/ shown' = shown
           \/ shown'.saveGeneration = shown.saveGeneration /\ shown'.phase # "saved",
           buffer' = buffer
    PROVE  /\ \A f \in DOMAIN flushes : Asked(f)' <=> Asked(f)
           /\ \A f \in DOMAIN flushes : SavedAs(f)' => SavedAs(f)
           /\ Announced' /\ Written'
<1>1. \A f \in DOMAIN flushes : Asked(f)' <=> Asked(f)
  BY DEF Asked, IsSave
<1>2. \A f \in DOMAIN flushes : SavedAs(f)' => SavedAs(f)
  BY DEF SavedAs, Says, IsSave
<1>3. Announced'
  BY <1>1 DEF Barrier, Announced, Says, IsSave
<1>4. Written'
  BY DEF Barrier, Written
<1>5. QED
  BY <1>1, <1>2, <1>3, <1>4

\* The steps that say and hear nothing of a save.
LEMMA UnsaidBarrier ==
    ASSUME Typed, Saves, Barrier, Typed',
           \/ Submit \/ RetrySync \/ HearAcknowledgement \/ HearRejection
           \/ ArrivesEdit \/ AnswerEdit
    PROVE  Barrier'
<1>1. /\ UNCHANGED <<flushes, saving, disk, asked, buffer>>
      /\ buffer.draft <= buffer'.draft
  <2>1. UNCHANGED <<flushes, saving, disk, asked, buffer>>
    BY DEF Submit, RetrySync, HearAcknowledgement, HearRejection, Hears, HostUnchanged,
           ArrivesEdit, AnswerEdit, storage
  <2>2. QED
    BY <2>1, BarrierNumbers DEF Typed
<1>2. Quiet
  <2>1. CASE Submit \/ RetrySync \/ HearAcknowledgement \/ HearRejection
    BY <2>1, QuietSteps
  <2>2. CASE ArrivesEdit
    <3>1. sync' = sync /\ toHost # <<>> /\ toHost' = Tail(toHost)
      BY <2>2 DEF ArrivesEdit
    <3>2. In(toHost') \subseteq In(toHost)
      BY <3>1, ArrivedMessage
    <3>3. QED
      BY <3>1, <3>2 DEF Quiet, Answered
  <2>3. CASE AnswerEdit
    BY <2>3 DEF AnswerEdit, webview, Quiet, Answered
  <2>4. QED
    BY <2>1, <2>2, <2>3
<1>3. /\ \A m \in In(toView') : IsSave(m) => m \in In(toView)
      /\ \A m \in In(toView) : IsSave(m) => m \in In(toView')
  <2>1. CASE Submit \/ RetrySync \/ ArrivesEdit
    BY <2>1 DEF Submit, RetrySync, ArrivesEdit
  <2>2. CASE HearAcknowledgement \/ HearRejection
    <3>1. /\ toView # <<>> /\ toView' = Tail(toView)
          /\ ~IsSave(Head(toView))
      BY <2>2 DEF HearAcknowledgement, HearRejection, Hears, IsSave
    <3>2. /\ In(toView') \subseteq In(toView)
          /\ \A m \in In(toView) : m = Head(toView) \/ m \in In(toView')
      BY <3>1, HeardMessage
    <3>3. QED
      BY <3>1, <3>2
  <2>3. CASE AnswerEdit
    <3>1. PICK m \in Replies : In(toView') = In(toView) \cup {m}
      BY <2>3, AnswerEditTyped
    <3>2. ~IsSave(m)
      BY DEF Replies, IsSave
    <3>3. QED
      BY <3>1, <3>2
  <2>4. QED
    BY <2>1, <2>2, <2>3
<1>4. \/ shown' = shown
      \/ shown'.saveGeneration = shown.saveGeneration /\ shown'.phase # "saved"
  <2>1. CASE HearAcknowledgement
    <3>1. shown \in SaveStates
      BY DEF Typed, TypeOK
    <3>2. \/ shown' = shown
          \/ shown' = MarkHostDocumentDirty(shown, Head(toView).revision)
      BY <2>1 DEF HearAcknowledgement
    <3>3. QED
      BY <3>1, <3>2 DEF MarkHostDocumentDirty, SaveStates
  <2>2. CASE ~HearAcknowledgement
    BY <2>2 DEF Submit, RetrySync, HearRejection, ArrivesEdit, AnswerEdit, webview
  <2>3. QED
    BY <2>1, <2>2
<1>5. /\ \A f \in DOMAIN flushes : Asked(f)' <=> Asked(f)
      /\ \A f \in DOMAIN flushes : SavedAs(f)' => SavedAs(f)
      /\ Announced' /\ Written'
  BY <1>1, <1>3, <1>4, SaidNothing
<1>6. QED
  BY <1>1, <1>2, <1>5, BarrierKept

\* VS Code applies an edit: the buffer only gets newer.
LEMMA ApplyEditBarrier ==
    ASSUME Typed, Saves, Barrier, Typed', ApplyEdit
    PROVE  Barrier'
<1>1. UNCHANGED <<sync, shown, toHost, toView, flushes, saving, disk, asked>>
  BY DEF ApplyEdit, webview
<1>2. buffer.draft <= buffer'.draft
  <2>1. queue # <<>> /\ applied = "unknown"
    BY DEF ApplyEdit
  <2>2. Queued
    BY <2>1 DEF Typed, OneEdit, Idle, Posted, Queued, Replied
  <2>3. buffer.draft = sync.acknowledgedGeneration /\ Head(queue) = sync.inFlight
    BY <2>1, <2>2 DEF Queued
  <2>4. \/ buffer' = buffer
        \/ buffer'.draft = sync.inFlight.localGeneration
    BY <2>3 DEF ApplyEdit
  <2>5. /\ buffer.draft \in Nat
        /\ sync.acknowledgedGeneration \in Nat /\ sync.inFlight.localGeneration \in Nat
        /\ sync.acknowledgedGeneration < sync.inFlight.localGeneration
    BY <2>2, BufferAhead DEF Queued
  <2>6. QED
    BY <2>3, <2>4, <2>5
<1>3. /\ \A f \in DOMAIN flushes : Asked(f)' <=> Asked(f)
      /\ \A f \in DOMAIN flushes : SavedAs(f)' => SavedAs(f)
      /\ Announced'
  BY <1>1 DEF Asked, SavedAs, Barrier, Announced
<1>4. Written'
  <2>1. /\ disk \in Nat /\ buffer.draft \in Nat /\ saving.draft \in Nat
        /\ buffer'.draft \in Nat
    BY BarrierNumbers, BarrierNumbersNext DEF Typed
  <2>2. QED
    BY <1>1, <1>2, <2>1 DEF Barrier, Written
<1>5. Quiet
  BY <1>1 DEF Quiet, Answered
<1>6. QED
  BY <1>1, <1>2, <1>3, <1>4, <1>5, BarrierKept

\* A report is heard: one that announces a save is shown, or a newer one was.
LEMMA HearSaveStateBarrier ==
    ASSUME Typed, Saves, Barrier, Typed', HearSaveState
    PROVE  Barrier'
<1> DEFINE m == Head(toView)
<1>1. /\ toView # <<>> /\ m.type = "documentSaveState" /\ toView' = Tail(toView)
      /\ UNCHANGED <<sync, toHost, asked, flushes, buffer, saving, disk>>
      /\ shown' = ObserveDocumentSaveState(shown, m)
  BY DEF HearSaveState, Hears, HostUnchanged, storage
<1>2. /\ m \in In(toView) /\ In(toView') \subseteq In(toView)
      /\ \A n \in In(toView) : n = m \/ n \in In(toView')
  BY <1>1, HeardMessage
<1> HIDE DEF m
<1>3. shown.saveGeneration \in Nat /\ m.saveGeneration \in Nat
  BY <1>1, <1>2, SaidRank, BarrierNumbers DEF Typed
<1>4. /\ shown.saveGeneration <= shown'.saveGeneration
      /\ m.saveGeneration <= shown'.saveGeneration
      /\ \/ shown' = shown
         \/ shown'.saveGeneration = m.saveGeneration /\ shown'.phase = m.phase
  BY <1>1, <1>3 DEF ObserveDocumentSaveState, Observes
<1>5. shown'.saveGeneration \in Nat
  BY BarrierNumbersNext DEF Typed
<1>6. \A f \in DOMAIN flushes : Asked(f)' <=> Asked(f)
  BY <1>1, <1>2 DEF Asked
<1>7. \A f \in DOMAIN flushes : SavedAs(f)' => SavedAs(f)
  BY <1>1, <1>2, <1>4 DEF SavedAs, Says
<1>8. Announced'
  <2> SUFFICES ASSUME NEW f \in DOMAIN flushes, flushes[f] # "none"
               PROVE  \/ shown'.saveGeneration >= f
                      \/ Asked(f)' /\ \E n \in In(toView') : Says(n, f, "saving")
    BY <1>1 DEF Announced
  <2>1. f \in Nat
    BY FlushNumbers
  <2>2. CASE shown.saveGeneration >= f
    BY <1>3, <1>4, <1>5, <2>1, <2>2
  <2>3. CASE Says(m, f, "saving")
    BY <1>3, <1>4, <1>5, <2>1, <2>3 DEF Says
  <2>4. CASE Asked(f) /\ \E n \in In(toView) : Says(n, f, "saving") /\ n # m
    BY <1>2, <1>6, <2>4
  <2>5. QED
    BY <2>2, <2>3, <2>4 DEF Barrier, Announced
<1>9. Written'
  BY <1>1 DEF Barrier, Written
<1>10. Quiet /\ buffer.draft <= buffer'.draft
  BY <1>1, BarrierNumbers DEF Typed, Quiet, Answered
<1>11. QED
  BY <1>1, <1>6, <1>7, <1>8, <1>9, <1>10, BarrierKept

\* VS Code begins to write what the buffer holds, or gives up.
LEMMA VSCodeBarrier ==
    ASSUME Typed, Saves, Barrier, Typed', VSCode
    PROVE  Barrier'
<1>1. /\ UNCHANGED <<sync, shown, toHost, toView, flushes, buffer, disk, asked>>
      /\ \/ saving' = [stage |-> "writing", draft |-> buffer.draft]
         \/ saving' = [stage |-> "idle", draft |-> saving.draft]
  BY VSCodeSteps
<1>2. /\ asked \in Nat /\ disk \in Nat /\ buffer.draft \in Nat
  BY BarrierNumbers DEF Typed
<1>3. /\ \A f \in DOMAIN flushes : Asked(f)' <=> Asked(f)
      /\ \A f \in DOMAIN flushes : SavedAs(f)' => SavedAs(f)
      /\ Announced'
  BY <1>1 DEF Asked, SavedAs, Barrier, Announced
<1>4. Written'
  <2>1. CASE saving' = [stage |-> "idle", draft |-> saving.draft]
    BY <1>1, <2>1 DEF Barrier, Written
  <2>2. CASE saving' = [stage |-> "writing", draft |-> buffer.draft]
    <3>1. ASSUME DOMAIN flushes # {}, flushes[Len(flushes)] = "resolved"
          PROVE  asked <= buffer.draft
      <4>1. CASE asked = 0
        BY <1>2, <4>1
      <4>2. CASE asked # 0
        <5>1. PICK f \in DOMAIN flushes : LastHeard(f)
          BY <4>2 DEF Barrier
        <5>2. Len(flushes) \in DOMAIN flushes /\ f <= Len(flushes)
          BY <3>1, FlushNumbers
        <5>3. f = Len(flushes)
          BY <3>1, <5>1, <5>2, NewestHeard
        <5>4. QED
          BY <3>1, <5>1, <5>3 DEF Barrier, Covered
      <4>3. QED
        BY <4>1, <4>2
    <3>2. QED
      BY <1>1, <1>2, <2>2, <3>1 DEF Barrier, Written
  <2>3. QED
    BY <1>1, <2>1, <2>2
<1>5. Quiet /\ buffer.draft <= buffer'.draft
  BY <1>1, <1>2 DEF Quiet, Answered
<1>6. QED
  BY <1>1, <1>3, <1>4, <1>5, BarrierKept

\* A flush is settled: where it is resolved, the buffer holds what was asked for.
LEMMA SettlingBarrier ==
    ASSUME Typed, Saves, Barrier, NEW flush \in DOMAIN flushes,
           NEW outcome \in {"resolved", "rejected"}, SettleFlush(flush, outcome),
           UNCHANGED <<sync, shown, buffer, saving, disk, asked>>,
           In(toHost') \subseteq In(toHost),
           outcome = "resolved" =>
              \E m \in Answered : m.type = "flushComplete" /\ m.flush = flush
    PROVE  Barrier'
<1>1. /\ DOMAIN flushes' = DOMAIN flushes /\ Len(flushes') = Len(flushes)
      /\ \A f \in DOMAIN flushes : flushes'[f] = flushes[f] \/ f = flush
  BY Settling
<1>2. \/ flushes' = flushes /\ toView' = toView
      \/ /\ flushes[flush] = "waiting" /\ flushes'[flush] = outcome
         /\ \/ outcome = "resolved" /\ toView' = toView
            \/ \E m \in Inbox :
                  /\ outcome = "rejected"
                  /\ m.type = "documentSaveState" /\ IsSave(m) /\ m \notin Replies
                  /\ m.saveGeneration = flush /\ m.phase = "failed"
                  /\ toView' = Append(toView, m)
                  /\ In(toView') = In(toView) \cup {m}
  BY Settling
<1>3. /\ In(toView) \subseteq In(toView')
      /\ \A m \in In(toView') : \/ m \in In(toView)
                                \/ m.type = "documentSaveState" /\ m.phase = "failed"
  BY <1>2
<1>4. \A f \in DOMAIN flushes : Asked(f)' <=> Asked(f)
  BY <1>3 DEF Asked
<1>5. \A f \in DOMAIN flushes : SavedAs(f)' => SavedAs(f)
  BY <1>3 DEF SavedAs, Says
<1>6. \A f \in DOMAIN flushes :
         \/ flushes'[f] = flushes[f]
         \/ f = flush /\ flushes[f] = "waiting" /\ flushes'[f] = outcome
  BY <1>1, <1>2
<1>7. Answered' \subseteq Answered
  BY DEF Answered
<1>8. Unheard'
  <2> SUFFICES ASSUME NEW f \in DOMAIN flushes, Asked(f)
               PROVE  /\ flushes'[f] \in {"waiting", "rejected"}
                      /\ \A g \in DOMAIN flushes : g > f => Asked(g)'
                      /\ \A w \in sync.flushWaiters : w.flush # f
                      /\ \A m \in Answered' : m.flush # f
    BY <1>1, <1>4 DEF Unheard
  <2>1. /\ flushes[f] \in {"waiting", "rejected"}
        /\ \A g \in DOMAIN flushes : g > f => Asked(g)
        /\ \A w \in sync.flushWaiters : w.flush # f
        /\ \A m \in Answered : m.flush # f
    BY DEF Barrier, Unheard
  <2>2. outcome = "resolved" => f # flush
    BY <2>1
  <2>3. QED
    BY <1>4, <1>6, <1>7, <2>1, <2>2
<1>9. \A f \in DOMAIN flushes : (flushes'[f] # "none") <=> (flushes[f] # "none")
  BY <1>6
<1>10. Announced'
  BY <1>1, <1>3, <1>4, <1>9 DEF Barrier, Announced
<1>11. \A f \in DOMAIN flushes : LastHeard(f)' <=> LastHeard(f)
  BY <1>1, <1>4, <1>9 DEF LastHeard
<1>12. Written'
  <2>1. saving.stage = "writing" => flushes' = flushes
    BY <1>2 DEF Saves, Settled
  <2>2. QED
    BY <2>1 DEF Barrier, Written
<1>13. ASSUME NEW f \in DOMAIN flushes, LastHeard(f)
       PROVE  Covered(f)'
  <2>1. Covered(f)
    BY <1>13 DEF Barrier
  <2>2. CASE flushes'[f] = flushes[f]
    BY <1>5, <1>7, <2>1, <2>2 DEF Covered
  <2>3. CASE f = flush /\ flushes[f] = "waiting" /\ flushes'[f] = outcome
    <3>1. ~SavedAs(f)
      BY <2>3, FlushNumbers DEF Saves, Reported, Truthful, Status, SavedAs, Says
    <3>2. outcome = "resolved" => asked <= buffer.draft
      BY <2>1, <2>3 DEF Covered
    <3>3. QED
      BY <1>5, <1>7, <2>1, <2>3, <3>1, <3>2 DEF Covered
  <2>4. QED
    BY <1>6, <2>2, <2>3
<1>14. QED
  BY <1>1, <1>8, <1>10, <1>11, <1>12, <1>13 DEF Barrier

\* A save begins: its flush is unheard of, the last heard one stays that.
LEMMA WillSaveBarrier ==
    ASSUME Typed, Saves, Barrier, WillSave
    PROVE  Barrier'
<1>0. PICK g : g = Len(flushes) + 1
  OBVIOUS
<1>1. /\ saving' = [stage |-> "preparing", draft |-> saving.draft]
      /\ UNCHANGED <<sync, shown, toHost, buffer, disk, asked>>
      /\ DOMAIN flushes' = 1 .. g
      /\ \A f \in DOMAIN flushes : f \in DOMAIN flushes' /\ flushes'[f] = flushes[f]
      /\ flushes'[g] = "waiting"
  BY <1>0, WillSaved
<1>2. PICK a \in Inbox \ Replies, b \in Inbox \ Replies :
         /\ a.type = "documentSaveState" /\ a.phase = "saving"
         /\ a.saveGeneration = g
         /\ b.type = "requestFlush" /\ b.flush = g
         /\ In(toView') = In(toView) \cup {a, b}
  BY <1>0, WillSaved
<1>3. DOMAIN flushes = 1 .. Len(flushes) /\ Len(flushes) \in Nat
  BY FlushNumbers
<1>4. /\ g \in Nat \ {0} /\ g \notin DOMAIN flushes /\ g \in DOMAIN flushes'
      /\ \A f \in DOMAIN flushes' : f \in Nat /\ (f \in DOMAIN flushes \/ f = g)
      /\ \A f \in DOMAIN flushes : g > f /\ f # g
  BY <1>0, <1>1, <1>3
<1>5. Answered' = Answered
  BY <1>1 DEF Answered
<1>6. /\ Asked(g)'
      /\ \A f \in DOMAIN flushes : Asked(f)' <=> Asked(f)
  BY <1>2, <1>4 DEF Asked
<1>7. Says(a, g, "saving") /\ a \in In(toView')
  BY <1>2 DEF Says
<1>8. \A f \in DOMAIN flushes : SavedAs(f)' => SavedAs(f)
  BY <1>1, <1>2 DEF SavedAs, Says
<1>9. Unheard'
  <2> SUFFICES ASSUME NEW f \in DOMAIN flushes', Asked(f)'
               PROVE  /\ flushes'[f] \in {"waiting", "rejected"}
                      /\ \A h \in DOMAIN flushes' : h > f => Asked(h)'
                      /\ \A w \in sync.flushWaiters : w.flush # f
                      /\ \A m \in Answered : m.flush # f
    BY <1>1, <1>5 DEF Unheard
  <2>1. CASE f = g
    <3>1. \A h \in DOMAIN flushes' : ~(h > g)
      BY <1>1, <1>4
    <3>2. \A w \in sync.flushWaiters : w.flush # g
      BY <1>4 DEF Typed, Known
    <3>3. \A m \in Answered : m.flush # g
      BY <1>4 DEF Typed, Known
    <3>4. QED
      BY <1>1, <2>1, <3>1, <3>2, <3>3
  <2>2. CASE f \in DOMAIN flushes
    <3>1. Asked(f)
      BY <1>6, <2>2
    <3>2. /\ flushes[f] \in {"waiting", "rejected"}
          /\ \A h \in DOMAIN flushes : h > f => Asked(h)
          /\ \A w \in sync.flushWaiters : w.flush # f
          /\ \A m \in Answered : m.flush # f
      BY <2>2, <3>1 DEF Barrier, Unheard
    <3>3. \A h \in DOMAIN flushes' : h > f => Asked(h)'
      BY <1>4, <1>6, <3>2
    <3>4. QED
      BY <1>1, <2>2, <3>2, <3>3
  <2>3. QED
    BY <1>4, <2>1, <2>2
<1>10. Announced'
  <2> SUFFICES ASSUME NEW f \in DOMAIN flushes', flushes'[f] # "none"
               PROVE  \/ shown.saveGeneration >= f
                      \/ Asked(f)' /\ \E m \in In(toView') : Says(m, f, "saving")
    BY <1>1 DEF Announced
  <2>1. CASE f = g
    BY <1>6, <1>7, <2>1
  <2>2. CASE f \in DOMAIN flushes
    BY <1>1, <1>2, <1>6, <2>2 DEF Barrier, Announced
  <2>3. QED
    BY <1>4, <2>1, <2>2
<1>11. Written'
  BY <1>1 DEF Barrier, Written
<1>12. \A f \in DOMAIN flushes : LastHeard(f)' <=> LastHeard(f)
  BY <1>1, <1>4, <1>6 DEF LastHeard
<1>13. ~LastHeard(g)'
  <2>1. ~(g > g)
    BY <1>4
  <2>2. QED
    BY <1>4, <1>6, <2>1 DEF LastHeard
<1>14. asked' # 0 => \E f \in DOMAIN flushes' : LastHeard(f)'
  BY <1>1, <1>12 DEF Barrier
<1>15. \A f \in DOMAIN flushes' : LastHeard(f)' => Covered(f)'
  <2> SUFFICES ASSUME NEW f \in DOMAIN flushes', LastHeard(f)'
               PROVE  Covered(f)'
    OBVIOUS
  <2>1. f \in DOMAIN flushes
    BY <1>4, <1>13
  <2>2. Covered(f)
    BY <1>12, <2>1 DEF Barrier
  <2>3. QED
    BY <1>1, <1>5, <1>8, <2>1, <2>2 DEF Covered
<1>16. QED
  BY <1>9, <1>10, <1>11, <1>14, <1>15 DEF Barrier

\* A save ends: the file holds what was written.
LEMMA DidSaveBarrier ==
    ASSUME Typed, Saves, Barrier, DidSave
    PROVE  Barrier'
<1> DEFINE last == Len(flushes')
<1>1. /\ saving.stage = "writing" /\ saving' = [stage |-> "idle", draft |-> saving.draft]
      /\ disk' = saving.draft
      /\ UNCHANGED <<sync, shown, toHost, buffer, asked>>
      /\ \/ flushes' = flushes
         \/ DOMAIN flushes = {} /\ DOMAIN flushes' = {1} /\ flushes'[1] = "none"
      /\ last \in DOMAIN flushes' /\ last \in Nat \ {0}
  BY DidSaved
<1>2. PICK m \in Inbox \ Replies :
         /\ m.type = "documentSaveState" /\ m.phase = "saved" /\ m.saveGeneration = last
         /\ In(toView') = In(toView) \cup {m}
  BY DidSaved
<1>3. /\ asked \in Nat /\ disk \in Nat /\ saving.draft \in Nat /\ buffer.draft \in Nat
      /\ disk <= saving.draft /\ saving.draft <= buffer.draft
  BY <1>1, BarrierNumbers DEF Typed, Barrier, Written
<1>4. Answered' = Answered
  BY <1>1 DEF Answered
<1>5. \A f : Asked(f)' <=> Asked(f)
  BY <1>2 DEF Asked
<1>6. Written'
  BY <1>1, <1>3 DEF Written
<1>7. CASE DOMAIN flushes = {} /\ DOMAIN flushes' = {1} /\ flushes'[1] = "none"
  <2>1. \A n \in In(toView) : n.type # "requestFlush"
    BY <1>7 DEF Typed, Known
  <2>2. Unheard' /\ Announced'
    BY <1>5, <1>7, <2>1 DEF Unheard, Announced, Asked
  <2>3. \A f \in DOMAIN flushes' : ~LastHeard(f)'
    BY <1>7 DEF LastHeard
  <2>4. asked = 0
    BY <1>7 DEF Barrier
  <2>5. QED
    BY <1>1, <1>6, <2>2, <2>3, <2>4 DEF Barrier
<1>8. CASE flushes' = flushes
  <2>1. last = Len(flushes) /\ last \in DOMAIN flushes
    BY <1>1, <1>8
  <2> HIDE DEF last
  <2>2. Unheard'
    BY <1>1, <1>4, <1>5, <1>8 DEF Barrier, Unheard
  <2>3. Announced'
    BY <1>1, <1>2, <1>5, <1>8 DEF Barrier, Announced
  <2>4. \A f \in DOMAIN flushes : LastHeard(f)' <=> LastHeard(f)
    BY <1>5, <1>8 DEF LastHeard
  <2>5. ASSUME NEW f \in DOMAIN flushes, LastHeard(f)
        PROVE  Covered(f)'
    <3>1. Covered(f)
      BY <2>5 DEF Barrier
    <3>2. ASSUME flushes[f] = "resolved", SavedAs(f)'
          PROVE  asked <= disk'
      <4>1. CASE SavedAs(f)
        BY <1>1, <1>3, <3>1, <3>2, <4>1 DEF Covered
      <4>2. CASE f = last
        BY <1>1, <2>1, <3>2, <4>2 DEF Barrier, Written
      <4>3. QED
        BY <1>1, <1>2, <3>2, <4>1, <4>2 DEF SavedAs, Says
    <3>3. QED
      BY <1>1, <1>4, <1>8, <3>1, <3>2 DEF Covered
  <2>6. QED
    BY <1>1, <1>6, <1>8, <2>2, <2>3, <2>4, <2>5 DEF Barrier
<1>9. QED
  BY <1>1, <1>7, <1>8

\* The webview is asked to flush: from here on that flush counts.
LEMMA HearFlushBarrier ==
    ASSUME Typed, Saves, Barrier, Typed', HearFlush
    PROVE  Barrier'
<1>1. PICK flush : flush = Head(toView).flush
  OBVIOUS
<1>2. PICK head : head = Head(toView)
  OBVIOUS
<1>3. /\ toView # <<>> /\ toView' = Tail(toView)
      /\ head.type = "requestFlush" /\ head.flush = flush
      /\ UNCHANGED <<flushes, buffer, saving, disk>>
  BY <1>1, <1>2 DEF HearFlush, Hears, HostUnchanged, storage
<1>4. /\ flush \in DOMAIN flushes
      /\ asked' = sync.localGeneration /\ UNCHANGED shown
  BY <1>1, FlushTurn
<1>5. PICK t, posted :
         /\ Sound(t) /\ Travels(sync, t) /\ Patient(sync, t)
         /\ \A w \in t.flushWaiters :
               \/ w \in sync.flushWaiters
               \/ w.flush = flush /\ w.generation = sync.localGeneration
         /\ posted \in Seq(FlushMessages(MaxSaves))
         /\ \A m \in In(posted) :
               /\ m.type \in {"flushComplete", "flushFailed"}
               /\ m.flush = flush
               /\ m.type = "flushComplete" =>
                     sync.localGeneration <= sync.acknowledgedGeneration
         /\ Moves(t, posted)
  BY <1>1, FlushTurn
<1>6. /\ sync' = t
      /\ \A m \in In(toHost') :
            \/ m \in In(toHost)
            \/ m \in In(posted)
            \/ m \in Edits /\ t.nextEditId # sync.nextEditId /\ m.request = t.inFlight
            \/ m \in Answered' /\ Answering(m, t)
  BY <1>5, MovesPost
<1>7. /\ head \in In(toView) /\ head \in Inbox /\ In(toView') \subseteq In(toView)
      /\ \A m \in In(toView) : m = head \/ m \in In(toView')
  BY <1>2, <1>3, HeardMessage
<1>8. \A m \in In(toView') : Ordered(head, m)
  BY <1>2, <1>3, OrderlyTail DEF Typed, TypeOK, Saves
<1>9. flush \in Nat \ {0} /\ Rank(head) = 4 * flush + 1 /\ IsSave(head) /\ Stage(head) = 1
  BY <1>3, <1>4, FlushNumbers DEF Rank, Generation, Stage, IsSave
<1>10. Asked(flush)
  BY <1>3, <1>7 DEF Asked
<1>11. /\ flushes[flush] \in {"waiting", "rejected"}
       /\ \A g \in DOMAIN flushes : g > flush => Asked(g)
       /\ \A w \in sync.flushWaiters : w.flush # flush
       /\ \A m \in Answered : m.flush # flush
  BY <1>4, <1>10 DEF Barrier, Unheard
\* What is still to be heard comes after the head.
<1>12. \A m \in In(toView') : IsSave(m) => Rank(m) > 4 * flush + 1
  <2> SUFFICES ASSUME NEW m \in In(toView'), IsSave(m)
               PROVE  Rank(m) > 4 * flush + 1
    OBVIOUS
  <2>1. Rank(m) \in Nat
    BY <1>7, RankBelow
  <2>2. \/ Rank(head) < Rank(m)
        \/ Rank(head) = Rank(m) /\ Stage(head) = 3
    BY <1>8, <1>9 DEF Ordered
  <2>3. QED
    BY <1>9, <2>1, <2>2
<1>13. \A f \in DOMAIN flushes : Asked(f)' <=> Asked(f) /\ f # flush
  <2> SUFFICES ASSUME NEW f \in DOMAIN flushes
               PROVE  Asked(f)' <=> Asked(f) /\ f # flush
    OBVIOUS
  <2>1. ASSUME Asked(f), f # flush
        PROVE  Asked(f)'
    BY <1>3, <1>7, <2>1 DEF Asked
  <2>2. ASSUME NEW m \in In(toView'), m.type = "requestFlush", m.flush = f
        PROVE  Asked(f) /\ f # flush
    <3>1. IsSave(m) /\ Rank(m) = 4 * f + 1 /\ f \in Nat
      BY <2>2, FlushNumbers DEF IsSave, Rank, Generation, Stage
    <3>2. f # flush
      BY <1>9, <1>12, <3>1
    <3>3. QED
      BY <1>7, <2>2, <3>2 DEF Asked
  <2>3. QED
    BY <2>1, <2>2 DEF Asked
<1>14. \A f \in DOMAIN flushes : f < flush => ~Asked(f)'
  <2> SUFFICES ASSUME NEW f \in DOMAIN flushes, f < flush, NEW m \in In(toView'),
                      m.type = "requestFlush", m.flush = f
               PROVE  FALSE
    BY DEF Asked
  <2>1. IsSave(m) /\ Rank(m) = 4 * f + 1 /\ f \in Nat
    BY FlushNumbers DEF IsSave, Rank, Generation, Stage
  <2>2. QED
    BY <1>9, <1>12, <2>1
<1>15. \A m \in Answered' :
          \/ m \in Answered
          \/ \E w \in sync.flushWaiters : w.flush = m.flush
          \/ m.flush = flush /\ (m.type = "flushComplete" =>
                                    sync.localGeneration <= sync.acknowledgedGeneration)
  <2> SUFFICES ASSUME NEW m \in Answered'
               PROVE  \/ m \in Answered
                      \/ \E w \in sync.flushWaiters : w.flush = m.flush
                      \/ m.flush = flush
                         /\ (m.type = "flushComplete" =>
                                sync.localGeneration <= sync.acknowledgedGeneration)
    OBVIOUS
  <2>1. m \in In(toHost') /\ m.type \in {"flushComplete", "flushFailed"} /\ m \notin Edits
    BY DEF Answered, Edits
  <2>2. QED
    BY <1>5, <1>6, <2>1 DEF Answered, Answering
<1>16. Unheard'
  <2> SUFFICES ASSUME NEW f \in DOMAIN flushes, Asked(f)'
               PROVE  /\ flushes[f] \in {"waiting", "rejected"}
                      /\ \A g \in DOMAIN flushes : g > f => Asked(g)'
                      /\ \A w \in sync'.flushWaiters : w.flush # f
                      /\ \A m \in Answered' : m.flush # f
    BY <1>3 DEF Unheard
  <2>1. Asked(f) /\ f # flush
    BY <1>13
  <2>2. /\ flushes[f] \in {"waiting", "rejected"}
        /\ \A g \in DOMAIN flushes : g > f => Asked(g)
        /\ \A w \in sync.flushWaiters : w.flush # f
        /\ \A m \in Answered : m.flush # f
    BY <2>1 DEF Barrier, Unheard
  <2>3. f > flush
    BY <1>4, <1>14, <2>1, FlushNumbers
  <2>4. \A g \in DOMAIN flushes : g > f => Asked(g)'
    BY <1>4, <1>13, <2>2, <2>3, FlushNumbers
  <2>5. \A w \in sync'.flushWaiters : w.flush # f
    BY <1>5, <1>6, <2>1, <2>2
  <2>6. \A m \in Answered' : m.flush # f
    BY <1>15, <2>1, <2>2
  <2>7. QED
    BY <2>2, <2>4, <2>5, <2>6
<1>17. Announced'
  <2> SUFFICES ASSUME NEW f \in DOMAIN flushes, flushes[f] # "none"
               PROVE  \/ shown.saveGeneration >= f
                      \/ Asked(f)' /\ \E m \in In(toView') : Says(m, f, "saving")
    BY <1>3, <1>4 DEF Announced
  <2>1. CASE shown.saveGeneration >= f
    BY <2>1
  <2>2. ASSUME Asked(f), NEW m \in In(toView), Says(m, f, "saving")
        PROVE  Asked(f)' /\ m \in In(toView')
    <3>1. m # head
      BY <1>3, <2>2 DEF Says
    <3>2. m \in In(toView')
      BY <1>7, <3>1
    <3>3. IsSave(m) /\ Rank(m) = 4 * f /\ f \in Nat
      BY <2>2, FlushNumbers DEF Says, IsSave, Rank, Generation, Stage
    <3>4. f # flush
      BY <1>9, <1>12, <3>2, <3>3
    <3>5. QED
      BY <1>13, <2>2, <3>2, <3>4
  <2>3. QED
    BY <2>1, <2>2 DEF Barrier, Announced
<1>18. \A g \in DOMAIN flushes : Asked(g)' <=> g > flush
  <2> SUFFICES ASSUME NEW g \in DOMAIN flushes
               PROVE  Asked(g)' <=> g > flush
    OBVIOUS
  <2>1. g \in Nat /\ flush \in Nat
    BY <1>9, FlushNumbers
  <2>2. g > flush => Asked(g)'
    BY <1>11, <1>13, <2>1
  <2>3. ~(g > flush) => ~Asked(g)'
    BY <1>13, <1>14, <2>1
  <2>4. QED
    BY <2>2, <2>3
<1>19. LastHeard(flush)'
  BY <1>3, <1>4, <1>11, <1>18 DEF LastHeard
<1>20. \A f \in DOMAIN flushes : LastHeard(f)' => f = flush
  <2> SUFFICES ASSUME NEW f \in DOMAIN flushes,
                      \A g \in DOMAIN flushes : Asked(g)' <=> g > f
               PROVE  f = flush
    BY <1>3 DEF LastHeard
  <2>1. f \in Nat /\ flush \in Nat
    BY <1>9, FlushNumbers
  <2>2. ~(f > flush)
    BY <1>18, <2>1
  <2>3. ~(flush > f)
    BY <1>4, <1>18, <2>1
  <2>4. QED
    BY <2>1, <2>2, <2>3
<1>21. Covered(flush)'
  <2>1. \A w \in sync'.flushWaiters : w.flush = flush => w.generation = asked'
    BY <1>4, <1>5, <1>6, <1>11
  <2>2. ASSUME NEW m \in Answered', m.type = "flushComplete", m.flush = flush
        PROVE  asked' <= buffer'.draft
    <3>1. sync.localGeneration <= sync.acknowledgedGeneration
      BY <1>11, <1>15, <2>2
    <3>2. /\ sync.acknowledgedGeneration <= buffer.draft
          /\ sync.localGeneration \in Nat /\ sync.acknowledgedGeneration \in Nat
          /\ buffer.draft \in Nat
      BY BufferAhead, BarrierNumbers DEF Typed
    <3>3. QED
      BY <1>3, <1>4, <3>1, <3>2
  <2>3. flushes'[flush] # "resolved"
    BY <1>3, <1>11
  <2>4. QED
    BY <2>1, <2>2, <2>3 DEF Covered
<1>22. Written'
  <2>1. flushes[Len(flushes)] # "resolved"
    <3>1. CASE flush = Len(flushes)
      BY <1>11, <3>1
    <3>2. CASE flush # Len(flushes)
      <4>1. Len(flushes) \in DOMAIN flushes /\ Len(flushes) > flush
        BY <1>4, <3>2, FlushNumbers
      <4>2. Asked(Len(flushes))
        BY <1>11, <4>1
      <4>3. QED
        BY <4>1, <4>2 DEF Barrier, Unheard
    <3>3. QED
      BY <3>1, <3>2
  <2>2. QED
    BY <1>3, <2>1 DEF Barrier, Written
<1>23. QED
  BY <1>3, <1>4, <1>16, <1>17, <1>19, <1>20, <1>21, <1>22 DEF Barrier

\* No flush was asked for.
LEMMA InitBarrier ==
    ASSUME Init
    PROVE  Barrier
<1>1. /\ flushes = <<>> /\ asked = 0 /\ disk = 0 /\ buffer.draft = 0
      /\ saving.stage = "idle"
  BY DEF Init
<1>2. DOMAIN flushes = {}
  BY <1>1
<1>3. QED
  BY <1>1, <1>2 DEF Barrier, Unheard, Announced, Written

\* Every step keeps the third invariant.
LEMMA NextBarrier ==
    ASSUME Typed, Saves, Barrier, [Next]_vars
    PROVE  Barrier'
<1>1. Typed'
  BY NextTyped
<1>2. ASSUME NEW kind \in {"flushComplete", "flushFailed"},
             NEW outcome \in {"resolved", "rejected"}, Arrives(kind, outcome),
             outcome = "resolved" => kind = "flushComplete"
      PROVE  Barrier'
  <2>1. /\ SettleFlush(Head(toHost).flush, outcome)
        /\ UNCHANGED <<sync, shown, buffer, saving, disk, asked>>
        /\ Head(toHost) \in In(toHost) /\ Head(toHost).type = kind
        /\ In(toHost') \subseteq In(toHost)
    BY <1>2, ArrivedMessage DEF Arrives, storage
  <2>2. Head(toHost) \in Answered
    BY <2>1 DEF Answered
  <2>3. Head(toHost).flush \in DOMAIN flushes
    BY <2>2 DEF Typed, Known
  <2>4. outcome = "resolved" =>
           \E m \in Answered : m.type = "flushComplete" /\ m.flush = Head(toHost).flush
    BY <1>2, <2>1, <2>2
  <2>5. QED
    BY <2>1, <2>3, <2>4, SettlingBarrier
<1>3. CASE FlushTimesOut
  <2>1. PICK flush \in DOMAIN flushes : SettleFlush(flush, "rejected")
    BY <1>3 DEF FlushTimesOut
  <2>2. UNCHANGED <<sync, shown, toHost, buffer, saving, disk, asked>>
    BY <1>3 DEF FlushTimesOut, webview, storage
  <2>3. In(toHost') \subseteq In(toHost)
    BY <2>2
  <2>4. QED
    BY <2>1, <2>2, <2>3, SettlingBarrier
<1>4. CASE UNCHANGED vars
  <2>1. UNCHANGED <<sync, shown, toHost, toView, queue, applied, flushes, buffer,
                    saving, disk, chances, asked>>
    BY <1>4 DEF vars
  <2>2. QED
    BY <2>1 DEF Barrier, Unheard, Announced, LastHeard, Covered, Written, Asked, SavedAs,
                Answered
<1>5. CASE Arrive
  <2>1. CASE ArrivesEdit
    BY <1>1, <2>1, UnsaidBarrier
  <2>2. CASE Arrives("flushComplete", "resolved") \/ Arrives("flushFailed", "rejected")
    BY <1>2, <2>2
  <2>3. QED
    BY <1>5, <2>1, <2>2, ArriveCases
<1>6. CASE Hear
  BY <1>1, <1>6, UnsaidBarrier, HearSaveStateBarrier, HearFlushBarrier DEF Hear
<1>7. CASE Submit \/ RetrySync \/ AnswerEdit
  BY <1>1, <1>7, UnsaidBarrier
<1>8. QED
  BY <1>1, <1>3, <1>4, <1>5, <1>6, <1>7, ApplyEditBarrier, WillSaveBarrier, DidSaveBarrier,
     VSCodeBarrier DEF Next, VSCode

\* "Saved" is shown only when every draft that existed as the webview was last
\* asked to flush is in the file: what is shown is the last flush the webview has
\* heard of, that flush was resolved, hence by a webview whose drafts had reached
\* the buffer, and what VS Code wrote after it is no older.
THEOREM SavedHolds == Spec => []SavedHoldsTheBarrier
<1>1. Init => Typed /\ Saves /\ Barrier
  BY InitTyped, InitSaves, InitBarrier
<1>2. Typed /\ Saves /\ Barrier /\ [Next]_vars => (Typed /\ Saves /\ Barrier)'
  BY NextTyped, NextSaves, NextBarrier
<1>3. Typed /\ Saves /\ Barrier /\ FailedFlushNotSaved => SavedHoldsTheBarrier
  <2> SUFFICES ASSUME Typed, Saves, Barrier, FailedFlushNotSaved, Shows("saved")
               PROVE  asked <= disk
    BY BarrierNumbers DEF SavedHoldsTheBarrier, Typed
  <2>1. shown.phase = "saved"
    BY DEF Shows, Presentation
  <2>2. CASE asked = 0
    BY <2>2, BarrierNumbers DEF Typed
  <2>3. CASE asked # 0
    <3> DEFINE g == shown.saveGeneration
    <3>1. PICK f \in DOMAIN flushes : LastHeard(f)
      BY <2>3 DEF Barrier
    <3>2. f \in Nat \ {0} /\ g \in Nat
      BY FlushNumbers, BarrierNumbers DEF Typed
    <3>3. ~Asked(f) /\ flushes[f] # "none"
      BY <3>1, <3>2 DEF LastHeard
    <3>4. f <= g
      BY <3>2, <3>3 DEF Barrier, Announced
    <3>5. g \in DOMAIN flushes /\ flushes[g] \in {"resolved", "none"}
      BY <2>1, <3>2, <3>4 DEF Saves, Status, FailedFlushNotSaved
    <3>6. flushes[g] # "none"
      <4>1. ASSUME flushes[g] = "none"
            PROVE  FALSE
        <5>1. g = 1
          BY <3>5, <4>1 DEF Saves, Settled
        <5>2. QED
          BY <3>2, <3>3, <3>4, <4>1, <5>1
      <4>2. QED
        BY <4>1
    <3>7. flushes[g] = "resolved" /\ g = f
      BY <3>1, <3>4, <3>5, <3>6, NewestHeard
    <3>8. SavedAs(f)
      BY <2>1, <3>7 DEF SavedAs
    <3>9. QED
      BY <3>1, <3>7, <3>8 DEF Barrier, Covered
  <2>4. QED
    BY <2>2, <2>3
<1>4. QED
  BY <1>1, <1>2, <1>3, FailedNotSaved, PTL DEF Spec

\* The status never goes back to an older save, and a save once decided stays
\* decided until the document changes or another save begins: what
\* observeDocumentSaveState lets through, and what an acknowledgement makes of it.
THEOREM NeverRegresses == Spec => StatusNeverRegresses
<1>1. ASSUME Typed, [Next]_vars
      PROVE  [/\ shown'.saveGeneration >= shown.saveGeneration
              /\ shown'.saveGeneration = shown.saveGeneration /\ IsTerminal(shown.phase)
                   => shown'.phase \in {shown.phase, "dirty"}]_shown
  <2>1. shown \in SaveStates /\ shown.saveGeneration \in Nat
    BY <1>1 DEF Typed, TypeOK, SaveStates
  <2>2. CASE HearAcknowledgement
    <3>1. \/ shown' = shown
          \/ shown' = MarkHostDocumentDirty(shown, Head(toView).revision)
      BY <2>2 DEF HearAcknowledgement
    <3>2. shown' = MarkHostDocumentDirty(shown, Head(toView).revision) =>
             /\ shown'.saveGeneration = shown.saveGeneration
             /\ shown'.phase = IF shown.phase = "saving" THEN "saving" ELSE "dirty"
      BY <2>1 DEF MarkHostDocumentDirty, SaveStates
    <3>3. QED
      BY <2>1, <3>1, <3>2 DEF IsTerminal
  <2>3. CASE HearSaveState
    <3> DEFINE m == Head(toView)
    <3>1. /\ toView # <<>> /\ toView' = Tail(toView) /\ m.type = "documentSaveState"
          /\ shown' = ObserveDocumentSaveState(shown, m)
      BY <2>3 DEF HearSaveState, Hears
    <3>2. m \in In(toView)
      BY <1>1, <3>1, HeardMessage
    <3> HIDE DEF m
    <3>3. m.saveGeneration \in Nat
      BY <1>1, <3>1, <3>2, SaidRank
    <3>4. CASE ~Observes(shown, m)
      BY <3>1, <3>4 DEF ObserveDocumentSaveState
    <3>5. CASE Observes(shown, m)
      <4>1. shown'.saveGeneration = m.saveGeneration
        BY <3>1, <3>5 DEF ObserveDocumentSaveState
      <4>2. \/ m.saveGeneration > shown.saveGeneration
            \/ m.saveGeneration = shown.saveGeneration /\ ~IsTerminal(shown.phase)
        BY <3>5 DEF Observes
      <4>3. QED
        BY <2>1, <3>3, <4>1, <4>2
    <3>6. QED
      BY <3>4, <3>5
  <2>4. CASE Submit \/ RetrySync \/ HearRejection \/ HearFlush
    BY <2>4 DEF Submit, RetrySync, HearRejection, HearFlush
  <2>5. CASE Arrive \/ ApplyEdit \/ AnswerEdit \/ WillSave \/ FlushTimesOut \/ DidSave
    BY <2>5 DEF Arrive, ApplyEdit, AnswerEdit, WillSave, FlushTimesOut, DidSave, webview
  <2>6. CASE VSCode
    BY <1>1, <2>6, VSCodeSteps
  <2>7. CASE UNCHANGED vars
    BY <2>7 DEF vars
  <2>8. QED
    BY <1>1, <2>2, <2>3, <2>4, <2>5, <2>6, <2>7 DEF Next, Hear, VSCode
<1>2. QED
  BY <1>1, InitTyped, NextTyped, PTL DEF Spec, StatusNeverRegresses
=============================================================================
