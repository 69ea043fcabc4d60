------------------------- MODULE BookEditor_proofs -------------------------
(***************************************************************************)
(* For any chapters, foreign manifests and bounds: an edit made in the     *)
(* Book's webview is applied in the revision it names, which has the       *)
(* manifest its user saw as long as nothing changes the manifest while a   *)
(* style sheet is read; then the webview shows the manifest as it is once  *)
(* nothing is under way; and what an export wrote was the project at one   *)
(* moment.                                                                 *)
(***************************************************************************)
EXTENDS BookEditor, SequenceTheorems, TLAPS

----------------------------------------------------------------------------
(* The invariants *)

\* An edit under way is the first of its queue, and a plan past the update of
\* the Book has what it was made from.
InWork ==
    /\ host.mutation # None => host.queue # <<>>
    /\ host.export # None /\ host.export.stage # "updating" => host.export.source # None

\* The first inductive invariant.
Typed == TypeOK /\ InWork

\* An edit is handed to VS Code for the revision it names.
OnRevision ==
    host.mutation # None /\ host.mutation.stage = "applying" =>
       host.mutation.version = Head(host.queue).base

\* What was shown under a revision is what the manifest was in it.
Same(revision, book) ==
    /\ revision \in 0 .. doc.version
    /\ revision = doc.version => book = doc.book

\* A load that goes on is of the manifest as it is, which nothing changes while a
\* style sheet is read.
LoadsFaithful ==
    /\ host.loading # None => host.loading.book = doc.book
    /\ \A load \in host.styling : load.book = doc.book

\* What the host shows, has posted,
HostFaithful ==
    /\ host.state # None => Same(host.state.revision, host.state.book)
    /\ \A m \in ToSet(toView) : m.type = "state" => Same(m.state.revision, m.state.book)

\* what the webview shows, and the edits it made on that,
ViewFaithful ==
    /\ view.state # None => Same(view.state.revision, view.state.book)
    /\ \A m \in ToSet(toHost) : m.type = "mutation" => Same(m.base, m.shown)

\* and the edits that wait.
EditsFaithful ==
    /\ \A m \in ToSet(host.queue) : Same(m.base, m.shown)
    /\ OnRevision

\* The second inductive invariant: whatever carries a revision carries the manifest
\* of that revision, from the load that reads it to the application of the edit.
ShownFaithful == LoadsFaithful /\ HostFaithful /\ ViewFaithful
Faithful == ShownFaithful /\ EditsFaithful

\* What was read of a chapter is not newer than the chapter.
Behind(x) == \A p \in Paths : x.captured[p] # None => x.captured[p] <= Content(p)

\* One of these chapters was written after it was read.
Torn(x, paths) ==
    \E p \in paths : p \in Paths /\ x.captured[p] # None /\ x.captured[p] < Content(p)

\* A Book that was composed of several moments shows it for ever.
Dated(x) == Behind(x) /\ (x.coherent \/ Torn(x, ToSet(x.book.documents)))

Composing ==
    /\ host.loading # None => host.loading.book = doc.book /\ Behind(host.loading)
    /\ \A load \in host.styling : Dated(load)
    /\ host.source # None => Dated(host.source)

\* The plan's verification has the chapter that shows it still before it.
Exporting ==
    /\ host.export # None /\ host.export.stage # "updating" => Dated(host.export.source)
    /\ host.export # None /\ host.export.stage = "verifying" =>
          \/ host.export.source.coherent
          \/ Torn(host.export.source, ToSet(host.export.unread))
    /\ ExportsOneMoment

\* The third inductive invariant.
Moments == Composing /\ Exporting

----------------------------------------------------------------------------
(* Sequences *)

\* A posted message joins the others.
LEMMA Appended ==
    ASSUME NEW S, NEW q \in Seq(S), NEW x \in S
    PROVE  /\ Append(q, x) \in Seq(S) /\ Append(q, x) # <<>>
           /\ ToSet(Append(q, x)) = ToSet(q) \cup {x}
           /\ q # <<>> => Head(Append(q, x)) = Head(q)
<1> DEFINE p == Append(q, x)
<1>1. /\ p \in Seq(S) /\ p # <<>>
      /\ Len(p) = Len(q) + 1
      /\ \A i \in 1 .. Len(q) : p[i] = q[i]
      /\ p[Len(q) + 1] = x
  BY AppendProperties
<1> HIDE DEF p
<1>2. /\ Len(q) \in Nat
      /\ DOMAIN q = 1 .. Len(q)
      /\ DOMAIN p = 1 .. Len(q) + 1
  BY <1>1, LenProperties
<1>3. \A i \in 1 .. Len(q) + 1 : i = Len(q) + 1 \/ i \in 1 .. Len(q)
  BY <1>2
<1>4. 1 .. Len(q) \subseteq 1 .. Len(q) + 1 /\ Len(q) + 1 \in 1 .. Len(q) + 1
  BY <1>2
<1>5. ToSet(p) = ToSet(q) \cup {x}
  BY <1>1, <1>2, <1>3, <1>4 DEF ToSet
<1>6. ASSUME q # <<>>
      PROVE  Head(p) = Head(q)
  <2>1. Len(q) # 0
    BY <1>6, EmptySeq
  <2>2. 1 \in 1 .. Len(q)
    BY <1>2, <2>1
  <2>3. Head(p) = p[1] /\ Head(q) = q[1]
    BY <1>1
  <2>4. QED
    BY <1>1, <2>2, <2>3
<1>7. QED
  BY <1>1, <1>5, <1>6 DEF p

\* What is heard was in the queue, and what remains too.
LEMMA Taken ==
    ASSUME NEW S, NEW q \in Seq(S), q # <<>>
    PROVE  /\ Head(q) \in S /\ Head(q) \in ToSet(q)
           /\ Tail(q) \in Seq(S) /\ ToSet(Tail(q)) \subseteq ToSet(q)
           /\ \A x \in ToSet(q) : x = Head(q) \/ x \in ToSet(Tail(q))
<1> DEFINE p == Tail(q)
<1>1. /\ Head(q) \in S
      /\ p \in Seq(S)
      /\ Len(p) = Len(q) - 1
      /\ \A i \in 1 .. Len(p) : p[i] = q[i + 1]
  BY HeadTailProperties
<1>2. Head(q) = q[1]
  OBVIOUS
<1> HIDE DEF p
<1>3. /\ Len(q) \in Nat \ {0}
      /\ DOMAIN q = 1 .. Len(q)
      /\ DOMAIN p = 1 .. Len(q) - 1
  BY <1>1, EmptySeq, LenProperties
<1>4. 1 \in DOMAIN q /\ \A i \in DOMAIN p : i + 1 \in DOMAIN q
  BY <1>3
<1>5. \A i \in DOMAIN q : i = 1 \/ (i - 1 \in DOMAIN p /\ q[i] = p[i - 1])
  <2>1. \A i \in DOMAIN q : i = 1 \/ i - 1 \in DOMAIN p
    BY <1>3
  <2>2. \A i \in DOMAIN q : i = (i - 1) + 1
    BY <1>3
  <2>3. \A i \in DOMAIN p : p[i] = q[i + 1]
    BY <1>1, <1>3
  <2>4. QED
    BY <2>1, <2>2, <2>3
<1>6. \A i \in DOMAIN p : p[i] = q[i + 1]
  BY <1>1, <1>3
<1>7. Head(q) \in ToSet(q) /\ ToSet(p) \subseteq ToSet(q)
  BY <1>2, <1>4, <1>6 DEF ToSet
<1>8. \A x \in ToSet(q) : x = Head(q) \/ x \in ToSet(p)
  BY <1>2, <1>5 DEF ToSet
<1>9. QED
  BY <1>1, <1>7, <1>8 DEF p

\* The members of a sequence have their type; those of none are none.
LEMMA Members ==
    ASSUME NEW S
    PROVE  /\ \A q \in Seq(S) : ToSet(q) \subseteq S
           /\ <<>> \in Seq(S) /\ ToSet(<<>>) = {}
<1>1. ASSUME NEW q \in Seq(S)
      PROVE  ToSet(q) \subseteq S
  BY LenProperties DEF ToSet
<1>2. <<>> \in Seq(S) /\ DOMAIN <<>> = {}
  OBVIOUS
<1>3. QED
  BY <1>1, <1>2 DEF ToSet

\* An element taken out, or put in.
LEMMA Shortened ==
    ASSUME NEW S, NEW s \in Seq(S), NEW i \in 1 .. Len(s)
    PROVE  RemoveAt(s, i) \in Seq(S) /\ Len(RemoveAt(s, i)) = Len(s) - 1
<1> DEFINE n == Len(s)
           a == SubSeq(s, 1, i - 1)
           b == SubSeq(s, i + 1, n)
<1>1. n \in Nat /\ \A k \in 1 .. n : s[k] \in S
  BY LenProperties
<1> HIDE DEF n
<1>2. i \in 1 .. n
  BY DEF n
<1>3. i \in Nat \ {0} /\ i <= n /\ i - 1 \in Int /\ i + 1 \in Int /\ n \in Int
  BY <1>1, <1>2
<1>4. a \in Seq(S) /\ Len(a) = i - 1
  <2>1. \A k \in 1 .. i - 1 : k \in 1 .. n
    BY <1>1, <1>3
  <2>2. /\ a \in Seq(S)
        /\ Len(a) = IF 1 <= i - 1 THEN (i - 1) - 1 + 1 ELSE 0
    BY <1>1, <1>3, <2>1, SubSeqProperties
  <2> HIDE DEF a
  <2>3. QED
    BY <1>3, <2>2
<1>5. b \in Seq(S) /\ Len(b) = n - i
  <2>1. \A k \in i + 1 .. n : k \in 1 .. n
    BY <1>1, <1>3
  <2>2. /\ b \in Seq(S)
        /\ Len(b) = IF i + 1 <= n THEN n - (i + 1) + 1 ELSE 0
    BY <1>1, <1>3, <2>1, SubSeqProperties
  <2> HIDE DEF b
  <2>3. QED
    BY <1>1, <1>3, <2>2
<1>6. RemoveAt(s, i) = a \o b
  BY DEF RemoveAt, n
<1> HIDE DEF a, b
<1>7. a \o b \in Seq(S) /\ Len(a \o b) = Len(a) + Len(b)
  BY <1>4, <1>5, ConcatProperties
<1>8. (i - 1) + (n - i) = n - 1
  BY <1>1, <1>3
<1>9. QED
  BY <1>4, <1>5, <1>6, <1>7, <1>8 DEF n

LEMMA Lengthened ==
    ASSUME NEW S, NEW s \in Seq(S), NEW i \in 1 .. Len(s) + 1, NEW x \in S
    PROVE  InsertAt(s, i, x) \in Seq(S)
<1>1. /\ Len(s) \in Nat /\ DOMAIN s = 1 .. Len(s)
      /\ \A n \in 1 .. Len(s) : s[n] \in S
  BY LenProperties
<1>2. /\ \A n \in 1 .. i - 1 : n \in 1 .. Len(s)
      /\ \A n \in i .. Len(s) : n \in 1 .. Len(s)
  BY <1>1
<1>3. SubSeq(s, 1, i - 1) \in Seq(S)
  <2>1. 1 \in Int /\ i - 1 \in Int
    BY <1>1
  <2>2. \A n \in 1 .. i - 1 : s[n] \in S
    BY <1>1, <1>2
  <2>3. QED
    BY <2>1, <2>2, SubSeqProperties
<1>4. SubSeq(s, i, Len(s)) \in Seq(S)
  <2>1. i \in Int /\ Len(s) \in Int
    BY <1>1
  <2>2. \A n \in i .. Len(s) : s[n] \in S
    BY <1>1, <1>2
  <2>3. QED
    BY <2>1, <2>2, SubSeqProperties
<1>5. <<x>> \in Seq(S)
  OBVIOUS
<1>6. QED
  BY <1>3, <1>4, <1>5, ConcatProperties DEF InsertAt

\* What an edit makes of a Book is one, unless it throws.
LEMMA MutatedTyped ==
    ASSUME NEW book \in Books, NEW m \in Requests, Mutated(book, m) # None
    PROVE  Mutated(book, m) \in Books
<1>1. /\ book.documents \in Seq(Paths) /\ Len(book.documents) \in Nat
      /\ m.from \in Nat \ {0} /\ m.to \in Nat \ {0}
      /\ m.edit \in Edits /\ m.path \in Paths /\ m.title = "renamed"
  <2>1. \A n \in Places : n \in Nat \ {0}
    BY BookAssumption DEF Places
  <2>2. QED
    BY <2>1, LenProperties DEF Books, Requests
<1>2. \A documents \in Seq(Paths) : [book EXCEPT !.documents = documents] \in Books
  BY DEF Books
<1>3. CASE m.edit = "addDocument"
  <2>1. Append(book.documents, m.path) \in Seq(Paths)
    BY <1>1, Appended
  <2>2. Mutated(book, m) = AddDocuments(book, m.path)
    BY <1>3 DEF Mutated
  <2>3. QED
    BY <1>1, <1>2, <2>1, <2>2 DEF AddDocuments
<1>4. CASE m.edit = "removeDocument"
  <2>1. Mutated(book, m) = RemoveDocument(book, m.from)
    BY <1>4 DEF Mutated
  <2>2. m.from <= Len(book.documents)
    BY <1>1, <2>1 DEF RemoveDocument
  <2>3. m.from \in 1 .. Len(book.documents)
    BY <1>1, <2>2
  <2>4. RemoveAt(book.documents, m.from) \in Seq(Paths)
    BY <1>1, <2>3, Shortened
  <2>5. QED
    BY <1>1, <1>2, <2>1, <2>2, <2>4 DEF RemoveDocument
<1>5. CASE m.edit = "moveDocument"
  <2> DEFINE s == book.documents
             rest == RemoveAt(s, m.from)
  <2>1. Mutated(book, m) = MoveDocument(book, m.from, m.to)
    BY <1>5 DEF Mutated
  <2>2. m.from <= Len(s) /\ m.to <= Len(s)
    BY <1>1, <2>1 DEF MoveDocument
  <2>3. m.from \in 1 .. Len(s)
    BY <1>1, <2>2
  <2>4. rest \in Seq(Paths) /\ Len(rest) = Len(s) - 1 /\ s[m.from] \in Paths
    <3>1. s[m.from] \in Paths
      BY <1>1, <2>3, LenProperties
    <3>2. QED
      BY <1>1, <2>3, <3>1, Shortened
  <2> HIDE DEF rest
  <2>5. m.to \in 1 .. Len(rest) + 1
    BY <1>1, <2>2, <2>4
  <2>6. InsertAt(rest, m.to, s[m.from]) \in Seq(Paths)
    BY <2>4, <2>5, Lengthened
  <2>7. MoveDocument(book, m.from, m.to)
          = [book EXCEPT !.documents = InsertAt(rest, m.to, s[m.from])]
    BY <1>1, <2>2 DEF MoveDocument, rest
  <2>8. QED
    BY <1>2, <2>1, <2>6, <2>7
<1>6. CASE m.edit = "updateMeta"
  <2>1. Mutated(book, m) = [book EXCEPT !.title = m.title]
    BY <1>6 DEF Mutated
  <2>2. QED
    BY <1>1, <2>1 DEF Books
<1>7. CASE m.edit = "savePublishProfile"
  <2>1. Mutated(book, m) = [book EXCEPT !.publish = TRUE]
    BY <1>7 DEF Mutated
  <2>2. QED
    BY <2>1 DEF Books
<1>8. QED
  BY <1>1, <1>3, <1>4, <1>5, <1>6, <1>7 DEF Edits

----------------------------------------------------------------------------
(* What the host shows *)

\* A load, or the manifest that did not parse, on its way to be shown.
Shows == [sequence : Nat, epoch : Nat, book : Sources, captured : Read, coherent : BOOLEAN]

\* What neither loading nor showing a Book touches.
KeepsWork(h, k) ==
    /\ k.queue = h.queue /\ k.mutation = h.mutation
    /\ k.export = h.export /\ k.written = h.written

LEMMA ShownEffect ==
    ASSUME doc.version \in Nat, NEW h \in Hosts, NEW load \in Shows
    PROVE  LET k == Shown(h, load)
           IN  /\ k \in Hosts /\ KeepsWork(h, k)
               /\ k.loading = h.loading /\ k.styling = h.styling
               /\ k.state \in States
               /\ k.state.revision = doc.version /\ k.state.book = load.book
               /\ k.source # None =>
                     /\ k.source.captured = load.captured /\ k.source.book = load.book
                     /\ k.source.coherent = load.coherent
<1> DEFINE state == [generation |-> load.sequence, revision |-> doc.version,
                     book |-> load.book]
           source == IF IsBook(load.book)
                     THEN [revision |-> doc.version, epoch |-> load.epoch, book |-> load.book,
                           captured |-> load.captured, coherent |-> load.coherent]
                     ELSE None
           included == IF IsBook(load.book) THEN ToSet(load.book.documents) ELSE h.included
           k == [h EXCEPT !.state = state, !.source = source, !.included = included]
<1>1. Shown(h, load) = k
  BY DEF Shown
<1>2. /\ state \in States
      /\ state.revision = doc.version /\ state.book = load.book
  BY DEF States, Shows
<1>3. /\ source \in Composites \cup {None}
      /\ source # None => /\ source.captured = load.captured /\ source.book = load.book
                          /\ source.coherent = load.coherent
  BY DEF Composites, Shows, IsBook, Sources
<1>4. included \in SUBSET Paths
  <2>1. CASE IsBook(load.book)
    <3>1. load.book.documents \in Seq(Paths)
      BY <2>1 DEF IsBook, Shows, Sources, Books
    <3>2. QED
      BY <2>1, <3>1, Members
  <2>2. CASE ~IsBook(load.book)
    BY <2>2 DEF Hosts
  <2>3. QED
    BY <2>1, <2>2
<1> HIDE DEF state, source, included
<1>5. /\ k \in Hosts
      /\ k.state = state /\ k.source = source
      /\ k.loading = h.loading /\ k.styling = h.styling
  BY <1>2, <1>3, <1>4 DEF Hosts
<1>6. KeepsWork(h, k)
  BY DEF Hosts, KeepsWork
<1> HIDE DEF k
<1>7. QED
  BY <1>1, <1>2, <1>3, <1>5, <1>6

\* What is posted of it.
LEMMA PostStateEffect ==
    ASSUME toView \in Seq(Inbox), NEW h, h.state \in States, PostState(h)
    PROVE  /\ toView' \in Seq(Inbox)
           /\ \A m \in ToSet(toView') :
                 m \in ToSet(toView) \/ (m.type = "state" /\ m.state = h.state)
<1> DEFINE m == [type |-> "state", state |-> h.state]
<1>1. m \in Inbox /\ m.type = "state" /\ m.state = h.state
  BY DEF Inbox
<1> HIDE DEF m
<1>2. CASE h.ready
  <2>1. toView' = Append(toView, m)
    BY <1>2 DEF PostState, Post, m
  <2>2. QED
    BY <1>1, <2>1, Appended
<1>3. CASE ~h.ready
  BY <1>3 DEF PostState
<1>4. QED
  BY <1>2, <1>3

\* The host shows this Book, under the revision the manifest has now.
Presents(book) ==
    /\ host'.state \in States
    /\ host'.state.revision = doc.version /\ host'.state.book = book
    /\ \A m \in ToSet(toView') :
          m \in ToSet(toView) \/ (m.type = "state" /\ m.state = host'.state)

LEMMA Presented ==
    ASSUME doc.version \in Nat, toView \in Seq(Inbox), NEW h \in Hosts, NEW load \in Shows,
           host' = Shown(h, load), PostState(Shown(h, load))
    PROVE  /\ host' \in Hosts /\ toView' \in Seq(Inbox)
           /\ KeepsWork(h, host') /\ Presents(load.book)
           /\ host'.loading = h.loading /\ host'.styling = h.styling
           /\ host'.source # None =>
                 /\ host'.source.captured = load.captured /\ host'.source.book = load.book
                 /\ host'.source.coherent = load.coherent
<1> DEFINE k == Shown(h, load)
<1>1. /\ k \in Hosts /\ KeepsWork(h, k)
      /\ k.loading = h.loading /\ k.styling = h.styling
      /\ k.state \in States
      /\ k.state.revision = doc.version /\ k.state.book = load.book
      /\ k.source # None =>
            /\ k.source.captured = load.captured /\ k.source.book = load.book
            /\ k.source.coherent = load.coherent
  BY ShownEffect
<1>2. host' = k /\ PostState(k)
  OBVIOUS
<1> HIDE DEF k
<1>3. QED
  BY <1>1, <1>2, PostStateEffect DEF Presents

\* A load begins with nothing read, or a manifest that does not parse is shown.
StartsLoad(h) ==
    /\ host'.styling = h.styling
    /\ \/ /\ host'.loading # None =>
                /\ host'.loading.book = doc.book
                /\ \A p \in Paths : host'.loading.captured[p] = None
          /\ host'.state = h.state /\ host'.source = h.source /\ toView' = toView
       \/ /\ host'.loading = None /\ host'.source = None
          /\ Presents(doc.book)

Begins(h) == KeepsWork(h, host') /\ StartsLoad(h)

LEMMA UpdateBegins ==
    ASSUME TypeOK, NEW h \in Hosts, StartUpdate(h)
    PROVE  host' \in Hosts /\ toView' \in Seq(Inbox) /\ Begins(h)
<1> DEFINE sequence == h.sequence + 1
           load == [sequence |-> sequence, epoch |-> h.epoch, book |-> doc.book,
                    captured |-> [path \in Paths |-> None], coherent |-> FALSE]
           begun == [h EXCEPT !.sequence = sequence, !.loading = NoLoad]
<1>1. doc.version \in Nat /\ doc.book \in Sources /\ toView \in Seq(Inbox)
  BY DEF TypeOK
<1>2. /\ load \in Shows /\ load.book = doc.book
      /\ \A p \in Paths : load.captured[p] = None
      /\ doc.book \in Books => load \in Loads
  BY <1>1 DEF Shows, Hosts, Read, Loads
<1>3. /\ begun \in Hosts /\ begun.loading = None /\ begun.styling = h.styling
      /\ begun.state = h.state /\ begun.source = h.source
  <2>1. sequence \in Nat
    BY DEF Hosts
  <2> HIDE DEF sequence
  <2>2. QED
    BY <2>1 DEF Hosts, NoLoad
<1>4. KeepsWork(h, begun)
  BY DEF Hosts, KeepsWork
<1>5. IF IsBook(doc.book)
      THEN host' = [begun EXCEPT !.loading = load] /\ UNCHANGED toView
      ELSE host' = Shown(begun, load) /\ PostState(Shown(begun, load))
  BY DEF StartUpdate
<1> HIDE DEF load, begun
<1>6. CASE IsBook(doc.book)
  <2> DEFINE k == [begun EXCEPT !.loading = load]
  <2>1. load \in Loads
    BY <1>1, <1>2, <1>6 DEF IsBook, Sources
  <2>2. /\ k \in Hosts /\ k.loading = load /\ k.styling = begun.styling
        /\ k.state = begun.state /\ k.source = begun.source
    BY <1>3, <2>1 DEF Hosts
  <2>3. KeepsWork(begun, k)
    BY <1>3 DEF Hosts, KeepsWork
  <2>4. host' = k /\ toView' = toView
    BY <1>5, <1>6
  <2> HIDE DEF k
  <2>5. QED
    BY <1>1, <1>2, <1>3, <1>4, <2>2, <2>3, <2>4 DEF Begins, StartsLoad, KeepsWork
<1>7. CASE ~IsBook(doc.book)
  <2>1. host' = Shown(begun, load) /\ PostState(Shown(begun, load))
    BY <1>5, <1>7
  <2>2. /\ host' \in Hosts /\ toView' \in Seq(Inbox)
        /\ KeepsWork(begun, host') /\ Presents(load.book)
        /\ host'.loading = begun.loading /\ host'.styling = begun.styling
    BY <1>1, <1>2, <1>3, <2>1, Presented
  <2>3. host'.source = None
    BY <1>2, <1>3, <1>7, <2>1 DEF Shown, Hosts
  <2>4. QED
    BY <1>2, <1>3, <1>4, <2>2, <2>3 DEF Begins, StartsLoad, KeepsWork
<1>8. QED
  BY <1>6, <1>7

----------------------------------------------------------------------------
(* Types: loading and showing the Book *)

LEMMA TypedFacts ==
    ASSUME Typed
    PROVE  /\ host \in Hosts /\ toView \in Seq(Inbox) /\ toHost \in Seq(Outbox)
           /\ doc.version \in Nat /\ doc.book \in Sources
           /\ host.queue \in Seq(Requests)
           /\ host.state # None => host.state \in States
           /\ view.state # None => view.state \in States
BY DEF Typed, TypeOK, Hosts

\* What is typed when the host loads and shows.
LEMMA ShowingTyped ==
    ASSUME Typed, host' \in Hosts, toView' \in Seq(Inbox), KeepsWork(host, host'),
           UNCHANGED <<doc, chapter, view, toHost, ledger>>
    PROVE  Typed'
<1>1. TypeOK'
  BY DEF Typed, TypeOK
<1>2. InWork'
  BY DEF Typed, InWork, KeepsWork
<1>3. QED
  BY <1>1, <1>2 DEF Typed

LEMMA TimerFiresTyped ==
    ASSUME Typed, TimerFires
    PROVE  Typed' /\ KeepsWork(host, host') /\ Begins(host)
<1> DEFINE h == [host EXCEPT !.timer = FALSE]
<1>1. StartUpdate(h) /\ UNCHANGED <<doc, chapter, view, toHost, ledger>>
  BY DEF TimerFires
<1>2. /\ h \in Hosts
      /\ h.styling = host.styling /\ h.state = host.state /\ h.source = host.source
  BY TypedFacts DEF Hosts
<1>3. KeepsWork(host, h)
  BY TypedFacts DEF Hosts, KeepsWork
<1> HIDE DEF h
<1>4. host' \in Hosts /\ toView' \in Seq(Inbox) /\ Begins(h)
  BY <1>1, <1>2, UpdateBegins DEF Typed
<1>5. KeepsWork(host, host') /\ Begins(host)
  BY <1>2, <1>3, <1>4 DEF Begins, StartsLoad, KeepsWork
<1>6. QED
  BY <1>1, <1>4, <1>5, ShowingTyped

\* A chapter is read.
LEMMA LoadChapterTyped ==
    ASSUME Typed, NEW path \in Paths, LoadChapter(path)
    PROVE  /\ Typed' /\ KeepsWork(host, host') /\ toView' = toView
           /\ host'.styling = host.styling
           /\ host'.state = host.state /\ host'.source = host.source
           /\ host.loading # None /\ host.loading \in Loads
           /\ host'.loading.book = host.loading.book
           /\ \A p \in Paths : host'.loading.captured[p]
                 = IF p = path THEN Content(p) ELSE host.loading.captured[p]
<1> DEFINE load == [host.loading EXCEPT !.captured[path] = Content(path)]
           h == [host EXCEPT !.loading = load]
<1>1. /\ host.loading # None
      /\ host' = [host EXCEPT !.loading.captured[path] = Content(path)]
      /\ UNCHANGED <<doc, chapter, view, toHost, toView, ledger>>
  BY DEF LoadChapter, NoLoad
<1>2. host.loading \in Loads
  BY <1>1, TypedFacts DEF Hosts
<1>3. Content(path) \in Nat
  BY DEF Typed, TypeOK, Content, Files
<1>4. /\ load \in Loads /\ load.book = host.loading.book
      /\ \A p \in Paths : load.captured[p]
            = IF p = path THEN Content(p) ELSE host.loading.captured[p]
  BY <1>2, <1>3 DEF Loads, Read
<1>5. host' = h
  BY <1>1, <1>2, TypedFacts DEF Hosts, Loads
<1> HIDE DEF load
<1>6. /\ h \in Hosts /\ h.loading = load /\ h.styling = host.styling
      /\ h.state = host.state /\ h.source = host.source
  BY <1>4, TypedFacts DEF Hosts
<1>7. KeepsWork(host, h)
  BY TypedFacts DEF Hosts, KeepsWork
<1> HIDE DEF h
<1>8. Typed'
  BY <1>1, <1>5, <1>6, <1>7, ShowingTyped, TypedFacts
<1>9. QED
  BY <1>1, <1>2, <1>4, <1>5, <1>6, <1>7, <1>8

\* A Book is shown as it was composed.
PresentsLoad(load) ==
    /\ Presents(load.book)
    /\ host'.loading = None
    /\ host'.source # None =>
          /\ host'.source.captured = load.captured /\ host'.source.book = load.book
          /\ host'.source.coherent = load.coherent

\* All chapters are read: the Book is composed, and waits for its style sheet or
\* is shown.
LEMMA ComposedTyped ==
    ASSUME Typed, Composed
    PROVE  /\ Typed' /\ KeepsWork(host, host') /\ host.loading # None
           /\ \E load \in Loads :
                 /\ load.book = host.loading.book /\ load.captured = host.loading.captured
                 /\ load.coherent = ( /\ load.book = doc.book
                                      /\ \A p \in ToSet(load.book.documents) :
                                            load.captured[p] = Content(p) )
                 /\ \/ /\ host'.loading = None /\ host'.styling = host.styling \cup {load}
                       /\ host'.state = host.state /\ host'.source = host.source
                       /\ toView' = toView
                    \/ /\ host'.styling = host.styling
                       /\ PresentsLoad(load)
<1> DEFINE read == host.loading
           is == /\ read.book = doc.book
                 /\ \A p \in ToSet(read.book.documents) : read.captured[p] = Content(p)
           load == [read EXCEPT !.coherent = is]
           rest == [host EXCEPT !.loading = NoLoad]
           next == [rest EXCEPT !.styling = @ \cup {load}]
<1>1. /\ read # None
      /\ IF load.book.publish
         THEN host' = next /\ UNCHANGED toView
         ELSE host' = Shown(rest, load) /\ PostState(Shown(rest, load))
      /\ UNCHANGED <<doc, chapter, view, toHost, ledger>>
  BY DEF Composed, NoLoad
<1>2. read \in Loads
  BY <1>1, TypedFacts DEF Hosts
<1>3. is \in BOOLEAN
  OBVIOUS
<1>4. load.coherent = is
  <2> HIDE DEF is
  <2>1. QED
    BY <1>2 DEF Loads
<1>5. load \in Loads /\ load.book = read.book /\ load.captured = read.captured
  <2> HIDE DEF is
  <2>1. QED
    BY <1>2, <1>3 DEF Loads
<1>6. load.coherent = ( /\ load.book = doc.book
                        /\ \A p \in ToSet(load.book.documents) :
                              load.captured[p] = Content(p) )
  <2>1. is = ( /\ read.book = doc.book
               /\ \A p \in ToSet(read.book.documents) : read.captured[p] = Content(p) )
    OBVIOUS
  <2> HIDE DEF load, read, is
  <2>2. QED
    BY <1>4, <1>5, <2>1
<1> HIDE DEF load
<1>7. /\ rest \in Hosts /\ rest.loading = None /\ rest.styling = host.styling
      /\ rest.state = host.state /\ rest.source = host.source
  BY TypedFacts DEF Hosts, NoLoad
<1>8. KeepsWork(host, rest)
  BY TypedFacts DEF Hosts, KeepsWork
<1>9. /\ next \in Hosts /\ next.loading = None /\ next.styling = host.styling \cup {load}
      /\ next.state = host.state /\ next.source = host.source
  <2>1. host.styling \cup {load} \in SUBSET Loads
    BY <1>5, TypedFacts DEF Hosts
  <2>2. next = [rest EXCEPT !.styling = host.styling \cup {load}]
    BY <1>7 DEF Hosts
  <2> HIDE DEF next, rest
  <2>3. QED
    BY <1>7, <2>1, <2>2 DEF Hosts
<1>10. KeepsWork(host, next)
  BY TypedFacts DEF Hosts, KeepsWork
<1> HIDE DEF rest, next, read
<1>11. CASE load.book.publish
  <2>1. host' = next /\ toView' = toView
    BY <1>1, <1>11
  <2>2. Typed'
    BY <1>1, <1>9, <1>10, <2>1, ShowingTyped, TypedFacts
  <2>3. QED
    BY <1>1, <1>5, <1>6, <1>9, <1>10, <2>1, <2>2 DEF read
<1>12. CASE ~load.book.publish
  <2>1. load \in Shows
    BY <1>5 DEF Loads, Shows, Sources
  <2>2. host' = Shown(rest, load) /\ PostState(Shown(rest, load))
    BY <1>1, <1>12
  <2>3. /\ host' \in Hosts /\ toView' \in Seq(Inbox)
        /\ KeepsWork(rest, host') /\ Presents(load.book)
        /\ host'.loading = rest.loading /\ host'.styling = rest.styling
        /\ host'.source # None =>
              /\ host'.source.captured = load.captured /\ host'.source.book = load.book
              /\ host'.source.coherent = load.coherent
    BY <1>7, <2>1, <2>2, Presented, TypedFacts
  <2>4. KeepsWork(host, host')
    BY <1>8, <2>3 DEF KeepsWork
  <2>5. Typed'
    BY <1>1, <2>3, <2>4, ShowingTyped
  <2>6. QED
    BY <1>1, <1>5, <1>6, <1>7, <2>3, <2>4, <2>5 DEF PresentsLoad, read
<1>13. QED
  BY <1>11, <1>12

\* The style sheet is read, and the Book is shown.
LEMMA StyleReadTyped ==
    ASSUME Typed, NEW load \in host.styling, StyleRead(load)
    PROVE  /\ Typed' /\ KeepsWork(host, host')
           /\ load \in Loads
           /\ host'.styling = host.styling \ {load}
           /\ Presents(load.book) /\ host'.loading = host.loading
           /\ host'.source # None =>
                 /\ host'.source.captured = load.captured /\ host'.source.book = load.book
                 /\ host'.source.coherent = load.coherent
<1> DEFINE rest == [host EXCEPT !.styling = @ \ {load}]
<1>1. /\ host' = Shown(rest, load) /\ PostState(Shown(rest, load))
      /\ UNCHANGED <<doc, chapter, view, toHost, ledger>>
  BY DEF StyleRead
<1>2. load \in Loads /\ host.styling \ {load} \in SUBSET Loads
  BY TypedFacts DEF Hosts
<1>3. load \in Shows
  BY <1>2 DEF Loads, Shows, Sources
<1>4. /\ rest \in Hosts /\ rest.styling = host.styling \ {load}
      /\ rest.loading = host.loading
  BY <1>2, TypedFacts DEF Hosts
<1>5. KeepsWork(host, rest)
  BY TypedFacts DEF Hosts, KeepsWork
<1> HIDE DEF rest
<1>6. /\ host' \in Hosts /\ toView' \in Seq(Inbox)
      /\ KeepsWork(rest, host') /\ Presents(load.book)
      /\ host'.loading = rest.loading /\ host'.styling = rest.styling
      /\ host'.source # None =>
            /\ host'.source.captured = load.captured /\ host'.source.book = load.book
            /\ host'.source.coherent = load.coherent
  BY <1>1, <1>3, <1>4, Presented, TypedFacts
<1>7. KeepsWork(host, host')
  BY <1>5, <1>6 DEF KeepsWork
<1>8. Typed'
  BY <1>1, <1>6, <1>7, ShowingTyped
<1>9. QED
  BY <1>2, <1>4, <1>6, <1>7, <1>8

----------------------------------------------------------------------------
(* Types: other writers, and the edits of the webview *)

\* What neither an edit nor an export touches.
KeepsShown(h, k) ==
    /\ k.loading = h.loading /\ k.styling = h.styling
    /\ k.state = h.state /\ k.source = h.source

\* A change of anything shown ends the load.
Reschedules(h, k) ==
    /\ k.loading = None /\ k.styling = h.styling
    /\ k.state = h.state /\ k.source = h.source

LEMMA ScheduledEffect ==
    ASSUME NEW h \in Hosts
    PROVE  /\ Scheduled(h) \in Hosts
           /\ KeepsWork(h, Scheduled(h)) /\ Reschedules(h, Scheduled(h))
<1> DEFINE k == [h EXCEPT !.epoch = @ + 1, !.loading = NoLoad, !.timer = TRUE]
<1>1. h.epoch + 1 \in Nat
  BY DEF Hosts
<1>2. k \in Hosts
  BY <1>1 DEF Hosts, NoLoad
<1>3. KeepsWork(h, k)
  BY DEF Hosts, KeepsWork
<1>4. Reschedules(h, k)
  BY DEF Hosts, Reschedules, NoLoad
<1>5. QED
  BY <1>2, <1>3, <1>4 DEF Scheduled

\* One more of a bounded thing.
LEMMA SpentTyped ==
    ASSUME Typed, NEW what \in {"writes", "clicks", "exports"}, NEW bound, Spent(what, bound)
    PROVE  ledger' \in [writes : Nat, clicks : Nat, exports : Nat]
<1>1. /\ ledger \in [writes : Nat, clicks : Nat, exports : Nat]
      /\ ledger' = [ledger EXCEPT ![what] = @ + 1]
  BY DEF Typed, TypeOK, Spent
<1>2. ledger[what] + 1 \in Nat
  BY <1>1
<1>3. QED
  BY <1>1, <1>2

LEMMA ForeignManifestTyped ==
    ASSUME Typed, NEW book \in Sources, ForeignManifest(book)
    PROVE  /\ Typed' /\ KeepsWork(host, host') /\ Reschedules(host, host')
           /\ doc'.version = doc.version + 1 /\ Undisturbed
           /\ UNCHANGED <<chapter, view, toHost, toView>>
<1>1. /\ doc' = [book |-> book, version |-> doc.version + 1] /\ host' = Scheduled(host)
      /\ Undisturbed /\ UNCHANGED <<chapter, view, toHost, toView>>
      /\ Spent("writes", MaxWrites)
  BY DEF ForeignManifest
<1>2. host' \in Hosts /\ KeepsWork(host, host') /\ Reschedules(host, host')
  BY <1>1, TypedFacts, ScheduledEffect
<1>3. doc.version + 1 \in Nat /\ ledger' \in [writes : Nat, clicks : Nat, exports : Nat]
  <2>1. doc.version + 1 \in Nat
    BY TypedFacts
  <2>2. QED
    BY <1>1, <2>1, SpentTyped
<1>4. doc' \in [book : Sources, version : Nat] /\ doc'.version = doc.version + 1
  BY <1>1, <1>3
<1>5. TypeOK'
  BY <1>1, <1>2, <1>3, <1>4 DEF Typed, TypeOK, Sources, Hosts, Files
<1>6. InWork'
  BY <1>2 DEF Typed, InWork, KeepsWork
<1>7. QED
  BY <1>1, <1>2, <1>4, <1>5, <1>6 DEF Typed

LEMMA ForeignChapterTyped ==
    ASSUME Typed, NEW path \in Paths, ForeignChapter(path)
    PROVE  /\ Typed' /\ KeepsWork(host, host') /\ KeepsShown(host, host')
           /\ \A p \in Paths : Content(p) <= chapter'[Key[p]]
           /\ UNCHANGED <<doc, view, toHost, toView>>
<1>1. /\ chapter' = [chapter EXCEPT ![Key[path]] = @ + 1]
      /\ host' = [host EXCEPT !.unheard = @ \/ path \in host.included]
      /\ UNCHANGED <<doc, view, toHost, toView>>
      /\ Spent("writes", MaxWrites)
  BY DEF ForeignChapter
<1>2. /\ chapter \in [Files -> Nat]
      /\ \A p \in Paths : Key[p] \in Files
  BY DEF Typed, TypeOK, Files
<1>3. chapter' \in [Files -> Nat] /\ \A f \in Files : chapter[f] <= chapter'[f]
  BY <1>1, <1>2
<1>4. ledger' \in [writes : Nat, clicks : Nat, exports : Nat]
  BY <1>1, SpentTyped
<1>5. (host.unheard \/ path \in host.included) \in BOOLEAN
  OBVIOUS
<1>6. host' \in Hosts
  BY <1>1, <1>5, TypedFacts DEF Hosts
<1>7. KeepsWork(host, host') /\ KeepsShown(host, host')
  BY <1>1, TypedFacts DEF Hosts, KeepsWork, KeepsShown
<1>8. TypeOK'
  BY <1>1, <1>3, <1>4, <1>6 DEF Typed, TypeOK, Files
<1>9. InWork'
  BY <1>7 DEF Typed, InWork, KeepsWork
<1>10. QED
  BY <1>1, <1>2, <1>3, <1>7, <1>8, <1>9 DEF Typed, Content

LEMMA WatcherFiresTyped ==
    ASSUME Typed, WatcherFires
    PROVE  /\ Typed' /\ KeepsWork(host, host') /\ Reschedules(host, host')
           /\ UNCHANGED <<doc, chapter, view, toHost, toView>>
<1> DEFINE h == [host EXCEPT !.unheard = FALSE]
<1>1. host' = Scheduled(h) /\ UNCHANGED <<doc, chapter, view, toHost, toView, ledger>>
  BY DEF WatcherFires
<1>2. h \in Hosts /\ KeepsShown(host, h)
  BY TypedFacts DEF Hosts, KeepsShown
<1>3. KeepsWork(host, h)
  BY TypedFacts DEF Hosts, KeepsWork
<1> HIDE DEF h
<1>4. host' \in Hosts /\ KeepsWork(h, host') /\ Reschedules(h, host')
  BY <1>1, <1>2, ScheduledEffect
<1>5. KeepsWork(host, host') /\ Reschedules(host, host')
  BY <1>2, <1>3, <1>4 DEF KeepsWork, KeepsShown, Reschedules
<1>6. QED
  BY <1>1, <1>4, <1>5, ShowingTyped, TypedFacts

\* The webview announces itself.
LEMMA ReadyTyped ==
    ASSUME Typed, Ready
    PROVE  /\ Typed' /\ UNCHANGED <<doc, chapter, host, toView>>
           /\ view'.state = view.state
           /\ \A m \in ToSet(toHost') : m \in ToSet(toHost) \/ m.type = "ready"
<1> DEFINE m == [type |-> "ready"]
<1>1. m \in Outbox /\ m.type = "ready"
  BY DEF Outbox
<1>2. /\ view' = [view EXCEPT !.ready = TRUE] /\ toHost' = Append(toHost, m)
      /\ UNCHANGED <<doc, chapter, host, toView, ledger>>
  BY DEF Ready
<1> HIDE DEF m
<1>3. toHost' \in Seq(Outbox) /\ ToSet(toHost') = ToSet(toHost) \cup {m}
  BY <1>1, <1>2, Appended, TypedFacts
<1>4. /\ view' \in [ready : BOOLEAN, state : States \cup {None}, pending : Nat \cup {None}]
      /\ view'.state = view.state
  BY <1>2 DEF Typed, TypeOK
<1>5. TypeOK'
  BY <1>2, <1>3, <1>4 DEF Typed, TypeOK
<1>6. InWork'
  BY <1>2 DEF Typed, InWork
<1>7. QED
  BY <1>1, <1>2, <1>3, <1>4, <1>5, <1>6 DEF Typed

\* An edit is posted on what is shown.
LEMMA ClickTyped ==
    ASSUME Typed, NEW edit \in Edits, NEW path \in Paths, NEW from \in Places,
           NEW to \in Places, Click(edit, path, from, to)
    PROVE  /\ Typed' /\ UNCHANGED <<doc, chapter, host, toView>>
           /\ view.state # None /\ view'.state = view.state
           /\ \A m \in ToSet(toHost') :
                 \/ m \in ToSet(toHost)
                 \/ m.base = view.state.revision /\ m.shown = view.state.book
<1> DEFINE m == [type |-> "mutation", edit |-> edit, path |-> path, from |-> from,
                 to |-> to, title |-> "renamed", request |-> ledger.clicks + 1,
                 base |-> view.state.revision, shown |-> view.state.book]
<1>1. /\ view.state # None /\ IsBook(view.state.book)
      /\ view' = [view EXCEPT !.pending = ledger.clicks + 1]
      /\ toHost' = Append(toHost, m)
      /\ Spent("clicks", MaxClicks)
      /\ UNCHANGED <<doc, chapter, host, toView>>
  BY DEF Click
<1>2. /\ ledger \in [writes : Nat, clicks : Nat, exports : Nat]
      /\ view \in [ready : BOOLEAN, state : States \cup {None}, pending : Nat \cup {None}]
      /\ ledger.clicks + 1 \in Nat
  BY DEF Typed, TypeOK
<1>3. view.state.revision \in Nat /\ view.state.book \in Books
  BY <1>1, TypedFacts DEF States, IsBook, Sources
<1>4. m \in Requests /\ m.base = view.state.revision /\ m.shown = view.state.book
  BY <1>2, <1>3 DEF Requests
<1>5. m \in Outbox
  BY <1>4 DEF Outbox
<1> HIDE DEF m
<1>6. toHost' \in Seq(Outbox) /\ ToSet(toHost') = ToSet(toHost) \cup {m}
  BY <1>1, <1>5, Appended, TypedFacts
<1>7. /\ view' \in [ready : BOOLEAN, state : States \cup {None}, pending : Nat \cup {None}]
      /\ view'.state = view.state
  BY <1>1, <1>2
<1>8. ledger' \in [writes : Nat, clicks : Nat, exports : Nat]
  BY <1>1, SpentTyped
<1>9. TypeOK'
  BY <1>1, <1>6, <1>7, <1>8 DEF Typed, TypeOK
<1>10. InWork'
  BY <1>1 DEF Typed, InWork
<1>11. QED
  BY <1>1, <1>4, <1>6, <1>7, <1>9, <1>10 DEF Typed

\* An export is asked for.
LEMMA ExportTyped ==
    ASSUME Typed, Export
    PROVE  /\ Typed' /\ UNCHANGED <<doc, chapter, host, view, toView>>
           /\ \A m \in ToSet(toHost') : m \in ToSet(toHost) \/ m.type = "export"
<1> DEFINE m == [type |-> "export", base |-> view.state.revision]
<1>1. /\ view.state # None /\ toHost' = Append(toHost, m)
      /\ Spent("exports", MaxExports)
      /\ UNCHANGED <<doc, chapter, host, view, toView>>
  BY DEF Export
<1>2. view.state.revision \in Nat
  BY <1>1, TypedFacts DEF States
<1>3. m \in Outbox /\ m.type = "export"
  BY <1>2 DEF Outbox
<1> HIDE DEF m
<1>4. toHost' \in Seq(Outbox) /\ ToSet(toHost') = ToSet(toHost) \cup {m}
  BY <1>1, <1>3, Appended, TypedFacts
<1>5. ledger' \in [writes : Nat, clicks : Nat, exports : Nat]
  BY <1>1, SpentTyped
<1>6. TypeOK'
  BY <1>1, <1>4, <1>5 DEF Typed, TypeOK
<1>7. InWork'
  BY <1>1 DEF Typed, InWork
<1>8. QED
  BY <1>1, <1>3, <1>4, <1>6, <1>7 DEF Typed

----------------------------------------------------------------------------
(* Types: the edit under way *)

\* The first edit of the queue ends, asks its user, or is handed to VS Code, which
\* it is only on the revision it was made on.
Works ==
    /\ KeepsShown(host, host')
    /\ host'.export = host.export /\ host'.written = host.written
    /\ \A m \in ToSet(toView') : m \in ToSet(toView) \/ m.type = "result"
    /\ \/ host'.queue = Tail(host.queue) /\ host'.mutation = None
       \/ /\ host'.queue = host.queue
          /\ host'.mutation.stage = "applying" =>
                /\ host'.mutation.version = doc.version
                /\ doc.version = Head(host.queue).base

LEMMA ResultEffect ==
    ASSUME toView \in Seq(Inbox), NEW m \in Requests,
           NEW status \in {"applied", "rejected", "stale", "cancelled"},
           Post(Result(m, status))
    PROVE  /\ toView' \in Seq(Inbox)
           /\ \A x \in ToSet(toView') : x \in ToSet(toView) \/ x.type = "result"
<1> DEFINE r == [type |-> "result", request |-> m.request, status |-> status]
<1>1. m.request \in Nat
  BY DEF Requests
<1>2. r \in Inbox /\ r.type = "result"
  BY <1>1 DEF Inbox
<1>3. toView' = Append(toView, r)
  BY DEF Post, Result
<1> HIDE DEF r
<1>4. QED
  BY <1>2, <1>3, Appended

\* The queue without its first edit.
LEMMA DequeuedTyped ==
    ASSUME NEW h \in Hosts, h.queue # <<>>
    PROVE  LET k == [h EXCEPT !.queue = Tail(@), !.mutation = None]
           IN  /\ k \in Hosts /\ KeepsShown(h, k)
               /\ k.queue = Tail(h.queue) /\ k.mutation = None
               /\ k.export = h.export /\ k.written = h.written
<1> DEFINE rest == Tail(h.queue)
           k == [h EXCEPT !.queue = rest, !.mutation = None]
<1>1. h.queue \in Seq(Requests)
  BY DEF Hosts
<1>2. rest \in Seq(Requests)
  BY <1>1, Taken
<1> HIDE DEF rest
<1>3. /\ k \in Hosts /\ k.queue = rest /\ k.mutation = None
      /\ k.export = h.export /\ k.written = h.written
  BY <1>2 DEF Hosts
<1>4. KeepsShown(h, k)
  BY DEF Hosts, KeepsShown
<1>5. [h EXCEPT !.queue = Tail(@), !.mutation = None] = k
  BY DEF Hosts, rest
<1> HIDE DEF k
<1>6. QED
  BY <1>3, <1>4, <1>5 DEF rest

LEMMA EndedEffect ==
    ASSUME Typed, host.queue # <<>>, NEW m \in Requests,
           NEW status \in {"applied", "rejected", "stale", "cancelled"}, Ended(m, status)
    PROVE  /\ host' \in Hosts /\ toView' \in Seq(Inbox)
           /\ Works /\ host'.mutation = None
<1> DEFINE k == [host EXCEPT !.queue = Tail(@), !.mutation = None]
<1>1. host' = k /\ Post(Result(m, status))
  BY DEF Ended
<1>2. /\ k \in Hosts /\ KeepsShown(host, k)
      /\ k.queue = Tail(host.queue) /\ k.mutation = None
      /\ k.export = host.export /\ k.written = host.written
  BY TypedFacts, DequeuedTyped
<1> HIDE DEF k
<1>3. /\ toView' \in Seq(Inbox)
      /\ \A x \in ToSet(toView') : x \in ToSet(toView) \/ x.type = "result"
  BY <1>1, ResultEffect, TypedFacts
<1>4. QED
  BY <1>1, <1>2, <1>3 DEF Works

\* A stage of the edit that stays first.
LEMMA StageEffect ==
    ASSUME Typed, host.queue # <<>>, NEW mutation \in Mutations,
           host' = [host EXCEPT !.mutation = mutation], toView' = toView,
           mutation.stage = "applying" =>
              mutation.version = doc.version /\ doc.version = Head(host.queue).base
    PROVE  host' \in Hosts /\ toView' \in Seq(Inbox) /\ Works
<1>1. host' \in Hosts /\ host'.mutation = mutation
  BY TypedFacts DEF Hosts
<1>2. /\ host'.queue = host.queue
      /\ host'.export = host.export /\ host'.written = host.written
  BY TypedFacts DEF Hosts
<1>3. KeepsShown(host, host')
  BY TypedFacts DEF Hosts, KeepsShown
<1>4. QED
  BY <1>1, <1>2, <1>3, TypedFacts DEF Works

LEMMA ApplyEffect ==
    ASSUME Typed, host.queue # <<>>, Snapshot(Head(host.queue)), Apply(Head(host.queue))
    PROVE  host' \in Hosts /\ toView' \in Seq(Inbox) /\ Works
<1> DEFINE m == Head(host.queue)
           next == Mutated(doc.book, m)
           mutation == [stage |-> "applying", next |-> next, version |-> doc.version]
<1>1. m \in Requests
  BY Taken, TypedFacts
<1>2. doc.version = m.base /\ doc.book \in Books
  BY TypedFacts DEF Snapshot, Current, IsBook, Sources
<1>3. IF next = None THEN Ended(m, "rejected")
      ELSE IF m.edit = "addDocument" /\ next = doc.book THEN Ended(m, "cancelled")
      ELSE host' = [host EXCEPT !.mutation = mutation] /\ toView' = toView
  BY DEF Apply
<1>4. next # None => next \in Books
  BY <1>1, <1>2, MutatedTyped
<1> HIDE DEF next, m
<1>5. CASE Ended(m, "rejected") \/ Ended(m, "cancelled")
  BY <1>1, <1>5, EndedEffect
<1>6. CASE next # None /\ host' = [host EXCEPT !.mutation = mutation] /\ toView' = toView
  <2>1. mutation \in Mutations /\ mutation.version = doc.version
    BY <1>4, <1>6, TypedFacts DEF Mutations
  <2> HIDE DEF mutation
  <2>2. QED
    BY <1>2, <1>6, <2>1, StageEffect DEF m
<1>7. QED
  BY <1>3, <1>5, <1>6

\* An edit starts, or its dialog is answered.
LEMMA WorksTyped ==
    ASSUME Typed, host' \in Hosts, toView' \in Seq(Inbox), Works, host.queue # <<>>,
           UNCHANGED <<doc, chapter, view, toHost, ledger>>
    PROVE  Typed'
<1>1. TypeOK'
  BY DEF Typed, TypeOK
<1>2. InWork'
  BY DEF Typed, InWork, Works
<1>3. QED
  BY <1>1, <1>2 DEF Typed

LEMMA StartMutationTyped ==
    ASSUME Typed, StartMutation
    PROVE  /\ Typed' /\ Works /\ host.queue # <<>>
           /\ UNCHANGED <<doc, chapter, view, toHost>>
<1> DEFINE m == Head(host.queue)
           asking == [stage |-> "asking", next |-> None, version |-> 0]
<1>1. /\ host.queue # <<>>
      /\ UNCHANGED <<doc, chapter, view, toHost, ledger>>
      /\ \/ Ended(m, Refusal(m))
         \/ /\ Snapshot(m)
            /\ \/ Ended(m, "rejected")
               \/ host' = [host EXCEPT !.mutation = asking] /\ toView' = toView
               \/ Apply(m)
  BY DEF StartMutation
<1>2. m \in Requests
  BY <1>1, Taken, TypedFacts
<1>3. Refusal(m) \in {"rejected", "stale"}
  BY DEF Refusal
<1>4. asking \in Mutations /\ asking.stage # "applying"
  BY DEF Mutations
<1> HIDE DEF m, asking
<1>5. CASE Ended(m, Refusal(m)) \/ Ended(m, "rejected")
  BY <1>1, <1>2, <1>3, <1>5, EndedEffect, WorksTyped
<1>6. CASE host' = [host EXCEPT !.mutation = asking] /\ toView' = toView
  BY <1>1, <1>4, <1>6, StageEffect, WorksTyped
<1>7. CASE Snapshot(m) /\ Apply(m)
  BY <1>1, <1>7, ApplyEffect, WorksTyped DEF m
<1>8. QED
  BY <1>1, <1>5, <1>6, <1>7

LEMMA AnswerDialogTyped ==
    ASSUME Typed, NEW agrees \in BOOLEAN, AnswerDialog(agrees)
    PROVE  /\ Typed' /\ Works /\ host.queue # <<>>
           /\ UNCHANGED <<doc, chapter, view, toHost>>
<1> DEFINE m == Head(host.queue)
<1>1. /\ host.mutation # None
      /\ UNCHANGED <<doc, chapter, view, toHost, ledger>>
      /\ \/ Ended(m, "cancelled")
         \/ Ended(m, Refusal(m))
         \/ Snapshot(m) /\ Apply(m)
  BY DEF AnswerDialog, Recheck
<1>2. host.queue # <<>>
  BY <1>1 DEF Typed, InWork
<1>3. m \in Requests
  BY <1>2, Taken, TypedFacts
<1>4. Refusal(m) \in {"rejected", "stale"}
  BY DEF Refusal
<1> HIDE DEF m
<1>5. CASE Ended(m, "cancelled") \/ Ended(m, Refusal(m))
  BY <1>1, <1>2, <1>3, <1>4, <1>5, EndedEffect, WorksTyped
<1>6. CASE Snapshot(m) /\ Apply(m)
  BY <1>1, <1>2, <1>6, ApplyEffect, WorksTyped DEF m
<1>7. QED
  BY <1>1, <1>5, <1>6

\* VS Code applies the edit to the version it was made for, or refuses it.
LEMMA ApplyEditTyped ==
    ASSUME Typed, ApplyEdit
    PROVE  /\ Typed' /\ host.queue # <<>> /\ UNCHANGED <<chapter, view, toHost>>
           /\ \/ /\ host.mutation # None /\ host.mutation.stage = "applying"
                 /\ doc.version = host.mutation.version /\ Undisturbed
                 /\ doc'.version = doc.version + 1
                 /\ Reschedules(host, host')
                 /\ host'.export = host.export /\ host'.written = host.written
                 /\ host'.queue = Tail(host.queue) /\ host'.mutation = None
                 /\ \A m \in ToSet(toView') : m \in ToSet(toView) \/ m.type = "result"
              \/ doc' = doc /\ Works
<1> DEFINE m == Head(host.queue)
           done == [host EXCEPT !.queue = Tail(@), !.mutation = None]
<1>1. /\ host.mutation # None /\ host.mutation.stage = "applying" /\ Undisturbed
      /\ UNCHANGED <<chapter, view, toHost, ledger>>
      /\ \/ /\ doc.version = host.mutation.version
            /\ doc' = [book |-> host.mutation.next, version |-> doc.version + 1]
            /\ host' = Scheduled(done)
            /\ Post(Result(m, "applied"))
         \/ UNCHANGED doc /\ Ended(m, "rejected")
  BY DEF ApplyEdit
<1>2. host.queue # <<>>
  BY <1>1 DEF Typed, InWork
<1>3. m \in Requests
  BY <1>2, Taken, TypedFacts
<1>4. host.mutation.next \in Books
  BY <1>1, TypedFacts DEF Hosts, Mutations
<1>5. /\ done \in Hosts /\ KeepsShown(host, done)
      /\ done.queue = Tail(host.queue) /\ done.mutation = None
      /\ done.export = host.export /\ done.written = host.written
  BY <1>2, TypedFacts, DequeuedTyped
<1> HIDE DEF m, done
<1>6. CASE UNCHANGED doc /\ Ended(m, "rejected")
  BY <1>1, <1>2, <1>3, <1>6, EndedEffect, WorksTyped
<1>7. CASE /\ doc.version = host.mutation.version
           /\ doc' = [book |-> host.mutation.next, version |-> doc.version + 1]
           /\ host' = Scheduled(done)
           /\ Post(Result(m, "applied"))
  <2>1. /\ toView' \in Seq(Inbox)
        /\ \A x \in ToSet(toView') : x \in ToSet(toView) \/ x.type = "result"
    BY <1>3, <1>7, ResultEffect, TypedFacts
  <2>2. host' \in Hosts /\ KeepsWork(done, host') /\ Reschedules(done, host')
    BY <1>5, <1>7, ScheduledEffect
  <2>3. /\ Reschedules(host, host')
        /\ host'.export = host.export /\ host'.written = host.written
        /\ host'.queue = Tail(host.queue) /\ host'.mutation = None
    BY <1>5, <2>2 DEF KeepsShown, KeepsWork, Reschedules
  <2>4. doc.version + 1 \in Nat
    BY TypedFacts
  <2>5. doc' \in [book : Sources, version : Nat] /\ doc'.version = doc.version + 1
    BY <1>4, <1>7, <2>4 DEF Sources
  <2>6. TypeOK'
    BY <1>1, <2>1, <2>2, <2>5 DEF Typed, TypeOK
  <2>7. InWork'
    BY <2>3 DEF Typed, InWork
  <2>8. QED
    BY <1>1, <1>2, <1>7, <2>1, <2>3, <2>5, <2>6, <2>7 DEF Typed
<1>8. QED
  BY <1>1, <1>6, <1>7

----------------------------------------------------------------------------
(* Types: exports *)

\* The plan becomes `plan`, and nothing else changes.
Becomes(plan) ==
    /\ host'.export = plan
    /\ KeepsShown(host, host')
    /\ host'.queue = host.queue /\ host'.mutation = host.mutation
    /\ UNCHANGED <<doc, chapter, view, toHost, toView>>

LEMMA PlanTyped ==
    ASSUME Typed, NEW plan \in Plans \cup {None},
           host' = [host EXCEPT !.export = plan],
           plan # None /\ plan.stage # "updating" => plan.source # None,
           UNCHANGED <<doc, chapter, view, toHost, toView, ledger>>
    PROVE  Typed' /\ Becomes(plan) /\ host'.written = host.written
<1>1. /\ host' \in Hosts /\ host'.export = plan /\ host'.written = host.written
      /\ host'.queue = host.queue /\ host'.mutation = host.mutation
  BY TypedFacts DEF Hosts
<1>2. KeepsShown(host, host')
  BY TypedFacts DEF Hosts, KeepsShown
<1>3. TypeOK'
  BY <1>1 DEF Typed, TypeOK
<1>4. InWork'
  BY <1>1 DEF Typed, InWork
<1>5. QED
  BY <1>1, <1>2, <1>3, <1>4 DEF Typed, Becomes

\* A plan is given up.
LEMMA FailedTyped ==
    ASSUME Typed, host' = Failed(host),
           UNCHANGED <<doc, chapter, view, toHost, toView, ledger>>
    PROVE  Typed' /\ Becomes(None) /\ host'.written = host.written
BY PlanTyped DEF Failed, NoExport

\* The steps of a plan, apart from its being given up or written.
PlanGoes ==
    \E plan \in Plans :
       /\ Becomes(plan) /\ host'.written = host.written
       /\ host.export # None
       /\ \/ plan.stage = "rendering" /\ plan.source = host.source /\ host.source # None
          \/ /\ host.export.stage # "updating" /\ plan.source = host.export.source
             /\ \/ plan.stage \in {"hashing", "planned"}
                \/ plan.stage = "verifying" /\ plan.unread = plan.source.book.documents
                \/ /\ plan.stage = "verifying" /\ host.export.stage = "verifying"
                   /\ host.export.unread # <<>>
                   /\ plan.unread = Tail(host.export.unread)
                   /\ Content(Head(host.export.unread))
                         = plan.source.captured[Head(host.export.unread)]

LEMMA CaptureTyped ==
    ASSUME Typed, Capture
    PROVE  Typed' /\ (PlanGoes \/ (Becomes(None) /\ host'.written = host.written))
<1> DEFINE plan == [host.export EXCEPT !.source = host.source, !.stage = "rendering"]
<1>1. /\ host.export # None
      /\ UNCHANGED <<doc, chapter, view, toHost, toView, ledger>>
      /\ \/ host' = Failed(host)
         \/ /\ host.source # None
            /\ host' = [host EXCEPT !.export.source = host.source, !.export.stage = "rendering"]
  BY DEF Capture, NoExport
<1>2. CASE host' = Failed(host)
  BY <1>1, <1>2, FailedTyped
<1>3. CASE /\ host.source # None
           /\ host' = [host EXCEPT !.export.source = host.source, !.export.stage = "rendering"]
  <2>1. host.export \in Plans /\ host.source \in Composites
    BY <1>1, <1>3, TypedFacts DEF Hosts
  <2>2. plan \in Plans /\ plan.stage = "rendering" /\ plan.source = host.source
    BY <2>1 DEF Plans
  <2>3. host' = [host EXCEPT !.export = plan]
    BY <1>3, <2>1, TypedFacts DEF Hosts, Plans
  <2> HIDE DEF plan
  <2>4. Typed' /\ Becomes(plan) /\ host'.written = host.written
    BY <1>1, <1>3, <2>2, <2>3, PlanTyped
  <2>5. QED
    BY <1>1, <1>3, <2>2, <2>4 DEF PlanGoes
<1>4. QED
  BY <1>1, <1>2, <1>3

LEMMA RenderedTyped ==
    ASSUME Typed, Rendered
    PROVE  Typed' /\ (PlanGoes \/ (Becomes(None) /\ host'.written = host.written))
<1> DEFINE plan == [host.export EXCEPT !.stage = "hashing"]
<1>1. /\ host.export # None /\ host.export.stage = "rendering"
      /\ UNCHANGED <<doc, chapter, view, toHost, toView, ledger>>
      /\ host' = Failed(host) \/ host' = [host EXCEPT !.export.stage = "hashing"]
  BY DEF Rendered, NoExport
<1>2. CASE host' = Failed(host)
  BY <1>1, <1>2, FailedTyped
<1>3. CASE host' = [host EXCEPT !.export.stage = "hashing"]
  <2>1. host.export \in Plans /\ host.export.source # None
    BY <1>1, TypedFacts DEF Hosts, Typed, InWork
  <2>2. plan \in Plans /\ plan.stage = "hashing" /\ plan.source = host.export.source
    BY <2>1 DEF Plans
  <2>3. host' = [host EXCEPT !.export = plan]
    BY <1>3, <2>1, TypedFacts DEF Hosts, Plans
  <2> HIDE DEF plan
  <2>4. Typed' /\ Becomes(plan) /\ host'.written = host.written
    BY <1>1, <2>1, <2>2, <2>3, PlanTyped
  <2>5. QED
    BY <1>1, <2>2, <2>4 DEF PlanGoes
<1>4. QED
  BY <1>1, <1>2, <1>3

LEMMA PlanMadeTyped ==
    ASSUME Typed, PlanMade
    PROVE  Typed' /\ PlanGoes
<1> DEFINE manifest == [version |-> doc.version]
           plan == [host.export EXCEPT !.stage = "planned", !.manifest = manifest]
<1>1. /\ host.export # None /\ host.export.stage = "hashing"
      /\ UNCHANGED <<doc, chapter, view, toHost, toView, ledger>>
      /\ host' = [host EXCEPT !.export.stage = "planned", !.export.manifest = manifest]
  BY DEF PlanMade, NoExport
<1>2. host.export \in Plans /\ host.export.source # None
  BY <1>1, TypedFacts DEF Hosts, Typed, InWork
<1>3. manifest \in [version : Nat]
  BY TypedFacts
<1> HIDE DEF manifest
<1>4. plan \in Plans /\ plan.stage = "planned" /\ plan.source = host.export.source
  BY <1>2, <1>3 DEF Plans
<1>5. host' = [host EXCEPT !.export = plan]
  BY <1>1, <1>2, TypedFacts DEF Hosts, Plans
<1> HIDE DEF plan
<1>6. Typed' /\ Becomes(plan) /\ host'.written = host.written
  BY <1>1, <1>2, <1>4, <1>5, PlanTyped
<1>7. QED
  BY <1>1, <1>4, <1>6 DEF PlanGoes

LEMMA ConfirmTyped ==
    ASSUME Typed, Confirm
    PROVE  Typed' /\ (PlanGoes \/ (Becomes(None) /\ host'.written = host.written))
<1> DEFINE unread == host.export.source.book.documents
           plan == [host.export EXCEPT !.stage = "verifying", !.unread = unread]
<1>1. /\ host.export # None /\ host.export.stage = "planned"
      /\ UNCHANGED <<doc, chapter, view, toHost, toView, ledger>>
      /\ \/ host' = Failed(host)
         \/ host' = [host EXCEPT !.export.stage = "verifying", !.export.unread = unread]
  BY DEF Confirm, NoExport
<1>2. CASE host' = Failed(host)
  BY <1>1, <1>2, FailedTyped
<1>3. CASE host' = [host EXCEPT !.export.stage = "verifying", !.export.unread = unread]
  <2>1. host.export \in Plans /\ host.export.source # None
    BY <1>1, TypedFacts DEF Hosts, Typed, InWork
  <2>2. unread \in Seq(Paths)
    BY <2>1 DEF Plans, Composites, Books
  <2>3. unread = host.export.source.book.documents
    OBVIOUS
  <2> HIDE DEF unread
  <2>4. /\ plan \in Plans /\ plan.stage = "verifying" /\ plan.source = host.export.source
        /\ plan.unread = unread
    BY <2>1, <2>2 DEF Plans
  <2>5. host' = [host EXCEPT !.export = plan]
    BY <1>3, <2>1, TypedFacts DEF Hosts, Plans
  <2> HIDE DEF plan
  <2>6. Typed' /\ Becomes(plan) /\ host'.written = host.written
    BY <1>1, <2>1, <2>4, <2>5, PlanTyped
  <2>7. QED
    BY <1>1, <2>3, <2>4, <2>6 DEF PlanGoes
<1>4. QED
  BY <1>1, <1>2, <1>3

LEMMA VerifyChapterTyped ==
    ASSUME Typed, VerifyChapter
    PROVE  Typed' /\ (PlanGoes \/ (Becomes(None) /\ host'.written = host.written))
<1> DEFINE rest == Tail(host.export.unread)
           plan == [host.export EXCEPT !.unread = rest]
<1>1. /\ host.export # None /\ host.export.stage = "verifying" /\ host.export.unread # <<>>
      /\ UNCHANGED <<doc, chapter, view, toHost, toView, ledger>>
      /\ \/ host' = Failed(host)
         \/ /\ Unchanged(Head(host.export.unread))
            /\ host' = [host EXCEPT !.export.unread = Tail(@)]
  BY DEF VerifyChapter, NoExport
<1>2. CASE host' = Failed(host)
  BY <1>1, <1>2, FailedTyped
<1>3. CASE /\ Unchanged(Head(host.export.unread))
           /\ host' = [host EXCEPT !.export.unread = Tail(@)]
  <2>1. host.export \in Plans /\ host.export.source # None
    BY <1>1, TypedFacts DEF Hosts, Typed, InWork
  <2>2. rest \in Seq(Paths)
    <3>1. host.export.unread \in Seq(Paths)
      BY <2>1 DEF Plans
    <3>2. QED
      BY <1>1, <3>1, Taken
  <2>3. rest = Tail(host.export.unread)
    OBVIOUS
  <2>4. host' = [host EXCEPT !.export = plan]
    BY <1>3, <2>1, TypedFacts DEF Hosts, Plans
  <2> HIDE DEF rest
  <2>5. /\ plan \in Plans /\ plan.stage = "verifying" /\ plan.source = host.export.source
        /\ plan.unread = rest
    BY <1>1, <2>1, <2>2 DEF Plans
  <2> HIDE DEF plan
  <2>6. Typed' /\ Becomes(plan) /\ host'.written = host.written
    BY <1>1, <2>1, <2>4, <2>5, PlanTyped
  <2>7. Content(Head(host.export.unread)) = plan.source.captured[Head(host.export.unread)]
    BY <1>3, <2>5 DEF Unchanged
  <2>8. QED
    BY <1>1, <2>3, <2>5, <2>6, <2>7 DEF PlanGoes
<1>4. QED
  BY <1>1, <1>2, <1>3

\* The export is written.
LEMMA WriteTyped ==
    ASSUME Typed, Write
    PROVE  /\ Typed' /\ Becomes(None)
           /\ host.export # None /\ host.export.stage = "verifying"
           /\ host.export.unread = <<>>
           /\ host'.written = host.written \cup {host.export.source}
<1> DEFINE written == host.written \cup {host.export.source}
<1>1. /\ host.export # None /\ host.export.stage = "verifying" /\ host.export.unread = <<>>
      /\ host' = [Failed(host) EXCEPT !.written = @ \cup {host.export.source}]
      /\ UNCHANGED <<doc, chapter, view, toHost, toView, ledger>>
  BY DEF Write, NoExport
<1>2. host.export.source \in Composites
  BY <1>1, TypedFacts DEF Hosts, Plans, Typed, InWork
<1>3. written \in SUBSET Composites
  BY <1>2, TypedFacts DEF Hosts
<1>4. host' = [host EXCEPT !.export = None, !.written = written]
  BY <1>1, TypedFacts DEF Failed, NoExport, Hosts
<1>5. written = host.written \cup {host.export.source}
  OBVIOUS
<1> HIDE DEF written
<1>6. /\ host' \in Hosts /\ host'.export = None /\ host'.written = written
      /\ host'.queue = host.queue /\ host'.mutation = host.mutation
  BY <1>3, <1>4, TypedFacts DEF Hosts
<1>7. KeepsShown(host, host')
  BY <1>4, TypedFacts DEF Hosts, KeepsShown
<1>8. TypeOK'
  BY <1>1, <1>6 DEF Typed, TypeOK
<1>9. InWork'
  BY <1>6 DEF Typed, InWork
<1>10. QED
  BY <1>1, <1>5, <1>6, <1>7, <1>8, <1>9 DEF Typed, Becomes

LEMMA CancelExportTyped ==
    ASSUME Typed, CancelExport
    PROVE  Typed' /\ Becomes(None) /\ host'.written = host.written
BY FailedTyped DEF CancelExport

----------------------------------------------------------------------------
(* Types: messages, and all steps *)

\* What the host makes of a message: it shows again what it holds, starts afresh,
\* queues an edit, or begins an export, with a load when its Book is not current.
Receives(m) ==
    \/ /\ KeepsWork(host, host') /\ KeepsShown(host, host') /\ host.state # None
       /\ \A x \in ToSet(toView') :
             x \in ToSet(toView) \/ (x.type = "state" /\ x.state = host.state)
    \/ /\ KeepsWork(host, host') /\ Reschedules(host, host') /\ toView' = toView
    \/ /\ KeepsShown(host, host') /\ toView' = toView
       /\ host'.export = host.export /\ host'.written = host.written
       /\ host'.mutation = host.mutation
       /\ m.type = "mutation" /\ m \in Requests
       /\ host'.queue = Append(host.queue, m)
    \/ /\ host'.queue = host.queue /\ host'.mutation = host.mutation
       /\ host'.written = host.written
       /\ host'.export = host.export \/ host'.export.stage = "updating"
       /\ (KeepsShown(host, host') /\ toView' = toView) \/ StartsLoad(host)

LEMMA ReadyReceived ==
    ASSUME Typed, NEW m, host.state # None, host' = [host EXCEPT !.ready = TRUE],
           Post([type |-> "state", state |-> host.state])
    PROVE  host' \in Hosts /\ toView' \in Seq(Inbox) /\ Receives(m)
<1> DEFINE x == [type |-> "state", state |-> host.state]
<1>1. x \in Inbox /\ x.type = "state" /\ x.state = host.state
  BY TypedFacts DEF Inbox
<1>2. toView' = Append(toView, x)
  BY DEF Post
<1> HIDE DEF x
<1>3. toView' \in Seq(Inbox) /\ ToSet(toView') = ToSet(toView) \cup {x}
  BY <1>1, <1>2, Appended, TypedFacts
<1>4. host' \in Hosts /\ KeepsShown(host, host')
  BY TypedFacts DEF Hosts, KeepsShown
<1>5. KeepsWork(host, host')
  BY TypedFacts DEF Hosts, KeepsWork
<1>6. QED
  BY <1>1, <1>3, <1>4, <1>5 DEF Receives

LEMMA RefreshReceived ==
    ASSUME Typed, NEW m, toView' = toView,
           \/ host' = Scheduled(host)
           \/ host' = Scheduled([host EXCEPT !.ready = TRUE])
    PROVE  host' \in Hosts /\ toView' \in Seq(Inbox) /\ Receives(m)
<1> DEFINE h == [host EXCEPT !.ready = TRUE]
<1>1. h \in Hosts /\ KeepsShown(host, h)
  BY TypedFacts DEF Hosts, KeepsShown
<1>2. KeepsWork(host, h)
  BY TypedFacts DEF Hosts, KeepsWork
<1> HIDE DEF h
<1>3. CASE host' = Scheduled(host)
  BY <1>3, TypedFacts, ScheduledEffect DEF Receives
<1>4. CASE host' = Scheduled(h)
  <2>1. host' \in Hosts /\ KeepsWork(h, host') /\ Reschedules(h, host')
    BY <1>1, <1>4, ScheduledEffect
  <2>2. KeepsWork(host, host') /\ Reschedules(host, host')
    BY <1>1, <1>2, <2>1 DEF KeepsWork, KeepsShown, Reschedules
  <2>3. QED
    BY <2>1, <2>2, TypedFacts DEF Receives
<1>5. QED
  BY <1>3, <1>4 DEF h

LEMMA EditReceived ==
    ASSUME Typed, NEW m \in Requests, m.type = "mutation", toView' = toView,
           host' = [host EXCEPT !.queue = Append(@, m)]
    PROVE  host' \in Hosts /\ toView' \in Seq(Inbox) /\ Receives(m)
<1> DEFINE queue == Append(host.queue, m)
<1>1. queue \in Seq(Requests)
  BY Appended, TypedFacts
<1>2. host' = [host EXCEPT !.queue = queue]
  BY TypedFacts DEF Hosts
<1>3. queue = Append(host.queue, m)
  OBVIOUS
<1> HIDE DEF queue
<1>4. /\ host' \in Hosts /\ host'.queue = queue
      /\ host'.export = host.export /\ host'.written = host.written
      /\ host'.mutation = host.mutation
  BY <1>1, <1>2, TypedFacts DEF Hosts
<1>5. KeepsShown(host, host')
  BY <1>2, TypedFacts DEF Hosts, KeepsShown
<1>6. QED
  BY <1>3, <1>4, <1>5, TypedFacts DEF Receives

LEMMA ExportReceived ==
    ASSUME Typed, NEW m, NEW base \in Nat, Preflight(base)
    PROVE  host' \in Hosts /\ toView' \in Seq(Inbox) /\ Receives(m)
<1> DEFINE plan == [stage |-> "updating", base |-> base, sequence |-> host.sequence + 1,
                    source |-> None, manifest |-> None, unread |-> <<>>]
           asked == [stage |-> "updating", base |-> base, sequence |-> 0,
                     source |-> None, manifest |-> None, unread |-> <<>>]
           begun == [host EXCEPT !.export = plan]
           current == [host EXCEPT !.export = asked]
<1>1. \/ host' = host /\ toView' = toView
      \/ host' = [begun EXCEPT !.export.sequence = 0] /\ toView' = toView
      \/ StartUpdate(begun)
  BY DEF Preflight
<1>2. host.sequence + 1 \in Nat /\ <<>> \in Seq(Paths)
  BY TypedFacts DEF Hosts
<1>3. /\ plan \in Plans /\ plan.stage = "updating"
      /\ asked \in Plans /\ asked.stage = "updating"
  BY <1>2 DEF Plans
<1>4. [begun EXCEPT !.export.sequence = 0] = current
  <2>1. [plan EXCEPT !.sequence = 0] = asked
    OBVIOUS
  <2> HIDE DEF plan, asked
  <2>2. begun.export = plan
    BY TypedFacts DEF Hosts
  <2>3. [begun EXCEPT !.export.sequence = 0]
          = [begun EXCEPT !.export = [plan EXCEPT !.sequence = 0]]
    BY <2>2
  <2>4. [begun EXCEPT !.export = asked] = current
    BY TypedFacts DEF Hosts
  <2>5. QED
    BY <2>1, <2>3, <2>4
<1> HIDE DEF plan, asked
<1>5. ASSUME NEW p \in {plan, asked}
      PROVE  LET h == [host EXCEPT !.export = p]
             IN  /\ h \in Hosts /\ KeepsShown(host, h)
                 /\ h.queue = host.queue /\ h.mutation = host.mutation
                 /\ h.written = host.written /\ h.export.stage = "updating"
  <2> DEFINE h == [host EXCEPT !.export = p]
  <2>1. p \in Plans /\ p.stage = "updating"
    BY <1>3, <1>5
  <2>2. /\ h \in Hosts /\ h.queue = host.queue /\ h.mutation = host.mutation
        /\ h.written = host.written /\ h.export = p
    BY <2>1, TypedFacts DEF Hosts
  <2>3. KeepsShown(host, h)
    BY TypedFacts DEF Hosts, KeepsShown
  <2> HIDE DEF h
  <2>4. QED
    BY <2>1, <2>2, <2>3 DEF h
<1>6. /\ begun \in Hosts /\ KeepsShown(host, begun)
      /\ begun.queue = host.queue /\ begun.mutation = host.mutation
      /\ begun.written = host.written /\ begun.export.stage = "updating"
  BY <1>5
<1>7. /\ current \in Hosts /\ KeepsShown(host, current)
      /\ current.queue = host.queue /\ current.mutation = host.mutation
      /\ current.written = host.written /\ current.export.stage = "updating"
  BY <1>5
<1>8. \/ host' = host /\ toView' = toView
      \/ host' = current /\ toView' = toView
      \/ StartUpdate(begun)
  BY <1>1, <1>4
<1> HIDE DEF begun, current
<1>9. CASE host' = host /\ toView' = toView
  BY <1>9, TypedFacts DEF Receives, KeepsShown
<1>10. CASE host' = current /\ toView' = toView
  BY <1>7, <1>10, TypedFacts DEF Receives
<1>11. CASE StartUpdate(begun)
  <2>1. host' \in Hosts /\ toView' \in Seq(Inbox) /\ KeepsWork(begun, host') /\ StartsLoad(begun)
    BY <1>6, <1>11, UpdateBegins DEF Typed, Begins
  <2>2. StartsLoad(host)
    BY <1>6, <2>1 DEF StartsLoad, KeepsShown
  <2>3. /\ host'.queue = host.queue /\ host'.mutation = host.mutation
        /\ host'.written = host.written /\ host'.export.stage = "updating"
    BY <1>6, <2>1 DEF KeepsWork
  <2>4. QED
    BY <2>1, <2>2, <2>3 DEF Receives
<1>12. QED
  BY <1>8, <1>9, <1>10, <1>11

\* The messages to the host, by their types.
LEMMA Posted ==
    ASSUME NEW m \in Outbox
    PROVE  /\ m.type = "mutation" => m \in Requests
           /\ m.type = "export" => m.base \in Nat
<1>1. CASE m \in Requests
  BY <1>1 DEF Requests
<1>2. CASE m \in [type : {"export"}, base : Nat]
  BY <1>2
<1>3. CASE m \in [type : {"ready", "refresh"}]
  BY <1>3
<1>4. QED
  BY <1>1, <1>2, <1>3 DEF Outbox

LEMMA ArriveTyped ==
    ASSUME Typed, Arrive
    PROVE  /\ Typed' /\ toHost # <<>> /\ Receives(Head(toHost))
           /\ toHost' = Tail(toHost) /\ UNCHANGED <<doc, chapter, view>>
<1> DEFINE m == Head(toHost)
<1>1. /\ toHost # <<>> /\ toHost' = Tail(toHost)
      /\ UNCHANGED <<doc, chapter, view, ledger>>
      /\ \/ /\ host.state # None
            /\ host' = [host EXCEPT !.ready = TRUE]
            /\ Post([type |-> "state", state |-> host.state])
         \/ host' = Scheduled([host EXCEPT !.ready = TRUE]) /\ toView' = toView
         \/ /\ m.type = "mutation"
            /\ host' = [host EXCEPT !.queue = Append(@, m)] /\ toView' = toView
         \/ host' = Scheduled(host) /\ toView' = toView
         \/ m.type = "export" /\ Preflight(m.base)
  BY DEF Arrive
<1>2. m \in Outbox /\ toHost' \in Seq(Outbox)
  BY <1>1, Taken, TypedFacts
<1>3. /\ m.type = "mutation" => m \in Requests
      /\ m.type = "export" => m.base \in Nat
  BY <1>2, Posted
<1> HIDE DEF m
<1>4. host' \in Hosts /\ toView' \in Seq(Inbox) /\ Receives(m)
  <2>1. CASE /\ host.state # None
             /\ host' = [host EXCEPT !.ready = TRUE]
             /\ Post([type |-> "state", state |-> host.state])
    BY <2>1, ReadyReceived
  <2>2. CASE /\ \/ host' = Scheduled([host EXCEPT !.ready = TRUE])
                \/ host' = Scheduled(host)
             /\ toView' = toView
    BY <2>2, RefreshReceived
  <2>3. CASE /\ m.type = "mutation"
             /\ host' = [host EXCEPT !.queue = Append(@, m)] /\ toView' = toView
    BY <1>3, <2>3, EditReceived
  <2>4. CASE m.type = "export" /\ Preflight(m.base)
    BY <1>3, <2>4, ExportReceived
  <2>5. QED
    BY <1>1, <2>1, <2>2, <2>3, <2>4
<1>5. InWork'
  <2>1. CASE KeepsWork(host, host')
    BY <2>1 DEF Typed, InWork, KeepsWork
  <2>2. CASE /\ host'.export = host.export /\ host'.mutation = host.mutation
             /\ m \in Requests /\ host'.queue = Append(host.queue, m)
    <3>1. host'.queue # <<>>
      BY <2>2, Appended, TypedFacts
    <3>2. QED
      BY <2>2, <3>1 DEF Typed, InWork
  <2>3. CASE /\ host'.queue = host.queue /\ host'.mutation = host.mutation
             /\ host'.export = host.export \/ host'.export.stage = "updating"
    BY <2>3 DEF Typed, InWork
  <2>4. QED
    BY <1>4, <2>1, <2>2, <2>3 DEF Receives
<1>6. TypeOK'
  BY <1>1, <1>2, <1>4 DEF Typed, TypeOK
<1>7. QED
  BY <1>1, <1>4, <1>5, <1>6 DEF Typed, m

\* The webview hears of a Book or of the end of an edit.
LEMMA HearTyped ==
    ASSUME Typed, Hear
    PROVE  /\ Typed' /\ UNCHANGED <<doc, chapter, host>>
           /\ toView # <<>> /\ toView' = Tail(toView)
           /\ \/ view'.state = view.state
              \/ Head(toView).type = "state" /\ view'.state = Head(toView).state
           /\ \A m \in ToSet(toHost') : m \in ToSet(toHost) \/ m.type = "refresh"
<1> DEFINE m == Head(toView)
           refresh == [type |-> "refresh"]
<1>1. /\ toView # <<>> /\ toView' = Tail(toView)
      /\ UNCHANGED <<doc, chapter, host, ledger>>
      /\ \/ view' = view
         \/ m.type = "state" /\ view' = [view EXCEPT !.state = m.state]
         \/ view' = [view EXCEPT !.pending = None]
      /\ toHost' = toHost \/ toHost' = Append(toHost, refresh)
  BY DEF Hear
<1>2. m \in Inbox /\ toView' \in Seq(Inbox)
  BY <1>1, Taken, TypedFacts
<1>3. refresh \in Outbox /\ refresh.type = "refresh"
  BY DEF Outbox
<1> HIDE DEF refresh
<1>4. /\ toHost' \in Seq(Outbox)
      /\ \A x \in ToSet(toHost') : x \in ToSet(toHost) \/ x.type = "refresh"
  <2>1. toHost \in Seq(Outbox)
    BY TypedFacts
  <2>2. CASE toHost' = toHost
    BY <2>1, <2>2
  <2>3. CASE toHost' = Append(toHost, refresh)
    <3>1. /\ Append(toHost, refresh) \in Seq(Outbox)
          /\ ToSet(Append(toHost, refresh)) = ToSet(toHost) \cup {refresh}
      BY <1>3, <2>1, Appended
    <3>2. QED
      BY <1>3, <2>3, <3>1
  <2>4. QED
    BY <1>1, <2>2, <2>3
<1>5. m.type = "state" => m.state \in States
  BY <1>2 DEF Inbox
<1> HIDE DEF m
<1>6. /\ view' \in [ready : BOOLEAN, state : States \cup {None}, pending : Nat \cup {None}]
      /\ view'.state = view.state \/ (m.type = "state" /\ view'.state = m.state)
  BY <1>1, <1>5 DEF Typed, TypeOK
<1>7. TypeOK'
  BY <1>1, <1>2, <1>4, <1>6 DEF Typed, TypeOK
<1>8. InWork'
  BY <1>1 DEF Typed, InWork
<1>9. QED
  BY <1>1, <1>4, <1>6, <1>7, <1>8 DEF Typed, m

LEMMA InitTyped == Init => Typed
<1> SUFFICES ASSUME Init
             PROVE  Typed
  OBVIOUS
<1>1. /\ <<>> \in Seq(Outbox) /\ <<>> \in Seq(Inbox) /\ <<>> \in Seq(Requests)
  OBVIOUS
<1>2. Book(Start, "plain", TRUE) \in Books
  BY BookAssumption DEF Book, Books
<1>3. doc \in [book : Sources, version : Nat] /\ chapter \in [Files -> Nat]
  BY <1>2 DEF Init, Sources
<1>4. host \in Hosts /\ host.mutation = None /\ host.export = None
  BY <1>1 DEF Init, Hosts, NoLoad, NoExport
<1>5. /\ view \in [ready : BOOLEAN, state : States \cup {None}, pending : Nat \cup {None}]
      /\ ledger \in [writes : Nat, clicks : Nat, exports : Nat]
      /\ toHost \in Seq(Outbox) /\ toView \in Seq(Inbox)
  BY <1>1 DEF Init
<1>6. QED
  BY <1>3, <1>4, <1>5 DEF Typed, TypeOK, InWork

LEMMA NextTyped ==
    ASSUME Typed, [Next]_vars
    PROVE  Typed'
<1>1. CASE TimerFires \/ Composed
  BY <1>1, TimerFiresTyped, ComposedTyped
<1>2. ASSUME NEW path \in Paths, LoadChapter(path) \/ ForeignChapter(path)
      PROVE  Typed'
  BY <1>2, LoadChapterTyped, ForeignChapterTyped
<1>3. ASSUME NEW load \in host.styling, StyleRead(load)
      PROVE  Typed'
  BY <1>3, StyleReadTyped
<1>4. ASSUME NEW book \in Sources, ForeignManifest(book)
      PROVE  Typed'
  BY <1>4, ForeignManifestTyped
<1>5. /\ Invalid \in Sources
      /\ \A order \in ForeignOrders, publish \in BOOLEAN :
            Book(order, "plain", publish) \in Sources
  BY BookAssumption DEF Sources, Books, Book
<1>6. CASE WatcherFires \/ Ready \/ Export
  BY <1>6, WatcherFiresTyped, ReadyTyped, ExportTyped
<1>7. ASSUME NEW edit \in Edits, NEW path \in Paths, NEW from \in Places, NEW to \in Places,
             Click(edit, path, from, to)
      PROVE  Typed'
  BY <1>7, ClickTyped
<1>8. CASE StartMutation \/ \E agrees \in BOOLEAN : AnswerDialog(agrees)
  BY <1>8, StartMutationTyped, AnswerDialogTyped
<1>9. CASE ApplyEdit
  BY <1>9, ApplyEditTyped
<1>10. CASE Capture \/ Rendered \/ PlanMade \/ Confirm
  BY <1>10, CaptureTyped, RenderedTyped, PlanMadeTyped, ConfirmTyped
<1>11. CASE VerifyChapter \/ Write \/ CancelExport
  BY <1>11, VerifyChapterTyped, WriteTyped, CancelExportTyped
<1>12. CASE Arrive \/ Hear
  BY <1>12, ArriveTyped, HearTyped
<1>13. CASE UNCHANGED vars
  BY <1>13 DEF vars, Typed, TypeOK, InWork
<1>14. QED
  BY <1>1, <1>2, <1>3, <1>4, <1>5, <1>6, <1>7, <1>8, <1>9, <1>10, <1>11, <1>12, <1>13 DEF Next

\* The state of the Book editor has its type, in every reachable state.
THEOREM TypeCorrect == Spec => []TypeOK
<1>1. Spec => []Typed
  BY InitTyped, NextTyped, PTL DEF Spec
<1>2. Typed => TypeOK
  BY DEF Typed
<1>3. QED
  BY <1>1, <1>2, PTL

----------------------------------------------------------------------------
(* An edit is applied to the revision it names *)

\* Every manifest that another editor writes.
LEMMA Written ==
    /\ Invalid \in Sources
    /\ \A order \in ForeignOrders, publish \in BOOLEAN :
          Book(order, "plain", publish) \in Sources
BY BookAssumption DEF Sources, Books, Book

\* The queue loses its first edit, or gets one that was posted; an edit is handed on
\* only on its revision.
QueueGoes ==
    \/ host.queue # <<>> /\ host'.queue = Tail(host.queue) /\ host'.mutation = None
    \/ /\ host'.queue = host.queue
       /\ \/ host'.mutation = host.mutation
          \/ host'.mutation.stage = "applying" =>
                host'.mutation.version = Head(host.queue).base
    \/ /\ host'.mutation = host.mutation
       /\ \E m \in ToSet(toHost) :
             m \in Requests /\ m.type = "mutation" /\ host'.queue = Append(host.queue, m)

LEMMA QueueMoves ==
    ASSUME Typed, [Next]_vars
    PROVE  QueueGoes
<1> USE DEF QueueGoes
<1>1. CASE TimerFires \/ Composed \/ WatcherFires
  BY <1>1, TimerFiresTyped, ComposedTyped, WatcherFiresTyped DEF KeepsWork
<1>2. ASSUME NEW path \in Paths, LoadChapter(path) \/ ForeignChapter(path)
      PROVE  QueueGoes
  BY <1>2, LoadChapterTyped, ForeignChapterTyped DEF KeepsWork
<1>3. ASSUME NEW load \in host.styling, StyleRead(load)
      PROVE  QueueGoes
  BY <1>3, StyleReadTyped DEF KeepsWork
<1>4. ASSUME NEW book \in Sources, ForeignManifest(book)
      PROVE  QueueGoes
  BY <1>4, ForeignManifestTyped DEF KeepsWork
<1>5. CASE \/ Ready \/ Export \/ Hear
           \/ \E edit \in Edits, path \in Paths, from \in Places, to \in Places :
                Click(edit, path, from, to)
  BY <1>5, ReadyTyped, ExportTyped, HearTyped, ClickTyped
<1>6. CASE \/ StartMutation \/ ApplyEdit
           \/ \E agrees \in BOOLEAN : AnswerDialog(agrees)
  BY <1>6, StartMutationTyped, AnswerDialogTyped, ApplyEditTyped DEF Works
<1>7. CASE Capture \/ Rendered \/ PlanMade \/ Confirm \/ VerifyChapter \/ Write \/ CancelExport
  <2>1. \E plan : Becomes(plan)
    BY <1>7, CaptureTyped, RenderedTyped, PlanMadeTyped, ConfirmTyped, VerifyChapterTyped,
       WriteTyped, CancelExportTyped DEF PlanGoes
  <2>2. QED
    BY <2>1 DEF Becomes
<1>8. CASE Arrive
  <2>1. toHost # <<>> /\ Receives(Head(toHost))
    BY <1>8, ArriveTyped
  <2>2. Head(toHost) \in ToSet(toHost)
    BY <2>1, Taken, TypedFacts
  <2>3. QED
    BY <2>1, <2>2 DEF Receives, KeepsWork
<1>9. CASE UNCHANGED vars
  BY <1>9 DEF vars
<1>10. QED
  BY <1>1, <1>2, <1>3, <1>4, <1>5, <1>6, <1>7, <1>8, <1>9, Written DEF Next

\* The edit that is handed on stays the one of its revision.
LEMMA OnRevisionStays ==
    ASSUME Typed, OnRevision, QueueGoes
    PROVE  OnRevision'
<1>1. ASSUME NEW m \in Requests, host'.queue = Append(host.queue, m), host.queue # <<>>
      PROVE  Head(host'.queue) = Head(host.queue)
  BY <1>1, Appended, TypedFacts
<1>2. host.mutation # None => host.queue # <<>>
  BY DEF Typed, InWork
<1>3. QED
  BY <1>1, <1>2 DEF OnRevision, QueueGoes

\* The manifest stays, or is a new one.
DocGoes == doc' = doc \/ doc'.version = doc.version + 1

\* It is written by another editor, or by the edit that was handed on.
LEMMA DocMoves ==
    ASSUME Typed, [Next]_vars
    PROVE  /\ DocGoes
           /\ doc' = doc \/ host'.mutation = host.mutation \/ ApplyEdit
<1>1. ASSUME NEW book \in Sources, ForeignManifest(book)
      PROVE  doc'.version = doc.version + 1 /\ host'.mutation = host.mutation
  BY <1>1, ForeignManifestTyped DEF KeepsWork
<1>2. ASSUME NEW path \in Paths, LoadChapter(path) \/ ForeignChapter(path)
      PROVE  doc' = doc
  BY <1>2 DEF LoadChapter, ForeignChapter
<1>3. ASSUME NEW load \in host.styling, StyleRead(load)
      PROVE  doc' = doc
  BY <1>3 DEF StyleRead
<1>4. ASSUME NEW edit \in Edits, NEW path \in Paths, NEW from \in Places, NEW to \in Places,
             Click(edit, path, from, to)
      PROVE  doc' = doc
  BY <1>4 DEF Click
<1>5. ASSUME NEW agrees \in BOOLEAN, AnswerDialog(agrees)
      PROVE  doc' = doc
  BY <1>5 DEF AnswerDialog
<1>6. CASE ApplyEdit
  BY <1>6, ApplyEditTyped DEF DocGoes
<1>7. CASE TimerFires \/ Composed \/ WatcherFires \/ Ready \/ StartMutation
  BY <1>7 DEF TimerFires, Composed, WatcherFires, Ready, StartMutation, DocGoes
<1>8. CASE Export \/ Capture \/ Rendered \/ PlanMade \/ Confirm
  BY <1>8 DEF Export, Capture, Rendered, PlanMade, Confirm, DocGoes
<1>9. CASE VerifyChapter \/ Write \/ CancelExport \/ Arrive \/ Hear
  BY <1>9 DEF VerifyChapter, Write, CancelExport, Arrive, Hear, DocGoes
<1>10. CASE UNCHANGED vars
  BY <1>10 DEF vars, DocGoes
<1>11. QED
  BY <1>1, <1>2, <1>3, <1>4, <1>5, <1>6, <1>7, <1>8, <1>9, <1>10, Written DEF Next, DocGoes

\* An edit that changes the manifest does so in the revision it names.
LEMMA AppliedOnRevision ==
    ASSUME Typed, OnRevision, [Next]_vars,
           doc'.version # doc.version, host.mutation # None, host'.mutation = None
    PROVE  host.queue # <<>> /\ doc.version = Head(host.queue).base
<1>1. ApplyEdit
  BY DocMoves
<1>2. /\ host.queue # <<>> /\ host.mutation.stage = "applying"
      /\ doc.version = host.mutation.version
  BY <1>1, ApplyEditTyped
<1>3. QED
  BY <1>2 DEF OnRevision

\* Whatever is shown, and whatever changes the manifest meanwhile, an edit made in
\* the webview is applied in the revision it names or not at all, dialogs included
\* (prepareBookMutationSnapshot, updateProjectFile).
THEOREM EditsNamedRevision ==
    Spec => [][doc'.version # doc.version /\ host.mutation # None /\ host'.mutation = None =>
               doc.version = Head(host.queue).base]_vars
<1>1. Init => Typed /\ OnRevision
  BY InitTyped DEF Init, OnRevision
<1>2. Typed /\ OnRevision /\ [Next]_vars => (Typed /\ OnRevision)'
  BY NextTyped, QueueMoves, OnRevisionStays
<1>3. Typed /\ OnRevision /\ [Next]_vars =>
        [doc'.version # doc.version /\ host.mutation # None /\ host'.mutation = None =>
           doc.version = Head(host.queue).base]_vars
  BY AppliedOnRevision
<1>4. QED
  BY <1>1, <1>2, <1>3, PTL DEF Spec

----------------------------------------------------------------------------
(* An edit changes what its user saw *)

\* The same of the next state.
SameNext(revision, book) ==
    /\ revision \in 0 .. doc'.version
    /\ revision = doc'.version => book = doc'.book

LEMMA SameStays ==
    ASSUME Typed, DocGoes
    PROVE  /\ \A revision, book : Same(revision, book) => SameNext(revision, book)
           /\ \A book : doc' = doc /\ book = doc.book => SameNext(doc.version, book)
<1>1. doc.version \in Nat
  BY TypedFacts
<1>2. ASSUME NEW revision, NEW book, Same(revision, book)
      PROVE  SameNext(revision, book)
  <2>1. CASE doc' = doc
    BY <1>2, <2>1 DEF Same, SameNext
  <2>2. CASE doc'.version = doc.version + 1
    BY <1>1, <1>2, <2>2 DEF Same, SameNext
  <2>3. QED
    BY <2>1, <2>2 DEF DocGoes
<1>3. ASSUME NEW book, doc' = doc, book = doc.book
      PROVE  SameNext(doc.version, book)
  BY <1>1, <1>3 DEF SameNext
<1>4. QED
  BY <1>2, <1>3

\* The host shows and posts what it had, or the manifest as it is.
ShowingGoes ==
    \/ /\ host'.state = host.state
       /\ \A m \in ToSet(toView') :
             \/ m \in ToSet(toView) \/ m.type # "state"
             \/ host.state # None /\ m.state = host.state
    \/ doc' = doc /\ Presents(doc.book)

LEMMA HostStaysFaithful ==
    ASSUME Typed, HostFaithful, DocGoes, ShowingGoes
    PROVE  HostFaithful'
<1> SUFFICES /\ host'.state # None => SameNext(host'.state.revision, host'.state.book)
             /\ \A m \in ToSet(toView') :
                   m.type = "state" => SameNext(m.state.revision, m.state.book)
  BY DEF HostFaithful, Same, SameNext
<1>1. /\ host.state # None => SameNext(host.state.revision, host.state.book)
      /\ \A m \in ToSet(toView) :
            m.type = "state" => SameNext(m.state.revision, m.state.book)
  BY SameStays DEF HostFaithful
<1>2. CASE /\ host'.state = host.state
           /\ \A m \in ToSet(toView') :
                 \/ m \in ToSet(toView) \/ m.type # "state"
                 \/ host.state # None /\ m.state = host.state
  BY <1>1, <1>2
<1>3. CASE doc' = doc /\ Presents(doc.book)
  <2>1. SameNext(host'.state.revision, host'.state.book)
    BY <1>3, SameStays DEF Presents
  <2>2. QED
    BY <1>1, <1>3, <2>1 DEF Presents
<1>4. QED
  BY <1>2, <1>3 DEF ShowingGoes

\* The webview shows what it did, or what it hears, and posts edits of what it shows.
ViewGoes ==
    /\ \/ view'.state = view.state
       \/ /\ toView # <<>> /\ Head(toView).type = "state"
          /\ view'.state = Head(toView).state
    /\ \A m \in ToSet(toHost') :
          \/ m \in ToSet(toHost) \/ m.type # "mutation"
          \/ view.state # None /\ m.base = view.state.revision /\ m.shown = view.state.book

LEMMA ViewStaysFaithful ==
    ASSUME Typed, HostFaithful, ViewFaithful, DocGoes, ViewGoes
    PROVE  ViewFaithful'
<1> SUFFICES /\ view'.state # None => SameNext(view'.state.revision, view'.state.book)
             /\ \A m \in ToSet(toHost') : m.type = "mutation" => SameNext(m.base, m.shown)
  BY DEF ViewFaithful, Same, SameNext
<1>1. /\ view.state # None => SameNext(view.state.revision, view.state.book)
      /\ \A m \in ToSet(toHost) : m.type = "mutation" => SameNext(m.base, m.shown)
      /\ \A m \in ToSet(toView) :
            m.type = "state" => SameNext(m.state.revision, m.state.book)
  BY SameStays DEF HostFaithful, ViewFaithful
<1>2. view'.state # None => SameNext(view'.state.revision, view'.state.book)
  <2>1. CASE view'.state = view.state
    BY <1>1, <2>1
  <2>2. CASE /\ toView # <<>> /\ Head(toView).type = "state"
             /\ view'.state = Head(toView).state
    <3>1. Head(toView) \in ToSet(toView)
      BY <2>2, Taken, TypedFacts
    <3>2. QED
      BY <1>1, <2>2, <3>1
  <2>3. QED
    BY <2>1, <2>2 DEF ViewGoes
<1>3. \A m \in ToSet(toHost') : m.type = "mutation" => SameNext(m.base, m.shown)
  BY <1>1 DEF ViewGoes
<1>4. QED
  BY <1>2, <1>3

LEMMA EditsStayFaithful ==
    ASSUME Typed, ViewFaithful, EditsFaithful, DocGoes, QueueGoes
    PROVE  EditsFaithful'
<1> SUFFICES /\ \A m \in ToSet(host'.queue) : SameNext(m.base, m.shown)
             /\ host'.mutation # None /\ host'.mutation.stage = "applying" =>
                   host'.mutation.version = Head(host'.queue).base
  BY DEF EditsFaithful, OnRevision, Same, SameNext
<1>1. /\ \A m \in ToSet(host.queue) : SameNext(m.base, m.shown)
      /\ \A m \in ToSet(toHost) : m.type = "mutation" => SameNext(m.base, m.shown)
  BY SameStays DEF ViewFaithful, EditsFaithful, OnRevision
<1>2. CASE host.queue # <<>> /\ host'.queue = Tail(host.queue) /\ host'.mutation = None
  <2>1. ToSet(Tail(host.queue)) \subseteq ToSet(host.queue)
    BY <1>2, Taken, TypedFacts
  <2>2. QED
    BY <1>1, <1>2, <2>1
<1>3. CASE /\ host'.queue = host.queue
           /\ \/ host'.mutation = host.mutation
              \/ host'.mutation.stage = "applying" =>
                    host'.mutation.version = Head(host.queue).base
  BY <1>1, <1>3 DEF EditsFaithful, OnRevision
<1>4. ASSUME host'.mutation = host.mutation,
             NEW m \in ToSet(toHost), m \in Requests, m.type = "mutation",
             host'.queue = Append(host.queue, m)
      PROVE  /\ \A x \in ToSet(host'.queue) : SameNext(x.base, x.shown)
             /\ host'.mutation # None /\ host'.mutation.stage = "applying" =>
                   host'.mutation.version = Head(host'.queue).base
  <2>1. /\ ToSet(host'.queue) = ToSet(host.queue) \cup {m}
        /\ host.queue # <<>> => Head(host'.queue) = Head(host.queue)
    BY <1>4, Appended, TypedFacts
  <2>2. \A x \in ToSet(host'.queue) : SameNext(x.base, x.shown)
    BY <1>1, <1>4, <2>1
  <2>3. host.mutation # None => host.queue # <<>>
    BY DEF Typed, InWork
  <2>4. QED
    BY <1>4, <2>1, <2>2, <2>3 DEF EditsFaithful, OnRevision
<1>5. QED
  BY <1>2, <1>3, <1>4 DEF QueueGoes

\* A step whose parts go as they may keeps the whole.
LEMMA GoesFaithful ==
    ASSUME Typed, ShownFaithful, DocGoes, ShowingGoes, ViewGoes, LoadsFaithful'
    PROVE  ShownFaithful'
<1>1. HostFaithful' /\ ViewFaithful'
  BY HostStaysFaithful, ViewStaysFaithful DEF ShownFaithful
<1>2. QED
  BY <1>1 DEF ShownFaithful

\* Nothing of loading, showing or the manifest changes.
LEMMA StillFaithful ==
    ASSUME LoadsFaithful, doc' = doc, KeepsShown(host, host')
    PROVE  /\ LoadsFaithful' /\ DocGoes
           /\ (\A m \in ToSet(toView') :
                  \/ m \in ToSet(toView) \/ m.type # "state"
                  \/ host.state # None /\ m.state = host.state) => ShowingGoes
BY DEF LoadsFaithful, DocGoes, ShowingGoes, KeepsShown

\* The host loads and shows; edits, exports and the webview are left alone.
LEMMA LoadingFaithful ==
    ASSUME Typed, ShownFaithful, UNCHANGED <<doc, view, toHost>>, ShowingGoes,
           LoadsFaithful'
    PROVE  ShownFaithful'
<1>1. DocGoes /\ ViewGoes
  BY DEF DocGoes, ViewGoes
<1>2. QED
  BY <1>1, GoesFaithful

LEMMA TimerFiresFaithful ==
    ASSUME Typed, ShownFaithful, TimerFires
    PROVE  ShownFaithful'
<1>1. UNCHANGED <<doc, view, toHost>>
  BY DEF TimerFires
<1>2. KeepsWork(host, host') /\ StartsLoad(host)
  BY TimerFiresTyped DEF Begins
<1>3. LoadsFaithful'
  BY <1>1, <1>2 DEF StartsLoad, ShownFaithful, LoadsFaithful
<1>4. ShowingGoes
  BY <1>1, <1>2 DEF StartsLoad, ShowingGoes
<1>5. QED
  BY <1>1, <1>2, <1>3, <1>4, LoadingFaithful

LEMMA LoadChapterFaithful ==
    ASSUME Typed, ShownFaithful, NEW path \in Paths, LoadChapter(path)
    PROVE  ShownFaithful'
<1>1. UNCHANGED <<doc, view, toHost>>
  BY DEF LoadChapter
<1>2. /\ KeepsWork(host, host') /\ toView' = toView
      /\ host'.styling = host.styling /\ host'.state = host.state
      /\ host.loading # None /\ host'.loading.book = host.loading.book
  BY LoadChapterTyped
<1>3. LoadsFaithful'
  BY <1>1, <1>2 DEF ShownFaithful, LoadsFaithful
<1>4. ShowingGoes
  BY <1>2 DEF ShowingGoes
<1>5. QED
  BY <1>1, <1>2, <1>3, <1>4, LoadingFaithful

LEMMA ComposedFaithful ==
    ASSUME Typed, ShownFaithful, Composed
    PROVE  ShownFaithful'
<1>1. UNCHANGED <<doc, view, toHost>>
  BY DEF Composed
<1>2. KeepsWork(host, host') /\ host.loading # None
  BY ComposedTyped
<1>3. PICK load \in Loads :
         /\ load.book = host.loading.book
         /\ \/ /\ host'.loading = None /\ host'.styling = host.styling \cup {load}
               /\ host'.state = host.state /\ toView' = toView
            \/ /\ host'.styling = host.styling /\ PresentsLoad(load)
  BY ComposedTyped
<1>4. load.book = doc.book
  BY <1>2, <1>3 DEF ShownFaithful, LoadsFaithful
<1>5. LoadsFaithful'
  BY <1>1, <1>3, <1>4 DEF ShownFaithful, LoadsFaithful, PresentsLoad
<1>6. ShowingGoes
  BY <1>1, <1>3, <1>4 DEF ShowingGoes, PresentsLoad
<1>7. QED
  BY <1>1, <1>2, <1>5, <1>6, LoadingFaithful

LEMMA StyleReadFaithful ==
    ASSUME Typed, ShownFaithful, NEW load \in host.styling, StyleRead(load)
    PROVE  ShownFaithful'
<1>1. UNCHANGED <<doc, view, toHost>>
  BY DEF StyleRead
<1>2. /\ KeepsWork(host, host') /\ host'.styling = host.styling \ {load}
      /\ Presents(load.book) /\ host'.loading = host.loading
  BY StyleReadTyped
<1>3. load.book = doc.book
  BY DEF ShownFaithful, LoadsFaithful
<1>4. LoadsFaithful'
  BY <1>1, <1>2 DEF ShownFaithful, LoadsFaithful
<1>5. ShowingGoes
  BY <1>1, <1>2, <1>3 DEF ShowingGoes
<1>6. QED
  BY <1>1, <1>2, <1>4, <1>5, LoadingFaithful

\* Another writer changes the manifest while no style sheet is read.
LEMMA ForeignManifestFaithful ==
    ASSUME ~Overlapping, Typed, ShownFaithful, NEW book \in Sources, ForeignManifest(book)
    PROVE  ShownFaithful'
<1>1. /\ KeepsWork(host, host') /\ Reschedules(host, host')
      /\ doc'.version = doc.version + 1 /\ host.styling = {}
      /\ UNCHANGED <<view, toHost, toView>>
  BY ForeignManifestTyped DEF Undisturbed
<1>2. LoadsFaithful'
  BY <1>1 DEF LoadsFaithful, Reschedules
<1>3. DocGoes /\ ShowingGoes /\ ViewGoes
  BY <1>1 DEF DocGoes, ShowingGoes, ViewGoes , Reschedules
<1>4. QED
  BY <1>2, <1>3, GoesFaithful

\* Another writer changes a chapter, and its watcher fires.
LEMMA ChapterFaithful ==
    ASSUME Typed, ShownFaithful,
           WatcherFires \/ \E path \in Paths : ForeignChapter(path)
    PROVE  ShownFaithful'
<1>1. /\ UNCHANGED <<doc, view, toHost, toView>> /\ KeepsWork(host, host')
      /\ KeepsShown(host, host') \/ Reschedules(host, host')
  BY ForeignChapterTyped, WatcherFiresTyped
<1>2. LoadsFaithful' /\ ShowingGoes
  BY <1>1 DEF ShownFaithful, LoadsFaithful, ShowingGoes, KeepsShown, Reschedules
<1>3. QED
  BY <1>1, <1>2, LoadingFaithful

\* The webview announces itself, edits what it shows, or asks for an export.
LEMMA PostedFaithful ==
    ASSUME Typed, ShownFaithful,
           \/ Ready \/ Export
           \/ \E edit \in Edits, path \in Paths, from \in Places, to \in Places :
                Click(edit, path, from, to)
    PROVE  ShownFaithful'
<1>1. /\ UNCHANGED <<doc, host, toView>> /\ view'.state = view.state
      /\ \A m \in ToSet(toHost') :
            \/ m \in ToSet(toHost) \/ m.type \in {"ready", "export"}
            \/ view.state # None /\ m.base = view.state.revision /\ m.shown = view.state.book
  BY ReadyTyped, ClickTyped, ExportTyped
<1>2. ViewGoes
  BY <1>1 DEF ViewGoes
<1>3. DocGoes /\ ShowingGoes /\ LoadsFaithful'
  BY <1>1 DEF DocGoes, ShowingGoes, ShownFaithful, LoadsFaithful
<1>4. QED
  BY <1>2, <1>3, GoesFaithful

\* The edit under way goes on, or ends.
LEMMA WorksFaithful ==
    ASSUME Typed, ShownFaithful, Works, host.queue # <<>>, UNCHANGED <<doc, view, toHost>>
    PROVE  ShownFaithful'
<1>1. KeepsShown(host, host')
  BY DEF Works
<1>2. \A m \in ToSet(toView') : m \in ToSet(toView) \/ m.type # "state"
  BY DEF Works
<1>3. LoadsFaithful' /\ DocGoes /\ ShowingGoes
  BY <1>1, <1>2, StillFaithful DEF ShownFaithful
<1>4. ViewGoes
  BY DEF ViewGoes
<1>5. QED
  BY <1>3, <1>4, GoesFaithful

LEMMA EditFaithful ==
    ASSUME Typed, ShownFaithful, StartMutation \/ \E agrees \in BOOLEAN : AnswerDialog(agrees)
    PROVE  ShownFaithful'
BY StartMutationTyped, AnswerDialogTyped, WorksFaithful

LEMMA ApplyEditFaithful ==
    ASSUME ~Overlapping, Typed, ShownFaithful, ApplyEdit
    PROVE  ShownFaithful'
<1>1. CASE doc' = doc /\ Works
  BY <1>1, ApplyEditTyped, WorksFaithful
<1>2. CASE ~(doc' = doc /\ Works)
  <2>1. /\ doc'.version = doc.version + 1 /\ host.styling = {}
        /\ Reschedules(host, host') /\ UNCHANGED <<view, toHost>>
        /\ host.queue # <<>> /\ host'.queue = Tail(host.queue) /\ host'.mutation = None
        /\ \A m \in ToSet(toView') : m \in ToSet(toView) \/ m.type = "result"
    BY <1>2, ApplyEditTyped DEF Undisturbed
  <2>2. LoadsFaithful'
    BY <2>1 DEF LoadsFaithful, Reschedules
  <2>3. DocGoes /\ ViewGoes
    BY <2>1 DEF DocGoes, ViewGoes
  <2>4. ShowingGoes
    BY <2>1 DEF ShowingGoes, Reschedules
  <2>5. QED
    BY <2>2, <2>3, <2>4, GoesFaithful
<1>3. QED
  BY <1>1, <1>2

\* The steps of a plan touch nothing of this.
LEMMA PlanFaithful ==
    ASSUME Typed, ShownFaithful, NEW plan, Becomes(plan)
    PROVE  ShownFaithful'
<1>1. LoadsFaithful' /\ DocGoes /\ ShowingGoes
  BY StillFaithful DEF ShownFaithful, Becomes
<1>2. ViewGoes
  BY DEF ViewGoes, Becomes
<1>3. QED
  BY <1>1, <1>2, GoesFaithful

\* A message arrives at the host.
LEMMA ArriveFaithful ==
    ASSUME Typed, ShownFaithful, Arrive
    PROVE  ShownFaithful'
<1> DEFINE m == Head(toHost)
<1>1. /\ toHost # <<>> /\ Receives(m)
      /\ toHost' = Tail(toHost) /\ UNCHANGED <<doc, view>>
  BY ArriveTyped
<1>2. m \in ToSet(toHost) /\ ToSet(toHost') \subseteq ToSet(toHost)
  BY <1>1, Taken, TypedFacts
<1> HIDE DEF m
<1>3. DocGoes /\ ViewGoes
  BY <1>1, <1>2 DEF DocGoes, ViewGoes
<1>4. LoadsFaithful' /\ ShowingGoes
  <2>1. CASE /\ KeepsShown(host, host')
             /\ \A x \in ToSet(toView') :
                   x \in ToSet(toView) \/ (host.state # None /\ x.state = host.state)
    BY <1>1, <2>1, StillFaithful DEF ShownFaithful
  <2>2. CASE Reschedules(host, host') /\ toView' = toView
    BY <1>1, <2>2 DEF Reschedules, ShownFaithful, LoadsFaithful, ShowingGoes
  <2>3. CASE StartsLoad(host)
    BY <1>1, <2>3 DEF StartsLoad, ShownFaithful, LoadsFaithful, ShowingGoes
  <2>4. QED
    BY <1>1, <2>1, <2>2, <2>3 DEF Receives
<1>5. QED
  BY <1>3, <1>4, GoesFaithful

\* A message is heard in the webview.
LEMMA HearFaithful ==
    ASSUME Typed, ShownFaithful, Hear
    PROVE  ShownFaithful'
<1>1. /\ UNCHANGED <<doc, chapter, host>>
      /\ toView # <<>> /\ toView' = Tail(toView)
      /\ \/ view'.state = view.state
         \/ Head(toView).type = "state" /\ view'.state = Head(toView).state
      /\ \A m \in ToSet(toHost') : m \in ToSet(toHost) \/ m.type = "refresh"
  BY HearTyped
<1>2. ToSet(toView') \subseteq ToSet(toView)
  BY <1>1, Taken, TypedFacts
<1>3. DocGoes /\ ShowingGoes /\ LoadsFaithful'
  BY <1>1, <1>2 DEF DocGoes, ShowingGoes, ShownFaithful, LoadsFaithful
<1>4. ViewGoes
  BY <1>1 DEF ViewGoes
<1>5. QED
  BY <1>3, <1>4, GoesFaithful

LEMMA InitFaithful == Init => Faithful
<1> SUFFICES ASSUME Init
             PROVE  Faithful
  OBVIOUS
<1>1. /\ host.loading = None /\ host.styling = {} /\ host.state = None
      /\ host.queue = <<>> /\ host.mutation = None /\ view.state = None
      /\ toHost = <<>> /\ toView = <<>>
  BY DEF Init, NoLoad
<1>2. ToSet(<<>>) = {}
  BY Members
<1>3. QED
  BY <1>1, <1>2 DEF Faithful, ShownFaithful, LoadsFaithful, HostFaithful, ViewFaithful,
                      EditsFaithful, OnRevision

LEMMA NextShown ==
    ASSUME ~Overlapping, Typed, ShownFaithful, [Next]_vars
    PROVE  ShownFaithful'
<1>1. CASE TimerFires \/ Composed
  BY <1>1, TimerFiresFaithful, ComposedFaithful
<1>2. ASSUME NEW path \in Paths, LoadChapter(path) \/ ForeignChapter(path)
      PROVE  ShownFaithful'
  BY <1>2, LoadChapterFaithful, ChapterFaithful
<1>3. ASSUME NEW load \in host.styling, StyleRead(load)
      PROVE  ShownFaithful'
  BY <1>3, StyleReadFaithful
<1>4. ASSUME NEW book \in Sources, ForeignManifest(book)
      PROVE  ShownFaithful'
  BY <1>4, ForeignManifestFaithful
<1>5. CASE WatcherFires
  BY <1>5, ChapterFaithful
<1>6. CASE \/ Ready \/ Export
           \/ \E edit \in Edits, path \in Paths, from \in Places, to \in Places :
                Click(edit, path, from, to)
  BY <1>6, PostedFaithful
<1>7. CASE StartMutation \/ \E agrees \in BOOLEAN : AnswerDialog(agrees)
  BY <1>7, EditFaithful
<1>8. CASE ApplyEdit
  BY <1>8, ApplyEditFaithful
<1>9. CASE Capture \/ Rendered \/ PlanMade \/ Confirm \/ VerifyChapter \/ Write \/ CancelExport
  <2>1. \E plan : Becomes(plan)
    BY <1>9, CaptureTyped, RenderedTyped, PlanMadeTyped, ConfirmTyped, VerifyChapterTyped,
       WriteTyped, CancelExportTyped DEF PlanGoes
  <2>2. QED
    BY <2>1, PlanFaithful
<1>10. CASE Arrive \/ Hear
  BY <1>10, ArriveFaithful, HearFaithful
<1>11. CASE UNCHANGED vars
  BY <1>11 DEF vars, ShownFaithful, LoadsFaithful, HostFaithful, ViewFaithful, Same
<1>12. QED
  BY <1>1, <1>2, <1>3, <1>4, <1>5, <1>6, <1>7, <1>8, <1>9, <1>10, <1>11, Written DEF Next

LEMMA NextFaithful ==
    ASSUME ~Overlapping, Typed, Faithful, [Next]_vars
    PROVE  Faithful'
<1>1. DocGoes
  BY DocMoves
<1>2. EditsFaithful'
  BY <1>1, QueueMoves, EditsStayFaithful DEF Faithful, ShownFaithful
<1>3. QED
  BY <1>2, NextShown DEF Faithful

\* The condition of EditsWhatWasShown, of one step.
LEMMA AppliedAsShown ==
    ASSUME Typed, Faithful, [Next]_vars,
           doc'.version # doc.version, host.mutation # None, host'.mutation = None
    PROVE  doc.book = Head(host.queue).shown
<1>1. host.queue # <<>> /\ doc.version = Head(host.queue).base
  BY AppliedOnRevision DEF Faithful, EditsFaithful
<1>2. Head(host.queue) \in ToSet(host.queue)
  BY <1>1, Taken, TypedFacts
<1>3. QED
  BY <1>1, <1>2 DEF Faithful, EditsFaithful, Same

\* An edit made in the webview is applied to the manifest its user saw, whatever
\* else was written while it waited and while a dialog was open, as long as nothing
\* changes the manifest while a style sheet is read
\* (prepareBookMutationSnapshot, updateProjectFile).
THEOREM EditsSeen ==
    ASSUME ~Overlapping
    PROVE  Spec => EditsWhatWasShown
<1>1. Init => Typed /\ Faithful
  BY InitTyped, InitFaithful
<1>2. Typed /\ Faithful /\ [Next]_vars => (Typed /\ Faithful)'
  BY NextTyped, NextFaithful
<1>3. Typed /\ Faithful /\ [Next]_vars =>
        [doc'.version # doc.version /\ host.mutation # None /\ host'.mutation = None =>
           doc.book = Head(host.queue).shown]_vars
  BY AppliedAsShown
<1>4. QED
  BY <1>1, <1>2, <1>3, PTL DEF Spec, EditsWhatWasShown

----------------------------------------------------------------------------
(* What an export wrote was the project at one moment *)

\* Behind, Torn and Dated of the next state.
BehindNext(x) == \A p \in Paths : x.captured[p] # None => x.captured[p] <= chapter'[Key[p]]

TornNext(x, paths) ==
    \E p \in paths : p \in Paths /\ x.captured[p] # None /\ x.captured[p] < chapter'[Key[p]]

DatedNext(x) == BehindNext(x) /\ (x.coherent \/ TornNext(x, ToSet(x.book.documents)))

\* Chapters are only written, never written back.
Grows == \A p \in Paths : Content(p) <= chapter'[Key[p]]

\* What was read once.
Readings == Loads \cup Composites

LEMMA ContentTyped ==
    ASSUME TypeOK
    PROVE  \A p \in Paths : Content(p) \in Nat
BY DEF TypeOK, Content, Files

LEMMA StillTyped ==
    ASSUME Typed, chapter' = chapter
    PROVE  Grows
BY ContentTyped DEF Typed, Grows, Content

\* A Book that shows that it was composed of several moments goes on showing it.
LEMMA DatedStays ==
    ASSUME Typed, Typed', Grows, NEW x \in Readings
    PROVE  /\ Behind(x) => BehindNext(x)
           /\ \A paths : Torn(x, paths) => TornNext(x, paths)
           /\ Dated(x) => DatedNext(x)
<1>1. \A p \in Paths : /\ Content(p) \in Nat /\ chapter'[Key[p]] \in Nat
                       /\ Content(p) <= chapter'[Key[p]]
                       /\ x.captured[p] # None => x.captured[p] \in Nat
  <2>1. \A p \in Paths : Content(p) \in Nat
    BY ContentTyped DEF Typed
  <2>2. \A p \in Paths : chapter'[Key[p]] \in Nat
    BY DEF Typed, TypeOK, Files
  <2>3. x.captured \in Read
    BY DEF Readings, Loads, Composites
  <2>4. QED
    BY <2>1, <2>2, <2>3 DEF Grows, Read
<1>2. Behind(x) => BehindNext(x)
  BY <1>1 DEF Behind, BehindNext
<1>3. \A paths : Torn(x, paths) => TornNext(x, paths)
  BY <1>1 DEF Torn, TornNext
<1>4. Dated(x) => DatedNext(x)
  BY <1>2, <1>3 DEF Dated, DatedNext
<1>5. QED
  BY <1>2, <1>3, <1>4

\* What is composed, waits for its style sheet and is shown was read.
LEMMA ReadingsTyped ==
    ASSUME Typed
    PROVE  /\ host.loading # None => host.loading \in Readings
           /\ \A load \in host.styling : load \in Readings
           /\ host.source # None => host.source \in Readings
           /\ host.export # None /\ host.export.stage # "updating" =>
                 host.export.source \in Readings
<1>1. /\ host.loading # None => host.loading \in Readings
      /\ \A load \in host.styling : load \in Readings
      /\ host.source # None => host.source \in Readings
  BY TypedFacts DEF Hosts, Readings
<1>2. ASSUME host.export # None, host.export.stage # "updating"
      PROVE  host.export.source \in Readings
  <2>1. host.export \in Plans /\ host.export.source # None
    BY <1>2, TypedFacts DEF Hosts, Typed, InWork
  <2>2. QED
    BY <2>1 DEF Plans, Readings
<1>3. QED
  BY <1>1, <1>2

\* The invariants of the next state, in these terms.
LEMMA MomentsNext ==
    /\ Composing' <=>
          /\ host'.loading # None => host'.loading.book = doc'.book /\ BehindNext(host'.loading)
          /\ \A load \in host'.styling : DatedNext(load)
          /\ host'.source # None => DatedNext(host'.source)
    /\ Exporting' <=>
          /\ host'.export # None /\ host'.export.stage # "updating" =>
                DatedNext(host'.export.source)
          /\ host'.export # None /\ host'.export.stage = "verifying" =>
                \/ host'.export.source.coherent
                \/ TornNext(host'.export.source, ToSet(host'.export.unread))
          /\ \A source \in host'.written : source.coherent
BY DEF Composing, Exporting, ExportsOneMoment, Behind, BehindNext, Torn, TornNext, Dated,
       DatedNext, Content

\* What is composed: a load goes on or is given up, and the Book shown stays, is
\* none, or is one that waited for its style sheet.
ComposingGoes ==
    /\ host'.loading = None \/ (doc' = doc /\ host'.loading = host.loading)
    /\ host'.styling \subseteq host.styling
    /\ host'.source # None =>
          \/ host'.source = host.source
          \/ \E load \in host.styling :
                /\ host'.source.captured = load.captured /\ host'.source.book = load.book
                /\ host'.source.coherent = load.coherent

LEMMA ComposingStays ==
    ASSUME Typed, Typed', Composing, Grows, ComposingGoes
    PROVE  Composing'
<1>1. host'.loading # None => host'.loading.book = doc'.book /\ BehindNext(host'.loading)
  BY ReadingsTyped, DatedStays DEF Composing, ComposingGoes
<1>2. /\ \A load \in host.styling : DatedNext(load)
      /\ host.source # None => DatedNext(host.source)
  BY ReadingsTyped, DatedStays DEF Composing
<1>3. host'.source # None => DatedNext(host'.source)
  BY <1>2 DEF ComposingGoes, DatedNext, BehindNext, TornNext
<1>4. \A load \in host'.styling : DatedNext(load)
  BY <1>2 DEF ComposingGoes
<1>5. QED
  BY <1>1, <1>3, <1>4, MomentsNext

\* A load begins.
LEMMA StartsLoadStays ==
    ASSUME Typed, Typed', Composing, StartsLoad(host), UNCHANGED <<doc, chapter>>
    PROVE  Composing'
<1>1. Grows
  BY StillTyped
<1>2. host'.loading # None => host'.loading.book = doc'.book /\ BehindNext(host'.loading)
  BY DEF StartsLoad, BehindNext
<1>3. /\ \A load \in host.styling : DatedNext(load)
      /\ host.source # None => DatedNext(host.source)
  BY <1>1, ReadingsTyped, DatedStays DEF Composing
<1>4. QED
  BY <1>2, <1>3, MomentsNext DEF StartsLoad

\* A chapter is read as it is.
LEMMA LoadChapterStays ==
    ASSUME Typed, Typed', Composing, NEW path \in Paths, LoadChapter(path)
    PROVE  Composing'
<1>1. UNCHANGED <<doc, chapter>>
  BY DEF LoadChapter
<1>2. /\ host'.styling = host.styling /\ host'.source = host.source
      /\ host.loading # None /\ host'.loading.book = host.loading.book
      /\ \A p \in Paths : host'.loading.captured[p]
            = IF p = path THEN Content(p) ELSE host.loading.captured[p]
  BY LoadChapterTyped
<1>3. /\ Grows /\ \A p \in Paths : Content(p) \in Nat /\ chapter'[Key[p]] = Content(p)
  BY <1>1, StillTyped, ContentTyped DEF Typed, Content
<1>4. /\ \A load \in host.styling : DatedNext(load)
      /\ host.source # None => DatedNext(host.source)
      /\ host.loading.book = doc.book /\ BehindNext(host.loading)
  BY <1>2, <1>3, ReadingsTyped, DatedStays DEF Composing
<1>5. BehindNext(host'.loading)
  BY <1>2, <1>3, <1>4 DEF BehindNext
<1>6. QED
  BY <1>1, <1>2, <1>4, <1>5, MomentsNext

\* A Book that is composed of what was read is dated: a chapter that is not as it
\* was read was written since.
LEMMA ComposedDated ==
    ASSUME Typed, Composing, Composed, NEW load \in Loads,
           load.book = host.loading.book, load.captured = host.loading.captured,
           load.coherent = ( /\ load.book = doc.book
                             /\ \A p \in ToSet(load.book.documents) :
                                   load.captured[p] = Content(p) )
    PROVE  Dated(load)
<1>1. /\ host.loading # None
      /\ \A p \in ToSet(load.book.documents) : load.captured[p] # None
  BY DEF Composed, Unread, NoLoad
<1>2. load.book = doc.book /\ Behind(load)
  BY <1>1 DEF Composing, Behind
<1>3. /\ ToSet(load.book.documents) \subseteq Paths
      /\ \A p \in Paths : load.captured[p] # None => load.captured[p] \in Nat
  <2>1. load.book.documents \in Seq(Paths) /\ load.captured \in Read
    BY DEF Loads, Books
  <2>2. QED
    BY <2>1, Members DEF Read
<1>4. ASSUME ~load.coherent
      PROVE  Torn(load, ToSet(load.book.documents))
  <2>1. PICK p \in ToSet(load.book.documents) : load.captured[p] # Content(p)
    BY <1>2, <1>4
  <2>2. p \in Paths /\ load.captured[p] # None
    BY <1>1, <1>3
  <2>3. load.captured[p] \in Nat /\ Content(p) \in Nat /\ load.captured[p] <= Content(p)
    BY <1>2, <1>3, <2>2, ContentTyped DEF Typed, Behind
  <2>4. load.captured[p] < Content(p)
    BY <2>1, <2>3
  <2>5. QED
    BY <2>2, <2>4 DEF Torn
<1>5. QED
  BY <1>2, <1>4 DEF Dated

LEMMA ComposedStays ==
    ASSUME Typed, Typed', Composing, Composed
    PROVE  Composing'
<1>1. UNCHANGED <<doc, chapter>>
  BY DEF Composed
<1>2. Grows
  BY <1>1, StillTyped
<1>3. PICK load \in Loads :
         /\ load.book = host.loading.book /\ load.captured = host.loading.captured
         /\ load.coherent = ( /\ load.book = doc.book
                              /\ \A p \in ToSet(load.book.documents) :
                                    load.captured[p] = Content(p) )
         /\ \/ /\ host'.loading = None /\ host'.styling = host.styling \cup {load}
               /\ host'.state = host.state /\ host'.source = host.source
               /\ toView' = toView
            \/ /\ host'.styling = host.styling
               /\ PresentsLoad(load)
  BY ComposedTyped
<1>4. Dated(load)
  BY <1>3, ComposedDated
<1>5. DatedNext(load)
  BY <1>2, <1>4, DatedStays DEF Readings
<1>6. /\ \A x \in host.styling : DatedNext(x)
      /\ host.source # None => DatedNext(host.source)
  BY <1>2, ReadingsTyped, DatedStays DEF Composing
<1>7. /\ host'.loading = None
      /\ \A x \in host'.styling : DatedNext(x)
      /\ host'.source # None => DatedNext(host'.source)
  <2>1. CASE /\ host'.loading = None /\ host'.styling = host.styling \cup {load}
             /\ host'.source = host.source
    BY <1>5, <1>6, <2>1
  <2>2. CASE host'.styling = host.styling /\ PresentsLoad(load)
    BY <1>5, <1>6, <2>2 DEF PresentsLoad, DatedNext, BehindNext, TornNext
  <2>3. QED
    BY <1>3, <2>1, <2>2
<1>8. QED
  BY <1>7, MomentsNext

\* A plan that is not advanced.
ExportingGoes ==
    /\ host'.written = host.written
    /\ host'.export = host.export \/ host'.export = None \/ host'.export.stage = "updating"

LEMMA ExportingStays ==
    ASSUME Typed, Typed', Exporting, Grows, ExportingGoes
    PROVE  Exporting'
<1>1. host.export # None /\ host.export.stage # "updating" =>
         /\ DatedNext(host.export.source)
         /\ \A paths : Torn(host.export.source, paths) => TornNext(host.export.source, paths)
  BY ReadingsTyped, DatedStays DEF Exporting
<1>2. \A source \in host'.written : source.coherent
  BY DEF Exporting, ExportsOneMoment, ExportingGoes
<1>3. QED
  BY <1>1, <1>2, MomentsNext DEF Exporting, ExportingGoes

\* A plan that is advanced: what it is made from is dated, and the verification
\* passes only over chapters that are as they were read.
LEMMA PlanStays ==
    ASSUME Typed, Typed', Moments, PlanGoes
    PROVE  Exporting'
<1>1. PICK plan \in Plans :
         /\ Becomes(plan) /\ host'.written = host.written
         /\ host.export # None
         /\ \/ plan.stage = "rendering" /\ plan.source = host.source /\ host.source # None
            \/ /\ host.export.stage # "updating" /\ plan.source = host.export.source
               /\ \/ plan.stage \in {"hashing", "planned"}
                  \/ plan.stage = "verifying" /\ plan.unread = plan.source.book.documents
                  \/ /\ plan.stage = "verifying" /\ host.export.stage = "verifying"
                     /\ host.export.unread # <<>>
                     /\ plan.unread = Tail(host.export.unread)
                     /\ Content(Head(host.export.unread))
                           = plan.source.captured[Head(host.export.unread)]
  BY DEF PlanGoes
<1>2. host'.export = plan /\ chapter' = chapter /\ Grows
  BY <1>1, StillTyped DEF Becomes
<1>3. /\ Dated(plan.source) /\ plan.source \in Readings
  BY <1>1, ReadingsTyped DEF Moments, Composing, Exporting
<1>4. /\ DatedNext(plan.source)
      /\ \A paths : Torn(plan.source, paths) => TornNext(plan.source, paths)
  BY <1>2, <1>3, DatedStays
<1>5. ASSUME plan.stage = "verifying", ~plan.source.coherent
      PROVE  Torn(plan.source, ToSet(plan.unread))
  <2>1. CASE plan.unread = plan.source.book.documents
    BY <1>3, <1>5, <2>1 DEF Dated
  <2>2. CASE /\ host.export.stage = "verifying" /\ plan.source = host.export.source
             /\ host.export.unread # <<>> /\ plan.unread = Tail(host.export.unread)
             /\ Content(Head(host.export.unread))
                   = plan.source.captured[Head(host.export.unread)]
    <3>1. Torn(plan.source, ToSet(host.export.unread))
      BY <1>1, <1>5, <2>2 DEF Moments, Exporting
    <3>2. PICK p \in ToSet(host.export.unread) :
             /\ p \in Paths /\ plan.source.captured[p] # None
             /\ plan.source.captured[p] < Content(p)
      BY <3>1 DEF Torn
    <3>3. host.export.unread \in Seq(Paths)
      BY <1>1, TypedFacts DEF Hosts, Plans
    <3>4. p = Head(host.export.unread) \/ p \in ToSet(plan.unread)
      BY <2>2, <3>3, Taken
    <3>5. Content(p) \in Nat
      BY <3>2, ContentTyped DEF Typed
    <3>6. p # Head(host.export.unread)
      BY <2>2, <3>2, <3>5
    <3>7. QED
      BY <3>2, <3>4, <3>6 DEF Torn
  <2>3. QED
    BY <1>1, <1>5, <2>1, <2>2
<1>6. \A source \in host'.written : source.coherent
  BY <1>1 DEF Moments, Exporting, ExportsOneMoment
<1>7. QED
  BY <1>2, <1>4, <1>5, <1>6, MomentsNext

\* An export is written when the verification has no chapter before it.
LEMMA WriteStays ==
    ASSUME Typed, Exporting, Write
    PROVE  Exporting'
<1>1. /\ host'.export = None
      /\ host.export # None /\ host.export.stage = "verifying" /\ host.export.unread = <<>>
      /\ host'.written = host.written \cup {host.export.source}
  BY WriteTyped DEF Becomes
<1>2. ~Torn(host.export.source, ToSet(host.export.unread))
  BY <1>1, Members DEF Torn
<1>3. host.export.source.coherent
  BY <1>1, <1>2 DEF Exporting
<1>4. \A source \in host'.written : source.coherent
  BY <1>1, <1>3 DEF Exporting, ExportsOneMoment
<1>5. QED
  BY <1>1, <1>4, MomentsNext

\* The rest of the steps: nothing is composed and no plan is advanced.
LEMMA RestStays ==
    ASSUME Typed, Typed', Moments, Grows, ComposingGoes, ExportingGoes
    PROVE  Moments'
BY ComposingStays, ExportingStays DEF Moments

\* The host loads and shows.
LEMMA LoadingMoments ==
    ASSUME Typed, Typed', Moments, KeepsWork(host, host'), chapter' = chapter, Composing'
    PROVE  Moments'
<1>1. Grows
  BY StillTyped
<1>2. ExportingGoes
  BY DEF ExportingGoes, KeepsWork
<1>3. QED
  BY <1>1, <1>2, ExportingStays DEF Moments

LEMMA LoadsMoments ==
    ASSUME Typed, Moments,
           \/ TimerFires \/ Composed
           \/ \E path \in Paths : LoadChapter(path)
           \/ \E load \in host.styling : StyleRead(load)
    PROVE  Moments'
<1>1. CASE TimerFires
  <2>1. UNCHANGED <<doc, chapter>>
    BY <1>1 DEF TimerFires
  <2>2. QED
    BY <1>1, <2>1, TimerFiresTyped, StartsLoadStays, LoadingMoments DEF Moments, Begins
<1>2. CASE Composed
  <2>1. chapter' = chapter
    BY <1>2 DEF Composed
  <2>2. QED
    BY <1>2, <2>1, ComposedTyped, ComposedStays, LoadingMoments DEF Moments
<1>3. ASSUME NEW path \in Paths, LoadChapter(path)
      PROVE  Moments'
  <2>1. chapter' = chapter
    BY <1>3 DEF LoadChapter
  <2>2. QED
    BY <1>3, <2>1, LoadChapterTyped, LoadChapterStays, LoadingMoments DEF Moments
<1>4. ASSUME NEW load \in host.styling, StyleRead(load)
      PROVE  Moments'
  <2>1. /\ Typed' /\ KeepsWork(host, host')
        /\ host'.styling = host.styling \ {load}
        /\ host'.loading = host.loading
        /\ host'.source # None =>
              /\ host'.source.captured = load.captured /\ host'.source.book = load.book
              /\ host'.source.coherent = load.coherent
    BY <1>4, StyleReadTyped
  <2>2. UNCHANGED <<doc, chapter>>
    BY <1>4 DEF StyleRead
  <2>3. ComposingGoes
    BY <2>1, <2>2 DEF ComposingGoes
  <2>4. Composing'
    BY <2>1, <2>2, <2>3, StillTyped, ComposingStays DEF Moments
  <2>5. QED
    BY <2>1, <2>2, <2>4, LoadingMoments
<1>5. QED
  BY <1>1, <1>2, <1>3, <1>4

\* Other editors and the webview write.
LEMMA WritersMoments ==
    ASSUME Typed, Moments,
           \/ \E book \in Sources : ForeignManifest(book)
           \/ \E path \in Paths : ForeignChapter(path)
           \/ WatcherFires \/ ApplyEdit
           \/ StartMutation \/ \E agrees \in BOOLEAN : AnswerDialog(agrees)
    PROVE  Moments'
<1>1. /\ Typed'
      /\ (KeepsShown(host, host') /\ doc' = doc) \/ Reschedules(host, host')
      /\ ExportingGoes
      /\ chapter' = chapter \/ Grows
  <2>1. ASSUME NEW book \in Sources, ForeignManifest(book)
        PROVE  Typed' /\ Reschedules(host, host') /\ ExportingGoes /\ chapter' = chapter
    BY <2>1, ForeignManifestTyped DEF ExportingGoes, KeepsWork
  <2>2. ASSUME NEW path \in Paths, ForeignChapter(path)
        PROVE  Typed' /\ KeepsShown(host, host') /\ doc' = doc /\ ExportingGoes /\ Grows
    BY <2>2, ForeignChapterTyped DEF ExportingGoes, KeepsWork, Grows
  <2>3. CASE WatcherFires
    BY <2>3, WatcherFiresTyped DEF ExportingGoes, KeepsWork
  <2>4. CASE ApplyEdit
    BY <2>4, ApplyEditTyped DEF ExportingGoes, Works
  <2>5. CASE StartMutation \/ \E agrees \in BOOLEAN : AnswerDialog(agrees)
    BY <2>5, StartMutationTyped, AnswerDialogTyped DEF ExportingGoes, Works
  <2>6. QED
    BY <2>1, <2>2, <2>3, <2>4, <2>5
<1>2. Grows
  BY <1>1, StillTyped
<1>3. ComposingGoes
  BY <1>1 DEF ComposingGoes, KeepsShown, Reschedules
<1>4. QED
  BY <1>1, <1>2, <1>3, RestStays

\* A plan goes on, is given up, or is written.
LEMMA PlanMoments ==
    ASSUME Typed, Moments,
           \/ Capture \/ Rendered \/ PlanMade \/ Confirm
           \/ VerifyChapter \/ Write \/ CancelExport
    PROVE  Moments'
<1>1. /\ Typed' /\ \E plan : Becomes(plan)
      /\ PlanGoes \/ Write \/ (Becomes(None) /\ host'.written = host.written)
  BY CaptureTyped, RenderedTyped, PlanMadeTyped, ConfirmTyped, VerifyChapterTyped,
     WriteTyped, CancelExportTyped DEF PlanGoes
<1>2. UNCHANGED <<doc, chapter>> /\ KeepsShown(host, host')
  BY <1>1 DEF Becomes
<1>3. Grows /\ ComposingGoes
  BY <1>2, StillTyped DEF ComposingGoes, KeepsShown
<1>4. Composing'
  BY <1>1, <1>3, ComposingStays DEF Moments
<1>5. Exporting'
  <2>1. CASE PlanGoes
    BY <1>1, <2>1, PlanStays
  <2>2. CASE Write
    BY <2>2, WriteStays DEF Moments
  <2>3. CASE Becomes(None) /\ host'.written = host.written
    BY <1>1, <1>3, <2>3, ExportingStays DEF Moments, ExportingGoes, Becomes
  <2>4. QED
    BY <1>1, <2>1, <2>2, <2>3
<1>6. QED
  BY <1>4, <1>5 DEF Moments

\* Messages are posted, arrive and are heard.
LEMMA MessagesMoments ==
    ASSUME Typed, Moments,
           \/ Ready \/ Export \/ Arrive \/ Hear
           \/ \E edit \in Edits, path \in Paths, from \in Places, to \in Places :
                Click(edit, path, from, to)
    PROVE  Moments'
<1>1. CASE Arrive
  <2>1. Typed' /\ Receives(Head(toHost)) /\ UNCHANGED <<doc, chapter>>
    BY <1>1, ArriveTyped
  <2>2. Grows
    BY <2>1, StillTyped
  <2>3. ExportingGoes
    BY <2>1 DEF Receives, ExportingGoes, KeepsWork
  <2>4. ComposingGoes \/ StartsLoad(host)
    BY <2>1 DEF Receives, ComposingGoes, KeepsShown, Reschedules
  <2>5. Composing'
    BY <2>1, <2>2, <2>4, ComposingStays, StartsLoadStays DEF Moments
  <2>6. QED
    BY <2>1, <2>2, <2>3, <2>5, ExportingStays DEF Moments
<1>2. CASE ~Arrive
  <2>1. Typed' /\ UNCHANGED <<doc, chapter, host>>
    BY <1>2, ReadyTyped, ExportTyped, HearTyped, ClickTyped
  <2>2. Grows /\ ComposingGoes /\ ExportingGoes
    BY <2>1, StillTyped DEF ComposingGoes, ExportingGoes
  <2>3. QED
    BY <2>1, <2>2, RestStays
<1>3. QED
  BY <1>1, <1>2

LEMMA InitMoments == Init => Moments
<1> SUFFICES ASSUME Init
             PROVE  Moments
  OBVIOUS
<1>1. /\ host.loading = None /\ host.styling = {} /\ host.source = None
      /\ host.export = None /\ host.written = {}
  BY DEF Init, NoLoad, NoExport
<1>2. QED
  BY <1>1 DEF Moments, Composing, Exporting, ExportsOneMoment

LEMMA NextMoments ==
    ASSUME Typed, Moments, [Next]_vars
    PROVE  Moments'
<1>1. CASE UNCHANGED vars
  <2>1. UNCHANGED <<doc, chapter, host>> /\ Typed'
    BY <1>1, NextTyped DEF vars
  <2>2. Grows /\ ComposingGoes /\ ExportingGoes
    BY <2>1, StillTyped DEF ComposingGoes, ExportingGoes
  <2>3. QED
    BY <2>1, <2>2, RestStays
<1>2. ASSUME NEW path \in Paths, LoadChapter(path) \/ ForeignChapter(path)
      PROVE  Moments'
  BY <1>2, LoadsMoments, WritersMoments
<1>3. ASSUME NEW load \in host.styling, StyleRead(load)
      PROVE  Moments'
  BY <1>3, LoadsMoments
<1>4. ASSUME NEW book \in Sources, ForeignManifest(book)
      PROVE  Moments'
  BY <1>4, WritersMoments
<1>5. CASE TimerFires \/ Composed
  BY <1>5, LoadsMoments
<1>6. CASE WatcherFires \/ ApplyEdit
           \/ StartMutation \/ \E agrees \in BOOLEAN : AnswerDialog(agrees)
  BY <1>6, WritersMoments
<1>7. CASE Capture \/ Rendered \/ PlanMade \/ Confirm \/ VerifyChapter \/ Write \/ CancelExport
  BY <1>7, PlanMoments
<1>8. CASE \/ Ready \/ Export \/ Arrive \/ Hear
           \/ \E edit \in Edits, path \in Paths, from \in Places, to \in Places :
                Click(edit, path, from, to)
  BY <1>8, MessagesMoments
<1>9. QED
  BY <1>1, <1>2, <1>3, <1>4, <1>5, <1>6, <1>7, <1>8, Written DEF Next

\* What an export wrote was the project at one moment, its manifest and all its
\* chapters together, whatever other editors write meanwhile
\* (loadBook, then readCurrentBookIntegrityFingerprint).
THEOREM ExportsCoherent == Spec => []ExportsOneMoment
<1>1. Init => Typed /\ Moments
  BY InitTyped, InitMoments
<1>2. Typed /\ Moments /\ [Next]_vars => (Typed /\ Moments)'
  BY NextTyped, NextMoments
<1>3. Moments => ExportsOneMoment
  BY DEF Moments, Exporting
<1>4. QED
  BY <1>1, <1>2, <1>3, PTL DEF Spec

----------------------------------------------------------------------------
(* The webview shows the Book once nothing is under way *)

\* The states under way to the webview, those and the one it shows, and the one
\* the host shows.
UnderWay == {m.state : m \in {x \in ToSet(toView) : x.type = "state"}}
Reaching == UnderWay \cup ({view.state} \ {None})
Held == Reaching \cup ({host.state} \ {None})

\* The numbers of the loads that go on.
Numbers == {load.sequence : load \in host.styling \cup ({host.loading} \ {None})}

\* A state of the manifest as it is.
Fresh(state) == state.revision = doc.version

\* A state of an earlier manifest is older than the states of this one, those that
\* are still to come included: the webview takes none of them back.
Numbered ==
    /\ \A n \in Numbers : n <= host.sequence
    /\ \A state \in Held : state.generation <= host.sequence

Ordered ==
    \A old \in Held : ~Fresh(old) =>
       /\ \A state \in Held : Fresh(state) => old.generation < state.generation
       /\ \A n \in Numbers : old.generation < n

\* The host shows the manifest as it is, or is about to; and what it shows was
\* posted to a webview that is ready.
Working == host.timer \/ Numbers # {} \/ (host.state # None /\ Fresh(host.state))

Delivered ==
    host.ready /\ host.state # None /\ Fresh(host.state) => \E state \in Reaching : Fresh(state)

UpToDate == Numbered /\ Ordered /\ Working /\ Delivered

\* The edits asked for and those answered, until the webview hears of it.
Asked ==
    {m.request : m \in {x \in ToSet(toHost) : x.type = "mutation"} \cup ToSet(host.queue)
                         \cup {x \in ToSet(toView) : x.type = "result"}}

\* A webview that is ready has said so, and an edit it waits for is under way.
Heard ==
    /\ view.ready => host.ready \/ \E m \in ToSet(toHost) : m.type = "ready"
    /\ view.pending # None => view.pending \in Asked

\* The fourth inductive invariant.
Settles == UpToDate /\ Heard

LEMMA HeldTyped ==
    ASSUME Typed
    PROVE  /\ Held \subseteq States /\ Reaching \subseteq States /\ Numbers \subseteq Nat
           /\ host.sequence \in Nat /\ doc.version \in Nat
<1>1. /\ host \in Hosts /\ toView \in Seq(Inbox) /\ doc.version \in Nat
      /\ host.state # None => host.state \in States
      /\ view.state # None => view.state \in States
  BY TypedFacts
<1>2. UnderWay \subseteq States
  <2>1. \A m \in Inbox : m.type = "state" => m.state \in States
    BY DEF Inbox
  <2>2. ToSet(toView) \subseteq Inbox
    BY <1>1, Members
  <2>3. QED
    BY <2>1, <2>2 DEF UnderWay
<1>3. Reaching \subseteq States
  BY <1>1, <1>2 DEF Reaching
<1>4. Held \subseteq States
  BY <1>1, <1>3 DEF Held
<1>5. Numbers \subseteq Nat
  <2>1. host.styling \cup ({host.loading} \ {None}) \subseteq Loads
    BY <1>1 DEF Hosts
  <2>2. \A load \in Loads : load.sequence \in Nat
    BY DEF Loads
  <2>3. QED
    BY <2>1, <2>2 DEF Numbers
<1>6. QED
  BY <1>1, <1>3, <1>4, <1>5 DEF Hosts

\* The loads and states of a step: they were there, or are of the manifest as it
\* is, under a number of a load or a new one.
NumbersGo ==
    /\ doc'.version = doc.version
    /\ host'.sequence \in Nat /\ host.sequence <= host'.sequence
    /\ \A n \in Numbers' : n \in Numbers \/ (n = host'.sequence /\ host.sequence < n)
    /\ \A s \in Held' :
          \/ s \in Held
          \/ /\ s.revision = doc.version
             /\ \/ s.generation \in Numbers
                \/ s.generation = host'.sequence /\ host.sequence < s.generation

LEMMA OrderStays ==
    ASSUME Typed, Numbered, Ordered, NumbersGo
    PROVE  Numbered' /\ Ordered'
<1>1. /\ Held \subseteq States /\ Numbers \subseteq Nat
      /\ host.sequence \in Nat /\ host'.sequence \in Nat /\ host.sequence <= host'.sequence
      /\ \A s \in States : s.generation \in Nat
  BY HeldTyped DEF NumbersGo, States
<1>2. ASSUME NEW n \in Numbers'
      PROVE  n \in Nat /\ n <= host'.sequence /\ (n \in Numbers \/ host.sequence < n)
  <2>1. CASE n \in Numbers
    <3>1. n \in Nat /\ n <= host.sequence
      BY <1>1, <2>1 DEF Numbered
    <3>2. QED
      BY <1>1, <2>1, <3>1
  <2>2. CASE n = host'.sequence /\ host.sequence < n
    BY <1>1, <2>2
  <2>3. QED
    BY <1>2, <2>1, <2>2 DEF NumbersGo
<1>3. ASSUME NEW s \in Held'
      PROVE  /\ s.generation \in Nat /\ s.generation <= host'.sequence
             /\ \/ s \in Held
                \/ /\ s.revision = doc.version
                   /\ s.generation \in Numbers \/ host.sequence < s.generation
  <2>1. \/ s \in Held
        \/ /\ s.revision = doc.version
           /\ \/ s.generation \in Numbers
              \/ s.generation = host'.sequence /\ host.sequence < s.generation
    BY <1>3 DEF NumbersGo
  <2>2. CASE s \in Held
    <3>1. s.generation \in Nat /\ s.generation <= host.sequence
      BY <1>1, <2>2 DEF Numbered
    <3>2. QED
      BY <1>1, <2>2, <3>1
  <2>3. CASE s.revision = doc.version /\ s.generation \in Numbers
    <3>1. s.generation \in Nat /\ s.generation <= host.sequence
      BY <1>1, <2>3 DEF Numbered
    <3>2. QED
      BY <1>1, <2>3, <3>1
  <2>4. CASE /\ s.revision = doc.version
             /\ s.generation = host'.sequence /\ host.sequence < s.generation
    BY <1>1, <2>4
  <2>5. QED
    BY <2>1, <2>2, <2>3, <2>4
<1>4. Numbered'
  BY <1>2, <1>3 DEF Numbered
<1>5. ASSUME NEW old \in Held', old.revision # doc'.version
      PROVE  /\ old \in Held /\ ~Fresh(old) /\ old.generation \in Nat
             /\ old.generation <= host.sequence
  <2>1. old \in Held
    BY <1>3, <1>5 DEF NumbersGo
  <2>2. QED
    BY <1>1, <1>5, <2>1 DEF NumbersGo, Fresh, Numbered
<1>6. ASSUME NEW old \in Held', old.revision # doc'.version,
             NEW state \in Held', state.revision = doc'.version
      PROVE  old.generation < state.generation
  <2>1. old \in Held /\ ~Fresh(old) /\ old.generation \in Nat /\ old.generation <= host.sequence
    BY <1>5, <1>6
  <2>2. state.generation \in Nat /\ Fresh(state)
    BY <1>3, <1>6 DEF NumbersGo, Fresh
  <2>3. state \in Held \/ state.generation \in Numbers \/ host.sequence < state.generation
    BY <1>3
  <2>4. QED
    BY <1>1, <2>1, <2>2, <2>3 DEF Ordered
<1>7. ASSUME NEW old \in Held', old.revision # doc'.version, NEW n \in Numbers'
      PROVE  old.generation < n
  <2>1. old \in Held /\ ~Fresh(old) /\ old.generation \in Nat /\ old.generation <= host.sequence
    BY <1>5, <1>7
  <2>2. n \in Nat /\ (n \in Numbers \/ host.sequence < n)
    BY <1>2
  <2>3. QED
    BY <1>1, <2>1, <2>2 DEF Ordered
<1>8. Ordered'
  BY <1>6, <1>7 DEF Ordered, Fresh
<1>9. QED
  BY <1>4, <1>8

\* A change of the manifest makes all that is shown old, and ends the loads.
LEMMA OrderAnew ==
    ASSUME Typed, ShownFaithful, Numbered, doc'.version = doc.version + 1,
           Numbers' = {}, Held' \subseteq Held, host'.sequence = host.sequence
    PROVE  /\ Numbered' /\ Ordered'
           /\ \A state \in Held' : state.revision # doc'.version
<1>1. Held \subseteq States /\ doc.version \in Nat
  BY HeldTyped
<1>2. ASSUME NEW state \in Held
      PROVE  state.revision \in 0 .. doc.version
  <2>1. CASE state = host.state /\ host.state # None
    BY <2>1 DEF ShownFaithful, HostFaithful, Same
  <2>2. CASE state = view.state /\ view.state # None
    BY <2>2 DEF ShownFaithful, ViewFaithful, Same
  <2>3. CASE state \in UnderWay
    <3>1. PICK m \in ToSet(toView) : m.type = "state" /\ m.state = state
      BY <2>3 DEF UnderWay
    <3>2. Same(m.state.revision, m.state.book)
      BY <3>1 DEF ShownFaithful, HostFaithful
    <3>3. QED
      BY <3>1, <3>2 DEF Same
  <2>4. QED
    BY <1>2, <2>1, <2>2, <2>3 DEF Held, Reaching
<1>3. \A state \in Held' : state.revision # doc'.version
  BY <1>1, <1>2
<1>4. Numbered'
  BY DEF Numbered
<1>5. Ordered'
  <2>1. \A state \in Held' : ~(state.revision = doc'.version)
    BY <1>3
  <2>2. QED
    BY <2>1 DEF Ordered, Fresh
<1>6. QED
  BY <1>3, <1>4, <1>5

\* A state that is posted is under way with the others.
LEMMA StatePosted ==
    ASSUME toView \in Seq(Inbox), NEW s \in States,
           toView' = Append(toView, [type |-> "state", state |-> s])
    PROVE  UnderWay' = UnderWay \cup {s} /\ ToSet(toView) \subseteq ToSet(toView')
<1> DEFINE m == [type |-> "state", state |-> s]
<1>1. m \in Inbox /\ m.type = "state" /\ m.state = s
  BY DEF Inbox
<1>2. toView' = Append(toView, m)
  OBVIOUS
<1> HIDE DEF m
<1>3. ToSet(toView') = ToSet(toView) \cup {m}
  BY <1>1, <1>2, Appended
<1>4. QED
  BY <1>1, <1>3 DEF UnderWay

\* Nothing new is shown.
LEMMA StillUpToDate ==
    ASSUME Typed, UpToDate, NumbersGo, doc' = doc, host'.state = host.state,
           Reaching \subseteq Reaching', host'.ready = host.ready,
           Working => Working'
    PROVE  UpToDate'
<1>1. Numbered' /\ Ordered'
  BY OrderStays DEF UpToDate
<1>2. Working'
  BY DEF UpToDate
<1>3. Delivered'
  BY DEF UpToDate, Delivered, Fresh
<1>4. QED
  BY <1>1, <1>2, <1>3 DEF UpToDate

\* The host goes on with what it shows and loads, or gives its load up for another.
Continues(h, k) ==
    /\ k.sequence = h.sequence /\ k.state = h.state /\ k.ready = h.ready
    /\ k.styling = h.styling
    /\ \/ k.loading = h.loading /\ k.timer = h.timer
       \/ k.loading = None /\ k.timer

LEMMA ContinuesUpToDate ==
    ASSUME Typed, UpToDate, doc' = doc, Reaching' = Reaching, Continues(host, host')
    PROVE  UpToDate'
<1>1. Held' = Held
  BY DEF Held, Continues
<1>2. /\ Numbers' \subseteq Numbers
      /\ host'.timer \/ (Numbers' = Numbers /\ host'.timer = host.timer)
  BY DEF Numbers, Continues
<1>3. NumbersGo
  BY <1>1, <1>2, HeldTyped DEF NumbersGo, Continues
<1>4. Working => Working'
  BY <1>2 DEF Working, Continues, Fresh
<1>5. QED
  BY <1>3, <1>4, StillUpToDate DEF Continues

LEMMA AnewUpToDate ==
    ASSUME Typed, ShownFaithful, UpToDate, doc'.version = doc.version + 1,
           Reaching' = Reaching, Continues(host, host'),
           host'.loading = None, host'.timer, host.styling = {}
    PROVE  UpToDate'
<1>1. Held' = Held
  BY DEF Held, Continues
<1>2. Numbers' = {}
  BY DEF Numbers, Continues
<1>3. Numbered' /\ Ordered' /\ \A state \in Held' : state.revision # doc'.version
  BY <1>1, <1>2, OrderAnew DEF UpToDate, Continues
<1>4. Working'
  BY DEF Working
<1>5. Delivered'
  <2>1. host'.state # None => host'.state \in Held'
    BY DEF Held
  <2>2. ~(host'.state # None /\ host'.state.revision = doc'.version)
    BY <1>3, <2>1
  <2>3. QED
    BY <2>2 DEF Delivered, Fresh
<1>6. QED
  BY <1>3, <1>4, <1>5 DEF UpToDate

\* A Book is shown, under the number of its load.
LEMMA ShownUpToDate ==
    ASSUME Typed, UpToDate, doc' = doc, view' = view, NEW h \in Hosts, NEW load \in Shows,
           host' = Shown(h, load), PostState(Shown(h, load)),
           h.ready = host.ready, h.styling \subseteq host.styling,
           h.loading = host.loading \/ h.loading = None,
           \/ load.sequence \in Numbers /\ h.sequence = host.sequence
           \/ load.sequence = h.sequence /\ h.sequence = host.sequence + 1
    PROVE  UpToDate' /\ ToSet(toView) \subseteq ToSet(toView')
<1>1. /\ host'.sequence = h.sequence /\ host'.ready = h.ready
      /\ host'.styling = h.styling /\ host'.loading = h.loading
      /\ host'.state = [generation |-> load.sequence, revision |-> doc.version,
                        book |-> load.book]
  BY DEF Shown, Hosts
<1>2. /\ host'.state \in States
      /\ host'.state.generation = load.sequence /\ host'.state.revision = doc.version
  BY <1>1, HeldTyped DEF States, Shows
<1>3. toView' = IF host.ready THEN Append(toView, [type |-> "state", state |-> host'.state])
                ELSE toView
  <2>1. PostState(host')
    OBVIOUS
  <2>2. QED
    BY <1>1, <2>1 DEF PostState, Post
<1>4. /\ UnderWay' = UnderWay \cup (IF host.ready THEN {host'.state} ELSE {})
      /\ ToSet(toView) \subseteq ToSet(toView')
  <2>1. CASE host.ready
    BY <1>2, <1>3, <2>1, StatePosted, TypedFacts
  <2>2. CASE ~host.ready
    BY <1>3, <2>2 DEF UnderWay
  <2>3. QED
    BY <2>1, <2>2
<1>5. /\ Reaching' \subseteq Reaching \cup {host'.state}
      /\ host.ready => host'.state \in Reaching'
  BY <1>4 DEF Reaching
<1>6. Held' \subseteq Held \cup {host'.state}
  BY <1>5 DEF Held
<1>7. Numbers' \subseteq Numbers
  BY <1>1 DEF Numbers
<1>8. NumbersGo
  BY <1>1, <1>2, <1>6, <1>7, HeldTyped DEF NumbersGo, Shows
<1>9. Numbered' /\ Ordered'
  BY <1>8, OrderStays DEF UpToDate
<1>10. Working'
  <2>1. host'.state # None
    BY <1>2, NoneAssumption
  <2>2. QED
    BY <1>2, <2>1 DEF Working, Fresh
<1>11. Delivered'
  BY <1>1, <1>2, <1>5 DEF Delivered, Fresh
<1>12. QED
  BY <1>4, <1>9, <1>10, <1>11 DEF UpToDate

\* The Book is loaded anew, or shown as it does not parse.
LEMMA UpdateUpToDate ==
    ASSUME Typed, UpToDate, doc' = doc, view' = view, NEW h \in Hosts, StartUpdate(h),
           h.sequence = host.sequence, h.state = host.state, h.ready = host.ready,
           h.styling = host.styling
    PROVE  /\ UpToDate' /\ ToSet(toView) \subseteq ToSet(toView')
           /\ host'.ready = host.ready
<1> DEFINE sequence == h.sequence + 1
           load == [sequence |-> sequence, epoch |-> h.epoch, book |-> doc.book,
                    captured |-> [path \in Paths |-> None], coherent |-> FALSE]
           begun == [h EXCEPT !.sequence = sequence, !.loading = NoLoad]
<1>1. /\ host.sequence \in Nat /\ sequence \in Nat /\ sequence = host.sequence + 1
      /\ doc.book \in Sources
  BY HeldTyped, TypedFacts
<1> HIDE DEF sequence
<1>2. /\ load \in Shows /\ load.sequence = sequence
      /\ doc.book \in Books => load \in Loads
  BY <1>1 DEF Shows, Hosts, Read, Loads
<1>3. /\ begun \in Hosts /\ begun.loading = None /\ begun.styling = h.styling
      /\ begun.state = h.state /\ begun.ready = h.ready /\ begun.sequence = sequence
  BY <1>1 DEF Hosts, NoLoad
<1>4. IF IsBook(doc.book)
      THEN host' = [begun EXCEPT !.loading = load] /\ UNCHANGED toView
      ELSE host' = Shown(begun, load) /\ PostState(Shown(begun, load))
  BY DEF StartUpdate, sequence
<1> HIDE DEF load, begun
<1>5. CASE IsBook(doc.book)
  <2>1. load \in Loads /\ load # None
    BY <1>1, <1>2, <1>5, NoneAssumption DEF IsBook, Sources
  <2>2. host' = [begun EXCEPT !.loading = load] /\ toView' = toView
    BY <1>4, <1>5
  <2>3. /\ host'.loading = load /\ host'.styling = host.styling /\ host'.sequence = sequence
        /\ host'.state = host.state /\ host'.ready = host.ready
    BY <1>3, <2>1, <2>2 DEF Hosts
  <2>4. Reaching' = Reaching /\ Held' = Held
    BY <2>2, <2>3 DEF Reaching, Held, UnderWay
  <2>5. Numbers' \subseteq Numbers \cup {sequence} /\ sequence \in Numbers'
    BY <1>2, <2>1, <2>3 DEF Numbers
  <2>6. NumbersGo
    BY <1>1, <2>3, <2>4, <2>5 DEF NumbersGo
  <2>7. Working'
    BY <2>5 DEF Working
  <2>8. UpToDate'
    BY <2>3, <2>4, <2>6, <2>7, StillUpToDate
  <2>9. QED
    BY <2>2, <2>3, <2>8
<1>6. CASE ~IsBook(doc.book)
  <2>1. host' = Shown(begun, load) /\ PostState(Shown(begun, load))
    BY <1>4, <1>6
  <2>2. UpToDate' /\ ToSet(toView) \subseteq ToSet(toView')
    BY <1>1, <1>2, <1>3, <2>1, ShownUpToDate
  <2>3. host'.ready = host.ready
    BY <1>3, <2>1 DEF Shown, Hosts
  <2>4. QED
    BY <2>2, <2>3
<1>7. QED
  BY <1>5, <1>6

LEMMA TimerFiresUpToDate ==
    ASSUME Typed, UpToDate, TimerFires
    PROVE  /\ UpToDate' /\ ToSet(toView) \subseteq ToSet(toView')
           /\ host'.ready = host.ready
<1> DEFINE h == [host EXCEPT !.timer = FALSE]
<1>1. StartUpdate(h) /\ doc' = doc /\ view' = view
  BY DEF TimerFires
<1>2. /\ h \in Hosts /\ h.sequence = host.sequence /\ h.state = host.state
      /\ h.ready = host.ready /\ h.styling = host.styling
  BY TypedFacts DEF Hosts
<1> HIDE DEF h
<1>3. QED
  BY <1>1, <1>2, UpdateUpToDate

LEMMA LoadChapterUpToDate ==
    ASSUME Typed, UpToDate, NEW path \in Paths, LoadChapter(path)
    PROVE  UpToDate' /\ toView' = toView /\ host'.ready = host.ready
<1>1. /\ host.loading # None /\ host.loading \in Loads
      /\ host' = [host EXCEPT !.loading.captured[path] = Content(path)]
      /\ UNCHANGED <<doc, view, toView>>
  BY TypedFacts DEF LoadChapter, NoLoad, Hosts
<1>2. PICK load : load = [host.loading EXCEPT !.captured[path] = Content(path)]
  OBVIOUS
<1>3. /\ host'.loading = load /\ host'.styling = host.styling
      /\ host'.sequence = host.sequence
      /\ host'.state = host.state /\ host'.ready = host.ready
  BY <1>1, <1>2, TypedFacts DEF Hosts
<1>4. load.sequence = host.loading.sequence
  BY <1>1, <1>2 DEF Loads
<1>5. Content(path) \in Nat
  BY DEF Typed, TypeOK, Content, Files
<1>6. load # None
  <2>1. load \in Loads
    BY <1>1, <1>2, <1>5 DEF Loads, Read
  <2>2. QED
    BY <2>1, NoneAssumption
<1>7. Reaching' = Reaching /\ Held' = Held
  BY <1>1, <1>3 DEF Reaching, Held, UnderWay
<1>8. Numbers' = Numbers /\ Numbers # {}
  BY <1>1, <1>3, <1>4, <1>6 DEF Numbers
<1>9. NumbersGo
  BY <1>1, <1>3, <1>7, <1>8, HeldTyped DEF NumbersGo
<1>10. Working'
  BY <1>8 DEF Working
<1>11. QED
  BY <1>1, <1>3, <1>7, <1>9, <1>10, StillUpToDate

LEMMA ComposedUpToDate ==
    ASSUME Typed, UpToDate, Composed
    PROVE  /\ UpToDate' /\ ToSet(toView) \subseteq ToSet(toView')
           /\ host'.ready = host.ready
<1> DEFINE read == host.loading
           is == /\ read.book = doc.book
                 /\ \A p \in ToSet(read.book.documents) : read.captured[p] = Content(p)
           load == [read EXCEPT !.coherent = is]
           rest == [host EXCEPT !.loading = NoLoad]
           next == [rest EXCEPT !.styling = @ \cup {load}]
<1>1. /\ read # None
      /\ IF load.book.publish
         THEN host' = next /\ UNCHANGED toView
         ELSE host' = Shown(rest, load) /\ PostState(Shown(rest, load))
      /\ UNCHANGED <<doc, view>>
  BY DEF Composed, NoLoad
<1>2. read \in Loads
  BY <1>1, TypedFacts DEF Hosts
<1>3. is \in BOOLEAN
  OBVIOUS
<1> HIDE DEF is
<1>4. load \in Loads /\ load # None /\ load.sequence = read.sequence
  BY <1>2, <1>3, NoneAssumption DEF Loads
<1>5. read.sequence \in Numbers
  BY <1>1 DEF Numbers
<1> HIDE DEF load
<1>6. /\ rest \in Hosts /\ rest.loading = None /\ rest.styling = host.styling
      /\ rest.state = host.state /\ rest.ready = host.ready /\ rest.sequence = host.sequence
  BY TypedFacts DEF Hosts, NoLoad
<1>7. /\ next.loading = None /\ next.styling = host.styling \cup {load}
      /\ next.state = host.state /\ next.ready = host.ready /\ next.sequence = host.sequence
  BY TypedFacts DEF Hosts, NoLoad
<1> HIDE DEF rest, next
<1>8. CASE load.book.publish
  <2>1. host' = next /\ toView' = toView
    BY <1>1, <1>8
  <2>2. Reaching' = Reaching /\ Held' = Held
    BY <1>1, <1>7, <2>1 DEF Reaching, Held, UnderWay
  <2>3. Numbers' \subseteq Numbers /\ Numbers' # {}
    BY <1>4, <1>5, <1>7, <2>1 DEF Numbers
  <2>4. NumbersGo
    BY <1>1, <1>7, <2>1, <2>2, <2>3, HeldTyped DEF NumbersGo
  <2>5. Working'
    BY <2>3 DEF Working
  <2>6. QED
    BY <1>1, <1>7, <2>1, <2>2, <2>4, <2>5, StillUpToDate
<1>9. CASE ~load.book.publish
  <2>1. load \in Shows /\ load.sequence \in Numbers
    BY <1>4, <1>5 DEF Loads, Shows, Sources
  <2>2. host' = Shown(rest, load) /\ PostState(Shown(rest, load))
    BY <1>1, <1>9
  <2>3. UpToDate' /\ ToSet(toView) \subseteq ToSet(toView')
    BY <1>1, <1>6, <2>1, <2>2, ShownUpToDate
  <2>4. host'.ready = host.ready
    BY <1>6, <2>2 DEF Shown, Hosts
  <2>5. QED
    BY <2>3, <2>4
<1>10. QED
  BY <1>8, <1>9

LEMMA StyleReadUpToDate ==
    ASSUME Typed, UpToDate, NEW load \in host.styling, StyleRead(load)
    PROVE  /\ UpToDate' /\ ToSet(toView) \subseteq ToSet(toView')
           /\ host'.ready = host.ready
<1> DEFINE rest == [host EXCEPT !.styling = @ \ {load}]
<1>1. /\ host' = Shown(rest, load) /\ PostState(Shown(rest, load))
      /\ doc' = doc /\ view' = view
  BY DEF StyleRead
<1>2. load \in Shows /\ load.sequence \in Numbers /\ host.styling \ {load} \in SUBSET Loads
  <2>1. load \in Loads /\ load # None /\ host.styling \ {load} \in SUBSET Loads
    BY NoneAssumption, TypedFacts DEF Hosts
  <2>2. QED
    BY <2>1 DEF Numbers, Loads, Shows, Sources
<1>3. /\ rest \in Hosts /\ rest.styling = host.styling \ {load}
      /\ rest.loading = host.loading /\ rest.state = host.state
      /\ rest.ready = host.ready /\ rest.sequence = host.sequence
  BY <1>2, TypedFacts DEF Hosts
<1> HIDE DEF rest
<1>4. UpToDate' /\ ToSet(toView) \subseteq ToSet(toView')
  BY <1>1, <1>2, <1>3, ShownUpToDate
<1>5. host'.ready = host.ready
  BY <1>1, <1>3 DEF Shown, Hosts
<1>6. QED
  BY <1>4, <1>5

\* What is asked for and answered stays so while messages and edits only join.
LEMMA AskedStays ==
    ASSUME toHost' = toHost, host'.queue = host.queue, ToSet(toView) \subseteq ToSet(toView')
    PROVE  Asked \subseteq Asked'
BY DEF Asked

LEMMA StillHeard ==
    ASSUME Heard, view' = view, toHost' = toHost, host'.ready = host.ready, Asked \subseteq Asked'
    PROVE  Heard'
BY DEF Heard

LEMMA LoadsSettle ==
    ASSUME Typed, Settles,
           \/ TimerFires \/ Composed
           \/ \E path \in Paths : LoadChapter(path)
           \/ \E load \in host.styling : StyleRead(load)
    PROVE  Settles'
<1>1. /\ UpToDate' /\ ToSet(toView) \subseteq ToSet(toView') /\ host'.ready = host.ready
      /\ KeepsWork(host, host') /\ view' = view /\ toHost' = toHost
  <2>1. CASE TimerFires
    BY <2>1, TimerFiresUpToDate, TimerFiresTyped DEF Settles, TimerFires
  <2>2. CASE Composed
    BY <2>2, ComposedUpToDate, ComposedTyped DEF Settles, Composed
  <2>3. ASSUME NEW path \in Paths, LoadChapter(path)
        PROVE  /\ UpToDate' /\ ToSet(toView) \subseteq ToSet(toView')
              /\ host'.ready = host.ready /\ KeepsWork(host, host')
              /\ view' = view /\ toHost' = toHost
    BY <2>3, LoadChapterUpToDate, LoadChapterTyped DEF Settles, LoadChapter
  <2>4. ASSUME NEW load \in host.styling, StyleRead(load)
        PROVE  /\ UpToDate' /\ ToSet(toView) \subseteq ToSet(toView')
              /\ host'.ready = host.ready /\ KeepsWork(host, host')
              /\ view' = view /\ toHost' = toHost
    BY <2>4, StyleReadUpToDate, StyleReadTyped DEF Settles, StyleRead
  <2>5. QED
    BY <2>1, <2>2, <2>3, <2>4
<1>2. Heard'
  BY <1>1, AskedStays, StillHeard DEF Settles, KeepsWork
<1>3. QED
  BY <1>1, <1>2 DEF Settles

\* A new load is scheduled.
LEMMA ScheduledContinues ==
    ASSUME NEW h \in Hosts, Continues(host, h)
    PROVE  /\ Continues(host, Scheduled(h))
           /\ Scheduled(h).loading = None /\ Scheduled(h).timer
           /\ Scheduled(h).queue = h.queue /\ Scheduled(h).ready = h.ready
BY DEF Scheduled, Hosts, Continues, NoLoad

LEMMA HostContinues == Continues(host, host)
BY DEF Continues

\* Other editors write, which the host hears of.
LEMMA ForeignManifestSettles ==
    ASSUME ~Overlapping, Typed, ShownFaithful, Settles,
           NEW book \in Sources, ForeignManifest(book)
    PROVE  Settles'
<1>1. /\ host' = Scheduled(host) /\ doc'.version = doc.version + 1
      /\ UNCHANGED <<view, toHost, toView>> /\ host.styling = {}
  BY DEF ForeignManifest, Undisturbed
<1>2. /\ Continues(host, host') /\ host'.loading = None /\ host'.timer
      /\ host'.queue = host.queue /\ host'.ready = host.ready
  BY <1>1, TypedFacts, HostContinues, ScheduledContinues
<1>3. Reaching' = Reaching
  BY <1>1 DEF Reaching, UnderWay
<1>4. UpToDate'
  BY <1>1, <1>2, <1>3, AnewUpToDate DEF Settles
<1>5. Heard'
  BY <1>1, <1>2, AskedStays, StillHeard DEF Settles
<1>6. QED
  BY <1>4, <1>5 DEF Settles

\* The host goes on, on the same manifest.
LEMMA ContinuesSettles ==
    ASSUME Typed, Settles, doc' = doc, view' = view, toHost' = toHost, UnderWay' = UnderWay,
           Continues(host, host'), Asked \subseteq Asked'
    PROVE  Settles'
<1>1. Reaching' = Reaching
  BY DEF Reaching
<1>2. UpToDate'
  BY <1>1, ContinuesUpToDate DEF Settles
<1>3. Heard'
  BY StillHeard DEF Settles, Continues
<1>4. QED
  BY <1>2, <1>3 DEF Settles

LEMMA ChapterSettles ==
    ASSUME Typed, Settles, WatcherFires \/ \E path \in Paths : ForeignChapter(path)
    PROVE  Settles'
<1>1. ASSUME NEW path \in Paths, ForeignChapter(path)
      PROVE  Settles'
  <2>1. /\ host' = [host EXCEPT !.unheard = @ \/ path \in host.included]
        /\ UNCHANGED <<doc, view, toHost, toView>>
    BY <1>1 DEF ForeignChapter
  <2>2. Continues(host, host') /\ host'.queue = host.queue
    BY <2>1, TypedFacts DEF Hosts, Continues
  <2>3. UnderWay' = UnderWay /\ Asked \subseteq Asked'
    BY <2>1, <2>2, AskedStays DEF UnderWay
  <2>4. QED
    BY <2>1, <2>2, <2>3, ContinuesSettles
<1>2. CASE WatcherFires
  <2> DEFINE h == [host EXCEPT !.unheard = FALSE]
  <2>1. host' = Scheduled(h) /\ UNCHANGED <<doc, view, toHost, toView>>
    BY <1>2 DEF WatcherFires
  <2>2. h \in Hosts /\ Continues(host, h) /\ h.queue = host.queue
    BY TypedFacts DEF Hosts, Continues
  <2> HIDE DEF h
  <2>3. Continues(host, host') /\ host'.queue = host.queue
    BY <2>1, <2>2, ScheduledContinues
  <2>4. UnderWay' = UnderWay /\ Asked \subseteq Asked'
    BY <2>1, <2>3, AskedStays DEF UnderWay
  <2>5. QED
    BY <2>1, <2>3, <2>4, ContinuesSettles
<1>3. QED
  BY <1>1, <1>2

\* The webview is ready: it says so.
LEMMA ReadySettles ==
    ASSUME Typed, Settles, Ready
    PROVE  Settles'
<1> DEFINE m == [type |-> "ready"]
<1>1. m \in Outbox /\ m.type = "ready"
  BY DEF Outbox
<1>2. /\ view' = [view EXCEPT !.ready = TRUE] /\ toHost' = Append(toHost, m)
      /\ UNCHANGED <<doc, host, toView>>
  BY DEF Ready
<1> HIDE DEF m
<1>3. ToSet(toHost') = ToSet(toHost) \cup {m}
  BY <1>1, <1>2, Appended, TypedFacts
<1>4. view'.state = view.state /\ view'.pending = view.pending
  BY <1>2 DEF Typed, TypeOK
<1>5. Reaching' = Reaching /\ Continues(host, host')
  BY <1>2, <1>4 DEF Reaching, UnderWay, Continues
<1>6. UpToDate'
  BY <1>2, <1>5, ContinuesUpToDate DEF Settles
<1>7. Asked \subseteq Asked'
  BY <1>2, <1>3 DEF Asked
<1>8. Heard'
  BY <1>1, <1>3, <1>4, <1>7 DEF Settles, Heard
<1>9. QED
  BY <1>6, <1>8 DEF Settles

\* An edit, or an export, is asked for.
LEMMA ClickSettles ==
    ASSUME Typed, Settles, NEW edit \in Edits, NEW path \in Paths, NEW from \in Places,
           NEW to \in Places, Click(edit, path, from, to)
    PROVE  Settles'
<1> DEFINE m == [type |-> "mutation", edit |-> edit, path |-> path, from |-> from,
                 to |-> to, title |-> "renamed", request |-> ledger.clicks + 1,
                 base |-> view.state.revision, shown |-> view.state.book]
<1>1. /\ view.state # None /\ IsBook(view.state.book)
      /\ view' = [view EXCEPT !.pending = ledger.clicks + 1]
      /\ toHost' = Append(toHost, m)
      /\ UNCHANGED <<doc, host, toView>>
  BY DEF Click
<1>2. ledger.clicks + 1 \in Nat
  BY DEF Typed, TypeOK
<1>3. view.state.revision \in Nat /\ view.state.book \in Books
  BY <1>1, TypedFacts DEF States, IsBook, Sources
<1>4. m \in Requests
  BY <1>2, <1>3 DEF Requests
<1>5. m \in Outbox /\ m.type = "mutation" /\ m.request = ledger.clicks + 1
  BY <1>4 DEF Outbox
<1> HIDE DEF m
<1>6. ToSet(toHost') = ToSet(toHost) \cup {m}
  BY <1>1, <1>5, Appended, TypedFacts
<1>7. view'.state = view.state /\ view'.ready = view.ready /\ view'.pending = m.request
  BY <1>1, <1>5 DEF Typed, TypeOK
<1>8. Reaching' = Reaching /\ Continues(host, host')
  BY <1>1, <1>7 DEF Reaching, UnderWay, Continues
<1>9. UpToDate'
  BY <1>1, <1>8, ContinuesUpToDate DEF Settles
<1>10. view'.pending \in Asked'
  BY <1>5, <1>6, <1>7 DEF Asked
<1>11. Heard'
  BY <1>1, <1>6, <1>7, <1>10 DEF Settles, Heard
<1>12. QED
  BY <1>9, <1>11 DEF Settles

LEMMA ExportSettles ==
    ASSUME Typed, Settles, Export
    PROVE  Settles'
<1> DEFINE m == [type |-> "export", base |-> view.state.revision]
<1>1. /\ view.state # None /\ toHost' = Append(toHost, m)
      /\ UNCHANGED <<doc, host, view, toView>>
  BY DEF Export
<1>2. view.state.revision \in Nat
  BY <1>1, TypedFacts DEF States
<1>3. m \in Outbox
  BY <1>2 DEF Outbox
<1> HIDE DEF m
<1>4. ToSet(toHost') = ToSet(toHost) \cup {m}
  BY <1>1, <1>3, Appended, TypedFacts
<1>5. Reaching' = Reaching /\ Continues(host, host')
  BY <1>1 DEF Reaching, UnderWay, Continues
<1>6. UpToDate'
  BY <1>1, <1>5, ContinuesUpToDate DEF Settles
<1>7. Asked \subseteq Asked'
  BY <1>1, <1>4 DEF Asked
<1>8. Heard'
  BY <1>1, <1>4, <1>7 DEF Settles, Heard
<1>9. QED
  BY <1>6, <1>8 DEF Settles

\* An edit that is answered leaves the queue, and its answer is under way.
LEMMA Answered ==
    ASSUME Typed, toHost' = toHost, host.queue # <<>>, host'.queue = Tail(host.queue),
           Head(host.queue) \in Requests,
           NEW status \in {"applied", "rejected", "stale", "cancelled"},
           Post(Result(Head(host.queue), status))
    PROVE  UnderWay' = UnderWay /\ Asked \subseteq Asked'
<1> DEFINE m == Head(host.queue)
           r == [type |-> "result", request |-> m.request, status |-> status]
<1>1. m.request \in Nat
  BY DEF Requests
<1>2. r \in Inbox /\ r.type = "result" /\ r.request = m.request
  BY <1>1 DEF Inbox
<1>3. toView' = Append(toView, r)
  BY DEF Post, Result
<1>4. \A x \in ToSet(host.queue) : x = m \/ x \in ToSet(host'.queue)
  BY Taken, TypedFacts
<1> HIDE DEF r, m
<1>5. ToSet(toView') = ToSet(toView) \cup {r}
  BY <1>2, <1>3, Appended, TypedFacts
<1>6. UnderWay' = UnderWay
  BY <1>2, <1>5 DEF UnderWay
<1>7. ASSUME NEW x, \/ x \in ToSet(toHost) /\ x.type = "mutation"
                    \/ x \in ToSet(host.queue)
                    \/ x \in ToSet(toView) /\ x.type = "result"
      PROVE  x.request \in Asked'
  <2>1. CASE x = m
    BY <1>2, <1>5, <2>1 DEF Asked
  <2>2. CASE x # m
    BY <1>4, <1>5, <1>7, <2>2 DEF Asked
  <2>3. QED
    BY <2>1, <2>2
<1>8. Asked \subseteq Asked'
  BY <1>7 DEF Asked
<1>9. QED
  BY <1>6, <1>8

\* The answer to an edit takes its place among what is asked for and answered.
LEMMA EndedSettles ==
    ASSUME Typed, Settles, doc' = doc, view' = view, toHost' = toHost, host.queue # <<>>,
           NEW status \in {"applied", "rejected", "stale", "cancelled"},
           Ended(Head(host.queue), status)
    PROVE  Settles'
<1> DEFINE m == Head(host.queue)
<1>1. m \in Requests
  BY Taken, TypedFacts
<1>2. /\ host' = [host EXCEPT !.queue = Tail(@), !.mutation = None]
      /\ Post(Result(m, status))
  BY DEF Ended
<1>3. host'.queue = Tail(host.queue) /\ Continues(host, host')
  BY <1>2, TypedFacts DEF Hosts, Continues
<1>4. UnderWay' = UnderWay /\ Asked \subseteq Asked'
  BY <1>1, <1>2, <1>3, Answered
<1>5. QED
  BY <1>3, <1>4, ContinuesSettles

LEMMA StageSettles ==
    ASSUME Typed, Settles, doc' = doc, view' = view, toHost' = toHost, toView' = toView,
           NEW mutation, host' = [host EXCEPT !.mutation = mutation]
    PROVE  Settles'
<1>1. host'.queue = host.queue /\ Continues(host, host')
  BY TypedFacts DEF Hosts, Continues
<1>2. UnderWay' = UnderWay /\ Asked \subseteq Asked'
  BY <1>1, AskedStays DEF UnderWay
<1>3. QED
  BY <1>1, <1>2, ContinuesSettles

LEMMA EditSettles ==
    ASSUME Typed, Settles, StartMutation \/ \E agrees \in BOOLEAN : AnswerDialog(agrees)
    PROVE  Settles'
<1> DEFINE m == Head(host.queue)
<1>1. ASSUME host.queue # <<>>, UNCHANGED <<doc, view, toHost>>, Apply(m)
      PROVE  Settles'
  <2>1. \/ Ended(m, "rejected") \/ Ended(m, "cancelled")
        \/ \E mutation : host' = [host EXCEPT !.mutation = mutation] /\ toView' = toView
    BY <1>1 DEF Apply
  <2>2. QED
    BY <1>1, <2>1, EndedSettles, StageSettles
<1>2. Refusal(m) \in {"rejected", "stale"}
  BY DEF Refusal
<1>3. CASE StartMutation
  <2>1. /\ host.queue # <<>> /\ UNCHANGED <<doc, view, toHost>>
        /\ \/ Ended(m, Refusal(m)) \/ Ended(m, "rejected") \/ Apply(m)
           \/ \E mutation : host' = [host EXCEPT !.mutation = mutation] /\ toView' = toView
    BY <1>3 DEF StartMutation
  <2>2. QED
    BY <1>1, <1>2, <2>1, EndedSettles, StageSettles
<1>4. ASSUME NEW agrees \in BOOLEAN, AnswerDialog(agrees)
      PROVE  Settles'
  <2>1. /\ host.mutation # None /\ UNCHANGED <<doc, view, toHost>>
        /\ Ended(m, Refusal(m)) \/ Ended(m, "cancelled") \/ Apply(m)
    BY <1>4 DEF AnswerDialog
  <2>2. host.queue # <<>>
    BY <2>1 DEF Typed, InWork
  <2>3. QED
    BY <1>1, <1>2, <2>1, <2>2, EndedSettles
<1>5. QED
  BY <1>3, <1>4

LEMMA ApplyEditSettles ==
    ASSUME ~Overlapping, Typed, ShownFaithful, Settles, ApplyEdit
    PROVE  Settles'
<1> DEFINE m == Head(host.queue)
           done == [host EXCEPT !.queue = Tail(@), !.mutation = None]
<1>1. /\ host.mutation # None /\ host.styling = {}
      /\ UNCHANGED <<view, toHost>>
      /\ \/ /\ doc' = [book |-> host.mutation.next, version |-> doc.version + 1]
            /\ host' = Scheduled(done)
            /\ Post(Result(m, "applied"))
         \/ UNCHANGED doc /\ Ended(m, "rejected")
  BY DEF ApplyEdit, Undisturbed
<1>2. host.queue # <<>>
  BY <1>1 DEF Typed, InWork
<1>3. m \in Requests
  BY <1>2, Taken, TypedFacts
<1>4. CASE UNCHANGED doc /\ Ended(m, "rejected")
  BY <1>1, <1>2, <1>4, EndedSettles
<1>5. CASE /\ doc' = [book |-> host.mutation.next, version |-> doc.version + 1]
           /\ host' = Scheduled(done)
           /\ Post(Result(m, "applied"))
  <2>1. done \in Hosts /\ done.queue = Tail(host.queue)
    BY <1>2, TypedFacts, DequeuedTyped
  <2>2. Continues(host, done)
    BY TypedFacts DEF Hosts, Continues
  <2> HIDE DEF done
  <2>3. /\ Continues(host, host') /\ host'.loading = None /\ host'.timer
        /\ host'.queue = Tail(host.queue)
    BY <1>5, <2>1, <2>2, ScheduledContinues
  <2>4. UnderWay' = UnderWay /\ Asked \subseteq Asked'
    BY <1>1, <1>2, <1>3, <1>5, <2>3, Answered
  <2>5. doc'.version = doc.version + 1 /\ Reaching' = Reaching
    BY <1>1, <1>5, <2>4 DEF Reaching
  <2>6. UpToDate'
    BY <1>1, <2>3, <2>5, AnewUpToDate DEF Settles
  <2>7. Heard'
    BY <1>1, <2>3, <2>4, StillHeard DEF Settles, Continues
  <2>8. QED
    BY <2>6, <2>7 DEF Settles
<1>6. QED
  BY <1>1, <1>4, <1>5

\* Exports show nothing.
LEMMA PlanSettles ==
    ASSUME Typed, Settles,
           \/ Capture \/ Rendered \/ PlanMade \/ Confirm
           \/ VerifyChapter \/ Write \/ CancelExport
    PROVE  Settles'
<1>1. UNCHANGED <<doc, view, toHost, toView>>
  BY DEF Capture, Rendered, PlanMade, Confirm, VerifyChapter, Write, CancelExport
<1>2. host'.queue = host.queue /\ Continues(host, host')
  <2>1. CASE Capture
    BY <2>1, TypedFacts DEF Capture, Failed, Hosts, Continues
  <2>2. CASE Rendered
    BY <2>2, TypedFacts DEF Rendered, Failed, Hosts, Continues
  <2>3. CASE PlanMade
    BY <2>3, TypedFacts DEF PlanMade, Hosts, Continues
  <2>4. CASE Confirm
    BY <2>4, TypedFacts DEF Confirm, Failed, Hosts, Continues
  <2>5. CASE VerifyChapter
    BY <2>5, TypedFacts DEF VerifyChapter, Failed, Hosts, Continues
  <2>6. CASE Write
    BY <2>6, TypedFacts DEF Write, Failed, Hosts, Continues
  <2>7. CASE CancelExport
    BY <2>7, TypedFacts DEF CancelExport, Failed, Hosts, Continues
  <2>8. QED
    BY <2>1, <2>2, <2>3, <2>4, <2>5, <2>6, <2>7
<1>3. UnderWay' = UnderWay /\ Asked \subseteq Asked'
  BY <1>1, <1>2, AskedStays DEF UnderWay
<1>4. QED
  BY <1>1, <1>2, <1>3, ContinuesSettles

\* A message to the host arrives: what it asked for is not lost.
LEMMA ArriveHeard ==
    ASSUME Typed, Heard, toHost # <<>>, toHost' = Tail(toHost), view' = view,
           ToSet(toView) \subseteq ToSet(toView'), ToSet(host.queue) \subseteq ToSet(host'.queue),
           Head(toHost).type = "mutation" => Head(toHost) \in ToSet(host'.queue),
           host.ready \/ Head(toHost).type = "ready" => host'.ready
    PROVE  Heard'
<1> DEFINE m == Head(toHost)
<1>1. \A x \in ToSet(toHost) : x = m \/ x \in ToSet(toHost')
  BY Taken, TypedFacts
<1> HIDE DEF m
<1>2. view'.ready => host'.ready \/ \E x \in ToSet(toHost') : x.type = "ready"
  BY <1>1 DEF Heard, m
<1>3. ASSUME NEW x, \/ x \in ToSet(toHost) /\ x.type = "mutation"
                    \/ x \in ToSet(host.queue)
                    \/ x \in ToSet(toView) /\ x.type = "result"
      PROVE  x.request \in Asked'
  BY <1>1, <1>3 DEF Asked, m
<1>4. Asked \subseteq Asked'
  BY <1>3 DEF Asked
<1>5. QED
  BY <1>2, <1>4 DEF Heard

\* A webview that is ready is sent what the host shows, or a load is begun.
LEMMA ReadyArrives ==
    ASSUME Typed, UpToDate, doc' = doc, view' = view,
           \/ /\ host.state # None /\ host' = [host EXCEPT !.ready = TRUE]
              /\ Post([type |-> "state", state |-> host.state])
           \/ /\ host.state = None /\ host' = Scheduled([host EXCEPT !.ready = TRUE])
              /\ toView' = toView
    PROVE  /\ UpToDate' /\ ToSet(toView) \subseteq ToSet(toView')
           /\ host'.ready /\ host'.queue = host.queue
<1>1. CASE /\ host.state # None /\ host' = [host EXCEPT !.ready = TRUE]
           /\ Post([type |-> "state", state |-> host.state])
  <2>1. /\ host'.ready /\ host'.queue = host.queue
        /\ host'.sequence = host.sequence /\ host'.state = host.state
        /\ host'.styling = host.styling
        /\ host'.loading = host.loading /\ host'.timer = host.timer
    BY <1>1, TypedFacts DEF Hosts
  <2>2. UnderWay' = UnderWay \cup {host.state} /\ ToSet(toView) \subseteq ToSet(toView')
    BY <1>1, TypedFacts, StatePosted DEF Post
  <2>3. Reaching' = Reaching \cup {host.state} /\ Held' = Held
    BY <1>1, <2>1, <2>2 DEF Reaching, Held
  <2>4. Numbers' = Numbers
    BY <2>1 DEF Numbers
  <2>5. Numbered' /\ Ordered'
    <3>1. NumbersGo
      BY <2>1, <2>3, <2>4, HeldTyped DEF NumbersGo
    <3>2. QED
      BY <3>1, OrderStays DEF UpToDate
  <2>6. Working'
    BY <2>1, <2>4 DEF UpToDate, Working, Fresh
  <2>7. Delivered'
    BY <2>1, <2>3 DEF Delivered, Fresh
  <2>8. QED
    BY <2>1, <2>2, <2>5, <2>6, <2>7 DEF UpToDate
<1>2. CASE /\ host.state = None /\ host' = Scheduled([host EXCEPT !.ready = TRUE])
           /\ toView' = toView
  <2> DEFINE h == [host EXCEPT !.ready = TRUE]
  <2>1. /\ h \in Hosts /\ h.ready /\ h.queue = host.queue
        /\ h.sequence = host.sequence /\ h.state = host.state /\ h.styling = host.styling
    BY TypedFacts DEF Hosts
  <2> HIDE DEF h
  <2>2. host' = Scheduled(h)
    BY <1>2 DEF h
  <2>3. /\ host'.ready /\ host'.queue = host.queue
        /\ host'.sequence = host.sequence /\ host'.state = host.state
        /\ host'.styling = host.styling /\ host'.loading = None /\ host'.timer
    BY <2>1, <2>2 DEF Scheduled, Hosts, NoLoad
  <2>4. Held' = Held
    BY <1>2, <2>3 DEF Held, Reaching, UnderWay
  <2>5. Numbers' \subseteq Numbers
    BY <2>3 DEF Numbers
  <2>6. Numbered' /\ Ordered'
    <3>1. NumbersGo
      BY <2>3, <2>4, <2>5, HeldTyped DEF NumbersGo
    <3>2. QED
      BY <3>1, OrderStays DEF UpToDate
  <2>7. Working' /\ Delivered'
    BY <1>2, <2>3 DEF Working, Delivered
  <2>8. QED
    BY <1>2, <2>3, <2>6, <2>7 DEF UpToDate
<1>3. QED
  BY <1>1, <1>2

\* An export begins, with a load when the Book is not current.
LEMMA ExportArrives ==
    ASSUME Typed, UpToDate, doc' = doc, view' = view, NEW base, Preflight(base)
    PROVE  /\ UpToDate' /\ ToSet(toView) \subseteq ToSet(toView')
           /\ host'.ready = host.ready /\ host'.queue = host.queue
<1> DEFINE plan == [stage |-> "updating", base |-> base, sequence |-> host.sequence + 1,
                    source |-> None, manifest |-> None, unread |-> <<>>]
           begun == [host EXCEPT !.export = plan]
<1>1. \/ host' = host /\ toView' = toView
      \/ host' = [begun EXCEPT !.export.sequence = 0] /\ toView' = toView
      \/ doc.version = base /\ StartUpdate(begun)
  BY DEF Preflight
<1>2. CASE \/ host' = host /\ toView' = toView
           \/ host' = [begun EXCEPT !.export.sequence = 0] /\ toView' = toView
  <2>1. host'.queue = host.queue /\ Continues(host, host')
    BY <1>2, TypedFacts DEF Hosts, Continues
  <2>2. Reaching' = Reaching /\ toView' = toView
    BY <1>2 DEF Reaching, UnderWay
  <2>3. QED
    BY <2>1, <2>2, ContinuesUpToDate DEF Continues
<1>3. CASE doc.version = base /\ StartUpdate(begun)
  <2>1. base \in Nat /\ host.sequence + 1 \in Nat /\ <<>> \in Seq(Paths)
    BY <1>3, HeldTyped
  <2>2. plan \in Plans
    BY <2>1 DEF Plans
  <2> HIDE DEF plan
  <2>3. /\ begun \in Hosts /\ begun.sequence = host.sequence /\ begun.state = host.state
        /\ begun.ready = host.ready /\ begun.styling = host.styling
        /\ begun.queue = host.queue
    BY <2>2, TypedFacts DEF Hosts
  <2> HIDE DEF begun
  <2>4. KeepsWork(begun, host')
    BY <1>3, <2>3, UpdateBegins DEF Typed, Begins
  <2>5. QED
    BY <1>3, <2>3, <2>4, UpdateUpToDate DEF KeepsWork
<1>4. QED
  BY <1>1, <1>2, <1>3

LEMMA ArriveSettles ==
    ASSUME Typed, Settles, Arrive
    PROVE  Settles'
<1> DEFINE m == Head(toHost)
<1>1. /\ toHost # <<>> /\ toHost' = Tail(toHost) /\ doc' = doc /\ view' = view
      /\ \/ /\ m.type = "ready"
            /\ \/ /\ host.state # None /\ host' = [host EXCEPT !.ready = TRUE]
                  /\ Post([type |-> "state", state |-> host.state])
               \/ /\ host.state = None /\ host' = Scheduled([host EXCEPT !.ready = TRUE])
                  /\ toView' = toView
         \/ /\ m.type = "mutation"
            /\ host' = [host EXCEPT !.queue = Append(@, m)] /\ toView' = toView
         \/ m.type = "refresh" /\ host' = Scheduled(host) /\ toView' = toView
         \/ m.type = "export" /\ Preflight(m.base)
  BY DEF Arrive
<1>2. m \in Outbox /\ (m.type = "mutation" => m \in Requests)
  BY <1>1, Taken, TypedFacts, Posted
<1> HIDE DEF m
<1>3. /\ UpToDate' /\ ToSet(toView) \subseteq ToSet(toView')
      /\ ToSet(host.queue) \subseteq ToSet(host'.queue)
      /\ m.type = "mutation" => m \in ToSet(host'.queue)
      /\ host.ready \/ m.type = "ready" => host'.ready
  <2>1. CASE /\ m.type = "ready"
             /\ \/ /\ host.state # None /\ host' = [host EXCEPT !.ready = TRUE]
                   /\ Post([type |-> "state", state |-> host.state])
                \/ /\ host.state = None /\ host' = Scheduled([host EXCEPT !.ready = TRUE])
                   /\ toView' = toView
    <3>1. m.type # "mutation"
      BY <2>1
    <3>2. QED
      BY <1>1, <2>1, <3>1, ReadyArrives DEF Settles
  <2>2. CASE /\ m.type = "mutation"
             /\ host' = [host EXCEPT !.queue = Append(@, m)] /\ toView' = toView
    <3>1. host'.queue = Append(host.queue, m) /\ Continues(host, host')
      BY <2>2, TypedFacts DEF Hosts, Continues
    <3>2. ToSet(host'.queue) = ToSet(host.queue) \cup {m}
      BY <1>2, <2>2, <3>1, Appended, TypedFacts
    <3>3. Reaching' = Reaching
      BY <1>1, <2>2 DEF Reaching, UnderWay
    <3>4. UpToDate'
      BY <1>1, <3>1, <3>3, ContinuesUpToDate DEF Settles
    <3>5. QED
      BY <2>2, <3>1, <3>2, <3>4 DEF Continues
  <2>3. CASE m.type = "refresh" /\ host' = Scheduled(host) /\ toView' = toView
    <3>1. host'.queue = host.queue /\ Continues(host, host')
      BY <2>3, TypedFacts, HostContinues, ScheduledContinues
    <3>2. Reaching' = Reaching
      BY <1>1, <2>3 DEF Reaching, UnderWay
    <3>3. UpToDate'
      BY <1>1, <3>1, <3>2, ContinuesUpToDate DEF Settles
    <3>4. QED
      BY <2>3, <3>1, <3>3 DEF Continues
  <2>4. CASE m.type = "export" /\ Preflight(m.base)
    <3>1. m.type # "mutation" /\ m.type # "ready"
      BY <2>4
    <3>2. QED
      BY <1>1, <2>4, <3>1, ExportArrives DEF Settles
  <2>5. QED
    BY <1>1, <2>1, <2>2, <2>3, <2>4
<1>4. Heard'
  BY <1>1, <1>3, ArriveHeard DEF Settles, m
<1>5. QED
  BY <1>3, <1>4 DEF Settles

\* The webview hears of a state, or of the answer to an edit.
LEMMA HearDelivers ==
    ASSUME Typed, UpToDate, Hear
    PROVE  UpToDate'
<1> DEFINE m == Head(toView)
<1>1. /\ toView # <<>> /\ toView' = Tail(toView) /\ UNCHANGED <<doc, host>>
      /\ \/ m.type = "state" /\ Newer(m.state) /\ view' = [view EXCEPT !.state = m.state]
         \/ m.type = "state" /\ ~Newer(m.state) /\ view' = view
         \/ m.type = "result" /\ (view' = view \/ view' = [view EXCEPT !.pending = None])
  BY DEF Hear
<1>2. /\ m \in ToSet(toView) /\ ToSet(toView') \subseteq ToSet(toView)
      /\ \A x \in ToSet(toView) : x = m \/ x \in ToSet(toView')
  BY <1>1, Taken, TypedFacts
<1> HIDE DEF m
<1>3. /\ m.type = "state" /\ Newer(m.state) => view'.state = m.state
      /\ m.type # "state" \/ ~Newer(m.state) => view'.state = view.state
  BY <1>1 DEF Typed, TypeOK
<1>4. m.type = "state" => m.state \in UnderWay
  BY <1>2 DEF UnderWay
<1>5. /\ UnderWay' \subseteq UnderWay
      /\ \A s \in UnderWay : s \in UnderWay' \/ (m.type = "state" /\ s = m.state)
  BY <1>2 DEF UnderWay
<1>6. Reaching' \subseteq Reaching
  BY <1>3, <1>4, <1>5 DEF Reaching
<1>7. Held' \subseteq Held /\ Numbers' = Numbers
  BY <1>1, <1>6 DEF Held, Numbers
<1>8. Numbered' /\ Ordered'
  <2>1. NumbersGo
    BY <1>1, <1>7, HeldTyped DEF NumbersGo
  <2>2. QED
    BY <2>1, OrderStays DEF UpToDate
<1>9. Working'
  BY <1>1, <1>7 DEF UpToDate, Working, Fresh
<1>10. ASSUME NEW s \in Reaching, Fresh(s)
       PROVE  \E t \in Reaching' : Fresh(t)
  <2>1. CASE m.type # "state" \/ s \in UnderWay'
    BY <1>3, <1>5, <1>10, <2>1 DEF Reaching
  <2>2. CASE /\ m.type = "state" /\ Newer(m.state) /\ s \notin UnderWay'
    <3>1. m.state \in Reaching /\ m.state \in States /\ m.state # None
      BY <1>4, <2>2, HeldTyped, NoneAssumption DEF Reaching
    <3>2. view'.state = m.state /\ m.state \in Reaching'
      BY <1>3, <2>2, <3>1 DEF Reaching
    <3>3. s = m.state \/ (s = view.state /\ s # None)
      BY <1>5, <1>10, <2>2 DEF Reaching
    <3>4. ASSUME s = view.state, s # None, ~Fresh(m.state)
          PROVE  FALSE
      <4>1. s.generation < m.state.generation
        BY <2>2, <3>4 DEF Newer
      <4>2. s \in Held /\ m.state \in Held
        BY <1>10, <3>1 DEF Held
      <4>3. m.state.generation < s.generation
        BY <1>10, <3>4, <4>2 DEF UpToDate, Ordered
      <4>4. s.generation \in Nat /\ m.state.generation \in Nat
        BY <4>2, HeldTyped DEF States
      <4>5. QED
        BY <4>1, <4>3, <4>4
    <3>5. QED
      BY <1>10, <3>2, <3>3, <3>4
  <2>3. CASE m.type = "state" /\ ~Newer(m.state) /\ s \notin UnderWay'
    <3>1. /\ view.state # None /\ ~(m.state.generation > view.state.generation)
          /\ view'.state = view.state
      BY <1>3, <2>3 DEF Newer
    <3>2. view.state \in Held /\ m.state \in Held /\ view.state \in Reaching'
      BY <1>4, <2>3, <3>1 DEF Held, Reaching
    <3>3. s = m.state \/ s = view.state
      BY <1>5, <1>10, <2>3 DEF Reaching
    <3>4. ASSUME s = m.state, ~Fresh(view.state)
          PROVE  FALSE
      <4>1. view.state.generation < m.state.generation
        BY <1>10, <3>2, <3>4 DEF UpToDate, Ordered
      <4>2. view.state.generation \in Nat /\ m.state.generation \in Nat
        BY <3>2, HeldTyped DEF States
      <4>3. QED
        BY <3>1, <4>1, <4>2
    <3>5. QED
      BY <1>10, <3>2, <3>3, <3>4
  <2>4. QED
    BY <2>1, <2>2, <2>3
<1>11. Delivered'
  <2>1. ASSUME host'.ready, host'.state # None, host'.state.revision = doc'.version
        PROVE  \E t \in Reaching' : Fresh(t)
    BY <1>1, <1>10, <2>1 DEF UpToDate, Delivered, Fresh
  <2>2. QED
    BY <1>1, <2>1 DEF Delivered, Fresh
<1>12. QED
  BY <1>8, <1>9, <1>11 DEF UpToDate

LEMMA HearSettles ==
    ASSUME Typed, Settles, Hear
    PROVE  Settles'
<1> DEFINE m == Head(toView)
<1>1. /\ toView # <<>> /\ toView' = Tail(toView) /\ UNCHANGED host
      /\ \/ view' = view /\ (m.type = "state" \/ m.request # view.pending)
         \/ m.type = "state" /\ view' = [view EXCEPT !.state = m.state]
         \/ view' = [view EXCEPT !.pending = None]
      /\ toHost' = toHost \/ toHost' = Append(toHost, [type |-> "refresh"])
  BY DEF Hear
<1>2. \A x \in ToSet(toView) : x = m \/ x \in ToSet(toView')
  BY <1>1, Taken, TypedFacts
<1> HIDE DEF m
<1>3. ToSet(toHost) \subseteq ToSet(toHost')
  <2> DEFINE refresh == [type |-> "refresh"]
  <2>1. refresh \in Outbox /\ (toHost' = toHost \/ toHost' = Append(toHost, refresh))
    BY <1>1 DEF Outbox
  <2> HIDE DEF refresh
  <2>2. /\ toHost \in Seq(Outbox)
        /\ ToSet(Append(toHost, refresh)) = ToSet(toHost) \cup {refresh}
    BY <2>1, Appended, TypedFacts
  <2>3. QED
    BY <2>1, <2>2
<1>4. /\ view'.ready = view.ready
      /\ \/ view'.pending = None
         \/ view'.pending = view.pending /\ (m.type = "state" \/ m.request # view.pending)
  BY <1>1 DEF Typed, TypeOK
<1>5. ASSUME view'.pending # None
      PROVE  view'.pending \in Asked'
  <2>1. view.pending \in Asked /\ view'.pending = view.pending
    BY <1>4, <1>5 DEF Settles, Heard
  <2>2. PICK x : /\ \/ x \in ToSet(toHost) /\ x.type = "mutation"
                    \/ x \in ToSet(host.queue)
                    \/ x \in ToSet(toView) /\ x.type = "result"
                 /\ x.request = view.pending
    BY <2>1 DEF Asked
  <2>3. x \in ToSet(toView) /\ x.type = "result" => x \in ToSet(toView')
    BY <1>2, <1>4, <1>5, <2>2
  <2>4. x.request \in Asked'
    BY <1>1, <1>3, <2>2, <2>3 DEF Asked
  <2>5. QED
    BY <2>1, <2>2, <2>4
<1>6. Heard'
  BY <1>1, <1>3, <1>4, <1>5 DEF Settles, Heard
<1>7. QED
  BY <1>6, HearDelivers DEF Settles

LEMMA InitSettles == Init => Settles
<1> SUFFICES ASSUME Init
             PROVE  Settles
  OBVIOUS
<1>1. /\ host.state = None /\ host.loading = None /\ host.styling = {} /\ host.timer
      /\ view.state = None /\ ~view.ready /\ view.pending = None /\ toView = <<>>
  BY DEF Init, NoLoad
<1>2. ToSet(toView) = {}
  BY <1>1, Members
<1>3. Held = {} /\ Numbers = {}
  BY <1>1, <1>2 DEF Held, Reaching, UnderWay, Numbers
<1>4. UpToDate
  BY <1>1, <1>3 DEF UpToDate, Numbered, Ordered, Working, Delivered
<1>5. Heard
  BY <1>1 DEF Heard
<1>6. QED
  BY <1>4, <1>5 DEF Settles

LEMMA NextSettles ==
    ASSUME ~Overlapping, Typed, ShownFaithful, Settles, [Next]_vars
    PROVE  Settles'
<1>1. CASE UNCHANGED vars
  <2>1. UNCHANGED <<doc, host, view, toHost, toView>>
    BY <1>1 DEF vars
  <2>2. UnderWay' = UnderWay /\ Asked \subseteq Asked' /\ Continues(host, host')
    BY <2>1, AskedStays DEF UnderWay, Continues
  <2>3. QED
    BY <2>1, <2>2, ContinuesSettles
<1>2. ASSUME NEW path \in Paths, LoadChapter(path) \/ ForeignChapter(path)
      PROVE  Settles'
  BY <1>2, LoadsSettle, ChapterSettles
<1>3. ASSUME NEW load \in host.styling, StyleRead(load)
      PROVE  Settles'
  BY <1>3, LoadsSettle
<1>4. ASSUME NEW book \in Sources, ForeignManifest(book)
      PROVE  Settles'
  BY <1>4, ForeignManifestSettles
<1>5. CASE TimerFires \/ Composed
  BY <1>5, LoadsSettle
<1>6. CASE WatcherFires \/ ApplyEdit
           \/ StartMutation \/ \E agrees \in BOOLEAN : AnswerDialog(agrees)
  BY <1>6, ChapterSettles, ApplyEditSettles, EditSettles
<1>7. CASE Capture \/ Rendered \/ PlanMade \/ Confirm \/ VerifyChapter \/ Write \/ CancelExport
  BY <1>7, PlanSettles
<1>8. CASE \/ Ready \/ Export \/ Arrive \/ Hear
           \/ \E edit \in Edits, path \in Paths, from \in Places, to \in Places :
                Click(edit, path, from, to)
  BY <1>8, ReadySettles, ExportSettles, ArriveSettles, HearSettles, ClickSettles
<1>9. QED
  BY <1>1, <1>2, <1>3, <1>4, <1>5, <1>6, <1>7, <1>8, Written DEF Next

LEMMA SettledShows ==
    ASSUME ShownFaithful, Settles
    PROVE  QuietShowsTheBook
<1> SUFFICES ASSUME ~host.timer, host.loading = NoLoad, host.styling = {}, host.queue = <<>>,
                    toHost = <<>>, toView = <<>>, view.ready
             PROVE  /\ view.state # None
                    /\ view.state.book = doc.book /\ view.state.revision = doc.version
                    /\ view.pending = None
  BY DEF QuietShowsTheBook
<1>1. ToSet(toHost) = {} /\ ToSet(host.queue) = {} /\ ToSet(toView) = {}
  BY Members
<1>2. Numbers = {} /\ Asked = {} /\ UnderWay = {}
  BY <1>1 DEF Numbers, Asked, UnderWay, NoLoad
<1>3. host.ready /\ host.state # None /\ Fresh(host.state) /\ view.pending = None
  BY <1>1, <1>2 DEF Settles, Heard, UpToDate, Working
<1>4. view.state # None /\ Fresh(view.state)
  BY <1>2, <1>3 DEF Settles, UpToDate, Delivered, Reaching
<1>5. Same(view.state.revision, view.state.book)
  BY <1>4 DEF ShownFaithful, ViewFaithful
<1>6. QED
  BY <1>3, <1>4, <1>5 DEF Same, Fresh

\* Once nothing is under way the webview shows the manifest as it is, under its
\* revision, and waits for no answer, as long as nothing changes the manifest while
\* a style sheet is read (updateWebview, enqueueMutation, and what bookMain.tsx makes
\* of the messages).
THEOREM QuietBookShown ==
    ASSUME ~Overlapping
    PROVE  Spec => []QuietShowsTheBook
<1>1. Init => Typed /\ ShownFaithful /\ Settles
  BY InitTyped, InitFaithful, InitSettles DEF Faithful
<1>2. Typed /\ ShownFaithful /\ Settles /\ [Next]_vars => (Typed /\ ShownFaithful /\ Settles)'
  BY NextTyped, NextShown, NextSettles
<1>3. ShownFaithful /\ Settles => QuietShowsTheBook
  BY SettledShows
<1>4. QED
  BY <1>1, <1>2, <1>3, PTL DEF Spec
============================================================================
