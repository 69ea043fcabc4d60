--------------------- MODULE PersonalTemplates_proofs ---------------------
(***************************************************************************)
(* For any number of windows and templates and every bound: as long as no  *)
(* window dies and no other program writes between a check and the rename  *)
(* it guards, a session replaces only what its user saw.  Without these    *)
(* conditions, the panel waits for exactly what its host works on.         *)
(***************************************************************************)
EXTENDS PersonalTemplates, FiniteSetTheorems, SequenceTheorems, TLAPS

----------------------------------------------------------------------------
(* The invariant *)

HostFields == {"alive", "managementPending", "applicationPending", "queue", "task",
               "job", "available"}
JobFields == {"message", "step", "attempt", "content", "target", "result"}
Counts == {"actions", "refreshes", "edits", "outside", "crashes"}

Before == {"begin", "flush", "read"}
Inside == {"check", "change", "release"}

\* What a change of the library writes, for the content its user saw.
Prepared(job) ==
    /\ job.message.type = "delete" => job.content = None
    /\ job.message.type = "update"
       => job.message.token # None /\ job.content.body = job.message.token.body

\* There is room for one more template.
Held(library) == {id \in Templates : library[id] # None}
Fits(library) == Cardinality(Held(library)) < MaxTemplates

\* A job of session e that holds the lock where it must, and whose check still
\* stands when it changes the library.
JobGood(job, e, owner, library) ==
    /\ DOMAIN job = JobFields
    /\ job.message.type \in Management
    /\ job.step \in Before \cup {"lock"} \cup Inside
    /\ IF job.step \in Before THEN job.content = None ELSE Prepared(job)
    /\ job.step \in {"flush", "read"} => job.message.type = "save"
    /\ job.step \in Inside => owner = e
    /\ job.step = "change" /\ ~Creates(job) /\ job.target \in Templates
       => library[job.target] = job.message.token
    /\ job.step = "change" /\ Creates(job) => Fits(library)

HostGood(h, e, owner, library) ==
    /\ DOMAIN h = HostFields
    /\ h.alive = TRUE
    /\ h.job = None \/ JobGood(h.job, e, owner, library)

Guarded ==
    /\ DOMAIN host = Sessions /\ DOMAIN files = Templates
    /\ lock \in Sessions \cup {None}
    /\ ledger \in [Counts -> Nat]
    /\ \A e \in Sessions : HostGood(host[e], e, lock, files)

\* No window dies, and nobody uses the window between a check and its rename.
Undisturbed == MaxCrashes = 0 /\ WindowOpen = FALSE /\ None \notin Sessions

----------------------------------------------------------------------------
(* Steps of one host *)

\* A step that replaces one host by a good one, and leaves lock and library alone.
LEMMA HostStep ==
    ASSUME Guarded, NEW e \in Sessions, NEW h, HostGood(h, e, lock, files),
           host' = [host EXCEPT ![e] = h], UNCHANGED <<files, lock, ledger>>
    PROVE  Guarded'
BY DEF Guarded

\* The same for a step that gives the host another job, or none.
LEMMA JobStep ==
    ASSUME Guarded, NEW e \in Sessions, NEW job,
           job = None \/ JobGood(job, e, lock, files),
           \/ host' = [host EXCEPT ![e].job = job]
           \/ host' = [host EXCEPT ![e].job = job, ![e].managementPending = TRUE]
           \/ host' = [host EXCEPT ![e] = [host[e] EXCEPT !.job = job,
                                                       !.managementPending = FALSE]],
           UNCHANGED <<files, lock, ledger>>
    PROVE  Guarded'
<1>1. DOMAIN host = Sessions /\ HostGood(host[e], e, lock, files)
  BY DEF Guarded
<1>2. PICK h : /\ host' = [host EXCEPT ![e] = h] /\ DOMAIN h = HostFields
               /\ h.alive = TRUE /\ h.job = job
  <2>1. CASE host' = [host EXCEPT ![e].job = job]
    <3> WITNESS [host[e] EXCEPT !.job = job]
    <3> QED BY <1>1, <2>1 DEF HostGood, HostFields
  <2>2. CASE host' = [host EXCEPT ![e].job = job, ![e].managementPending = TRUE]
    <3> WITNESS [host[e] EXCEPT !.job = job, !.managementPending = TRUE]
    <3> QED BY <1>1, <2>2 DEF HostGood, HostFields
  <2>3. CASE host' = [host EXCEPT ![e] = [host[e] EXCEPT !.job = job,
                                                      !.managementPending = FALSE]]
    <3> WITNESS [host[e] EXCEPT !.job = job, !.managementPending = FALSE]
    <3> QED BY <1>1, <2>3 DEF HostGood, HostFields
  <2> QED BY <2>1, <2>2, <2>3
<1>3. HostGood(h, e, lock, files)
  BY <1>2 DEF HostGood
<1> QED BY <1>2, <1>3, HostStep

\* A finished request leaves no job.
LEMMA FinishStep ==
    ASSUME Guarded, NEW e \in Sessions, NEW result, Finish(e, result),
           UNCHANGED <<files, lock, ledger>>
    PROVE  Guarded'
<1>1. host' = [host EXCEPT ![e] = [host[e] EXCEPT !.job = None,
                                                !.managementPending = FALSE]]
  BY DEF Finish, Ended, Guarded
<1> QED BY <1>1, JobStep

\* A step that leaves the job alone.
LEMMA OtherStep ==
    ASSUME Guarded, NEW e \in Sessions, NEW h, host' = [host EXCEPT ![e] = h],
           DOMAIN h = HostFields, h.alive = host[e].alive, h.job = host[e].job,
           UNCHANGED <<files, lock, ledger>>
    PROVE  Guarded'
<1>1. HostGood(host[e], e, lock, files)
  BY DEF Guarded
<1>2. HostGood(h, e, lock, files)
  BY <1>1 DEF HostGood
<1> QED BY <1>2, HostStep

\* A step that touches neither hosts nor the library.
LEMMA ElsewhereStep ==
    ASSUME Guarded, UNCHANGED <<files, lock, host>>, ledger' \in [Counts -> Nat]
    PROVE  Guarded'
BY DEF Guarded

\* A bounded event is counted.
LEMMA SpentStep ==
    ASSUME ledger \in [Counts -> Nat], NEW what \in Counts, NEW bound, Spent(what, bound)
    PROVE  ledger' \in [Counts -> Nat]
BY DEF Spent

----------------------------------------------------------------------------
(* The invariant holds at first, and every action keeps it *)

\* No session has a job at first.
LEMMA InitGuarded == ASSUME Init PROVE Guarded
<1>1. ledger \in [Counts -> Nat]
  BY DEF Init, Counts
<1>2. DOMAIN host = Sessions /\ DOMAIN files = Templates /\ lock \in Sessions \cup {None}
  BY DEF Init, StartFiles
<1>3. ASSUME NEW e \in Sessions PROVE HostGood(host[e], e, lock, files)
  BY DEF Init, HostGood, HostFields
<1> QED BY <1>1, <1>2, <1>3 DEF Guarded

\* The webviews, and the other documents, touch no host.
LEMMA WebviewSteps ==
    ASSUME Guarded, NEW e \in Sessions,
           \/ WebReceives(e) \/ AfterAcknowledged(e) \/ NotAcknowledged(e)
           \/ Type(e) \/ Acknowledge(e) \/ OutsideEdit(e) \/ Adopt(e) \/ Refresh(e)
           \/ \E op \in Management \cup {"create", "apply"}, id \in Templates \cup {None} :
                 StartAction(e, op, id)
    PROVE  Guarded'
<1>1. UNCHANGED <<files, lock, host>>
  BY DEF WebReceives, AfterAcknowledged, NotAcknowledged, Type, Acknowledge, OutsideEdit,
         Adopt, Refresh, StartAction
<1>2. \/ UNCHANGED ledger
      \/ Spent("edits", MaxEdits) \/ Spent("refreshes", MaxRefreshes)
      \/ Spent("actions", MaxActions)
  BY DEF WebReceives, AfterAcknowledged, NotAcknowledged, Type, Acknowledge, OutsideEdit,
         Adopt, Refresh, StartAction
<1>3. ledger \in [Counts -> Nat] /\ {"edits", "refreshes", "actions"} \subseteq Counts
  BY DEF Guarded, Counts
<1>4. ledger' \in [Counts -> Nat]
  <2>1. CASE UNCHANGED ledger
    BY <1>3, <2>1
  <2>2. CASE Spent("edits", MaxEdits)
    BY <1>3, <2>2, SpentStep
  <2>3. CASE Spent("refreshes", MaxRefreshes)
    BY <1>3, <2>3, SpentStep
  <2>4. CASE Spent("actions", MaxActions)
    BY <1>3, <2>4, SpentStep
  <2> QED BY <1>2, <2>1, <2>2, <2>3, <2>4
<1> QED BY <1>1, <1>4, ElsewhereStep

\* Whatever the serial queue does, jobs of the library stay as they are.
LEMMA QueueSteps ==
    ASSUME Guarded, NEW e \in Sessions,
           \/ StartTask(e) \/ SendTemplateCatalog(e) \/ ApplyTemplate(e)
           \/ \E id \in Templates : ReadTemplate(e, id)
           \/ \E result \in Results : CreateDocument(e, result)
    PROVE  Guarded'
<1>1. DOMAIN host = Sessions /\ DOMAIN host[e] = HostFields
  BY DEF Guarded, HostGood
<1>2. UNCHANGED <<files, lock, ledger>>
  BY DEF StartTask, SendTemplateCatalog, ApplyTemplate, ReadTemplate, CreateDocument
<1>3. PICK h : /\ host' = [host EXCEPT ![e] = h] /\ DOMAIN h = HostFields
               /\ h.alive = host[e].alive /\ h.job = host[e].job
  <2>1. CASE StartTask(e)
    <3>1. PICK queue, task : host' = [host EXCEPT ![e].queue = queue, ![e].task = task]
      BY <2>1 DEF StartTask
    <3> WITNESS [host[e] EXCEPT !.queue = queue, !.task = task]
    <3> QED BY <1>1, <3>1 DEF HostFields
  <2>2. CASE SendTemplateCatalog(e)
    <3>1. PICK found : host' = [host EXCEPT ![e].available = found, ![e].task = None]
      BY <2>2 DEF SendTemplateCatalog
    <3> WITNESS [host[e] EXCEPT !.available = found, !.task = None]
    <3> QED BY <1>1, <3>1 DEF HostFields
  <2>3. CASE ApplyTemplate(e)
    <3> WITNESS [host[e] EXCEPT !.task = None, !.applicationPending = FALSE]
    <3> QED BY <1>1, <2>3 DEF HostFields, ApplyTemplate
  <2>4. CASE \E id \in Templates : ReadTemplate(e, id)
    <3>1. PICK id \in Templates : ReadTemplate(e, id)
      BY <2>4
    <3> DEFINE read == [host[e] EXCEPT !.task.unread = @ \ {id}, !.task.found[id] = files[id]]
    <3>2. host' = [host EXCEPT ![e] = read]
      BY <1>1, <3>1 DEF ReadTemplate
    <3>3. DOMAIN read = HostFields /\ read.alive = host[e].alive /\ read.job = host[e].job
      BY <1>1 DEF HostFields
    <3> QED BY <3>2, <3>3
  <2>5. CASE \E result \in Results : CreateDocument(e, result)
    <3> WITNESS [host[e] EXCEPT !.task = None]
    <3> QED BY <1>1, <2>5 DEF HostFields, CreateDocument
  <2> QED BY <2>1, <2>2, <2>3, <2>4, <2>5
<1> QED BY <1>2, <1>3, OtherStep

\* A message of the webview is queued or dropped.
LEMMA ReceiveStep ==
    ASSUME Guarded, NEW e \in Sessions, HostReceives(e)
    PROVE  Guarded'
<1> DEFINE message == Head(toHost[e])
           queue == Append(host[e].queue, message)
<1>1. DOMAIN host = Sessions /\ DOMAIN host[e] = HostFields
  BY DEF Guarded, HostGood
<1>2. UNCHANGED <<files, lock, ledger>>
  BY DEF HostReceives
<1>3. \/ UNCHANGED host
      \/ /\ message.type \in Management
         /\ host' = [host EXCEPT ![e].managementPending = TRUE, ![e].job = NewJob(message)]
      \/ host' = [host EXCEPT ![e] = [[host[e] EXCEPT !.queue = queue]
                                          EXCEPT !.applicationPending = TRUE]]
      \/ host' = [host EXCEPT ![e] = [host[e] EXCEPT !.queue = queue]]
  BY <1>1 DEF HostReceives
<1>4. CASE UNCHANGED host
  BY <1>2, <1>4 DEF Guarded
<1>5. CASE /\ message.type \in Management
           /\ host' = [host EXCEPT ![e].managementPending = TRUE, ![e].job = NewJob(message)]
  <2> DEFINE job == NewJob(message)
  <2>1. JobGood(job, e, lock, files)
    BY <1>5 DEF JobGood, NewJob, JobFields, Before, Inside
  <2>2. host' = [host EXCEPT ![e].job = job, ![e].managementPending = TRUE]
    BY <1>1, <1>5 DEF HostFields
  <2> QED BY <1>2, <2>1, <2>2, JobStep
<1>6. CASE host' = [host EXCEPT ![e] = [[host[e] EXCEPT !.queue = queue]
                                            EXCEPT !.applicationPending = TRUE]]
  <2> DEFINE h == [[host[e] EXCEPT !.queue = queue] EXCEPT !.applicationPending = TRUE]
  <2>1. DOMAIN h = HostFields /\ h.alive = host[e].alive /\ h.job = host[e].job
    BY <1>1 DEF HostFields
  <2> QED BY <1>2, <1>6, <2>1, OtherStep
<1>7. CASE host' = [host EXCEPT ![e] = [host[e] EXCEPT !.queue = queue]]
  <2> DEFINE h == [host[e] EXCEPT !.queue = queue]
  <2>1. DOMAIN h = HostFields /\ h.alive = host[e].alive /\ h.job = host[e].job
    BY <1>1 DEF HostFields
  <2> QED BY <1>2, <1>7, <2>1, OtherStep
<1> QED BY <1>3, <1>4, <1>5, <1>6, <1>7

\* A request that is prepared, refused, or finds the lock occupied.
LEMMA GoStep ==
    ASSUME Guarded, NEW e \in Sessions, NEW job, Go(e, job), JobGood(job, e, lock, files),
           UNCHANGED <<files, lock, ledger>>
    PROVE  Guarded'
<1>1. host' = [host EXCEPT ![e].job = job]
  BY DEF Go
<1> QED BY <1>1, JobStep

\* A job at a step is a good one.
LEMMA JobAt ==
    ASSUME Guarded, NEW e \in Sessions, NEW step, At(e, step)
    PROVE  host[e].job.step = step /\ JobGood(host[e].job, e, lock, files)
BY DEF Guarded, HostGood, At

\* A request begins: refused, it ends; else it waits for the flush or the lock.
LEMMA BeginStep ==
    ASSUME Guarded, NEW e \in Sessions, Begin(e)
    PROVE  Guarded'
<1> DEFINE job == host[e].job
           message == job.message
           body == host[e].available[message.template].body
           content == Content(body, <<e, message.request>>)
<1>1. /\ DOMAIN job = JobFields /\ message.type \in Management
      /\ job.step = "begin" /\ job.content = None
  BY JobAt DEF Begin, JobGood, Before
<1>2. UNCHANGED <<files, lock, ledger>>
  BY DEF Begin
<1>3. \/ Finish(e, "failed")
      \/ message.type = "save" /\ Go(e, [job EXCEPT !.step = "flush"])
      \/ message.type = "delete" /\ Go(e, [job EXCEPT !.step = "lock"])
      \/ /\ message.type = "update" /\ Offered(e)
         /\ Go(e, [job EXCEPT !.step = "lock", !.content = content])
      \/ /\ message.type = "duplicate"
         /\ Go(e, [job EXCEPT !.step = "lock", !.target = Fresh, !.content = content])
  BY <1>1 DEF Begin, Management
<1>4. CASE Finish(e, "failed")
  BY <1>2, <1>4, FinishStep
<1>5. CASE message.type = "save" /\ Go(e, [job EXCEPT !.step = "flush"])
  <2>1. JobGood([job EXCEPT !.step = "flush"], e, lock, files)
    BY <1>1, <1>5 DEF JobGood, JobFields, Before, Inside
  <2> QED BY <1>2, <1>5, <2>1, GoStep
<1>6. CASE message.type = "delete" /\ Go(e, [job EXCEPT !.step = "lock"])
  <2>1. JobGood([job EXCEPT !.step = "lock"], e, lock, files)
    BY <1>1, <1>6 DEF JobGood, Prepared, JobFields, Before, Inside
  <2> QED BY <1>2, <1>6, <2>1, GoStep
<1>7. CASE /\ message.type = "update" /\ Offered(e)
           /\ Go(e, [job EXCEPT !.step = "lock", !.content = content])
  <2>1. message.token # None /\ content.body = message.token.body
    BY <1>7 DEF Offered, Content
  <2>2. JobGood([job EXCEPT !.step = "lock", !.content = content], e, lock, files)
    BY <1>1, <1>7, <2>1 DEF JobGood, Prepared, JobFields, Before, Inside
  <2> QED BY <1>2, <1>7, <2>2, GoStep
<1>8. CASE /\ message.type = "duplicate"
           /\ Go(e, [job EXCEPT !.step = "lock", !.target = Fresh, !.content = content])
  <2>1. JobGood([job EXCEPT !.step = "lock", !.target = Fresh, !.content = content],
                e, lock, files)
    BY <1>1, <1>8 DEF JobGood, Prepared, JobFields, Before, Inside
  <2> QED BY <1>2, <1>8, <2>1, GoStep
<1> QED BY <1>3, <1>4, <1>5, <1>6, <1>7, <1>8

\* What a save does before it asks for the lock. Only a save flushes and reads.
LEMMA SaveSteps ==
    ASSUME Guarded, NEW e \in Sessions, Flushed(e) \/ NotFlushed(e) \/ Snapshot(e)
    PROVE  Guarded'
<1> DEFINE job == host[e].job
           content == Content(<<e, doc[e].version>>, <<e, job.message.request>>)
<1>1. UNCHANGED <<files, lock, ledger>>
  BY DEF Flushed, NotFlushed, Snapshot
<1>2. CASE Flushed(e)
  <2>1. JobGood(job, e, lock, files) /\ job.step = "flush"
    BY <1>2, JobAt DEF Flushed
  <2>2. JobGood([job EXCEPT !.step = "read"], e, lock, files)
    BY <2>1 DEF JobGood, JobFields, Before, Inside
  <2> QED BY <1>1, <1>2, <2>2, GoStep DEF Flushed
<1>3. CASE NotFlushed(e)
  BY <1>1, <1>3, FinishStep DEF NotFlushed
<1>4. CASE Snapshot(e)
  <2>1. JobGood(job, e, lock, files) /\ job.step = "read"
    BY <1>4, JobAt DEF Snapshot
  <2>2. JobGood([job EXCEPT !.step = "lock", !.target = Fresh, !.content = content],
                e, lock, files)
    BY <2>1 DEF JobGood, JobFields, Before, Inside, Prepared
  <2> QED BY <1>1, <1>4, <2>2, GoStep DEF Snapshot
<1> QED BY <1>2, <1>3, <1>4

(* The lock, the check and the change *)

\* The owner's job moves on, with the lock and the library it leaves; nobody else
\* is at a step for which these matter.
LEMMA OwnerStep ==
    ASSUME Guarded, NEW e \in Sessions, NEW job, NEW owner, NEW library,
           host' = [host EXCEPT ![e].job = job], lock' = owner, files' = library,
           UNCHANGED ledger,
           owner \in Sessions \cup {None}, DOMAIN library = Templates,
           JobGood(job, e, owner, library),
           \A f \in Sessions \ {e} :
               ~(host[f].job # None /\ host[f].job.step \in Inside)
    PROVE  Guarded'
<1>1. DOMAIN host = Sessions /\ HostGood(host[e], e, lock, files)
  BY DEF Guarded
<1>2. HostGood(host'[e], e, lock', files') /\ DOMAIN host' = Sessions
  <2>1. host'[e] = [host[e] EXCEPT !.job = job]
    BY <1>1
  <2> QED BY <1>1, <2>1 DEF HostGood, HostFields
<1>3. ASSUME NEW f \in Sessions, f # e PROVE HostGood(host'[f], f, lock', files')
  <2>1. host'[f] = host[f] /\ HostGood(host[f], f, lock, files)
    BY <1>3 DEF Guarded
  <2>2. host[f].job # None => host[f].job.step \notin Inside
    BY <1>3
  <2>3. host[f].job # None => JobGood(host[f].job, f, lock', files')
    BY <2>1, <2>2 DEF HostGood, JobGood, Inside
  <2> QED BY <2>1, <2>3 DEF HostGood
<1> QED BY <1>2, <1>3 DEF Guarded

\* Only the owner of the lock is inside.
LEMMA OwnerInside ==
    ASSUME Guarded, NEW f \in Sessions, host[f].job # None, host[f].job.step \in Inside
    PROVE  lock = f
BY DEF Guarded, HostGood, JobGood

\* The lock is taken where nobody has it.
LEMMA AcquireStep ==
    ASSUME Guarded, None \notin Sessions, NEW e \in Sessions, Acquire(e)
    PROVE  Guarded'
<1> DEFINE job == [host[e].job EXCEPT !.step = "check"]
<1>1. JobGood(host[e].job, e, lock, files) /\ host[e].job.step = "lock"
  BY JobAt DEF Acquire
<1>2. JobGood(job, e, e, files)
  BY <1>1 DEF JobGood, Prepared, JobFields, Before, Inside
<1>3. /\ host' = [host EXCEPT ![e].job = job] /\ lock' = e /\ UNCHANGED <<files, ledger>>
      /\ lock = None
  BY DEF Acquire, Go, Free
<1>4. \A f \in Sessions : ~(host[f].job # None /\ host[f].job.step \in Inside)
  BY <1>3, OwnerInside
<1>5. DOMAIN files = Templates
  BY DEF Guarded
<1> QED BY <1>2, <1>3, <1>4, <1>5, OwnerStep

\* A request that finds the lock taken fails.
LEMMA OccupiedStep ==
    ASSUME Guarded, NEW e \in Sessions, Occupied(e)
    PROVE  Guarded'
<1>1. Finish(e, "failed") /\ UNCHANGED <<files, lock, ledger>>
  BY DEF Occupied
<1> QED BY <1>1, FinishStep

\* A live window's lock is not stale.
LEMMA NeverStale ==
    ASSUME Guarded, NEW e \in Sessions
    PROVE  ~FindStale(e) /\ ~Reclaim(e)
<1>1. ~FindStale(e)
  BY DEF FindStale, Guarded, Free, Alive, HostGood
<1>2. ~Reclaim(e)
  BY JobAt DEF Reclaim, JobGood, Before, Inside
<1> QED BY <1>1, <1>2

\* What the check admits stands, as the lock is held.
LEMMA CheckStep ==
    ASSUME Guarded, NEW e \in Sessions, Check(e)
    PROVE  Guarded'
<1> DEFINE job == host[e].job
           admitted == [job EXCEPT !.step = "change"]
           refused == [job EXCEPT !.step = "release"]
<1>1. JobGood(job, e, lock, files) /\ job.step = "check"
  BY JobAt DEF Check
<1>2. UNCHANGED <<files, lock, ledger>>
  BY DEF Check
<1>3. CASE Admitted(job)
  <2>1. IF Creates(job) THEN Fits(files) ELSE files[job.target] = job.message.token
    BY <1>3 DEF Admitted, Verified, Fits, Held, Stored
  <2>2. JobGood(admitted, e, lock, files)
    BY <1>1, <2>1 DEF JobGood, Prepared, Creates, JobFields, Before, Inside
  <2> QED BY <1>2, <1>3, <2>2, GoStep DEF Check
<1>4. CASE ~Admitted(job)
  <2>1. JobGood(refused, e, lock, files)
    BY <1>1 DEF JobGood, Prepared, JobFields, Before, Inside
  <2> QED BY <1>2, <1>4, <2>1, GoStep DEF Check
<1> QED BY <1>3, <1>4

\* The library is changed under the lock.
LEMMA ChangeStep ==
    ASSUME Guarded, NEW e \in Sessions, Change(e)
    PROVE  Guarded'
<1> DEFINE job == host[e].job
           changed == [job EXCEPT !.step = "release", !.result = "completed"]
           refused == [job EXCEPT !.step = "release"]
           library == [files EXCEPT ![job.target] = job.content]
<1>1. JobGood(job, e, lock, files) /\ job.step = "change" /\ job # None
  BY JobAt DEF Change, At
<1>2. lock = e /\ UNCHANGED <<lock, ledger>> /\ DOMAIN files = Templates
  BY <1>1 DEF Change, Guarded, JobGood, Inside
<1>3. CASE Possible(job)
  <2>1. host' = [host EXCEPT ![e].job = changed] /\ files' = library
    BY <1>3 DEF Change, Go
  <2>2. JobGood(changed, e, lock, library)
    BY <1>1 DEF JobGood, Prepared, JobFields, Before, Inside
  <2>3. \A f \in Sessions \ {e} : ~(host[f].job # None /\ host[f].job.step \in Inside)
    BY <1>2, OwnerInside
  <2>4. DOMAIN library = Templates /\ lock \in Sessions \cup {None}
    BY <1>2
  <2> QED BY <1>2, <2>1, <2>2, <2>3, <2>4, OwnerStep
<1>4. CASE ~Possible(job)
  <2>1. JobGood(refused, e, lock, files)
    BY <1>1 DEF JobGood, Prepared, JobFields, Before, Inside
  <2>2. Go(e, refused) /\ UNCHANGED files
    BY <1>4 DEF Change
  <2> QED BY <1>2, <2>1, <2>2, GoStep
<1> QED BY <1>3, <1>4

\* The lock is given back by its owner.
LEMMA ReleaseStep ==
    ASSUME Guarded, NEW e \in Sessions, Release(e)
    PROVE  Guarded'
<1>1. JobGood(host[e].job, e, lock, files) /\ host[e].job.step = "release"
      /\ host[e].job # None
  BY JobAt DEF Release, At
<1>2. lock = e /\ lock' = None /\ UNCHANGED <<files, ledger>>
  BY <1>1 DEF Release, JobGood, Inside
<1>3. host' = [host EXCEPT ![e] = [host[e] EXCEPT !.job = None,
                                                !.managementPending = FALSE]]
  BY DEF Release, Finish, Ended, Guarded
<1>4. \A f \in Sessions \ {e} : ~(host[f].job # None /\ host[f].job.step \in Inside)
  BY <1>2, OwnerInside
<1>5. ASSUME NEW f \in Sessions PROVE HostGood(host'[f], f, lock', files')
  <2>1. HostGood(host[f], f, lock, files) /\ DOMAIN host = Sessions
    BY DEF Guarded
  <2>2. CASE f = e
    BY <1>3, <2>1, <2>2 DEF HostGood, HostFields
  <2>3. CASE f # e
    <3>1. host'[f] = host[f]
      BY <1>3, <2>1, <2>3
    <3>2. host[f].job # None => host[f].job.step \notin Inside
      BY <1>4, <2>3
    <3>3. host[f].job # None => JobGood(host[f].job, f, lock', files')
      BY <1>2, <2>1, <3>2 DEF HostGood, JobGood, Inside
    <3> QED BY <2>1, <3>1, <3>3 DEF HostGood
  <2> QED BY <2>2, <2>3
<1> QED BY <1>2, <1>3, <1>5 DEF Guarded

\* The limit on templates is a number.
LEMMA MaxNat == MaxTemplates \in Nat
BY TemplatesAssumption

\* Removing or changing templates makes no template.
LEMMA HeldShrinks ==
    ASSUME DOMAIN files = Templates, NEW id \in Templates, files[id] # None, NEW content,
           NEW library, library = [files EXCEPT ![id] = content]
    PROVE  /\ IsFiniteSet(Held(library))
           /\ Cardinality(Held(library)) \in Nat /\ Cardinality(Held(files)) \in Nat
           /\ Cardinality(Held(library)) <= Cardinality(Held(files))
<1>1. IsFiniteSet(Held(files))
  BY FS_Subset, TemplatesAssumption DEF Held
<1>2. Held(library) \subseteq Held(files)
  BY DEF Held
<1> QED BY <1>1, <1>2, FS_Subset, FS_CardinalityType

\* Another program spares the file between a check and its change.
LEMMA OutsideStep ==
    ASSUME Guarded, WindowOpen = FALSE, NEW id \in Templates, OutsideChange(id)
    PROVE  Guarded'
<1>1. PICK content : files' = [files EXCEPT ![id] = content]
  BY DEF OutsideChange
<1>2. UNCHANGED <<lock, host>> /\ DOMAIN files = Templates /\ Spent("outside", MaxOutside)
      /\ ledger \in [Counts -> Nat] /\ "outside" \in Counts
  BY DEF OutsideChange, Guarded, Counts
<1>3. ledger' \in [Counts -> Nat]
  BY <1>2, SpentStep
<1>4. /\ Cardinality(Held(files')) \in Nat /\ Cardinality(Held(files)) \in Nat
      /\ Cardinality(Held(files')) <= Cardinality(Held(files))
  <2>1. files[id] # None
    BY DEF OutsideChange
  <2> QED BY <1>1, <1>2, <2>1, HeldShrinks
<1>5. ASSUME NEW e \in Sessions PROVE HostGood(host[e], e, lock, files')
  <2>1. HostGood(host[e], e, lock, files)
    BY DEF Guarded
  <2>2. At(e, "change") => host[e].job.target # id
    BY DEF OutsideChange
  <2>3. Fits(files) => Fits(files')
    BY <1>4, MaxNat DEF Fits
  <2>4. host[e].job # None => JobGood(host[e].job, e, lock, files')
    BY <1>1, <1>2, <2>1, <2>2, <2>3 DEF HostGood, JobGood, At, Alive
  <2> QED BY <2>1, <2>4 DEF HostGood
<1> QED BY <1>1, <1>2, <1>3, <1>5 DEF Guarded

----------------------------------------------------------------------------
(* Theorems *)

\* Every step keeps the invariant.
LEMMA NextGuarded ==
    ASSUME Undisturbed, Guarded, [Next]_vars
    PROVE  Guarded'
<1>1. WindowOpen = FALSE /\ None \notin Sessions
  BY DEF Undisturbed
<1>2. CASE UNCHANGED vars
  BY <1>2 DEF vars, Guarded
<1>3. ASSUME NEW e \in Sessions, SessionStep(e) PROVE Guarded'
  BY <1>1, <1>3, WebviewSteps, QueueSteps, ReceiveStep, BeginStep, SaveSteps, AcquireStep,
     NeverStale, CheckStep, ChangeStep, ReleaseStep, OccupiedStep DEF SessionStep
<1>4. ASSUME NEW e \in Sessions PROVE ~Crash(e)
  BY DEF Undisturbed, Crash, Spent, Guarded, Counts
<1>5. ASSUME NEW e \in Sessions,
             \/ Type(e) \/ Acknowledge(e) \/ OutsideEdit(e) \/ Adopt(e) \/ Refresh(e)
             \/ \E op \in Management \cup {"create", "apply"},
                   id \in Templates \cup {None} : StartAction(e, op, id)
      PROVE  Guarded'
  BY <1>5, WebviewSteps
<1>6. ASSUME NEW id \in Templates, OutsideChange(id) PROVE Guarded'
  BY <1>1, <1>6, OutsideStep
<1> QED BY <1>2, <1>3, <1>4, <1>5, <1>6 DEF Next

\* Which step replaces or deletes a template: a change by its session, after its
\* check; all other changes of the library are others'.
Replaced(id) ==
    \E e \in Sessions :
        /\ At(e, "change") /\ host[e].job.target = id
        /\ files[id] = host[e].job.message.token
        /\ files'[id] # None => files'[id].body = files[id].body

\* A change of a stored template replaces what its user saw.
LEMMA ChangeReplaces ==
    ASSUME Guarded, NEW e \in Sessions, Change(e), NEW id \in Templates,
           files'[id] # files[id], files[id] # None
    PROVE  Replaced(id)
<1> DEFINE job == host[e].job
<1>1. JobGood(job, e, lock, files) /\ job.step = "change" /\ At(e, "change")
  BY JobAt DEF Change
<1>2. DOMAIN files = Templates
  BY DEF Guarded
<1>3. Possible(job) /\ files' = [files EXCEPT ![job.target] = job.content]
  BY DEF Change
<1>4. job.target = id /\ files'[id] = job.content
  BY <1>2, <1>3
<1>5. job.message.type \in {"update", "delete"}
  BY <1>1, <1>3, <1>4 DEF JobGood, Possible, Creates, Management
<1>6. files[id] = job.message.token
  BY <1>1, <1>4, <1>5 DEF JobGood, Creates
<1>7. job.content # None => job.content.body = files[id].body
  BY <1>1, <1>5, <1>6 DEF JobGood, Prepared, Before
<1> QED BY <1>1, <1>4, <1>6, <1>7 DEF Replaced

\* The library changes under a checked request, or from outside.
LEMMA WhoWrites ==
    ASSUME [Next]_vars
    PROVE  \/ UNCHANGED files
           \/ \E e \in Sessions : Change(e)
           \/ \E id \in Templates : OutsideChange(id)
<1>1. ASSUME NEW e \in Sessions, SessionStep(e) PROVE UNCHANGED files \/ Change(e)
  BY <1>1 DEF SessionStep, WebReceives, AfterAcknowledged, NotAcknowledged, HostReceives,
     StartTask, SendTemplateCatalog, ApplyTemplate, ReadTemplate, CreateDocument, Begin,
     Flushed, NotFlushed, Snapshot, Acquire, Occupied, FindStale, Reclaim, Check, Release
<1> QED BY <1>1 DEF Next, vars, Type, Acknowledge, OutsideEdit, Adopt, Refresh,
           StartAction, Crash

\* A change from outside is counted.
LEMMA OutsideIsCounted ==
    ASSUME Guarded, NEW id \in Templates, OutsideChange(id)
    PROVE  ledger' # ledger
<1>1. ledger \in [Counts -> Nat] /\ "outside" \in Counts
  BY DEF Guarded, Counts
<1>2. ledger'["outside"] = ledger["outside"] + 1
  BY <1>1 DEF OutsideChange, Spent
<1> QED BY <1>1, <1>2

\* What a change adds to the library was counted before it.
LEMMA NextWithin ==
    ASSUME Guarded, WithinLimit, [Next]_vars
    PROVE  WithinLimit'
<1>1. Stored = Held(files) /\ Stored' = Held(files') /\ DOMAIN files = Templates
  BY DEF Stored, Held, Guarded
<1>2. IsFiniteSet(Stored) /\ Cardinality(Stored) \in Nat
  BY <1>1, FS_Subset, FS_CardinalityType, TemplatesAssumption DEF Held
<1>3. CASE UNCHANGED files
  BY <1>3 DEF WithinLimit, Stored
<1>4. ASSUME NEW id \in Templates, OutsideChange(id) PROVE WithinLimit'
  <2>1. files[id] # None /\ \E content : files' = [files EXCEPT ![id] = content]
    BY <1>4 DEF OutsideChange
  <2>2. /\ Cardinality(Stored') \in Nat
        /\ Cardinality(Stored') <= Cardinality(Stored)
    BY <1>1, <2>1, HeldShrinks
  <2> QED BY <1>2, <2>2, MaxNat DEF WithinLimit
<1>5. ASSUME NEW e \in Sessions, Change(e) PROVE WithinLimit'
  <2> DEFINE job == host[e].job
  <2>1. JobGood(job, e, lock, files) /\ job.step = "change"
    BY <1>5, JobAt DEF Change
  <2>2. SUFFICES ASSUME Stored' # Stored PROVE WithinLimit'
    BY DEF WithinLimit
  <2>3. Possible(job) /\ files' = [files EXCEPT ![job.target] = job.content]
    BY <1>5, <2>2 DEF Change, Stored
  <2>4. job.target \in Templates
    BY <1>1, <2>2, <2>3 DEF Stored
  <2>5. CASE Creates(job)
    <3>1. Cardinality(Stored) < MaxTemplates
      BY <1>1, <2>1, <2>5 DEF JobGood, Fits
    <3>2. Stored' \subseteq Stored \cup {job.target}
      BY <1>1, <2>3, <2>4 DEF Stored
    <3>3. /\ IsFiniteSet(Stored \cup {job.target})
          /\ Cardinality(Stored \cup {job.target}) <= MaxTemplates
          /\ Cardinality(Stored \cup {job.target}) \in Nat
      BY <1>2, <3>1, FS_AddElement, MaxNat
    <3>4. /\ Cardinality(Stored') <= Cardinality(Stored \cup {job.target})
          /\ Cardinality(Stored') \in Nat
      BY <3>2, <3>3, FS_Subset, FS_CardinalityType
    <3> QED BY <3>3, <3>4, MaxNat DEF WithinLimit
  <2>6. CASE ~Creates(job)
    <3>1. files[job.target] # None
      BY <2>1, <2>3, <2>4, <2>6 DEF JobGood, Prepared, Possible, Creates, Management, Before
    <3>2. /\ Cardinality(Stored') \in Nat
          /\ Cardinality(Stored') <= Cardinality(Stored)
      BY <1>1, <2>3, <2>4, <3>1, HeldShrinks
    <3> QED BY <1>2, <3>2, MaxNat DEF WithinLimit
  <2> QED BY <2>5, <2>6
<1> QED BY <1>3, <1>4, <1>5, WhoWrites

\* In every undisturbed run of any number of windows the lock and the check hold
\* together: jobs past the check own the lock, and what they change is unchanged
\* since (VsCodeTemplateService, withMutationLock).
THEOREM ChecksStand == ASSUME Undisturbed PROVE Spec => []Guarded
<1>1. Init => Guarded
  BY InitGuarded
<1>2. Guarded /\ [Next]_vars => Guarded'
  BY NextGuarded
<1> QED BY <1>1, <1>2, PTL DEF Spec

\* Whatever a session replaces or deletes in the library is what its user was
\* looking at when asking for it, and an update keeps the body it describes, for
\* any number of windows and requests, as long as none of them dies and no other
\* program writes between a check and the rename it guards.
THEOREM SeenIsReplaced == ASSUME Undisturbed PROVE Spec => ReplacesWhatWasSeen
<1>1. ASSUME Guarded, [Next]_vars
      PROVE  [\A id \in Templates :
                 files'[id] # files[id] /\ files[id] # None /\ ledger' = ledger
                 => \E e \in Sessions :
                       /\ At(e, "change") /\ host[e].job.target = id
                       /\ files[id] = host[e].job.message.token
                       /\ files'[id] # None => files'[id].body = files[id].body]_vars
  BY <1>1, WhoWrites, OutsideIsCounted, ChangeReplaces DEF Replaced
<1>2. Spec => []Guarded
  BY ChecksStand
<1> QED BY <1>1, <1>2, PTL DEF Spec, ReplacesWhatWasSeen

\* However many windows save and duplicate at once, the library never holds more
\* templates than a catalog lists (assertPersonalTemplateCapacity), as long as no
\* window dies: the count stands until its template is there.
THEOREM LimitHolds ==
    ASSUME Undisturbed, Cardinality(Start) <= MaxTemplates
    PROVE  Spec => []WithinLimit
<1>1. Init => Guarded /\ WithinLimit
  <2>1. SUFFICES ASSUME Init PROVE Guarded /\ WithinLimit
    OBVIOUS
  <2>2. Stored \in SUBSET Start
    BY <2>1 DEF Init, StartFiles, Stored
  <2>3. IsFiniteSet(Start)
    BY FS_Subset, TemplatesAssumption
  <2>4. /\ Cardinality(Stored) <= Cardinality(Start)
        /\ Cardinality(Stored) \in Nat /\ Cardinality(Start) \in Nat
    BY <2>2, <2>3, FS_Subset, FS_CardinalityType
  <2> QED BY <2>1, <2>4, MaxNat, InitGuarded DEF WithinLimit
<1>2. Guarded /\ WithinLimit /\ [Next]_vars => (Guarded /\ WithinLimit)'
  BY NextGuarded, NextWithin
<1> QED BY <1>1, <1>2, PTL DEF Spec

----------------------------------------------------------------------------
(* The panel: where the one action of a session is *)

WebFields == {"action", "catalog", "shown", "waiting", "next", "editable", "left"}
ActionFields == {"phase", "request", "op"}
RequestFields == {"type", "request", "template", "token", "base"}
TaskFields == {"message", "unread", "found"}
Answers == {"finished", "applied", "created"}
Actions == Management \cup {"create", "apply"}

\* None is no record: neither a request, nor a task or a job of a host.
NoneIsNoWork == DOMAIN None \notin {RequestFields, TaskFields, JobFields}

\* The messages in a queue, and those that are not about catalogs: none, or one.
In(q) == {q[i] : i \in DOMAIN q}
Queue(q) == q \in Seq(In(q))
Clear(q) == \A m \in In(q) : m.type = "catalog"
One(q) ==
    \E i \in DOMAIN q : /\ q[i].type # "catalog"
                        /\ \A j \in DOMAIN q \ {i} : q[j].type = "catalog"
Holds(q, yes) == IF yes THEN One(q) ELSE Clear(q)

\* A message is the action the webview runs, or the answer to it.
Asks(m, w) == m.type = w.action.op /\ m.request = w.action.request
Replies(m, w) == m.type \in Answers /\ m.result \in Results /\ m.request = w.action.request

Records(w, h, in, out) ==
    /\ DOMAIN w = WebFields /\ DOMAIN w.action = ActionFields
    /\ DOMAIN h = HostFields
    /\ Queue(in) /\ Queue(h.queue) /\ Queue(out)

\* Whatever is under way in a session is the action its webview runs, or about
\* catalogs; the serial queue has no changes of the library.
Related(w, h, in, out) ==
    /\ w.waiting # None =>
          /\ DOMAIN w.waiting = RequestFields
          /\ Asks(w.waiting, w) /\ w.waiting.type # "catalog"
    /\ \A m \in In(in) : m.type = "catalog" \/ Asks(m, w)
    /\ \A m \in In(h.queue) : m.type = "catalog" \/ (Asks(m, w) /\ m.type \notin Management)
    /\ h.task # None =>
          /\ DOMAIN h.task = TaskFields
          /\ \/ h.task.message.type = "catalog"
             \/ Asks(h.task.message, w) /\ h.task.message.type \notin Management
    /\ h.job # None =>
          /\ DOMAIN h.job = JobFields /\ h.job.result \in Results
          /\ Asks(h.job.message, w) /\ h.job.message.type \in Management
    /\ \A m \in In(out) : m.type = "catalog" \/ Replies(m, w)

Places == {"nowhere", "waiting", "toHost", "queue", "task", "job", "toWeb"}

\* The action is at this place and nowhere else, and the flags say so.
Placed(w, h, in, out, place) ==
    /\ Running(w) <=> place # "nowhere"
    /\ w.waiting # None <=> place = "waiting"
    /\ Holds(in, place = "toHost")
    /\ Holds(h.queue, place = "queue")
    /\ (h.task # None /\ h.task.message.type # "catalog") <=> place = "task"
    /\ h.job # None <=> place = "job"
    /\ Holds(out, place = "toWeb")
    /\ h.managementPending <=> place = "job"
    /\ h.applicationPending <=> (place \in {"queue", "task"} /\ w.action.op = "apply")

Panel(w, h, in, out) ==
    /\ Records(w, h, in, out)
    /\ Related(w, h, in, out)
    /\ \E place \in Places : Placed(w, h, in, out, place)

\* The inductive invariant of the panel, whoever dies.
Conducted ==
    /\ DOMAIN web = Sessions /\ DOMAIN host = Sessions
    /\ DOMAIN toHost = Sessions /\ DOMAIN toWeb = Sessions
    /\ \A e \in Sessions : Alive(e) => Panel(web[e], host[e], toHost[e], toWeb[e])

(* Queues *)

\* A message is posted.
LEMMA Posted ==
    ASSUME NEW q, Queue(q), NEW m
    PROVE  /\ Queue(Append(q, m)) /\ In(Append(q, m)) = In(q) \cup {m}
           /\ m.type = "catalog" /\ Clear(q) => Clear(Append(q, m))
           /\ m.type = "catalog" /\ One(q) => One(Append(q, m))
           /\ m.type # "catalog" /\ Clear(q) => One(Append(q, m))
<1> DEFINE p == Append(q, m)
           S == In(q) \cup {m}
<1>1. q \in Seq(S) /\ m \in S
  <2>1. \A i \in 1 .. Len(q) : q[i] \in In(q)
    BY LenProperties DEF Queue, In
  <2> QED BY <2>1, SeqDef, LenProperties DEF Queue
<1>2. /\ p \in Seq(S) /\ Len(p) = Len(q) + 1
      /\ \A i \in 1 .. Len(q) : p[i] = q[i]
      /\ p[Len(q) + 1] = m
  BY <1>1, AppendProperties
<1> HIDE DEF p, S
<1>3. /\ Len(q) \in Nat
      /\ DOMAIN q = 1 .. Len(q)
      /\ DOMAIN p = 1 .. Len(q) + 1
  BY <1>1, <1>2, LenProperties
<1>4. \A i : i \in DOMAIN p <=> i \in DOMAIN q \/ i = Len(q) + 1
  BY <1>3
<1>5. Len(q) + 1 \notin DOMAIN q
  BY <1>3
<1>6. \A i \in DOMAIN q : p[i] = q[i]
  BY <1>2, <1>3
<1>7. In(p) = In(q) \cup {m}
  BY <1>2, <1>4, <1>6 DEF In
<1>8. Queue(p)
  BY <1>2, <1>7 DEF Queue, S
<1>9. m.type = "catalog" /\ Clear(q) => Clear(p)
  BY <1>7 DEF Clear
<1>10. m.type = "catalog" /\ One(q) => One(p)
  <2>1. SUFFICES ASSUME m.type = "catalog", One(q) PROVE One(p)
    OBVIOUS
  <2>2. PICK i \in DOMAIN q : /\ q[i].type # "catalog"
                              /\ \A j \in DOMAIN q \ {i} : q[j].type = "catalog"
    BY <2>1 DEF One
  <2>3. i \in DOMAIN p /\ p[i].type # "catalog"
    BY <1>4, <1>6, <2>2
  <2>4. \A j \in DOMAIN p \ {i} : p[j].type = "catalog"
    BY <1>2, <1>4, <1>6, <2>1, <2>2
  <2> QED BY <2>3, <2>4 DEF One
<1>11. m.type # "catalog" /\ Clear(q) => One(p)
  <2>1. SUFFICES ASSUME m.type # "catalog", Clear(q) PROVE One(p)
    OBVIOUS
  <2>2. \A j \in DOMAIN q : p[j].type = "catalog"
    BY <1>6, <2>1 DEF Clear, In
  <2>3. Len(q) + 1 \in DOMAIN p /\ p[Len(q) + 1].type # "catalog"
    BY <1>2, <1>4, <2>1
  <2>4. \A j \in DOMAIN p \ {Len(q) + 1} : p[j].type = "catalog"
    BY <1>4, <2>2
  <2> QED BY <2>3, <2>4 DEF One
<1> QED BY <1>7, <1>8, <1>9, <1>10, <1>11 DEF p

\* The first message is taken.
LEMMA Taken ==
    ASSUME NEW q, Queue(q), q # <<>>
    PROVE  /\ Queue(Tail(q)) /\ In(Tail(q)) \subseteq In(q) /\ Head(q) \in In(q)
           /\ Clear(q) => Clear(Tail(q))
           /\ One(q) /\ Head(q).type = "catalog" => One(Tail(q))
           /\ One(q) /\ Head(q).type # "catalog" => Clear(Tail(q))
<1> DEFINE p == Tail(q)
<1>1. q \in Seq(In(q))
  BY DEF Queue
<1>2. /\ Head(q) = q[1] /\ Len(q) \in Nat /\ Len(q) # 0 /\ DOMAIN q = 1 .. Len(q)
      /\ p \in Seq(In(q)) /\ Len(p) = Len(q) - 1
      /\ \A i \in 1 .. Len(p) : p[i] = q[i + 1]
  BY <1>1, HeadTailProperties, LenProperties, EmptySeq
<1> HIDE DEF p
<1>3. DOMAIN p = 1 .. Len(q) - 1
  BY <1>2, LenProperties
<1>4. 1 \in DOMAIN q
  BY <1>2
<1>5. \A i \in DOMAIN p : i \in Nat /\ i + 1 \in DOMAIN q /\ i + 1 # 1 /\ p[i] = q[i + 1]
  BY <1>2, <1>3
<1>6. \A j \in DOMAIN q \ {1} : j - 1 \in DOMAIN p /\ (j - 1) + 1 = j
  BY <1>2, <1>3
<1>7. In(p) \subseteq In(q) /\ Head(q) \in In(q)
  BY <1>2, <1>4, <1>5 DEF In
<1>8. Queue(p)
  <2>1. \A i \in 1 .. Len(p) : p[i] \in In(p)
    BY <1>2, <1>3 DEF In
  <2> QED BY <1>2, <2>1, SeqDef, LenProperties DEF Queue
<1>9. Clear(q) => Clear(p)
  BY <1>7 DEF Clear
<1>10. One(q) /\ Head(q).type = "catalog" => One(p)
  <2>1. SUFFICES ASSUME One(q), Head(q).type = "catalog" PROVE One(p)
    OBVIOUS
  <2>2. PICK i \in DOMAIN q : /\ q[i].type # "catalog"
                              /\ \A j \in DOMAIN q \ {i} : q[j].type = "catalog"
    BY <2>1 DEF One
  <2>3. i - 1 \in DOMAIN p /\ (i - 1) + 1 = i
    BY <1>2, <1>6, <2>1, <2>2
  <2>4. p[i - 1].type # "catalog"
    BY <1>5, <2>2, <2>3
  <2>5. \A j \in DOMAIN p \ {i - 1} : j + 1 # i
    BY <1>2, <1>5, <2>2
  <2>6. \A j \in DOMAIN p \ {i - 1} : p[j].type = "catalog"
    BY <1>5, <2>2, <2>5
  <2> QED BY <2>3, <2>4, <2>6 DEF One
<1>11. One(q) /\ Head(q).type # "catalog" => Clear(p)
  BY <1>2, <1>4, <1>5 DEF One, Clear, In
<1> QED BY <1>7, <1>8, <1>9, <1>10, <1>11 DEF p

(* Steps of one session *)

\* The new table has x for e, and for the others what the old one has.
Moves(old, new, e, x) ==
    DOMAIN new = Sessions /\ \A f \in Sessions : new[f] = IF f = e THEN x ELSE old[f]

\* A step of one session that leaves its panel in order, or ends its window.
LEMMA PanelStep ==
    ASSUME Conducted, NEW e \in Sessions, NEW w, NEW h, NEW in, NEW out,
           Moves(web, web', e, w), Moves(host, host', e, h),
           Moves(toHost, toHost', e, in), Moves(toWeb, toWeb', e, out),
           h.alive => Panel(w, h, in, out)
    PROVE  Conducted'
<1>1. ASSUME NEW f \in Sessions, host'[f].alive
      PROVE  Panel(web'[f], host'[f], toHost'[f], toWeb'[f])
  <2>1. CASE f = e
    BY <1>1, <2>1 DEF Moves
  <2>2. CASE f # e
    BY <1>1, <2>2 DEF Moves, Conducted, Alive
  <2> QED BY <2>1, <2>2
<1> QED BY <1>1 DEF Moves, Conducted, Alive

\* How the tables are changed.
LEMMA Moved ==
    ASSUME NEW table, DOMAIN table = Sessions, NEW e \in Sessions, NEW new, NEW x,
           (new = table /\ x = table[e]) \/ new = [table EXCEPT ![e] = x]
    PROVE  Moves(table, new, e, x)
BY DEF Moves

\* A step that leaves webviews, hosts and messages alone.
LEMMA ApartStep ==
    ASSUME Conducted, UNCHANGED <<web, host, toHost, toWeb>>
    PROVE  Conducted'
BY DEF Conducted, Alive

\* What a session's action relies on.
LEMMA PanelOf ==
    ASSUME Conducted, NEW e \in Sessions, Alive(e)
    PROVE  /\ Records(web[e], host[e], toHost[e], toWeb[e])
           /\ Related(web[e], host[e], toHost[e], toWeb[e])
           /\ \E place \in Places : Placed(web[e], host[e], toHost[e], toWeb[e], place)
BY DEF Conducted, Panel

\* A webview that goes on with its action: its catalog changes, or whether it can
\* be edited.
LEMMA SameAction ==
    ASSUME NEW w, NEW h, NEW in, NEW out, Panel(w, h, in, out),
           NEW v, DOMAIN v = WebFields, v.action = w.action, v.waiting = w.waiting
    PROVE  Panel(v, h, in, out)
<1>1. PICK place \in Places : Placed(w, h, in, out, place)
  BY DEF Panel
<1>2. Placed(v, h, in, out, place)
  BY <1>1 DEF Placed, Running
<1>3. Related(v, h, in, out)
  BY DEF Panel, Related, Asks, Replies
<1>4. Records(v, h, in, out)
  BY DEF Panel, Records
<1> QED BY <1>2, <1>3, <1>4 DEF Panel

\* A message about catalogs joins the others, whoever posts it.
LEMMA CatalogPosted ==
    ASSUME NEW w, NEW h, NEW in, NEW out, Panel(w, h, in, out),
           NEW m, m.type = "catalog"
    PROVE  Panel(w, h, Append(in, m), out) /\ Panel(w, h, in, Append(out, m))
<1>1. PICK place \in Places : Placed(w, h, in, out, place)
  BY DEF Panel
<1>2. Queue(in) /\ Queue(out)
  BY DEF Panel, Records
<1>3. /\ Queue(Append(in, m)) /\ In(Append(in, m)) = In(in) \cup {m}
      /\ Holds(in, place = "toHost") => Holds(Append(in, m), place = "toHost")
  BY <1>2, Posted DEF Holds
<1>4. /\ Queue(Append(out, m)) /\ In(Append(out, m)) = In(out) \cup {m}
      /\ Holds(out, place = "toWeb") => Holds(Append(out, m), place = "toWeb")
  BY <1>2, Posted DEF Holds
<1>5. Panel(w, h, Append(in, m), out)
  <2>1. Placed(w, h, Append(in, m), out, place)
    BY <1>1, <1>3 DEF Placed
  <2>2. Related(w, h, Append(in, m), out)
    BY <1>3 DEF Panel, Related
  <2> QED BY <1>3, <2>1, <2>2 DEF Panel, Records
<1>6. Panel(w, h, in, Append(out, m))
  <2>1. Placed(w, h, in, Append(out, m), place)
    BY <1>1, <1>4 DEF Placed
  <2>2. Related(w, h, in, Append(out, m))
    BY <1>4 DEF Panel, Related
  <2> QED BY <1>4, <2>1, <2>2 DEF Panel, Records
<1> QED BY <1>5, <1>6

\* At first no session has an action.
LEMMA InitConducted == ASSUME Init PROVE Conducted
<1>1. /\ DOMAIN web = Sessions /\ DOMAIN host = Sessions
      /\ DOMAIN toHost = Sessions /\ DOMAIN toWeb = Sessions
  BY DEF Init
<1>2. ASSUME NEW e \in Sessions PROVE Panel(web[e], host[e], toHost[e], toWeb[e])
  <2>1. /\ DOMAIN web[e] = WebFields /\ DOMAIN web[e].action = ActionFields
        /\ web[e].waiting = None /\ web[e].action.phase = "idle"
    BY DEF Init, WebFields, ActionFields
  <2>2. /\ DOMAIN host[e] = HostFields /\ host[e].queue = <<>>
        /\ host[e].task = None /\ host[e].job = None
        /\ host[e].managementPending = FALSE /\ host[e].applicationPending = FALSE
    BY DEF Init, HostFields
  <2>3. toHost[e] = <<>> /\ toWeb[e] = <<>>
    BY DEF Init
  <2>4. In(<<>>) = {} /\ Queue(<<>>) /\ Clear(<<>>)
    BY DEF In, Queue, Clear
  <2>5. Records(web[e], host[e], toHost[e], toWeb[e])
    BY <2>1, <2>2, <2>3, <2>4 DEF Records
  <2>6. Related(web[e], host[e], toHost[e], toWeb[e])
    BY <2>1, <2>2, <2>3, <2>4 DEF Related
  <2>7. Placed(web[e], host[e], toHost[e], toWeb[e], "nowhere")
    BY <2>1, <2>2, <2>3, <2>4 DEF Placed, Holds, Running
  <2> QED BY <2>5, <2>6, <2>7 DEF Panel, Places
<1> QED BY <1>1, <1>2 DEF Conducted

(* The webview *)

\* A catalog is requested.
LEMMA RefreshStep ==
    ASSUME Conducted, NEW e \in Sessions, Refresh(e)
    PROVE  Conducted'
<1> DEFINE w == web[e]
           v == Requesting(w)
           m == CatalogRequest(w)
           in == Append(toHost[e], m)
<1>1. Panel(w, host[e], toHost[e], toWeb[e])
  BY DEF Conducted, Refresh
<1>2. DOMAIN v = WebFields /\ v.action = w.action /\ v.waiting = w.waiting
  BY <1>1 DEF Requesting, Panel, Records, WebFields
<1>3. m.type = "catalog"
  BY DEF CatalogRequest
<1>4. /\ web' = [web EXCEPT ![e] = v] /\ toHost' = [toHost EXCEPT ![e] = in]
      /\ UNCHANGED <<host, toWeb>>
  BY DEF Refresh, PostToHost, Conducted
<1> HIDE DEF v, m
<1>5. Panel(v, host[e], in, toWeb[e])
  BY <1>1, <1>2, <1>3, SameAction, CatalogPosted
<1>6. /\ Moves(web, web', e, v) /\ Moves(host, host', e, host[e])
      /\ Moves(toHost, toHost', e, in) /\ Moves(toWeb, toWeb', e, toWeb[e])
  BY <1>4, Moved DEF Conducted
<1> HIDE DEF in, w
<1> QED BY <1>5, <1>6, PanelStep

\* An action begins where there is none: it waits, or is posted.
LEMMA StartStep ==
    ASSUME Conducted, NoneIsNoWork, NEW e \in Sessions, NEW op \in Actions,
           NEW id, StartAction(e, op, id)
    PROVE  Conducted'
<1> DEFINE w == web[e]
           h == host[e]
           m == Request(w, op, id)
           v == [w EXCEPT !.action = [phase |-> "running", request |-> w.next, op |-> op],
                          !.next = w.next + 1,
                          !.editable = w.editable /\ op # "apply"]
           u == [v EXCEPT !.waiting = m]
           in == Append(toHost[e], m)
<1>1. /\ Records(w, h, toHost[e], toWeb[e]) /\ ~Running(w) /\ Alive(e)
      /\ Related(w, h, toHost[e], toWeb[e])
  BY PanelOf DEF StartAction
<1>2. Placed(w, h, toHost[e], toWeb[e], "nowhere")
  BY <1>1, PanelOf DEF Placed
<1>3. /\ w.waiting = None /\ Clear(toHost[e]) /\ Clear(h.queue) /\ Clear(toWeb[e])
      /\ h.task # None => h.task.message.type = "catalog"
      /\ h.job = None /\ ~h.managementPending /\ ~h.applicationPending
  BY <1>2 DEF Placed, Holds
<1>4. /\ m.type = op /\ m.request = w.next /\ DOMAIN m = RequestFields /\ m # None
      /\ op # "catalog"
  BY DEF Request, RequestFields, NoneIsNoWork, Actions, Management
<1>5. /\ DOMAIN v = WebFields /\ DOMAIN v.action = ActionFields
      /\ v.waiting = None /\ Running(v) /\ v.action.op = op /\ v.action.request = w.next
  BY <1>1, <1>3 DEF Records, WebFields, ActionFields, Running
<1>6. DOMAIN u = WebFields /\ u.action = v.action /\ u.waiting = m /\ Running(u)
  BY <1>5 DEF WebFields, Running
<1>7. /\ Queue(in) /\ In(in) = In(toHost[e]) \cup {m} /\ One(in)
  BY <1>1, <1>3, <1>4, Posted DEF Records
<1>8. \/ /\ web' = [web EXCEPT ![e] = u] /\ UNCHANGED toHost
      \/ /\ web' = [web EXCEPT ![e] = v] /\ toHost' = [toHost EXCEPT ![e] = in]
  BY DEF StartAction, PostToHost, Conducted
<1>9. UNCHANGED <<host, toWeb>>
  BY DEF StartAction
<1> HIDE DEF m, v, u, in
<1>10. CASE web' = [web EXCEPT ![e] = u] /\ UNCHANGED toHost
  <2>1. Records(u, h, toHost[e], toWeb[e])
    BY <1>1, <1>5, <1>6 DEF Records
  <2>2. Related(u, h, toHost[e], toWeb[e])
    BY <1>1, <1>3, <1>4, <1>5, <1>6 DEF Related, Asks, Clear
  <2>3. Placed(u, h, toHost[e], toWeb[e], "waiting")
    BY <1>2, <1>3, <1>4, <1>6 DEF Placed, Holds
  <2>4. Panel(u, h, toHost[e], toWeb[e])
    BY <2>1, <2>2, <2>3 DEF Panel, Places
  <2>5. /\ Moves(web, web', e, u) /\ Moves(host, host', e, h)
        /\ Moves(toHost, toHost', e, toHost[e]) /\ Moves(toWeb, toWeb', e, toWeb[e])
    BY <1>9, <1>10, Moved DEF Conducted
  <2> QED BY <2>4, <2>5, PanelStep
<1>11. CASE web' = [web EXCEPT ![e] = v] /\ toHost' = [toHost EXCEPT ![e] = in]
  <2>1. Records(v, h, in, toWeb[e])
    BY <1>1, <1>5, <1>7 DEF Records
  <2>2. Related(v, h, in, toWeb[e])
    BY <1>1, <1>3, <1>4, <1>5, <1>7 DEF Related, Asks, Clear
  <2>3. Placed(v, h, in, toWeb[e], "toHost")
    BY <1>2, <1>3, <1>5, <1>7 DEF Placed, Holds
  <2>4. Panel(v, h, in, toWeb[e])
    BY <2>1, <2>2, <2>3 DEF Panel, Places
  <2>5. /\ Moves(web, web', e, v) /\ Moves(host, host', e, h)
        /\ Moves(toHost, toHost', e, in) /\ Moves(toWeb, toWeb', e, toWeb[e])
    BY <1>9, <1>11, Moved DEF Conducted
  <2> QED BY <2>4, <2>5, PanelStep
<1> QED BY <1>8, <1>10, <1>11

\* What waited for the acknowledgement is posted.
LEMMA AcknowledgedStep ==
    ASSUME Conducted, NEW e \in Sessions, AfterAcknowledged(e)
    PROVE  Conducted'
<1> DEFINE w == web[e]
           h == host[e]
           m == [w.waiting EXCEPT !.base = doc[e].acked]
           v == [w EXCEPT !.waiting = None]
           in == Append(toHost[e], m)
<1>1. /\ Records(w, h, toHost[e], toWeb[e]) /\ w.waiting # None
      /\ Related(w, h, toHost[e], toWeb[e])
  BY PanelOf DEF AfterAcknowledged
<1>2. Placed(w, h, toHost[e], toWeb[e], "waiting")
  BY <1>1, PanelOf DEF Placed, AfterAcknowledged
<1>3. Asks(m, w) /\ m.type # "catalog"
  BY <1>1 DEF Related, Asks, RequestFields
<1>4. /\ DOMAIN v = WebFields /\ DOMAIN v.action = ActionFields
      /\ v.waiting = None /\ v.action = w.action
  BY <1>1 DEF Records, WebFields
<1>5. Queue(in) /\ In(in) = In(toHost[e]) \cup {m} /\ One(in)
  BY <1>1, <1>2, <1>3, Posted DEF Records, Placed, Holds
<1>6. /\ web' = [web EXCEPT ![e] = v] /\ toHost' = [toHost EXCEPT ![e] = in]
      /\ UNCHANGED <<host, toWeb>>
  BY DEF AfterAcknowledged, PostToHost, Conducted
<1> HIDE DEF m, v, in
<1>7. Records(v, h, in, toWeb[e])
  BY <1>1, <1>4, <1>5 DEF Records
<1>8. Related(v, h, in, toWeb[e])
  BY <1>1, <1>3, <1>4, <1>5 DEF Related, Asks, Replies
<1>9. Placed(v, h, in, toWeb[e], "toHost")
  BY <1>2, <1>4, <1>5 DEF Placed, Holds, Running
<1>10. Panel(v, h, in, toWeb[e])
  BY <1>7, <1>8, <1>9 DEF Panel, Places
<1>11. /\ Moves(web, web', e, v) /\ Moves(host, host', e, h)
       /\ Moves(toHost, toHost', e, in) /\ Moves(toWeb, toWeb', e, toWeb[e])
  BY <1>6, Moved DEF Conducted
<1> QED BY <1>10, <1>11, PanelStep

\* What waited is withdrawn, and the action has failed.
LEMMA NotAcknowledgedStep ==
    ASSUME Conducted, NEW e \in Sessions, NotAcknowledged(e)
    PROVE  Conducted'
<1> DEFINE w == web[e]
           h == host[e]
           v == [w EXCEPT !.waiting = None, !.action.phase = "failed", !.editable = TRUE]
<1>1. /\ Records(w, h, toHost[e], toWeb[e]) /\ w.waiting # None
      /\ Related(w, h, toHost[e], toWeb[e])
  BY PanelOf DEF NotAcknowledged
<1>2. Placed(w, h, toHost[e], toWeb[e], "waiting")
  BY <1>1, PanelOf DEF Placed, NotAcknowledged
<1>3. /\ DOMAIN v = WebFields /\ DOMAIN v.action = ActionFields
      /\ v.waiting = None /\ ~Running(v)
      /\ v.action.request = w.action.request /\ v.action.op = w.action.op
  BY <1>1 DEF Records, WebFields, ActionFields, Running
<1>4. web' = [web EXCEPT ![e] = v] /\ UNCHANGED <<host, toHost, toWeb>>
  BY DEF NotAcknowledged, Conducted
<1> HIDE DEF v
<1>5. Records(v, h, toHost[e], toWeb[e])
  BY <1>1, <1>3 DEF Records
<1>6. Related(v, h, toHost[e], toWeb[e])
  BY <1>1, <1>3 DEF Related, Asks, Replies
<1>7. Placed(v, h, toHost[e], toWeb[e], "nowhere")
  BY <1>2, <1>3 DEF Placed, Holds
<1>8. Panel(v, h, toHost[e], toWeb[e])
  BY <1>5, <1>6, <1>7 DEF Panel, Places
<1>9. /\ Moves(web, web', e, v) /\ Moves(host, host', e, h)
      /\ Moves(toHost, toHost', e, toHost[e]) /\ Moves(toWeb, toWeb', e, toWeb[e])
  BY <1>4, Moved DEF Conducted
<1> QED BY <1>8, <1>9, PanelStep

\* A message about catalogs is taken.
LEMMA CatalogTaken ==
    ASSUME NEW w, NEW h, NEW in, NEW out, Panel(w, h, in, out), out # <<>>,
           Head(out).type = "catalog"
    PROVE  Panel(w, h, in, Tail(out))
<1>1. PICK place \in Places : Placed(w, h, in, out, place)
  BY DEF Panel
<1>2. /\ Queue(Tail(out)) /\ In(Tail(out)) \subseteq In(out)
      /\ Holds(out, place = "toWeb") => Holds(Tail(out), place = "toWeb")
  BY Taken DEF Panel, Records, Holds
<1>3. Placed(w, h, in, Tail(out), place)
  BY <1>1, <1>2 DEF Placed
<1>4. Related(w, h, in, Tail(out))
  BY <1>2 DEF Panel, Related
<1> QED BY <1>2, <1>3, <1>4 DEF Panel, Records

\* The answer is taken: nothing of the action is left anywhere.
LEMMA AnswerTaken ==
    ASSUME NEW w, NEW h, NEW in, NEW out, Panel(w, h, in, out), out # <<>>,
           Head(out).type # "catalog",
           NEW v, DOMAIN v = WebFields, v.waiting = w.waiting,
           v.action = [w.action EXCEPT !.phase = Head(out).result]
    PROVE  /\ Panel(v, h, in, Tail(out))
           /\ Awaited(w, Head(out)) /\ Head(out).type \in Answers
<1>1. PICK place \in Places : Placed(w, h, in, out, place)
  BY DEF Panel
<1>2. /\ Queue(Tail(out)) /\ In(Tail(out)) \subseteq In(out) /\ Head(out) \in In(out)
      /\ One(out) => Clear(Tail(out))
  BY Taken DEF Panel, Records
<1>3. place = "toWeb"
  BY <1>1, <1>2 DEF Placed, Holds, Clear
<1>4. Replies(Head(out), w)
  BY <1>2 DEF Panel, Related
<1>5. /\ DOMAIN v.action = ActionFields /\ v.action.phase \in Results
      /\ v.action.request = w.action.request /\ v.action.op = w.action.op
  BY <1>4 DEF Panel, Records, ActionFields, Replies
<1>6. ~Running(v)
  BY <1>5 DEF Running, Results
<1>7. Placed(v, h, in, Tail(out), "nowhere")
  BY <1>1, <1>2, <1>3, <1>6 DEF Placed, Holds
<1>8. Related(v, h, in, Tail(out))
  BY <1>2, <1>5 DEF Panel, Related, Asks, Replies
<1>9. Records(v, h, in, Tail(out))
  BY <1>2, <1>5 DEF Panel, Records
<1>10. Awaited(w, Head(out)) /\ Head(out).type \in Answers
  BY <1>1, <1>3, <1>4 DEF Awaited, Placed, Replies
<1> QED BY <1>7, <1>8, <1>9, <1>10 DEF Panel, Places

\* The webview takes an answer, or a catalog; after a change of the library it
\* asks for a new one.
LEMMA WebReceivesStep ==
    ASSUME Conducted, NEW e \in Sessions, WebReceives(e)
    PROVE  Conducted'
<1> DEFINE w == web[e]
           h == host[e]
           m == Head(toWeb[e])
           out == Tail(toWeb[e])
           settled == Settled(w, m)
<1>1. Panel(w, h, toHost[e], toWeb[e]) /\ toWeb[e] # <<>>
  BY DEF Conducted, WebReceives
<1>2. toWeb' = [toWeb EXCEPT ![e] = out] /\ UNCHANGED host
  BY DEF WebReceives, Conducted
<1>3. DOMAIN w = WebFields /\ DOMAIN w.action = ActionFields
  BY <1>1 DEF Panel, Records
<1>4. CASE m.type = "catalog"
  <2> DEFINE v == CatalogSucceeded(w, m)
  <2>1. web' = [web EXCEPT ![e] = v] /\ UNCHANGED toHost
    BY <1>4 DEF WebReceives, Conducted
  <2>2. DOMAIN v = WebFields /\ v.action = w.action /\ v.waiting = w.waiting
    BY <1>3 DEF CatalogSucceeded, WebFields
  <2> HIDE DEF v
  <2>3. Panel(v, h, toHost[e], out)
    BY <1>1, <1>4, <2>2, CatalogTaken, SameAction
  <2>4. /\ Moves(web, web', e, v) /\ Moves(host, host', e, h)
        /\ Moves(toHost, toHost', e, toHost[e]) /\ Moves(toWeb, toWeb', e, out)
    BY <1>2, <2>1, Moved DEF Conducted
  <2> QED BY <2>3, <2>4, PanelStep
<1>5. ASSUME m.type # "catalog"
      PROVE  /\ Panel(settled, h, toHost[e], out) /\ m.type \in Answers
             /\ DOMAIN settled = WebFields
  <2> DEFINE v == [w EXCEPT !.action.phase = m.result]
  <2>1. /\ DOMAIN v = WebFields /\ v.waiting = w.waiting
        /\ v.action = [w.action EXCEPT !.phase = m.result]
    BY <1>3 DEF WebFields
  <2> HIDE DEF v
  <2>2. Panel(v, h, toHost[e], out) /\ Awaited(w, m) /\ m.type \in Answers
    BY <1>1, <1>5, <2>1, AnswerTaken
  <2>3. settled = v
    BY <2>2 DEF Settled, v
  <2> QED BY <2>1, <2>2, <2>3
<1>6. CASE m.type = "finished" /\ m.result = "completed"
  <2> DEFINE u == [settled EXCEPT !.left = m.left]
             v == Requesting(u)
             request == CatalogRequest(w)
             in == Append(toHost[e], request)
  <2>1. web' = [web EXCEPT ![e] = v] /\ toHost' = [toHost EXCEPT ![e] = in]
    BY <1>6 DEF WebReceives, PostToHost, Conducted
  <2>2. Panel(settled, h, toHost[e], out) /\ DOMAIN settled = WebFields
    BY <1>5, <1>6
  <2> HIDE DEF settled
  <2>3. /\ DOMAIN v = WebFields /\ v.action = settled.action
        /\ v.waiting = settled.waiting
    BY <2>2 DEF Requesting, WebFields
  <2>4. request.type = "catalog"
    BY DEF CatalogRequest
  <2> HIDE DEF v, request
  <2>5. Panel(v, h, in, out)
    BY <2>2, <2>3, <2>4, SameAction, CatalogPosted
  <2>6. /\ Moves(web, web', e, v) /\ Moves(host, host', e, h)
        /\ Moves(toHost, toHost', e, in) /\ Moves(toWeb, toWeb', e, out)
    BY <1>2, <2>1, Moved DEF Conducted
  <2> QED BY <2>5, <2>6, PanelStep
<1>7. ASSUME NEW v, DOMAIN v = WebFields, v.action = settled.action,
             v.waiting = settled.waiting, m.type # "catalog",
             web' = [web EXCEPT ![e] = v], UNCHANGED toHost
      PROVE  Conducted'
  <2>1. Panel(settled, h, toHost[e], out)
    BY <1>5, <1>7
  <2> HIDE DEF settled
  <2>2. Panel(v, h, toHost[e], out)
    BY <1>7, <2>1, SameAction
  <2>3. /\ Moves(web, web', e, v) /\ Moves(host, host', e, h)
        /\ Moves(toHost, toHost', e, toHost[e]) /\ Moves(toWeb, toWeb', e, out)
    BY <1>2, <1>7, Moved DEF Conducted
  <2> QED BY <2>2, <2>3, PanelStep
<1>8. CASE (m.type = "finished" /\ m.result # "completed") \/ m.type = "created"
  <2>1. web' = [web EXCEPT ![e] = settled] /\ UNCHANGED toHost
    BY <1>8 DEF WebReceives, Conducted
  <2>2. DOMAIN settled = WebFields /\ m.type # "catalog"
    BY <1>5, <1>8
  <2> HIDE DEF settled
  <2> QED BY <1>7, <2>1, <2>2
<1>9. CASE m.type = "applied"
  <2> DEFINE v == [settled EXCEPT !.editable = TRUE]
  <2>1. web' = [web EXCEPT ![e] = v] /\ UNCHANGED toHost
    BY <1>9 DEF WebReceives, Conducted
  <2>2. DOMAIN settled = WebFields /\ m.type # "catalog"
    BY <1>5, <1>9
  <2> HIDE DEF settled
  <2>3. DOMAIN v = WebFields /\ v.action = settled.action /\ v.waiting = settled.waiting
    BY <2>2 DEF WebFields
  <2> HIDE DEF v
  <2> QED BY <1>7, <2>1, <2>2, <2>3
<1>10. m.type \in {"catalog", "finished", "applied", "created"}
  BY <1>5 DEF Answers
<1> QED BY <1>4, <1>6, <1>8, <1>9, <1>10

(* The host *)

\* A step of the host that changes nothing but fields the panel does not see.
LEMMA SameWork ==
    ASSUME NEW w, NEW h, NEW in, NEW out, Panel(w, h, in, out),
           NEW g, DOMAIN g = HostFields, g.queue = h.queue,
           g.managementPending = h.managementPending,
           g.applicationPending = h.applicationPending,
           h.task = None <=> g.task = None,
           g.task # None => DOMAIN g.task = TaskFields /\ g.task.message = h.task.message,
           h.job = None <=> g.job = None,
           g.job # None => /\ DOMAIN g.job = JobFields /\ g.job.result \in Results
                           /\ g.job.message = h.job.message
    PROVE  Panel(w, g, in, out)
<1>1. PICK place \in Places : Placed(w, h, in, out, place)
  BY DEF Panel
<1>2. Placed(w, g, in, out, place)
  BY <1>1 DEF Placed
<1>3. Related(w, g, in, out)
  BY DEF Panel, Related
<1>4. Records(w, g, in, out)
  BY DEF Panel, Records
<1> QED BY <1>2, <1>3, <1>4 DEF Panel

\* A message arrives: a change of the library becomes the job, the others are
\* queued, and no flag is up.
LEMMA HostReceivesStep ==
    ASSUME Conducted, NoneIsNoWork, NEW e \in Sessions, HostReceives(e)
    PROVE  Conducted'
<1> DEFINE w == web[e]
           h == host[e]
           m == Head(toHost[e])
           in == Tail(toHost[e])
           queue == Append(h.queue, m)
<1>1. /\ Records(w, h, toHost[e], toWeb[e]) /\ toHost[e] # <<>>
      /\ Related(w, h, toHost[e], toWeb[e])
  BY PanelOf DEF HostReceives
<1>2. PICK place \in Places : Placed(w, h, toHost[e], toWeb[e], place)
  BY PanelOf DEF HostReceives
<1>3. /\ Queue(in) /\ In(in) \subseteq In(toHost[e]) /\ m \in In(toHost[e])
      /\ Clear(toHost[e]) => Clear(in)
      /\ One(toHost[e]) /\ m.type = "catalog" => One(in)
      /\ One(toHost[e]) /\ m.type # "catalog" => Clear(in)
  BY <1>1, Taken DEF Records
<1>4. m.type # "catalog" => /\ place = "toHost" /\ Asks(m, w) /\ Clear(in)
                            /\ Clear(h.queue) /\ h.job = None
                            /\ ~h.managementPending /\ ~h.applicationPending
  BY <1>1, <1>2, <1>3 DEF Placed, Holds, Clear, Related
<1>5. /\ Queue(queue) /\ In(queue) = In(h.queue) \cup {m}
      /\ m.type = "catalog" /\ Clear(h.queue) => Clear(queue)
      /\ m.type = "catalog" /\ One(h.queue) => One(queue)
      /\ m.type # "catalog" /\ Clear(h.queue) => One(queue)
  BY <1>1, Posted DEF Records
<1>6. toHost' = [toHost EXCEPT ![e] = in] /\ UNCHANGED web
  BY DEF HostReceives, Conducted
<1>7. ASSUME NEW g, NEW there \in Places, DOMAIN g = HostFields, Queue(g.queue),
             host' = [host EXCEPT ![e] = g], UNCHANGED toWeb,
             Related(w, g, in, toWeb[e]), Placed(w, g, in, toWeb[e], there)
      PROVE  Conducted'
  <2>1. Records(w, g, in, toWeb[e])
    BY <1>1, <1>3, <1>7 DEF Records
  <2>2. Panel(w, g, in, toWeb[e])
    BY <1>7, <2>1 DEF Panel
  <2>3. /\ Moves(web, web', e, w) /\ Moves(host, host', e, g)
        /\ Moves(toHost, toHost', e, in) /\ Moves(toWeb, toWeb', e, toWeb[e])
    BY <1>6, <1>7, Moved DEF Conducted
  <2> QED BY <2>2, <2>3, PanelStep
<1>8. CASE m.type \in Management
  <2> DEFINE job == NewJob(m)
             g == [h EXCEPT !.managementPending = TRUE, !.job = job]
  <2>1. m.type # "catalog"
    BY <1>8 DEF Management
  <2>2. host' = [host EXCEPT ![e] = g] /\ UNCHANGED toWeb
    BY <1>4, <1>8, <2>1 DEF HostReceives, Conducted
  <2>3. /\ DOMAIN job = JobFields /\ job.result \in Results
        /\ job.message = m /\ job # None
    BY DEF NewJob, JobFields, Results, NoneIsNoWork
  <2> HIDE DEF job
  <2>4. /\ DOMAIN g = HostFields /\ g.queue = h.queue /\ g.task = h.task /\ g.job = job
        /\ g.managementPending = TRUE /\ g.applicationPending = h.applicationPending
    BY <1>1 DEF Records, HostFields
  <2> HIDE DEF g
  <2>5. Related(w, g, in, toWeb[e])
    BY <1>1, <1>3, <1>4, <1>8, <2>1, <2>3, <2>4 DEF Related
  <2>6. Placed(w, g, in, toWeb[e], "job")
    BY <1>2, <1>4, <2>1, <2>3, <2>4 DEF Placed, Holds
  <2>7. Queue(g.queue) /\ "job" \in Places
    BY <1>1, <2>4 DEF Records, Places
  <2> QED BY <1>7, <2>2, <2>4, <2>5, <2>6, <2>7
<1>9. CASE m.type = "apply"
  <2> DEFINE g == [[h EXCEPT !.queue = queue] EXCEPT !.applicationPending = TRUE]
  <2>1. host' = [host EXCEPT ![e] = g] /\ UNCHANGED toWeb /\ m.type \notin Management
    BY <1>4, <1>9 DEF HostReceives, Conducted, Management
  <2>2. /\ DOMAIN g = HostFields /\ g.queue = queue /\ g.task = h.task /\ g.job = h.job
        /\ g.managementPending = h.managementPending /\ g.applicationPending = TRUE
    BY <1>1 DEF Records, HostFields
  <2> HIDE DEF g, queue
  <2>3. Related(w, g, in, toWeb[e])
    BY <1>1, <1>3, <1>4, <1>5, <1>9, <2>1, <2>2 DEF Related
  <2>4. Placed(w, g, in, toWeb[e], "queue")
    BY <1>2, <1>4, <1>5, <1>9, <2>2 DEF Placed, Holds, Asks
  <2> QED BY <1>5, <1>7, <2>1, <2>2, <2>3, <2>4 DEF Places
<1>10. CASE m.type \notin Management \cup {"apply"}
  <2> DEFINE g == [h EXCEPT !.queue = queue]
  <2>1. host' = [host EXCEPT ![e] = g] /\ UNCHANGED toWeb
    BY <1>10 DEF HostReceives, Conducted
  <2>2. /\ DOMAIN g = HostFields /\ g.queue = queue /\ g.task = h.task /\ g.job = h.job
        /\ g.managementPending = h.managementPending
        /\ g.applicationPending = h.applicationPending
    BY <1>1 DEF Records, HostFields
  <2> HIDE DEF g, queue
  <2>3. Related(w, g, in, toWeb[e])
    BY <1>1, <1>3, <1>4, <1>5, <1>10, <2>2 DEF Related
  <2>4. CASE m.type = "catalog"
    <3>1. Placed(w, g, in, toWeb[e], place)
      BY <1>2, <1>3, <1>5, <2>2, <2>4 DEF Placed, Holds
    <3> QED BY <1>5, <1>7, <2>1, <2>2, <2>3, <3>1
  <2>5. CASE m.type # "catalog"
    <3>1. Placed(w, g, in, toWeb[e], "queue")
      BY <1>2, <1>4, <1>5, <1>10, <2>2, <2>5 DEF Placed, Holds, Asks
    <3> QED BY <1>5, <1>7, <2>1, <2>2, <2>3, <3>1 DEF Places
  <2> QED BY <2>4, <2>5
<1> QED BY <1>8, <1>9, <1>10

\* The next message is taken from the queue.
LEMMA StartTaskStep ==
    ASSUME Conducted, NoneIsNoWork, NEW e \in Sessions, StartTask(e)
    PROVE  Conducted'
<1> DEFINE w == web[e]
           h == host[e]
           in == toHost[e]
           out == toWeb[e]
           m == Head(h.queue)
           queue == Tail(h.queue)
           task == [message |-> m,
                    unread |-> IF m.type = "catalog" THEN Stored ELSE {},
                    found |-> [id \in Templates |-> None]]
           g == [h EXCEPT !.queue = queue, !.task = task]
<1>1. /\ Records(w, h, in, out) /\ h.queue # <<>> /\ h.task = None
      /\ Related(w, h, in, out)
  BY PanelOf DEF StartTask
<1>2. PICK place \in Places : Placed(w, h, in, out, place)
  BY PanelOf DEF StartTask
<1>3. /\ Queue(queue) /\ In(queue) \subseteq In(h.queue) /\ m \in In(h.queue)
      /\ Clear(h.queue) => Clear(queue)
      /\ One(h.queue) /\ m.type = "catalog" => One(queue)
      /\ One(h.queue) /\ m.type # "catalog" => Clear(queue)
  BY <1>1, Taken DEF Records
<1>4. task.message = m /\ DOMAIN task = TaskFields /\ task # None
  BY DEF TaskFields, NoneIsNoWork
<1>5. host' = [host EXCEPT ![e] = g] /\ UNCHANGED <<web, toHost, toWeb>>
  BY DEF StartTask, Conducted
<1> HIDE DEF task, queue
<1>6. /\ DOMAIN g = HostFields /\ g.queue = queue /\ g.task = task /\ g.job = h.job
      /\ g.managementPending = h.managementPending
      /\ g.applicationPending = h.applicationPending
  BY <1>1 DEF Records, HostFields
<1> HIDE DEF g
<1>7. Related(w, g, in, out)
  BY <1>1, <1>3, <1>4, <1>6 DEF Related
<1>8. Records(w, g, in, out)
  BY <1>1, <1>3, <1>6 DEF Records
<1>9. \E there \in Places : Placed(w, g, in, out, there)
  <2>1. CASE m.type = "catalog"
    <3>1. Placed(w, g, in, out, place)
      BY <1>1, <1>2, <1>3, <1>4, <1>6, <2>1 DEF Placed, Holds
    <3> QED BY <3>1
  <2>2. CASE m.type # "catalog"
    <3>1. place = "queue"
      BY <1>2, <1>3, <2>2 DEF Placed, Holds, Clear
    <3>2. Placed(w, g, in, out, "task")
      BY <1>2, <1>3, <1>4, <1>6, <2>2, <3>1 DEF Placed, Holds
    <3> QED BY <3>2 DEF Places
  <2> QED BY <2>1, <2>2
<1>10. /\ Moves(web, web', e, w) /\ Moves(host, host', e, g)
       /\ Moves(toHost, toHost', e, in) /\ Moves(toWeb, toWeb', e, out)
  BY <1>5, Moved DEF Conducted
<1> QED BY <1>7, <1>8, <1>9, <1>10, PanelStep DEF Panel

\* A template is read.
LEMMA ReadTemplateStep ==
    ASSUME Conducted, NoneIsNoWork, NEW e \in Sessions, NEW id, ReadTemplate(e, id)
    PROVE  Conducted'
<1> DEFINE h == host[e]
           task == [h.task EXCEPT !.unread = h.task.unread \ {id},
                                  !.found[id] = files[id]]
           g == [h EXCEPT !.task = task]
<1>1. Panel(web[e], h, toHost[e], toWeb[e]) /\ h.task # None
  BY DEF Conducted, ReadTemplate, Doing
<1>2. DOMAIN h = HostFields /\ DOMAIN h.task = TaskFields
  BY <1>1 DEF Panel, Records, Related
<1>3. DOMAIN task = TaskFields /\ task.message = h.task.message /\ task # None
  BY <1>2 DEF TaskFields, NoneIsNoWork
<1>4. host' = [host EXCEPT ![e] = g] /\ UNCHANGED <<web, toHost, toWeb>>
  BY <1>2 DEF ReadTemplate, Conducted, HostFields, TaskFields
<1> HIDE DEF task
<1>5. /\ DOMAIN g = HostFields /\ g.queue = h.queue /\ g.task = task /\ g.job = h.job
      /\ g.managementPending = h.managementPending
      /\ g.applicationPending = h.applicationPending
  BY <1>2 DEF HostFields
<1> HIDE DEF g
<1>6. h.job # None => DOMAIN h.job = JobFields /\ h.job.result \in Results
  BY <1>1 DEF Panel, Related
<1>7. Panel(web[e], g, toHost[e], toWeb[e])
  BY <1>1, <1>3, <1>5, <1>6, SameWork
<1>8. /\ Moves(web, web', e, web[e]) /\ Moves(host, host', e, g)
      /\ Moves(toHost, toHost', e, toHost[e]) /\ Moves(toWeb, toWeb', e, toWeb[e])
  BY <1>4, Moved DEF Conducted
<1> QED BY <1>7, <1>8, PanelStep

\* A catalog has been read and is sent.
LEMMA SendCatalogStep ==
    ASSUME Conducted, NEW e \in Sessions, SendTemplateCatalog(e)
    PROVE  Conducted'
<1> DEFINE w == web[e]
           h == host[e]
           in == toHost[e]
           m == [type |-> "catalog", request |-> h.task.message.request,
                 templates |-> h.task.found]
           g == [h EXCEPT !.available = h.task.found, !.task = None]
           out == Append(toWeb[e], m)
<1>1. /\ Records(w, h, in, toWeb[e]) /\ Related(w, h, in, toWeb[e])
      /\ h.task # None /\ h.task.message.type = "catalog"
  BY PanelOf DEF SendTemplateCatalog, Doing
<1>2. PICK place \in Places : Placed(w, h, in, toWeb[e], place)
  BY PanelOf DEF SendTemplateCatalog, Doing
<1>3. /\ host' = [host EXCEPT ![e] = g] /\ toWeb' = [toWeb EXCEPT ![e] = out]
      /\ UNCHANGED <<web, toHost>>
  BY DEF SendTemplateCatalog, PostToWeb, Conducted
<1>4. /\ DOMAIN g = HostFields /\ g.queue = h.queue /\ g.task = None /\ g.job = h.job
      /\ g.managementPending = h.managementPending
      /\ g.applicationPending = h.applicationPending
  BY <1>1 DEF Records, HostFields
<1>5. m.type = "catalog"
  OBVIOUS
<1> HIDE DEF g, m
<1>6. Records(w, g, in, toWeb[e])
  BY <1>1, <1>4 DEF Records
<1>7. Related(w, g, in, toWeb[e])
  BY <1>1, <1>4 DEF Related
<1>8. Placed(w, g, in, toWeb[e], place)
  BY <1>1, <1>2, <1>4 DEF Placed
<1>9. Panel(w, g, in, toWeb[e])
  BY <1>6, <1>7, <1>8 DEF Panel
<1>10. Panel(w, g, in, out)
  BY <1>5, <1>9, CatalogPosted
<1>11. /\ Moves(web, web', e, w) /\ Moves(host, host', e, g)
       /\ Moves(toHost, toHost', e, in) /\ Moves(toWeb, toWeb', e, out)
  BY <1>3, Moved DEF Conducted
<1> QED BY <1>10, <1>11, PanelStep

\* The host has done the action, takes its flag down, and posts the answer.
LEMMA AnswerStep ==
    ASSUME Conducted, NEW e \in Sessions, Alive(e), NEW place \in {"task", "job"},
           Placed(web[e], host[e], toHost[e], toWeb[e], place),
           NEW g, DOMAIN g = HostFields, g.queue = host[e].queue,
           g.task = IF place = "task" THEN None ELSE host[e].task,
           g.job = None, ~g.managementPending, ~g.applicationPending,
           NEW m, Replies(m, web[e]),
           host' = [host EXCEPT ![e] = g],
           toWeb' = [toWeb EXCEPT ![e] = Append(toWeb[e], m)],
           UNCHANGED <<web, toHost>>
    PROVE  Conducted'
<1> DEFINE w == web[e]
           h == host[e]
           in == toHost[e]
           out == Append(toWeb[e], m)
<1>1. Records(w, h, in, toWeb[e]) /\ Related(w, h, in, toWeb[e])
  BY PanelOf
<1>2. Clear(toWeb[e]) /\ m.type # "catalog"
  BY DEF Placed, Holds, Replies, Answers
<1>3. Queue(out) /\ In(out) = In(toWeb[e]) \cup {m} /\ One(out)
  BY <1>1, <1>2, Posted DEF Records
<1> HIDE DEF out
<1>4. Records(w, g, in, out)
  BY <1>1, <1>3 DEF Records
<1>5. Related(w, g, in, out)
  BY <1>1, <1>3 DEF Related
<1>6. Placed(w, g, in, out, "toWeb")
  BY <1>3 DEF Placed, Holds
<1>7. Panel(w, g, in, out)
  BY <1>4, <1>5, <1>6 DEF Panel, Places
<1>8. /\ Moves(web, web', e, w) /\ Moves(host, host', e, g)
      /\ Moves(toHost, toHost', e, in) /\ Moves(toWeb, toWeb', e, out)
  BY Moved DEF Conducted, out
<1> QED BY <1>7, <1>8, PanelStep

\* A document is created, or the template is applied, and the panel is told.
LEMMA TaskEndsStep ==
    ASSUME Conducted, NEW e \in Sessions,
           ApplyTemplate(e) \/ \E result \in Results : CreateDocument(e, result)
    PROVE  Conducted'
<1> DEFINE w == web[e]
           h == host[e]
<1>1. /\ Alive(e) /\ Records(w, h, toHost[e], toWeb[e])
      /\ h.task # None /\ h.task.message.type # "catalog"
      /\ Asks(h.task.message, w)
  BY PanelOf DEF ApplyTemplate, CreateDocument, Doing, Related
<1>2. Placed(w, h, toHost[e], toWeb[e], "task")
  BY <1>1, PanelOf DEF Placed
<1>3. h.job = None /\ ~h.managementPending /\ DOMAIN h = HostFields
  BY <1>1, <1>2 DEF Placed, Records
<1>4. CASE ApplyTemplate(e)
  <2> DEFINE fits == /\ h.task.message.base = doc[e].version
                     /\ h.available[h.task.message.template] # None
             m == [type |-> "applied", request |-> h.task.message.request,
                   result |-> IF fits THEN "completed" ELSE "failed"]
             g == [h EXCEPT !.task = None, !.applicationPending = FALSE]
  <2>1. /\ host' = [host EXCEPT ![e] = g]
        /\ toWeb' = [toWeb EXCEPT ![e] = Append(toWeb[e], m)]
        /\ UNCHANGED <<web, toHost>>
    BY <1>4 DEF ApplyTemplate, PostToWeb, Conducted
  <2>2. Replies(m, w)
    BY <1>1 DEF Asks, Replies, Answers, Results
  <2>3. /\ DOMAIN g = HostFields /\ g.queue = h.queue /\ g.task = None /\ g.job = None
        /\ ~g.managementPending /\ ~g.applicationPending
    BY <1>3 DEF HostFields
  <2> HIDE DEF g, m
  <2> QED BY <1>1, <1>2, <2>1, <2>2, <2>3, AnswerStep
<1>5. CASE \E result \in Results : CreateDocument(e, result)
  <2>1. PICK result \in Results : CreateDocument(e, result)
    BY <1>5
  <2> DEFINE m == [type |-> "created", request |-> h.task.message.request,
                   result |-> result]
             g == [h EXCEPT !.task = None]
  <2>2. /\ host' = [host EXCEPT ![e] = g]
        /\ toWeb' = [toWeb EXCEPT ![e] = Append(toWeb[e], m)]
        /\ UNCHANGED <<web, toHost>>
    BY <2>1 DEF CreateDocument, PostToWeb, Conducted
  <2>3. Replies(m, w)
    BY <1>1 DEF Asks, Replies, Answers
  <2>4. ~h.applicationPending
    BY <1>1, <1>2, <2>1 DEF Placed, CreateDocument, Doing, Asks
  <2>5. /\ DOMAIN g = HostFields /\ g.queue = h.queue /\ g.task = None /\ g.job = None
        /\ ~g.managementPending /\ ~g.applicationPending
    BY <1>3, <2>4 DEF HostFields
  <2> HIDE DEF g, m
  <2> QED BY <1>1, <1>2, <2>2, <2>3, <2>5, AnswerStep
<1> QED BY <1>4, <1>5

\* A change of the library has an end, and the panel is told.
LEMMA FinishedStep ==
    ASSUME Conducted, NEW e \in Sessions, Alive(e), host[e].job # None,
           NEW result \in Results, Finish(e, result), UNCHANGED <<web, toHost>>
    PROVE  Conducted'
<1> DEFINE w == web[e]
           h == host[e]
           left == IF result = "completed"
                   THEN [template |-> h.job.target, content |-> h.job.content] ELSE None
           m == Finished(h.job.message.request, result, left)
           g == Ended(h)
<1>1. Records(w, h, toHost[e], toWeb[e]) /\ Asks(h.job.message, w)
  BY PanelOf DEF Related
<1>2. Placed(w, h, toHost[e], toWeb[e], "job")
  BY PanelOf DEF Placed
<1>3. /\ host' = [host EXCEPT ![e] = g]
      /\ toWeb' = [toWeb EXCEPT ![e] = Append(toWeb[e], m)]
  BY DEF Finish, PostToWeb, Conducted
<1>4. Replies(m, w)
  BY <1>1 DEF Finished, Asks, Replies, Answers
<1>5. /\ DOMAIN g = HostFields /\ g.queue = h.queue /\ g.task = h.task /\ g.job = None
      /\ ~g.managementPending /\ ~g.applicationPending
  BY <1>1, <1>2 DEF Ended, Records, HostFields, Placed
<1> HIDE DEF g, m
<1> QED BY <1>2, <1>3, <1>4, <1>5, AnswerStep

\* A change of the library goes on.
LEMMA GoesOnStep ==
    ASSUME Conducted, NoneIsNoWork, NEW e \in Sessions, Alive(e), host[e].job # None,
           NEW job, DOMAIN job = JobFields, job.result \in Results,
           job.message = host[e].job.message,
           Go(e, job), UNCHANGED <<web, toHost>>
    PROVE  Conducted'
<1> DEFINE h == host[e]
           g == [h EXCEPT !.job = job]
<1>1. Panel(web[e], h, toHost[e], toWeb[e])
  BY DEF Conducted
<1>2. DOMAIN h = HostFields /\ job # None
  BY <1>1 DEF Panel, Records, NoneIsNoWork
<1>3. host' = [host EXCEPT ![e] = g] /\ UNCHANGED toWeb
  BY DEF Go, Conducted
<1>4. /\ DOMAIN g = HostFields /\ g.queue = h.queue /\ g.task = h.task /\ g.job = job
      /\ g.managementPending = h.managementPending
      /\ g.applicationPending = h.applicationPending
  BY <1>2 DEF HostFields
<1> HIDE DEF g
<1>5. h.task # None => DOMAIN h.task = TaskFields
  BY <1>1 DEF Panel, Related
<1>6. Panel(web[e], g, toHost[e], toWeb[e])
  BY <1>1, <1>2, <1>4, <1>5, SameWork
<1>7. /\ Moves(web, web', e, web[e]) /\ Moves(host, host', e, g)
      /\ Moves(toHost, toHost', e, toHost[e]) /\ Moves(toWeb, toWeb', e, toWeb[e])
  BY <1>3, Moved DEF Conducted
<1> QED BY <1>6, <1>7, PanelStep

\* Every step of a change of the library ends it or goes on with it.
LEMMA JobSteps ==
    ASSUME Conducted, NoneIsNoWork, NEW e \in Sessions,
           \/ Begin(e) \/ Flushed(e) \/ NotFlushed(e) \/ Snapshot(e)
           \/ Acquire(e) \/ Occupied(e) \/ FindStale(e) \/ Reclaim(e)
           \/ Check(e) \/ Change(e) \/ Release(e)
    PROVE  Conducted'
<1> DEFINE job == host[e].job
<1>1. Alive(e) /\ job # None /\ UNCHANGED <<web, toHost>>
  BY DEF Begin, Flushed, NotFlushed, Snapshot, Acquire, Occupied, FindStale, Reclaim,
         Check, Change, Release, At
<1>2. DOMAIN job = JobFields /\ job.result \in Results /\ job.message.type \in Management
  BY <1>1, PanelOf DEF Related
<1> DEFINE Kept(next) == /\ DOMAIN next = JobFields /\ next.result \in Results
                         /\ next.message = job.message
<1>3. \/ \E result \in Results : Finish(e, result)
      \/ \E next : Kept(next) /\ Go(e, next)
  <2>1. CASE Begin(e)
    BY <1>2, <2>1 DEF Begin, Results, JobFields, Management
  <2>2. CASE Flushed(e) \/ Snapshot(e) \/ FindStale(e)
    BY <1>2, <2>2 DEF Flushed, Snapshot, FindStale, JobFields
  <2>3. CASE NotFlushed(e) \/ Occupied(e)
    BY <2>3 DEF NotFlushed, Occupied, Results
  <2>4. CASE Acquire(e) \/ Reclaim(e)
    BY <1>2, <2>4 DEF Acquire, Reclaim, Results, JobFields
  <2>5. CASE Check(e) \/ Change(e)
    BY <1>2, <2>5 DEF Check, Change, Results, JobFields
  <2>6. CASE Release(e)
    BY <1>2, <2>6 DEF Release
  <2> QED BY <2>1, <2>2, <2>3, <2>4, <2>5, <2>6
<1> QED BY <1>1, <1>3, FinishedStep, GoesOnStep

\* A window dies with all its work.
LEMMA CrashStep ==
    ASSUME Conducted, NEW e \in Sessions, Crash(e)
    PROVE  Conducted'
<1> DEFINE h == [host[e] EXCEPT !.alive = FALSE, !.queue = <<>>, !.task = None, !.job = None]
<1>1. DOMAIN host[e] = HostFields
  BY PanelOf DEF Crash, Records
<1>2. ~h.alive
  BY <1>1 DEF HostFields
<1>3. /\ Moves(web, web', e, web[e]) /\ Moves(host, host', e, h)
      /\ Moves(toHost, toHost', e, <<>>) /\ Moves(toWeb, toWeb', e, <<>>)
  BY Moved DEF Crash, Conducted
<1> HIDE DEF h
<1> QED BY <1>2, <1>3, PanelStep

\* Every step keeps the invariant of the panel.
LEMMA NextConducted ==
    ASSUME NoneIsNoWork, Conducted, [Next]_vars
    PROVE  Conducted'
<1>1. CASE UNCHANGED vars
  BY <1>1, ApartStep DEF vars
<1>2. ASSUME NEW e \in Sessions, SessionStep(e) PROVE Conducted'
  BY <1>2, WebReceivesStep, AcknowledgedStep, NotAcknowledgedStep, HostReceivesStep,
     StartTaskStep, SendCatalogStep, ReadTemplateStep, TaskEndsStep, JobSteps DEF SessionStep
<1>3. ASSUME NEW e \in Sessions, Type(e) \/ Acknowledge(e) \/ OutsideEdit(e) \/ Adopt(e)
      PROVE  Conducted'
  BY <1>3, ApartStep DEF Type, Acknowledge, OutsideEdit, Adopt
<1>4. ASSUME NEW e \in Sessions, Refresh(e) PROVE Conducted'
  BY <1>4, RefreshStep
<1>5. ASSUME NEW e \in Sessions, NEW op \in Management \cup {"create", "apply"},
             NEW id \in Templates \cup {None}, StartAction(e, op, id)
      PROVE  Conducted'
  BY <1>5, StartStep DEF Actions
<1>6. ASSUME NEW e \in Sessions, Crash(e) PROVE Conducted'
  BY <1>6, CrashStep
<1>7. ASSUME NEW id \in Templates, OutsideChange(id) PROVE Conducted'
  BY <1>7, ApartStep DEF OutsideChange
<1> QED BY <1>1, <1>2, <1>3, <1>4, <1>5, <1>6, <1>7 DEF Next

\* Where the one action is decides what the host works on.
LEMMA ConductedAwaits == ASSUME Conducted PROVE PanelAwaitsWork
<1> SUFFICES ASSUME NEW e \in Sessions, Alive(e)
             PROVE  LET h == host[e]
                        work == HostWork(h)
                    IN  /\ \A message \in work : Awaited(web[e], message)
                        /\ h.managementPending <=> \E m \in work : m.type \in Management
                        /\ h.applicationPending <=> \E m \in work : m.type = "apply"
  BY DEF PanelAwaitsWork
<1> DEFINE w == web[e]
           h == host[e]
           Queued(m) == m \in In(h.queue) /\ m.type # "catalog"
           Tasked(m) == h.task # None /\ m = h.task.message /\ m.type # "catalog"
           Worked(m) == h.job # None /\ m = h.job.message
<1>1. Related(w, h, toHost[e], toWeb[e])
  BY PanelOf
<1>2. PICK place \in Places : Placed(w, h, toHost[e], toWeb[e], place)
  BY PanelOf
<1>3. \A m : m \in HostWork(h) <=> Queued(m) \/ Tasked(m) \/ Worked(m)
  BY DEF HostWork, In
<1>4. /\ \A m : Queued(m) => place = "queue" /\ Asks(m, w) /\ m.type \notin Management
      /\ \A m : Tasked(m) => place = "task" /\ Asks(m, w) /\ m.type \notin Management
      /\ \A m : Worked(m) => place = "job" /\ Asks(m, w) /\ m.type \in Management
  BY <1>1, <1>2 DEF Related, Placed, Holds, Clear
<1>5. /\ place = "queue" => \E m : Queued(m)
      /\ place = "task" => \E m : Tasked(m)
      /\ place = "job" => \E m : Worked(m)
  BY <1>2 DEF Placed, Holds, One, In
<1> HIDE DEF Queued, Tasked, Worked
<1>6. \A m \in HostWork(h) : Awaited(w, m)
  BY <1>2, <1>3, <1>4 DEF Placed, Awaited, Asks
<1>7. h.managementPending <=> \E m \in HostWork(h) : m.type \in Management
  BY <1>2, <1>3, <1>4, <1>5 DEF Placed
<1>8. h.applicationPending <=> \E m \in HostWork(h) : m.type = "apply"
  BY <1>2, <1>3, <1>4, <1>5 DEF Placed, Asks, Management
<1> QED BY <1>6, <1>7, <1>8

\* Whatever a host works on is what its webview waits for, and the pending flags of
\* the library and of the application are up exactly while it does, for any number
\* of sessions, templates and requests, whichever windows die and whatever other
\* programs write.  None only has to differ from every request, task and job.
THEOREM PanelAwaits == ASSUME NoneIsNoWork PROVE Spec => []PanelAwaitsWork
<1>1. Init => Conducted
  BY InitConducted
<1>2. Conducted /\ [Next]_vars => Conducted'
  BY NextConducted
<1>3. Conducted => PanelAwaitsWork
  BY ConductedAwaits
<1> QED BY <1>1, <1>2, <1>3, PTL DEF Spec

----------------------------------------------------------------------------
=============================================================================
