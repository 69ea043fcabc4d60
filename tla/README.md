# Structured Doc editor: a TLA+ model of what happens to a document

This directory specifies, model-checks and proves properties of the parts of
the Structured Doc editor in which a document can be lost, overwritten,
mislabelled or reported as saved when it is not: the path of a draft from the
editor to the file, the operations that write files or send text to a server,
the Book editor, the template library, the command line, and what the editor
derives from a document and draws over it.

## 1. The system

A `.sdoc` document is edited in a VS Code custom editor. The **webview** (React
and Tiptap) holds the text the user types. The **extension host** holds a
session per editor and applies the webview's edits to VS Code's **text
document**, which VS Code saves. Both directions between webview and host are
`postMessage` queues. Other editors, formatters and checkouts write the same
text document. The **command line** (`sdoc apply --write`) writes the file
itself, under a sibling lock file. A **Book** is a manifest that lists chapter
documents, with an editor of its own. **Personal templates** live in the home
directory and are shared by all windows. Text diagrams are **rendered** by an
external server, after consent.

| component | state | operations | modelled in |
|---|---|---|---|
| document sync coordinator (`shared/persistence/DocumentSyncCoordinator.ts`) | acknowledged revision and generation, local draft, edit in flight, pending draft, error, conflict, notice of an external change, component revisions, flush waiters | submit, acknowledge, reject, retry, observe and advance, keep mine, adopt, flush | `SyncOperations`, `DocumentSyncCoordinator`, `DraftRegister` |
| host session (`src/SdocEditorProvider.ts`, `src/utils/expectedDocumentChanges.ts`, `src/utils/documentTextEdit.ts`) | serial queue, edit being applied, write block, last local mutation, pending flushes, save generation | message handler, edit, recovery, adoption, `ready`, document change, will save, did save, flush | `EditorSession`, `SaveLifecycle` |
| canonical persistence cache (`src/utils/canonicalPersistenceSnapshot.ts`) | one stored text with its version and component revisions | adopt, resolve, invalidate | `CanonicalPersistence`, in `EditorSession` |
| webview session (`webview-ui/src/hooks/useEditorMessages.ts`, `shared/editor/hooks/useTiptapEditor.ts`) | editor content, debounce, submission tracker, access, notice, session revision | each host message, each decision of the user | `EditorSession`, `SaveLifecycle` |
| save status (`shared/editor/saveStatus.ts`) | save generation, revision, phase | create, mark dirty, observe, derive | `SaveLifecycle` |
| file operations and exports (`src/services/FileOperationPlanRegistry.ts`, `src/services/VsCodeExportService.ts`, `shared/editor/fileOperations.ts`, `shared/export/*Queue.ts`) | plans, the one claim, artifacts, import acknowledgements, the panel's operation and result | preflight, confirm, execute, cancel, commit, undo, close, from the panel or the Palette | `FileOperations` |
| diagram rendering (`src/services/KrokiDiagramService.ts`, `shared/editor/diagram/DiagramRenderCoordinator.ts`) | generation and timer of a preview, requests, slots, cache, consent, endpoint | set input, retry, render, answer, abort, consent, settings, test, export | `DiagramRendering` |
| Book editor (`src/SdocBookProvider.ts`, `shared/book/mutations.ts`, `shared/editor/bookWorkspace.ts`) | manifest, epoch and load, mutation queue, what the webview shows | load, show, add, move, remove, export | `BookEditor` |
| semantic document operations and reads (`shared/document/operations/`, `cli/src/coreAdapter.ts`), identity and numbering (`shared/document/nodeIdentity.ts`, `numbering.ts`) | a document, a request under way, a read cursor | the structural operations of `sdoc apply`, normalisation, paged reads | `DocumentOperations`, `DocumentReads` |
| templates (`src/services/VsCodeTemplateService.ts`, `shared/editor/templateSession.ts`, `shared/template/`) | the library and its lock, pending flags, the panel's catalog and action | catalog, create, apply, save, update, duplicate, delete | `PersonalTemplates` |
| command line write boundary (`cli/src/io.ts`, `cli/src/main.ts`) | lock file, owner metadata, quarantined locks, document | acquire, reclaim, verify ownership, replace, release | `WriteLock` |
| structure index and decorations (`shared/editor/structureIndex.ts`, `shared/editor/extensions/`) | index with its unapplied position maps, folded sections, heading numbers, highlighting, blank state, a rebuild timer | a transaction of the user, the host or a plugin; rebuild, refresh, label synchronization | `StructureIndex`, `EditorDecorations`, `EditorProjections` |
| Book composition, validation and migrations | none | pure functions | not modelled |
| assets, converters, internationalisation, user interface, registration | - | - | not modelled: input, output and layout |

How they interact. The coordinator calls the transport of the webview, which
posts `edit`; the host answers from its serial queue with `editAcknowledged` or
`editRejected`. A change of the text document that the host did not expect
makes it post `externalChange`, `externalInvalidDocument` or, when the text is
the one it last stored, `documentRevisionAdvanced`. A save, an export or a
template action posts `requestFlush`, which the webview answers with
`flushComplete` or `flushFailed` when the coordinator's barrier settles; the
host waits for it with a timeout. What an edit stores is put together from the
edit and the canonical cache. File operations, diagrams and templates add their
own requests and answers to the same two queues, and do their work outside the
serial queue.

What is hard: the host reads a document, awaits something, and reads it again;
three queues and a debounce run between a keystroke and its acknowledgement; a
notice is shown while newer messages are under way; a save goes on although its
flush failed; a lock is inspected and then moved in two steps; a dialog stays
open while everything it asks about changes; a batch of operations renames what
its later operations name. `PROJECT.json` lists these hazards with their lines.

## 2. Modules

| module | what it is |
|---|---|
| `SyncOperations` | the coordinator's methods as operators from state to state, and the named parts of its invariant |
| `DocumentSyncCoordinator` | the coordinator alone, its environment calling the methods in any order with any arguments of small sets |
| `DraftRegister` | the abstract specification of the coordinator: one numbered draft outstanding, confirmed only if it was sent |
| `FlushAnswers` | the answers a webview posts when a step of its coordinator settles flushes |
| `CanonicalPersistence` | the host's canonical cache and the text an edit is planned to store |
| `EditorSession` | webview, queues, host, text document and other writers, composed with `SyncOperations` and `CanonicalPersistence` |
| `SaveLifecycle` | save status, willSave and didSave, flush barrier and VS Code's save, composed with `SyncOperations` |
| `FileOperations` | panel, claim, plans, execution and undo of exports and imports, composed with `SyncOperations` through `FlushAnswers` |
| `DiagramRendering` | previews, render requests, slots, cache, consent, exports and connection tests |
| `BookEditor` | manifest, background loads, serialized mutations with their dialogs, exports |
| `Numbering` | the numbers of headings and tables, for documents and for the editor |
| `DocumentOperations` | requests of structural operations on a document, identities, links and numbers |
| `DocumentReads` | paged reads of such a document while requests and other programs change it |
| `PersonalTemplates` | the library, its lock, and several sessions that list and change it |
| `WriteLock` | processes of the command line on one lock file, one file operation a step |
| `EditorTransactions` | the editor's document, positions in it, transactions and their maps, completion of identities |
| `StructureIndex`, `EditorDecorations` | the state of each plugin and what a transaction makes of it |
| `EditorProjections` | the user, the host and the timers, dispatching transactions to all these plugins |
| `MC...` | the values and symmetries TLC explores |
| `SyncOperations_proofs` | lemmas about the coordinator's methods, about message queues, about the answers to flushes and about recursive functions, which four of the next use |
| `DocumentSyncCoordinator_proofs`, `EditorSession_proofs`, `SaveLifecycle_proofs`, `FileOperations_proofs`, `WriteLock_proofs`, `PersonalTemplates_proofs`, `BookEditor_proofs` | the invariants and theorems |

Correspondence. A field of a record has the name it has in the code's state
where there is one (`DocumentSyncState`, the webview's reducers); edits,
requests and flushes are numbered instead of having random identifiers; a
document is a record of content, metadata and settings whose values are model
values, so semantic equality is equality. An action is one turn of an event
loop: a message handler, a debounce, a button, or the part of an `async`
function between two awaits. `HandleEdit`, `ApplyEdit` and `Resume` are
therefore three actions, since other writers run between them; everything a
handler does in one turn, the answers of settled flushes included, is one
action. In `WriteLock` and for the lock of `PersonalTemplates` an action is one
file operation.

Abstractions and their reasons:

- The `modified` timestamp is not part of a mutation, and the diagnostics
  (counters, probes, latest save phase) are left out: no decision reads them.
- VS Code applies an edit only to the version it was planned for, or refuses it.
  It may also refuse a current one (`MaxRefusals`).
- An external text is never byte for byte the one an edit expects at that very
  moment, so every foreign change reaches `postExternalChange`.
- A session starts where `init` of a valid document has been handled. The `init`
  that answers a later `ready` is ignored by the webview, as in the code.
- Flush requests carry a number. The edit message's optional flush request is
  left out: no caller in the repository sets it.
- `EditorSession` edits content and metadata; settings, which travel like
  metadata, are distinguished in `DocumentSyncCoordinator`. In
  `CanonicalPersistence` an edit's metadata replaces the stored one (in the code
  it is merged over it, key by key, and the editor sends every key it knows);
  the cache of the modified token and minimal text edits, which do not change
  what is stored, are left out.
- `SaveLifecycle` has no other writer, and the debounce is part of `Submit`.
- `FileOperations`: one import and one kind of export stand for all; the
  renderers, the copies of artifacts on disk, durable result actions and the
  retry of a Book export are left out. An edit is applied in one step, since its
  protocol is the subject of `EditorSession`. `Hurried` says whether the Palette
  is used while a message of the panel is under way.
- `DiagramRendering`: address validation is one await that ends or is aborted;
  persisted render intents, Mermaid (rendered locally) and the disposal of a
  panel are left out. A decision about consent that cannot be stored, or reads back
  as another one, ends in `ConsentFails`.
- `BookEditor`: opening chapters, and the template and settings panels of a Book
  are left out. `Overlapping` says whether the manifest may change while an
  export reads a style sheet.
- `DocumentOperations`: headings, tables, paragraphs, callouts and rules stand
  for the node types; `updateDocumentMetadata`, unsafe links, assets, images,
  equations, endnotes, targets by digest, `headingStartNumber` other than 1 and
  the upgrade of old documents are left out. A heading may hold a link, whose
  label is part of the heading's text; what identity is made from such a text is
  the parameter `Slug`. An empty label leaves a link's text alone. Moving a section
  `after` a heading puts it between that heading and its body, as the code does.
- `DocumentReads` counts blocks where the code also counts bytes, and its
  budgets are those of one page.
- `PersonalTemplates`: a fingerprint is a content, a document is known by its
  version; a lock is taken over only when its window is dead (the code: five
  minutes old; a live window holds it for file operations only); workspace and
  built-in templates, opening the folder, dialogs, filters and selection are
  left out. `WindowOpen` says whether programs that take no lock may write
  between a check and the rename it guards. A request while another is pending
  is refused in the code; that this branch is never reached is `PanelAwaitsWork`.
- `WriteLock`: all processes on one host, each creating at most one lock file;
  the age of a lock is not counted; the temporary file and its rename are one
  step.
- `EditorProjections`: top-level blocks only, without lists, equations, figures
  or endnotes; a text is a sequence of tokens, and the number inside a label is
  one of them. What ProseMirror does (positions, step maps, the mapping of
  decorations, Enter and Backspace) is modelled from its use. A listener of the
  index runs in a microtask, so `Synchronize` comes before any other act.
  `Dispatch`, which applies a transaction to every plugin, is a step of its own
  after the one that made the transaction, and nothing comes between. Tiptap lets
  the extension listed last come first (its sources are not in the repository): so
  the heading numbers are made before the index knows the transaction
  (`IndexFirst = FALSE`), and are rebuilt from the document unless it is plain
  typing; and `PersistentNodeIds` completes identities before `BlockIdentity` does.
  Undo, and drafts on their way to the host, are left out. `FormatsLinks` and
  `LinksInHeadings` say whether part of a link is formatted and whether a
  heading can contain a link.
- `ledger`, `known`, `settled`, `observed`, `asked`, `owners` and
  `folded` are history: no
  guard reads them, except that `ledger` counts what a `Max...` bounds.

Operators named `X_Fault` with a comment "Seeded fault" are `X` with a plausible
bug. No specification uses them; substituting one for its operator makes the
property listed with it in `PROJECT.json` fail, which shows that the property
can.

## 3. Properties and runs

| run | states (about) | time | question |
|---|---|---|---|
| `coordinator` | 130,000 | 2 min | drafts, barriers, component revisions and refinement of the coordinator |
| `session_reload` | 280,000 | 20 s | keep mine and reload against other writers; what the canonical cache puts into an edit |
| `session_settles` | 330,000 | 3 min | invalid sources, repair and recovery, refusals, flushes, timeouts; liveness of drafts and flushes |
| `save` | 68,000 | 12 s | what the status promises about the disk, and that it settles |
| `lock` | 3,600 | 2 s | mutual exclusion and lost updates on the command line |
| `file_operations` | 1,400,000 | 1 min | cancellation, the claim, undo and closing of imports and exports |
| `diagrams` | 1,130,000 | 1 min | previews, slots, and consent to what is sent |
| `book` | 1,180,000 | 1 min | edits of a Book, what its webview shows, exports of one moment |
| `operations` | 143,000 | 2 min | requests of two operations, and paged reads |
| `templates` | 390,000 | 2 min | two windows on one library, with crashes and other programs |
| `projections` | 570,000 | 3 min | whether what the editor derives from a document, and its links, keep up with it |

Coordinator: `DraftTracked` and `NoForgottenDraft` say that an unconfirmed draft
is always somewhere, with the value the editor holds, and waits only for a
reason the user can see. `RegisterSpec` says that only the newest draft is sent
and only what was sent is confirmed (`SendsNewestDraft` is its first half, and
proved on its own).
`ComponentRevisionsIdentify` is the coordinator's side of the canonical cache:
the revision of a component determines its value. `BarriersHonest` is about
saves and exports: a barrier resolves only for a draft that is confirmed or
given up, and one that waits can still be settled.

Session: `NoForeignOverwrite` compares what an applied edit replaces with the
texts its author knew of (the text the draft was written on and the notices kept
against) and the text this editor's host itself last stored or adopted; a recovery
may replace only an invalid text. It takes an external write, a user decision and an
edit to violate. `NoSilentOverwrite` leaves out the host's own text, for edits that
change anything: that is what the documentation says, and is false (below).
`QuietMeansStored` says that when nothing is under way and nothing is reported,
editor, coordinator and document agree. `FlushMeansStored` and
`AcknowledgedWasStored` relate what the webview believes to what happened to the
document; the latter is also the host's side of the canonical cache, since an
edit counts as stored only if the text put together from edit and cache is the
draft. `DraftSettles` and `FlushAnswered` are liveness.

Save: `SavedHoldsTheBarrier` relates "Saved" to the file: whatever the webview
held when it was last asked to flush is in it. `FailedFlushNotSaved` is about
VS Code's late success, `StatusSettles` about a status that is busy for ever.

Lock: `Exclusive`, `NoLostUpdate` and `SomeoneCommits` (contention alone never
makes everyone give up).

File operations: `CancelledMeansUntouched` (what was reported cancelled left no
trace), `ClaimCoversEffects` (who writes or applies holds the single claim),
`PanelMatchesClaim` (panel and host agree once all is quiet), `UndoIsExact` (an
undo restores what the import replaced, unless the user typed on while the
import was confirmed: the checkpoint is the flushed text) and
`ClosedCommitsNothing`.

Diagrams: `PreviewsTruthful` relates every preview to its timer, the messages
under way and the host's requests; `SlotsAccounted` says that no slot is lost,
used twice, or free while a request waits; `SendsUnderConsent` says that
nothing is sent to a server unless, at that moment, a grant is stored or the last
decision the services heard of was one, however long the request waited.

Book: `EditsWhatWasShown` (an edit changes the manifest it was made on, dialogs
included), `QuietShowsTheBook` and `ExportsOneMoment` (chapters and manifest of
an export were there together).

Operations: `ReferencesFollow` (a link keeps its target through renames and
moves), `IdsUnique`, `LabelsCurrent` (a link says the number of its target
in a reference definition of the numbering, written over the whole document, and the
text its target had after the last operation; that is the text as written, unless the
target is a heading with a link that the same request relabels, see `LabelsExact` below),
`MovesLandWhereAsked` and `ReadsOneDocument`.

Templates: `ReplacesWhatWasSeen` (an update or a deletion hits the content its
user saw), `CatalogShowsOwnChange`, `PanelAwaitsWork` (what the host works on is
what the panel waits for; its pending flags are up exactly then) and
`ActionsEnd`.

Stated in the modules and true, but in no run's configuration, because another
property says most of it: `TypeOK` of every module, `CacheBounded`
(DiagramRendering), `WritesValidBooks` (BookEditor) and `RevisionNeverReturns`
(EditorSession). Proved as well (section 4): `TypeOK` of
`DocumentSyncCoordinator`, `EditorSession`, `SaveLifecycle`, `FileOperations`,
`WriteLock` and `BookEditor`, `RevisionsBehindDocument` (EditorSession), `StatusNeverRegresses`
(SaveLifecycle), `IncompleteLockExplained` (WriteLock) and `WithinLimit`
(PersonalTemplates).

Editor: `ProjectionsTruthful` compares the index, the folded sections, the
heading numbers, the highlighting and the blank state, which most transactions
only move along, with what a full pass over the document computes; an index that
waits for its rebuild still has every position right, and the heading numbers do
not wait for it. `QuietLinksCurrent` says
that when nothing is scheduled every internal link shows the label its target
has now. It takes an edit, the rebuild it schedules and the labels' own
transaction, which changes what the index was built from.

### Where the code and its documentation differ

`session_reload_race` is a run of the project: A becomes B, the user reloads B,
and before the host handles `externalChangeAdopted` the text becomes A again.
The host takes A for the editor's own text, drops the adoption and posts
`documentRevisionAdvanced`; the next edit overwrites A, which the user never saw
come back. The sentence and line it contradicts are under "findings" in
`PROJECT.json`. The reload is not essential. A user who only keeps and retries gets
there too, when a retried edit is applied while its notice is still on display: "keep
mine" puts another edit in flight, so the acknowledgement of the applied one is dropped;
then somebody else writes, and after another refusal restores the text that edit stored,
which the host reports without its text, and the next "Retry" overwrites it. TLC finds
this once two edits may be refused (`OtherTexts` in the table). What is left of the
documented promise is `NoForeignOverwrite`: a text that is lost unseen is the one this
editor's host itself last stored, or adopted for a reload or a `ready`, whoever put it
back. It is proved for every decision and every bound (`ForeignTextsSeen`, section 4).

The configurations below are kept to be run by hand (`tlc -config X.cfg M`); TLC
finds the property they name violated. Where the first column names constants,
it is the configuration of that run with these changes.

| configuration, module | property | what happens |
|---|---|---|
| `session_invalid_editable`, MCEditorSession | `InvalidMeansReadOnly` | a reload, or a rejection, handled after the source broke makes the webview editable while the host is write-blocked. Edits are refused, so nothing is lost, but the documented read-only state is left |
| `session_repair`, MCEditorSession | `RepairReopens` | a source repaired to the text last stored is reported as a new revision only, which does not make the webview editable; "Retry" does not either |
| `session_cache`, MCEditorSession | `AcknowledgedWasStored` | "Retry" in the read-only notice posts `ready`; if another writer repairs the source before the host handles it, the host loads its canonical cache from that repair at component revisions 0, while the webview, already initialised, ignores the `init`. "Keep mine" then sends a draft whose metadata revision is 0 too: the host stores the other writer's metadata with it, and acknowledges the draft |
| `session_reload_race`, with `ExternalTexts <- OtherTexts`, `Choices = {"keep", "retry"}`, `MaxVersion = 5`, `MaxGeneration = 6`, `MaxRefusals = 2`, MCEditorSession | `NoSilentOverwrite` | an edit is refused and retried while its notice is still shown, and its acknowledgement is dropped since "keep mine" put another edit in flight; what it stored, put back by another writer after a second refusal, is overwritten without a notice. 17,000,000 states, 8 minutes |
| `save_durable`, MCSaveLifecycle | `SavedIsDurable` | the saved event carries the live document's version, so an edit applied between the write and the event is shown as saved |
| `save_failure`, MCSaveLifecycle | `SaveFailureShown` | a write that fails in VS Code fires no event; the status stays at "saving" |
| `lock_lost_update`, MCWriteLock | `NoLostUpdate` | with a dead owner's lock and three live writers, a live owner's lock is moved aside between the recheck and the rename (`cli/src/io.ts:325`), and two writers replace the document (ADR 0009, line 158). With two writers the exclusion holds, but both may give up |
| `template_stale`, MCPersonalTemplates | `ReplacesWhatWasSeen` | a window dies holding `.mutation.lock`; two others find it stale, and the second renames the first one's new lock away (`VsCodeTemplateService.ts:641-648`). Both pass one fingerprint check and one change is lost; ADR 0008 says the lease exists so that this cannot happen |
| `templates`, `WindowOpen = TRUE`, MCPersonalTemplates | `ReplacesWhatWasSeen` | a program that takes no lock writes between the check and the rename |
| `book_stale_state`, MCBookEditor | `EditsWhatWasShown` | the version an edit is checked against is read after the style sheet is awaited (`SdocBookProvider.ts:373`), so a webview can hold an old manifest under a new version (CHANGELOG.md:202) |
| `diagrams`, `"book"` in `Exporters`, MCDiagramRendering | `SendsUnderConsent` | a Book export makes a render service of its own (`SdocBookProvider.ts:575`), which never hears of a revocation (ADR 0020, lines 42-44) |
| `file_operations`, `Hurried = TRUE`, MCFileOperations | `PanelMatchesClaim` | an export started from the Palette while the panel's `prepare` is under way: the panel shows one request, the host's claim belongs to the other (CHANGELOG.md:125) |
| `projections`, `FormatsLinks = TRUE`, MCEditorProjections | `QuietLinksCurrent` | part of a link is made bold, which splits it into two text nodes; the index lists two links and each is given the whole label, so the label appears twice |
| `operations`, with `LabelsExact` in place of `LabelsCurrent`, MCDocumentReads | `LabelsExact` | the label of a heading is made once, from its whole text (`numbering.ts:114-119`), before the texts of links are rewritten (`sdocUtils.ts:192-204`): where a heading holds a link, what refers to the heading keeps that link's old label until the next request |
| `projections_numbers`, MCEditorProjections | `NumbersCurrent` | with `IndexFirst = TRUE`, the order of a state assembled by hand and not of the shipped editor: deleting in a plain paragraph can make the index rebuild itself inside that transaction (`structureIndex.ts:401`), clean at once; the heading numbers are left alone by plain typing and stay behind until the next structural change |

With `LinksInHeadings = TRUE` in `projections.cfg`, `QuietLinksCurrent` fails
too: the labels' transaction changes a heading, and with it that heading's own
label, but schedules nothing.

Seen while modelling, without a property: the comparison of the document with
its baseline in "save as template" follows no await and is never true, so a text
another program put there between flush and read is saved as the template; the
error path of "apply template" makes the webview editable whatever its access;
deleting the section `intro` while a heading "Intro" has no identity gives that
heading the identity, and links to the deleted section point to it;
`RevisionNeverReturns` does not hold when a recovery is possible as well, since
a late `INVALID_DOCUMENT` rejection puts the previous notice back and "keep
mine" then rebases on its older revision (the host's revision check turns what
follows into a conflict).

### Bounds

Every bound is a CONSTANT named `Max...`. Three generations and two or three
edits are what a superseded draft, an edit in flight and a queued one need; two
flushes let one settle and one wait; document versions up to three let other
writers act twice, or once before and once after an edit; two texts besides the
start, or the broken one, separate "the same text again" from "another text"; one
refusal, timeout or failure lets each happen before and after anything else;
two saves let the answers of the first meet the second. In `coordinator` only
the content takes two values (metadata and settings are submitted but constant),
which is why the same facts are also proved. In
`session_reload` content and metadata are edited, by the user and by others.
`lock` starts without a stale lock and one process may die, so at most two
processes ever contend for a dead owner's lock. `MaxBacklog` keeps a user from
pressing "Retry" or "Recover" faster than one message at a time.

`file_operations` has two operations, since every race here is of one operation
with the next, with a cancellation or with the closing; one foreign write, one
typed text and one failure, each at any moment. `diagrams` has one slot for two
previews and an export, so that requests do wait, a cache of one, so that it
evicts, two endpoints, and two events besides two edits. `book` has two clicks,
one foreign write, one export, at most three of these together, and a path with
two spellings. `operations` has requests of two operations, on a document of two
chapters with a nested table, a link, a broken link and a heading without an
identity: one operation can disturb what the other names, and no third is needed
for that. Another program may put a document there in which a paragraph refers to
a heading that itself refers to another, and a heading may lose its text.
`templates` has two windows and room for two templates; two actions, one refresh,
one edit, one outside change and one crash, at most three of these together.

`projections` has three acts of the user or the host on two documents of three
blocks (a heading, a link to it and text; a heading, code and text): one act
changes something, one meets it before the rebuild, one after. Blocks are of at
most three typed tokens, at most one unapplied map is kept (the code: 32), so that compaction
happens, and there is an identity for every block.

Deadlock is not an error in these runs: a user may do nothing more, and the
writers end. Symmetry over contents, metadata, writers, previews and endpoints
is used in runs without liveness only.

### Fairness

`FairSpec` of `EditorSession`: timers fire (`Debounce`), posted messages are
delivered in order (`Hear`, `Arrive`), the serial queue runs its next task
(`Handle`, which `RecoverableSerialQueue` does after a failed task too), and
`applyEdit` settles and its task resumes (`ApplyEdit`, `Resume`). Nothing is
assumed of the user, of other writers or of the flush timeout. `PersistentSpec`
adds a user who goes on pressing "Retry" in the read-only notice.
`FairSpec` of `SaveLifecycle` adds that a save whose participants are done is
written and ends, one way or the other. `FairSpec` of `PersonalTemplates`:
messages are delivered, promises settle, dialogs are answered, and an edit is
acknowledged or refused; nothing is assumed of crashes or of other programs.

## 4. Proofs

About `DocumentSyncCoordinator`, for every set of contents, metadata, settings
and codes and every bound, under `NullAssumption`, `IdentityAssumption`,
`BoundsAssumption` and `HostAssumption`, TLAPS proves

| theorem | states |
|---|---|
| `Invariant` | `Spec => []Inv` |
| `TypeCorrect` | `Spec => []TypeOK` |
| `DraftNeverLost` | `Spec => []DraftTracked` |
| `DraftNeverForgotten` | `Spec => []NoForgottenDraft` |
| `BarriersAreHonest` | `Spec => []BarriersHonest` |
| `NewestDraftSent` | `Spec => SendsNewestDraft` |
| `Refinement` | `Spec => RegisterSpec` |
| `RevisionsIdentify` | `Spec => []ComponentRevisionsIdentify` |

None of these properties is inductive. `DraftTracked`, for instance, needs to
know that an edit in flight or queued carries a generation no newer than the
editor's, and that the queued one is the newest; `BarriersHonest` needs that a
waiter's generation is unconfirmed and that an error leaves no waiter. `Inv`
therefore joins the type, `Sound(sync)` and the tie between waiters and barriers.
`Sound` is a conjunction of named parts: `Numbered` (how generations and edits
are ordered), `Held` (where the draft is), `WaitersOpen` (who may wait) and
`Awake` (nothing is left undispatched).

The argument has two levels. `SyncOperations_proofs` has one lemma a method:
from a sound state it leads to a sound one, and it `Advances` (generations do
not fall, and what is sent is the newest draft). Methods that end in
`dispatchNext` pass through states that are `Consistent` but not `Awake`;
`DispatchSound` closes them. `DocumentSyncCoordinator_proofs` lifts these to the
actions (`StepGood` for methods, `BarrierGood` for the actions that also open a
barrier), proves `Init => Inv` and one case per action of `Next`, and reads the
theorems off `Inv` and `NextGood`. The last one rests on `Inv` too:
`ComponentRevisionsIdentify` compares the request in flight with an
arbitrary earlier one, so its strengthening, `Identifying`, says of both that they
are `Past`: none of their revisions exceeds the current one, and where it is equal
the value is too. It survives because every method `Keeps` two rules: a component
keeps its revision only with its value and no revision goes back (`Follows`), and
a request in flight stays, ends, or is what the editor holds (`Travels`).

About `PersonalTemplates`, for any number of sessions and templates and every
bound, under `TemplatesAssumption` and `Undisturbed` (no window dies, programs
that take no lock keep out of the moment between a check and the rename it
guards, and `None` is no session):

| theorem | states |
|---|---|
| `ChecksStand` | `Spec => []Guarded` |
| `SeenIsReplaced` | `Spec => ReplacesWhatWasSeen` |
| `LimitHolds` | `Spec => []WithinLimit`, if the library starts within the limit |
| `PanelAwaits` | `Spec => []PanelAwaitsWork`, from `NoneIsNoWork` alone |

`Guarded` is the inductive invariant: every job past the point where it took
`.mutation.lock` owns the lock (`JobGood`), one that is past its check still
sees in the library what it checked, and one that was admitted still finds room
(`Fits`). It holds because the lock serialises jobs, so that between the check
and the change of one no other changes the library. Both assumptions are needed:
`template_stale` and `WindowOpen = TRUE` show what happens without them.

`PanelAwaits` needs no such condition: windows may die and other programs may write
at any moment. `NoneIsNoWork` only says that `None` is not itself a request, a task
or a job. `PanelAwaitsWork` looks at the host and is not inductive, since what
arrives at the host was sent earlier and what the panel waits for ends with a message
still on its way. `Conducted` follows the action in between: all that is under way is
either about the catalog or belongs to the one action the webview waits for
(`Related`), and that action is at exactly one of seven places, from the message to
the host over queue, task and job to the answer, each with the flags that go with it
(`Placed`). TLC checked `Conducted` on the bounds of `templates` before it was proved.

About `EditorSession`, the coordinator in its environment of webview, queues,
host, text document and other writers, for any texts, decisions and bounds,
under `NullAssumption` and `SessionAssumption`:

| theorem | states |
|---|---|
| `TypeCorrect` | `Spec => []TypeOK` |
| `RevisionsBehind` | `Spec => []RevisionsBehindDocument` |
| `AcknowledgedStored` | `Spec => []AcknowledgedWasStored`, if `Untouched` |
| `FlushStored` | `Spec => []FlushMeansStored`, if `Untouched` |
| `QuietStored` | `Spec => []QuietMeansStored`, if `Persevering` |
| `ForeignTextsSeen` | `Spec => NoForeignOverwrite` |

`Untouched` says that the user takes neither decision about an invalid source,
"Retry" in the read-only notice and "Recover from my draft"; invalid sources
themselves may come and go. It is needed: after a retried validation
`session_cache` reaches an acknowledged draft that was never stored, and a
recovery stores a draft without an edit. With the two decisions
`FlushMeansStored` is what `session_settles` checks, within its bounds only.

`Persevering` says that the user keeps a draft against a notice and retries a
failed edit, but neither reloads nor takes one of those two decisions; refusals,
flushes, timeouts and other writers are as they like. A reload must be excluded: if
another writer puts the editor's old text back before the host hears of it,
everything ends quiet with the reloaded text in the editor and the old one in the
document, the race `session_reload_race` shows for overwrites. For the other two
decisions TLC finds no violation in `session_settles`, and they are not part of the
theorem.

There are four inductive invariants. `Typed` joins the types, `Sound(sync)` and
`Recent`: neither the webview nor a message to it knows a revision that is newer
than the document. Its step rests on `Within` and `Learns` of
`SyncOperations_proofs` (a method takes revisions only from its arguments).
`Stored` adds what lies between an acknowledgement and the text it is about:
`Numbers` (an answer can only be taken for that of the request it answers),
`Truth` (an acknowledgement on its way is of a draft in the ledger), `Whole` (what is
being applied is the edit's draft), and for flushes `Awaited`, `Honest` and
`Asking` (a flush is asked for once, waits for the generation the editor had
then, and is called complete only when that is settled). That edit and cache
together are the draft is `PersistedWhole`. It needs `Pasts`: every request under
way, and what the cache holds, is of the past of the one editor (`Earlier`), and
any two of them that carry one revision of a component carry one value (`Agree`).
`Keeps`, the rule of the coordinator behind `RevisionsIdentify`, is what
preserves it, hence reusing a cached component at an equal revision reuses the
value of the draft. The steps are proved by kind: a turn of the webview
(`TurnStored`, given that it is `Sincere`, that is, opens no barrier but for the
flush it heard of and confirms only what is settled), a step of the host
(`HostStored`) and an answer of it (`AnswerStored`, given that it is `Fair`).

`Settled` adds what leads to agreement once all messages are answered.
`QuietMeansStored` looks only at states where nothing is under way, so the
invariant has to say of every message on its way what it will do. As long as no
broken source is known or announced to the webview (`Sane`, which under
`Persevering` never comes back once it is lost) the session is `Orderly`:
- edits and their answers form one line, from the webview over the queue and the
  running task back to the webview, in the order of their numbers, and the
  request in flight is its last (`Lined`, `Newest`);
- revisions reach the webview in order, none before what it acknowledged or shows
  (`Ordered`), and none is told before the host reports the edit VS Code applied
  (`Secret`);
- of the document's version the webview knows, or will hear, or its request in
  flight is written on an older version and will be rejected (`Informed`);
- where the document is not what the host last stored, the webview learns so, or has
  an error or an unconfirmed request (`Noticed`, with `Quoted`); and what the host
  last stored is the editor's draft once all is answered (`Matched`);
- the editor shows the coordinator's draft unless something is typed, and a notice
  is on display (`Shows`); errors keep their draft (`Waits`); a task writes on the
  version its edit was written on, in a host that is not blocked (`Writes`).

TLC checked `Settled` within the bounds of `session_settles`, without the two
decisions, before it was proved. The proof goes by what a step does to the line:
a turn that only submits and sends (`ProceedingOrderly`), one that takes a revision
(`AdvancingOrderly`), one that takes the answer (`AnsweredFacts`), a step of the
host that only moves a message (`MovedOrderly`) and one that answers an edit
(`AnsweredOrderly`); an acknowledgement, a rejection and another writer's text have
a proof each.

`Heeded` is about what an edit may replace, and needs no condition on the decisions:
- a draft based on the document's version accounts for its text, unless that is the
  host's own last one, and every notice of that version, on display or held by the
  coordinator, shows its text (`Aware`, `Exact`); so does every edit on its way
  (`Based`);
- what the host says of the document's version is so: an acknowledgement, a new
  revision without a change, or a recovery means that the document is what the host
  last stored, an external change or a rejection carries its text (`Faithful`);
- a task writes on the version it was planned on, which for an edit is the one it was
  written on and for a recovery an invalid one (`Planned`), and the host refuses to
  write only while the source is invalid, or a recovery it has not reported yet
  repaired it (`Barred`).

A version is written once, so what is known of an older one stays true and what
is said of the current one is all that has to be kept. `Seen` is where the host's own
text comes in: `documentRevisionAdvanced` tells the webview of a version without its
text. A turn of the webview keeps the invariant if its draft accounts for the version
it is based on afterwards (`TurnHeeded`); a step of the host, if the document stays and
its own text becomes the document's at most (`MovedHeeded`), or if the version is new
and nobody has heard of it (`WrittenHeeded`). TLC checked `Heeded` before it was proved,
with all five decisions, on bounds like those of the two session runs.

About `SaveLifecycle`, for any number of drafts, saves, refusals, timeouts and
failing writes, under `NullAssumption` and `StartAssumption` alone:

| theorem | states |
|---|---|
| `TypeCorrect` | `Spec => []TypeOK` |
| `FailedNotSaved` | `Spec => []FailedFlushNotSaved` |
| `SavedHolds` | `Spec => []SavedHoldsTheBarrier` |
| `NeverRegresses` | `Spec => StatusNeverRegresses` |

Three inductive invariants build on one another. `Typed` holds `OneEdit`: at any
time no edit is under way, or it is posted, or queued, or answered, and in each
of the four cases it is known what the buffer holds; the coordinator dispatches
only when nothing is in flight (the `...Patient` lemmas). `Saves` orders the
messages about saves on their way to the webview: by save, and within one
"saving" before the flush request before "failed" before "saved" (`Rank`). So a
failed flush is shown, or was, or its report comes before that of VS Code's
success (`Rejected`), and the first terminal report of a save is the one that
stays. `Barrier` follows the draft a flush was for (`asked`): from the waiter to
the answer, to the resolved flush, to the draft VS Code writes, to the file
(`Covered`), for the last flush the webview has heard of. `Unheard` and
`Announced` say why a save shown as saved is that one: who hears of a flush has
heard of its save, and the flushes not heard of belong to later saves.

About `FileOperations`, for any number of requests, typed texts, foreign writes
and failures, an attentive user or a hurried one, under `OperationAssumption`,
`NoPlanAssumption` and `NullAssumption`:

| theorem | states |
|---|---|
| `TypeCorrect` | `Spec => []TypeOK` |
| `CancellationHolds` | `Spec => []CancelledMeansUntouched` |
| `ClaimHeld` | `Spec => []ClaimCoversEffects` |
| `ClosedIsFinal` | `Spec => ClosedCommitsNothing` |
| `NeverRunsTwice` | a confirmation is alone, and its plan does not run yet |

The inductive invariant has two parts. `Wellformed` is the type of every variable
and of every message in both queues, with `Sound(sync)`. `Inv` says three things
of each request. `Guarded` ties its task to the claim, to what was reported and
to what happened: a plan is where its task's step says (`Shaped`), a request that
was reported cancelled can only end (`Halted`: it looks at its AbortController
before it goes on), the claim is held exactly by the request that is busy and not
cancelled, and an effect, or a body on its way to the webview, belongs to a
request that was not cancelled. `Orderly` says that a request begins once: its
message is the only one of its number, and before it arrives nothing is known of
the request. `ConfirmedOnce` says that of the offer of a plan, the panel that waits for
the user, and the confirmation there is at most one. Without it nothing excludes
a second `fileOperationExecute`, which would take a running plan back to its
start, and with it past the point where a cancellation can stop it. The steps
are proved by kind: a turn of the webview posts answers, reports and at most one
request (`Turned`), an arriving message moves one task (`Handled`), a task
proceeds (`Proceeds`), and every other request is `Kept`. A rejected import puts
its checkpoint back by a recursive function over the checkpoints; that each of
them leaves the coordinator sound is an induction, made with the least number of a
set (`LeastNumber`, `RecursiveFunction`) where the induction theorems of the
library cannot be instantiated.

About `WriteLock`, for any number of processes, crashes and failing file
operations, under `LockAssumption`:

| theorem | states |
|---|---|
| `TypeCorrect` | `Spec => []TypeOK` |
| `LockExplained` | `Spec => []IncompleteLockExplained` |
| `WritersExclude` | `Spec => []Exclusive`, if `FewContenders` |
| `NoUpdateLost` | `Spec => NoLostUpdate`, if `FewContenders` |
| `SomebodyCommits` | `Spec => []SomeoneCommits`, if no lock is stale at the start |

`FewContenders`: nobody is dead, before or later; or there are at most two
writers; or at most three, with no stale lock at the start, so that the first
owner to die leaves two. One contender more is too many: `lock_lost_update` has
a stale lock and three live writers, and loses an update. The inductive
invariant `Locked` says that beside a holder nobody alive holds, and that its lock
is at its path, or in the hands of the one process that moved it aside and is
about to find that it is not the one it judged (`Alone`); that a lock is moved
only when its judged owner is dead (`Judged`), which at most two live processes
can be doing (`Paired`) and none without a dead owner (`Calm`); that locks past
the writing of their metadata are `Complete`, so that nobody takes over the lock
of the living; and that what was reread under the lock stays so until the rename
(`Current`). `SomebodyCommits` has an invariant of its own, `UnderWay`: until the
first commit the owner of the lock is on its way to it, and all others wait or
have given up.

About `BookEditor`, for any chapters (and spellings of one chapter), manifests
that others write and bounds, under `BookAssumption` and `NoneAssumption` (the value
for "none" is no load and no state):

| theorem | states |
|---|---|
| `TypeCorrect` | `Spec => []TypeOK` |
| `EditsNamedRevision` | an edit changes the manifest only in the revision it names |
| `EditsSeen` | `Spec => EditsWhatWasShown`, if `~Overlapping` |
| `ExportsCoherent` | `Spec => []ExportsOneMoment` |
| `QuietBookShown` | `Spec => []QuietShowsTheBook`, if `~Overlapping` |

`EditsNamedRevision` is what the serial queue, the check that is repeated after a
dialog, and VS Code's own version check achieve whatever else happens
(`OnRevision`). `EditsSeen` says more: in that revision the manifest was the one
the user saw. Its invariant `Faithful` says that whatever carries a revision
carries the manifest of that revision (`Same`): what the host shows
(`HostFaithful`), what the webview shows and posts (`ViewFaithful`), the edits
that wait (`EditsFaithful`). It rests on `LoadsFaithful`: a change of the manifest
ends the load that has read it. A load whose style sheet is being read is not
ended, hence the condition; `book_stale_state` shows that it is needed.

`ExportsCoherent` needs no condition, since the verification reads everything
again. Its invariant `Moments` says why that is enough: chapters are only written
forward, so a Book whose parts were read at different moments lists a chapter
that was written after it was read (`Torn`), and shows that from the moment it is
composed on (`Dated`). As long as such a plan is being verified, that chapter is
among those still to be compared (`Exporting`), so it is never written.

`QuietBookShown` is about the order of generations. Loads whose style sheets are
read overtake each other, so states reach the webview out of order, and it takes
only newer ones. The invariant `Settles` says why it never keeps an old one: a state
of an earlier manifest is older than every state of this one that the host shows,
that is under way or that the webview shows, and older than the loads that go on
(`Ordered`); a timer or a load is under way unless the host shows the manifest as
it is (`Working`); and what a host that heard `ready` shows was posted, so that a
state of this manifest has reached the webview or will (`Delivered`). `Heard` follows
an edit from the click through both queues to its answer (`Asked`), and the `ready`
message to the host. With `Faithful`, a state of this revision shows this manifest.
With `Overlapping` the property fails as `EditsWhatWasShown` does: a load that read its
style sheet meanwhile shows the manifest before the change as if it were current.

Model-checked only. `SlotsAccounted` of `DiagramRendering` is written with
`SelectSeq` and folds, whose values the provers do not compute for sequences of
any length. `PanelMatchesClaim` of `FileOperations` is about
an unhurried user and needs the order of all statuses on their way, and
`UndoIsExact` the whole path of a draft, as `EditorSession` has it. Nothing is
proved about the modules without a `..._proofs`, nor `CatalogShowsOwnChange` of
`PersonalTemplates`, which holds only while identities are never used again. All
liveness is beyond the proof system's reach, together with ENABLED and induction
over recursive definitions.

## 5. Not modelled, and the plan

Not modelled: the composition of a Book, validation and migration of documents,
converters, and the resolution of settings are pure functions over whole
documents, without a state that a run could explore; assets and drawio updates
copy files; internationalisation, components, style sheets and registration are
input, output and layout. They are most of the repository's lines, so the share
of lines that "map" in `PROJECT.json` names is about 17 %, and the larger part of
`useEditorMessages.ts` and of the two providers is among them.

Next, in this order:

1. The composition of a Book as an abstract specification of its export.
2. One composition of session and save status with external writers (the dirty
   flag after a reload), and of `FileOperations` with conflicts.
3. The editor's undo and nested blocks in `EditorTransactions`.

Proofs to add, in this order: `WritesValidBooks` of `BookEditor`;
`CatalogShowsOwnChange` of `PersonalTemplates`; `SendsUnderConsent` of
`DiagramRendering`; `QuietMeansStored` with the two decisions about an invalid source.
