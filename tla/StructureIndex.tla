--------------------------- MODULE StructureIndex ---------------------------
\* The structure index of the editor (shared/editor/structureIndex.ts): numbered
\* blocks and internal links of the document, with their positions. While the
\* user types in plain paragraphs only the maps of the steps are collected; what
\* changes the structure marks the index dirty, to be rebuilt after a pause.
EXTENDS EditorTransactions

LOCAL INSTANCE SequencesExt

CONSTANT MaxMaps   \* STRUCTURE_INDEX_MAX_PENDING_POSITION_MAPS (32)

\* The text a reference to a block shows: tokens, one of them its number.
ReferenceLabel(block, number) ==
    IF block.type = "heading"
    THEN (IF number = <<>> THEN <<>> ELSE <<<<"section", number>>>>) \o TextOf(block)
    ELSE <<<<"table", number>>>>

LinksOf(doc, i) ==
    LET Link(k) ==
            LET from == Before(doc, i) + 1 + Offset(doc[i], k)
            IN  [target |-> doc[i].runs[k].link, from |-> from,
                 to |-> from + Len(doc[i].runs[k].text)]
        IsLink(link) == link.target # None
    IN  SelectSeq([k \in DOMAIN doc[i].runs |-> Link(k)], IsLink)

\* buildDocumentStructureIndex
Build(doc, policy) ==
    LET numbers == Numbers(doc, policy)
        Entry(i) == [type |-> doc[i].type, id |-> doc[i].id, pos |-> Before(doc, i),
                     number |-> numbers[i], label |-> ReferenceLabel(doc[i], numbers[i])]
    IN  [entries |-> SelectSeq([i \in DOMAIN doc |-> Entry(i)], Referenceable),
         links |-> FlattenSeq([i \in DOMAIN doc |-> LinksOf(doc, i)])]

\* mapStructureIndex: positions carried through the maps, unless one is gone.
Gone(index, maps) ==
    LET Lost(pos, right) == MapResult(maps, pos, right).deleted
    IN  \/ \E entry \in ToSet(index.entries) : Lost(entry.pos, TRUE)
        \/ \E link \in ToSet(index.links) :
             \/ Lost(link.from, TRUE) \/ Lost(link.to, FALSE)
             \/ MapResult(maps, link.from, TRUE).pos > MapResult(maps, link.to, FALSE).pos

Projected(index, maps) ==
    LET MovedEntry(entry) == [entry EXCEPT !.pos = MapResult(maps, @, TRUE).pos]
        MovedLink(link) == [link EXCEPT !.from = MapResult(maps, @, TRUE).pos,
                                        !.to = MapResult(maps, @, FALSE).pos]
    IN  [entries |-> [n \in DOMAIN index.entries |-> MovedEntry(index.entries[n])],
         links |-> [n \in DOMAIN index.links |-> MovedLink(index.links[n])]]

\* mapStructureIndex, or a pass over the document where it fails.
ProjectedOr(index, maps, doc, policy) ==
    IF Gone(index, maps) THEN Build(doc, policy) ELSE Projected(index, maps)

Listed(index) == [entries |-> index.entries, links |-> index.links]

\* materializeStructureIndexState
Materialized_Raw(index, doc) ==   \* Seeded fault: the collected maps are forgotten.
    Listed(index)

Materialized(index, doc) ==
    IF index.maps = <<>> THEN Listed(index)
    ELSE ProjectedOr(Listed(index), index.maps, doc, index.pending)

IndexState(listed, dirty, policy, pending) ==
    [entries |-> listed.entries, links |-> listed.links, dirty |-> dirty,
     policy |-> policy, pending |-> pending, maps |-> <<>>]

FirstIndex(doc, policy) == IndexState(Build(doc, policy), FALSE, policy, policy)

\* What a transaction makes of the index, and whether it advanced the semantic
\* revision (listeners are told) and the invalidation revision (the rebuild is
\* put off).
Outcome(index, semantic, invalidated) ==
    [index |-> index, semantic |-> semantic, invalidated |-> invalidated]

Rebuilt(previous, tr) ==
    Outcome(FirstIndex(tr.doc, previous.pending), TRUE, FALSE)

Collected(previous, tr, policy) ==
    LET maps == previous.maps \o tr.maps
    IN  IF tr.maps[1].old = 0 /\ Len(maps) <= MaxMaps
        THEN Outcome([previous EXCEPT !.maps = maps, !.pending = policy], FALSE, FALSE)
        ELSE IF ~Gone(Listed(previous), maps)
        THEN Outcome(IndexState(Projected(Listed(previous), maps), previous.dirty, previous.policy, policy), FALSE, FALSE)
        ELSE Outcome(FirstIndex(tr.doc, policy), TRUE, FALSE)

Carried(previous, tr, policy, invalidated) ==
    LET Current(listed) ==
            IF DocChanged(tr) THEN ProjectedOr(listed, tr.maps, tr.doc, policy) ELSE listed
    IN  Outcome(IndexState(Current(Materialized(previous, tr.before)),
                           previous.dirty \/ invalidated, previous.policy, policy),
                FALSE, invalidated)

Invalidates_NotSettings(previous, tr, policy) ==   \* Seeded fault: only the document counts.
    DocChanged(tr) /\ tr.meta # "sync" /\ ~IsPlainText(tr)

Invalidates(previous, tr, policy) ==
    \/ tr.meta = "refresh"
    \/ policy # previous.policy
    \/ DocChanged(tr) /\ tr.meta # "sync" /\ ~IsPlainText(tr)

\* The plugin's apply, under the settings of the moment.
Advanced(previous, tr, policy, invalidated) ==
    CASE ~invalidated /\ ~DocChanged(tr) -> Outcome(previous, FALSE, FALSE)
      [] ~invalidated /\ DocChanged(tr) /\ IsPlainText(tr) -> Collected(previous, tr, policy)
      [] OTHER -> Carried(previous, tr, policy, invalidated)

NextIndex(previous, tr, policy) ==
    IF tr.meta = "rebuild" THEN Rebuilt(previous, tr)
    ELSE Advanced(previous, tr, policy, Invalidates(previous, tr, policy))

\* resolveStructurePosition
PositionsOf(index, doc, id) ==
    LET listed == Materialized(index, doc)
    IN  {listed.entries[n].pos : n \in {m \in DOMAIN listed.entries : listed.entries[m].id = id}}
=============================================================================
