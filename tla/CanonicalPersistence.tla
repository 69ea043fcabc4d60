------------------------ MODULE CanonicalPersistence ------------------------
(***************************************************************************)
(* The host's canonical cache (utils/canonicalPersistenceSnapshot.ts) and  *)
(* what updateDocument stores with it: components an edit reports as       *)
(* unchanged are taken from the cache, not from the edit.  One cache       *)
(* belongs to one session and document, so its authority always matches.   *)
(***************************************************************************)
EXTENDS SyncOperations

Caches == [revision   : Nat,                   \* document version it was made at
           components : [Components -> Nat],   \* the webview's revisions then
           text       : Mutations,
           normalized : BOOLEAN]               \* the content may be reused too

\* adopt, after an edit was stored.
CacheOf(version, request, text) ==
    [revision |-> version, components |-> request.componentRevisions,
     text |-> text, normalized |-> TRUE]

\* adopt, where the host loads the document for a new webview.
LoadedCache(version, text) ==
    [revision |-> version, components |-> [c \in Components |-> 0],
     text |-> text, normalized |-> FALSE]

\* resolve: nothing is reused for another version, for an edit older than the
\* cache in some component, or for one that changes nothing.
Resolves(cache, version, request) ==
    /\ cache # Null
    /\ cache.revision = version
    /\ \A c \in Components : request.componentRevisions[c] >= cache.components[c]
    /\ \E c \in Components : request.componentRevisions[c] > cache.components[c]

\* Seeded fault: a component counts as unchanged unless the edit is older.
Reused_NotOlder(cache, request) ==
    {c \in Components : request.componentRevisions[c] >= cache.components[c]}

\* Content was normalized under the settings of its time.
Reused(cache, request) ==
    {c \in Components :
        /\ request.componentRevisions[c] = cache.components[c]
        /\ c = "content" =>
              /\ cache.normalized
              /\ request.componentRevisions["settings"] = cache.components["settings"]}

\* updateDocumentCore: the text an edit is planned to store.
Persisted(cache, version, request) ==
    [c \in Components |->
        IF Resolves(cache, version, request) /\ c \in Reused(cache, request)
        THEN cache.text[c] ELSE request.mutation[c]]
=============================================================================
