--------------------------- MODULE SourceMapCache ---------------------------
(***************************************************************************)
(* The ingester's source map cache (otlp-ingester/src/symbolicate.ts): the *)
(* least-recently-used store of parsed maps, the separate store of their   *)
(* source contents, the fetches in flight, and the stacks that share them. *)
(* A stack asks for the map of each of its frames and reads source         *)
(* contents later, by when maps may have expired, been evicted or been     *)
(* uploaded again.                                                         *)
(*                                                                         *)
(* A map is named by its key.  Its data is the upload it was parsed from   *)
(* (a version number) and two weights; positions, names and scopes are     *)
(* left out: no state depends on them.                                     *)
(***************************************************************************)
EXTENDS Naturals, Sequences, FiniteSets, SequencesExt, Functions

CONSTANTS
    MapKey,         \* the keys (keyOf) stacks ask for
    MapStack,       \* the stacks being symbolicated, each asking for one map
    MapBytes,       \* [version -> Nat]: estimated heap of a parsed map
    SourceBytes,    \* [version -> Nat]: weight of its one source content, 0: none
    MaxMapBytes,    \* SOURCE_MAP_CACHE_MB
    MaxSourceBytes, \* maxContentBytes
    MaxMaps,        \* maxEntries
    FoundTTL, MissingTTL, ErrorTTL,
    MaxUploads,     \* bound: uploads of a key's map
    MaxParses,      \* bound: maps parsed and kept
    MaxMapTime,     \* bound: clock ticks
    NoMap           \* null: no map for this key

ASSUME MapBudgets == /\ MapBytes \in [1 .. MaxUploads -> Nat]
                     /\ SourceBytes \in [1 .. MaxUploads -> Nat]
                     /\ MaxMapBytes \in Nat /\ MaxSourceBytes \in Nat
                     /\ MaxMaps \in Nat \ {0} /\ MaxUploads \in Nat /\ MaxMapTime \in Nat
                     /\ FoundTTL \in Nat /\ MissingTTL \in Nat /\ ErrorTTL \in Nat

VARIABLES
    cached,     \* entries: a sequence, least recently used first
    fetching,   \* inFlight: key -> the outstanding fetches started by load
    sources,    \* contents: a sequence, least recently used first
    parses,     \* the number of parses so far
    uploaded,   \* runtime_source_maps: key -> version of its newest map (0: none)
    stacks,     \* each stack: waiting for a key, holding a loaded map, or idle
    shown,      \* the source contents stacks were given: [held, got]
    mapTime

smcVars == <<cached, fetching, sources, parses, uploaded, stacks, shown, mapTime>>

Loaded == [key : MapKey, parse : Nat, version : Nat]
IdleStack == [at |-> "idle"]

SmcInit ==
    /\ cached = <<>> /\ sources = <<>> /\ parses = 0
    /\ fetching = [k \in MapKey |-> 0]
    /\ uploaded = [k \in MapKey |-> 0]
    /\ stacks = [s \in MapStack |-> IdleStack]
    /\ shown = {} /\ mapTime = 0

-----------------------------------------------------------------------------
(* The two stores, as functions of their contents. *)

Weight(list) == FoldSeq(LAMBDA e, sum : e.weight + sum, 0, list)

\* The elements of a list at some places, in their order.
LeftAt(list, places) ==
    LET left[n \in 0 .. Len(list)] ==
            IF n = 0 THEN <<>>
            ELSE IF n \in places THEN Append(left[n - 1], list[n]) ELSE left[n - 1]
    IN  left[Len(list)]

Cached(list, k) == \E e \in Range(list) : e.key = k
EntryOf(list, k) == CHOOSE e \in Range(list) : e.key = k

\* Mutant: a removed entry leaves its contents behind.
DropContentsNone(held, entries) == held

\* removeContent over every content key of the removed entries.
DropContents(held, entries) ==
    LeftAt(held, {i \in DOMAIN held : \A e \in entries : held[i].parse # e.parse})

\* remove(id): the entry, its weight and its contents go together.
RemoveMap(store, k) ==
    [maps |-> LeftAt(store.maps, {i \in DOMAIN store.maps : store.maps[i].key # k}),
     sources |-> DropContents(store.sources, {e \in Range(store.maps) : e.key = k})]

\* The eviction loop of store(): oldest first, never the last one.
Fits(maps) == Weight(maps) <= MaxMapBytes /\ Len(maps) <= MaxMaps
Evicted(list, Fit(_)) ==
    LET enough(n) == n + 1 >= Len(list) \/ Fit(SubSeq(list, n + 1, Len(list)))
    IN  CHOOSE n \in 0 .. Len(list) : enough(n) /\ \A m \in 0 .. n - 1 : ~enough(m)
Evict(store) ==
    LET n == Evicted(store.maps, Fits)
    IN  [maps |-> SubSeq(store.maps, n + 1, Len(store.maps)),
         sources |-> DropContents(store.sources, Range(SubSeq(store.maps, 1, n)))]

Store(store, entry) ==
    IF entry.weight > MaxMapBytes THEN store
    ELSE LET without == RemoveMap(store, entry.key)
         IN  Evict([without EXCEPT !.maps = Append(@, entry)])

\* storeContent: one file takes at most half of the budget.
SourcesFit(held) == Weight(held) <= MaxSourceBytes
StoreContent(held, content) ==
    IF 2 * content.weight > MaxSourceBytes THEN held
    ELSE LET all == Append(held, content)
         IN  SubSeq(all, 1 + Evicted(all, SourcesFit), Len(all))

Stores == [maps |-> cached, sources |-> sources]
SetStores(store) == cached' = store.maps /\ sources' = store.sources

MissEntry(k, ttl) ==
    [key |-> k, parse |-> 0, version |-> 0, weight |-> 0, expires |-> mapTime + ttl]

-----------------------------------------------------------------------------
(* get(key): a live entry answers and becomes the most recent; an expired  *)
(* one is removed; a load in flight is shared; otherwise one starts.       *)

Live(k) == Cached(cached, k) /\ EntryOf(cached, k).expires > mapTime
MapOf(e) == IF e.parse = 0 THEN NoMap ELSE [key |-> e.key, parse |-> e.parse, version |-> e.version]

GetHit(s, k) ==
    /\ stacks[s].at = "idle" /\ Live(k)
    /\ LET e == EntryOf(cached, k) IN
       /\ cached' = Append(LeftAt(cached, {i \in DOMAIN cached : cached[i].key # k}), e)
       /\ stacks' = [stacks EXCEPT ![s] =
              IF MapOf(e) = NoMap THEN IdleStack ELSE [at |-> "holds", map |-> MapOf(e)]]
    /\ UNCHANGED <<fetching, sources, parses, uploaded, shown, mapTime>>

\* Mutant: a stack that misses always starts a load of its own.
StartsFetchAlways(k) == fetching[k] >= 0
StartsFetch(k) == fetching[k] = 0

GetMiss(s, k) ==
    /\ stacks[s].at = "idle" /\ ~Live(k)
    /\ SetStores(RemoveMap(Stores, k))
    /\ fetching' = IF StartsFetch(k) THEN [fetching EXCEPT ![k] = @ + 1] ELSE fetching
    /\ stacks' = [stacks EXCEPT ![s] = [at |-> "waits", key |-> k]]
    /\ UNCHANGED <<parses, uploaded, shown, mapTime>>

\* A load settles for every stack that shares it.
Settle(k, loaded) ==
    /\ fetching' = [fetching EXCEPT ![k] = @ - 1]
    /\ stacks' = [s \in MapStack |->
           IF stacks[s] # [at |-> "waits", key |-> k] THEN stacks[s]
           ELSE IF loaded = NoMap THEN IdleStack ELSE [at |-> "holds", map |-> loaded]]

\* The fetch failed, or found nothing, or a malformed map: a remembered miss.
LoadMiss(k) ==
    /\ fetching[k] > 0
    /\ \E ttl \in {ErrorTTL} \cup (IF uploaded[k] = 0 THEN {MissingTTL} ELSE {}) :
           SetStores(Store(Stores, MissEntry(k, ttl)))
    /\ Settle(k, NoMap)
    /\ UNCHANGED <<parses, uploaded, shown, mapTime>>

Cacheable(k) == 2 * MapBytes[uploaded[k]] <= MaxMapBytes
ContentParse == parses + 1

\* A map small enough to keep: contents first, then the entry naming them.
LoadFound(k) ==
    /\ fetching[k] > 0 /\ uploaded[k] > 0 /\ Cacheable(k)
    /\ parses < MaxParses
    /\ parses' = parses + 1
    /\ LET content == [parse |-> ContentParse, version |-> uploaded[k],
                       weight |-> SourceBytes[uploaded[k]], expires |-> mapTime + FoundTTL]
           held == IF SourceBytes[uploaded[k]] = 0 THEN sources ELSE StoreContent(sources, content)
       IN  SetStores(Store([maps |-> cached, sources |-> held],
                           [key |-> k, parse |-> ContentParse, version |-> uploaded[k],
                            weight |-> MapBytes[uploaded[k]], expires |-> mapTime + FoundTTL]))
    /\ Settle(k, [key |-> k, parse |-> ContentParse, version |-> uploaded[k]])
    /\ UNCHANGED <<uploaded, shown, mapTime>>

\* A bigger one serves the stacks waiting now: its contents travel with it.
LoadBypassed(k) ==
    /\ fetching[k] > 0 /\ uploaded[k] > 0 /\ ~Cacheable(k)
    /\ Settle(k, [key |-> k, parse |-> 0, version |-> uploaded[k]])
    /\ UNCHANGED <<cached, sources, parses, uploaded, shown, mapTime>>

\* contextFor -> contentOf(parse, index): expired contents are removed.
\* Mutant: contents are found by the key alone, not by the parse.
ContentOfKey(m) ==
    {c \in Range(sources) : \E e \in Range(cached) : e.key = m.key /\ e.parse = c.parse}
ContentOf(m) == {c \in Range(sources) : c.parse = m.parse}

ReadContent(s) ==
    /\ stacks[s].at = "holds"
    /\ stacks' = [stacks EXCEPT ![s] = IdleStack]
    /\ LET m == stacks[s].map
           found == ContentOf(m)
           live == {c \in found : c.expires > mapTime}
       IN  /\ sources' = LeftAt(sources, {i \in DOMAIN sources : sources[i] \notin found})
                         \o LeftAt(sources, {i \in DOMAIN sources : sources[i] \in live})
           /\ shown' = shown \cup {[of |-> m.version, got |-> c.version] : c \in live}
    /\ UNCHANGED <<cached, fetching, parses, uploaded, mapTime>>

\* POST /v1/sourcemaps stores a newer map: the cache is not told.
Upload(k) ==
    /\ uploaded[k] < MaxUploads
    /\ uploaded' = [uploaded EXCEPT ![k] = @ + 1]
    /\ UNCHANGED <<cached, fetching, sources, parses, stacks, shown, mapTime>>

MapTick ==
    /\ mapTime < MaxMapTime /\ mapTime' = mapTime + 1
    /\ UNCHANGED <<cached, fetching, sources, parses, uploaded, stacks, shown>>

SmcNext ==
    \/ \E k \in MapKey : LoadMiss(k) \/ LoadFound(k) \/ LoadBypassed(k) \/ Upload(k)
    \/ \E s \in MapStack, k \in MapKey : GetHit(s, k) \/ GetMiss(s, k)
    \/ \E s \in MapStack : ReadContent(s)
    \/ MapTick

-----------------------------------------------------------------------------
SmcTypeOK ==
    /\ fetching \in [MapKey -> Nat] /\ parses \in Nat
    /\ uploaded \in [MapKey -> 0 .. MaxUploads] /\ mapTime \in 0 .. MaxMapTime
    /\ \A i, j \in DOMAIN cached : cached[i].key = cached[j].key => i = j

(* Both stores stay within their budgets whatever is loaded, expires or is *)
(* evicted, and a content is held only for a map that is still cached: a   *)
(* map that leaves (evicted, expired, or replaced by a miss) takes its     *)
(* contents with it, so the second store never fills with orphans.         *)
CacheBudgets ==
    /\ Weight(cached) <= MaxMapBytes /\ Len(cached) <= MaxMaps
    /\ Weight(sources) <= MaxSourceBytes
    /\ \A c \in Range(sources) : \E e \in Range(cached) : e.parse = c.parse

(* However many stacks ask for one map while it expires, is evicted or is  *)
(* uploaded again, its bytes are fetched and parsed at most once at a      *)
(* time, and nobody waits for a load that is not running.                  *)
OneLoadPerMap ==
    /\ \A k \in MapKey : fetching[k] <= 1
    /\ \A s \in MapStack : stacks[s].at = "waits" => fetching[stacks[s].key] > 0

(* A stack resolved through one upload of a map is never shown a source    *)
(* line of another upload of it, although the newer contents may already   *)
(* be in the store when the stack reads.                                   *)
ContentsOfOwnUpload == \A x \in shown : x.got = x.of

=============================================================================
