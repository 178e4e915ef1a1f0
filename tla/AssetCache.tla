----------------------------- MODULE AssetCache -----------------------------
(***************************************************************************)
(* The client's decoded assets: an LRU cache with a soft byte limit whose  *)
(* entries are pinned while a caller holds them, filled by AssetLibrary    *)
(* from the mounts, and emptied of a server's assets when its Session      *)
(* ends.  Loads run on several threads and are not atomic: the bytes are   *)
(* fetched, then decoded, then inserted.                                   *)
(***************************************************************************)
EXTENDS Integers, Sequences, SequencesExt, FiniteSets, FiniteSetsExt

CONSTANTS
    Paths, Loaders,
    AssetBytes,    \* Paths -> size of the decoded asset
    CacheLimit,    \* max_bytes_
    MaxLoads, MaxSessions

ASSUME AssetsAssumption == AssetBytes \in [Paths -> Nat] /\ CacheLimit \in Nat

VARIABLES
    entries,       \* path -> [obj, session]: the shared_ptr and its tag
    objs,          \* obj -> [path, src]: every asset decoded, and the session whose mount it came from, 0 for a local one
    lru,           \* front first
    used_bytes,
    refs,          \* the objects callers hold
    loader,        \* Loaders -> <<>> or <<the load in progress: [path, src]>>
    active_session, session_state, session_id,   \* Session: "none", "live", then the steps of its destructor
    late           \* history: objects whose load was in progress when their session ended

acaVars == <<entries, objs, lru, used_bytes, refs, loader, active_session, session_state, session_id, late>>

AcaInit ==
    /\ entries = [p \in {} |-> 0] /\ objs = <<>> /\ lru = <<>> /\ used_bytes = 0 /\ refs = {}
    /\ loader = [t \in Loaders |-> <<>>] /\ active_session = 0 /\ session_state = "none" /\ session_id = 0 /\ late = {}

-----------------------------------------------------------------------------
(* AssetCache. *)
\* What the assets at the paths ps take up, byte by byte.
Bytes(ps) == Cardinality(UNION {{p} \X (1..AssetBytes[p]) : p \in ps})
Restricted(e, ps) == [p \in DOMAIN e \cap ps |-> e[p]]

\* The list l without the paths ps.
Without(l, ps) ==
    LET kept[i \in 0..Len(l)] ==
            IF i = 0 THEN <<>> ELSE IF l[i] \in ps THEN kept[i - 1] ELSE Append(kept[i - 1], l[i])
    IN  kept[Len(l)]

\* The paths eviction may take, least recently used last: those only the cache refers to.
EvictableOf(e, l, pins) == Without(l, {p \in DOMAIN e : e[p].obj \in pins})

\* evict_locked: from the back, until the limit is met or nothing more is free.
Evicted(e, l, used, pins) ==
    LET u == EvictableOf(e, l, pins)
        last(k) == {u[i] : i \in (Len(u) - k + 1)..Len(u)}
        enough == {k \in 0..Len(u) : used - Bytes(last(k)) <= CacheLimit}
    IN  last(IF enough = {} THEN Len(u) ELSE Min(enough))

Removed(ps) ==
    /\ entries' = Restricted(entries, Paths \ ps) /\ lru' = Without(lru, ps)
    /\ used_bytes' = used_bytes - Bytes(ps)

\* An entry that is replaced is taken off the account first.
UsedAfter(p) == used_bytes - Bytes(DOMAIN entries \cap {p}) + AssetBytes[p]

\* insert(asset, session), while the caller and pins hold their assets.
insert(p, o, s, pins) ==
    LET e == [q \in DOMAIN entries \cup {p} |-> IF q = p THEN [obj |-> o, session |-> s] ELSE entries[q]]
        l == <<p>> \o Without(lru, {p})
        gone == Evicted(e, l, UsedAfter(p), pins \cup {o})
    IN  /\ entries' = Restricted(e, Paths \ gone) /\ lru' = Without(l, gone)
        /\ used_bytes' = UsedAfter(p) - Bytes(gone)

evict ==
    /\ used_bytes > CacheLimit /\ Removed(Evicted(entries, lru, used_bytes, refs))
    /\ UNCHANGED <<objs, refs, loader, active_session, session_state, session_id, late>>

-----------------------------------------------------------------------------
(* AssetLibrary: image, audio, audio_exact and shader share this course.    *)
CacheHit_(t, p) ==
    /\ loader[t] = <<>> /\ p \in DOMAIN entries
    /\ lru' = <<p>> \o Without(lru, {p}) /\ refs' = refs \cup {entries[p].obj}
    /\ UNCHANGED <<entries, objs, used_bytes, loader, active_session, session_state, session_id, late>>

MountsOfSession == IF session_state = "live" THEN {session_id} ELSE {}

\* A miss: some extension of the path is found in a local mount or in the session's.
probe(t, p) ==
    /\ loader[t] = <<>> /\ p \notin DOMAIN entries
    /\ Len(objs) + Cardinality({x \in Loaders : loader[x] # <<>>}) < MaxLoads
    /\ \E src \in {0} \cup MountsOfSession : loader' = [loader EXCEPT ![t] = <<[path |-> p, src |-> src]>>]
    /\ UNCHANGED <<entries, objs, lru, used_bytes, refs, active_session, session_state, session_id, late>>

\* Decoded, it is cached under the session that is active by now.
Decoded(t) ==
    /\ loader[t] # <<>> /\ loader' = [loader EXCEPT ![t] = <<>>]
    /\ LET d == loader[t][1] IN
       /\ objs' = Append(objs, d) /\ insert(d.path, Len(objs) + 1, active_session, refs)
       /\ refs' = refs \cup {Len(objs) + 1}
       /\ late' = IF d.src # 0 /\ (d.src # session_id \/ session_state # "live") THEN late \cup {Len(objs) + 1} ELSE late
    /\ UNCHANGED <<active_session, session_state, session_id>>

Undecodable(t) ==
    /\ loader[t] # <<>> /\ loader' = [loader EXCEPT ![t] = <<>>]
    /\ UNCHANGED <<entries, objs, lru, used_bytes, refs, active_session, session_state, session_id, late>>

\* A caller lets go of an asset.
Unpin(o) ==
    /\ o \in refs /\ refs' = refs \ {o}
    /\ UNCHANGED <<entries, objs, lru, used_bytes, loader, active_session, session_state, session_id, late>>

-----------------------------------------------------------------------------
(* Session. *)
SessionStart ==
    /\ session_state = "none" /\ session_id < MaxSessions
    /\ session_id' = session_id + 1 /\ active_session' = session_id + 1 /\ session_state' = "live"
    /\ UNCHANGED <<entries, objs, lru, used_bytes, refs, loader, late>>

\* The destructor: its mounts, its entries, and then the tag.
SessionUnmount ==
    /\ session_state = "live" /\ session_state' = "unmounted"
    /\ UNCHANGED <<entries, objs, lru, used_bytes, refs, loader, active_session, session_id, late>>

ClearedPaths_unpinned(s) == {p \in DOMAIN entries : entries[p].session = s /\ entries[p].obj \notin refs}

ClearedPaths(s) == {p \in DOMAIN entries : entries[p].session = s}

clear_session ==
    /\ session_state = "unmounted" /\ session_state' = "cleared"
    /\ Removed(ClearedPaths(session_id))
    /\ UNCHANGED <<objs, refs, loader, active_session, session_id, late>>

clear_active_session ==
    /\ session_state = "cleared" /\ session_state' = "none" /\ active_session' = 0
    /\ UNCHANGED <<entries, objs, lru, used_bytes, refs, loader, session_id, late>>

AcaNext ==
    \/ \E t \in Loaders : Decoded(t) \/ Undecodable(t) \/ \E p \in Paths : CacheHit_(t, p) \/ probe(t, p)
    \/ \E o \in refs : Unpin(o)
    \/ evict \/ SessionStart \/ SessionUnmount \/ clear_session \/ clear_active_session

AcaSpec == AcaInit /\ [][AcaNext]_acaVars

-----------------------------------------------------------------------------
\* used_bytes_, on which eviction depends, is the size of what the cache holds, and the LRU list and the map name the
\* same paths: two loads of one path, evictions and the end of a session keep the three in step.
BooksBalance ==
    /\ used_bytes = Bytes(DOMAIN entries)
    /\ ToSet(lru) = DOMAIN entries /\ Len(lru) = Cardinality(DOMAIN entries)

\* When a session is over, an asset of its server is in the cache only if its load had begun before the end and was
\* finished after it.
ServerAssetsLeave ==
    \A p \in DOMAIN entries : LET o == entries[p].obj IN
        (objs[o].src # 0 /\ (objs[o].src # session_id \/ session_state \in {"cleared", "none"})) => o \in late

\* The cache's books agree, and a server's assets leave with its session (insert, evict_locked, clear_session).
CacheInStep == BooksBalance /\ ServerAssetsLeave
=============================================================================
