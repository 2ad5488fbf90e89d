---------------------------- MODULE MemoryCache -----------------------------
(***************************************************************************)
(* The in-memory tier of the component cache: greentic-runner-host         *)
(* src/cache/memory.rs.  One mutex guards the whole state, so get and      *)
(* insert are each one step.  Eviction is a loop over the LRU list, in two *)
(* passes: the first spares pinned entries and entries with enough hits,   *)
(* the second spares pinned ones only; a spared candidate moves to the     *)
(* front of the list.                                                      *)
(***************************************************************************)
EXTENDS Naturals, Sequences, FiniteSets, FiniteSetsExt, SequencesExt

CONSTANTS Keys,        \* artifact keys
          MaxBytes,    \* MemoryCache::max_bytes; 0 means unbounded
          ProtectHits, \* MemoryCache::lfu_protect_hits; 0 protects nothing
          HitCap       \* bound: hit counts are counted up to here

VARIABLES entries,     \* key -> [bytes, hits, pinned], partial
          lru,         \* front: most recently used
          totalBytes

memVars == <<entries, lru, totalBytes>>

Init ==
    /\ entries = <<>>
    /\ lru = <<>>
    /\ totalBytes = 0

\* remove_lru / touch_lru: the key's place in the list, and its new one.
Dropped(list, k) == SelectSeq(list, LAMBDA x : x # k)
Touched(list, k) == <<k>> \o Dropped(list, k)

\* entry.hit_count >= lfu_threshold, for a threshold that is on.
Hot(e) == ProtectHits > 0 /\ e.hits >= ProtectHits

\* Mutated: the hit threshold is ignored.
SkipPinnedOnly(es, k, protectLfu) == es[k].pinned

\* should_skip_candidate
ShouldSkip(es, k, protectLfu) == es[k].pinned \/ (protectLfu /\ Hot(es[k]))

\* An eviction state: what evict_if_needed carries through its loops.
Without(st, k) ==
    [entries |-> [x \in DOMAIN st.entries \ {k} |-> st.entries[x]],
     lru     |-> Front(st.lru),
     total   |-> st.total - st.entries[k].bytes]

\* Mutated: an evicted entry's bytes stay on the books.
WithoutKeepsBytes(st, k) == [Without(st, k) EXCEPT !.total = st.total]

\* One eviction: total_bytes saturates at 0, entries and list lose the key.
Evicted(st, k) == Without(st, k)

\* One candidate, the least recently used: spared and rotated, or evicted.
Candidate(st, protectLfu) ==
    LET k == Last(st.lru)
    IN  IF ShouldSkip(st.entries, k, protectLfu)
        THEN [st EXCEPT !.lru = <<k>> \o Front(st.lru)]
        ELSE Evicted(st, k)

\* One pass of evict_if_needed: as many candidates as the list had entries.
EvictPass(st, protectLfu) ==
    LET after[n \in 0..Len(st.lru)] ==
            IF n = 0 THEN st
            ELSE IF after[n - 1].total <= MaxBytes THEN after[n - 1]
                 ELSE Candidate(after[n - 1], protectLfu)
    IN  after[Len(st.lru)]

\* evict_if_needed: the pass that spares hot entries, then the one that does not.
EvictIfNeeded(st) ==
    IF MaxBytes = 0 THEN st ELSE EvictPass(EvictPass(st, TRUE), FALSE)

\* MemoryCache::get; a miss only counts.
Get(k) ==
    /\ k \in DOMAIN entries
    /\ entries' = [entries EXCEPT ![k].hits = IF @ < HitCap THEN @ + 1 ELSE @]
    /\ lru' = Touched(lru, k)
    /\ UNCHANGED totalBytes

\* The state insert hands to evict_if_needed: a previous entry of the key is
\* taken out of the map, the list and the byte count first.
AfterInsert(k, e) ==
    [entries |-> [x \in DOMAIN entries \cup {k} |-> IF x = k THEN e ELSE entries[x]],
     lru     |-> Touched(lru, k),
     total   |-> totalBytes - (IF k \in DOMAIN entries THEN entries[k].bytes ELSE 0)
                 + e.bytes]

\* MemoryCache::insert, its trailing eviction included.
Insert(k, bytes, pinned) ==
    LET st == EvictIfNeeded(AfterInsert(k, [bytes |-> bytes, hits |-> 0, pinned |-> pinned]))
    IN  /\ entries' = st.entries
        /\ lru' = st.lru
        /\ totalBytes' = st.total

-----------------------------------------------------------------------------
(* The bookkeeping agrees with the entries after any sequence of inserts,  *)
(* re-inserts and evictions: the list of touch_lru, remove_lru and the     *)
(* rotation of evict_if_needed holds every cached key once, so none is out *)
(* of eviction's reach, and total_bytes is the sum of the estimates        *)
(* (saturating_sub hides no drift).                                        *)
ListAndBytesAgree ==
    /\ ToSet(lru) = DOMAIN entries /\ Len(lru) = Cardinality(DOMAIN entries)
    /\ totalBytes = MapThenSumSet(LAMBDA k : entries[k].bytes, DOMAIN entries)

\* The keys an insert evicts, with the entry they had.
Gone(k) == k \in DOMAIN entries /\ k \notin DOMAIN entries'

(* lfu_protect_keeps_hot_entries: a hot entry is evicted only once every   *)
(* entry the first pass may take is gone.                                  *)
HotOutlivesCold ==
    [][\A k \in Keys :
          (Gone(k) /\ Hot(entries[k])) =>
              \A j \in DOMAIN entries' : entries'[j].pinned \/ Hot(entries'[j])]_memVars
=============================================================================
