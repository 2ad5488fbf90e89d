--------------------------- MODULE ComponentCache ---------------------------
(***************************************************************************)
(* The component cache manager: greentic-runner-host src/cache/mod.rs,     *)
(* over the single-flight lock of Singleflight and the memory tier of      *)
(* MemoryCache.  get_component looks in memory and on disk, takes the      *)
(* key's flight, looks in both again and only then compiles; the disk read,*)
(* the deserialization and the compile run on the blocking pool, so the    *)
(* caller can be dropped at each of them, and a compile whose caller is    *)
(* gone still writes its artifact.  The disk tier is what DiskCache shows  *)
(* it to be: an entry reads as nothing or as bytes some write stored.      *)
(***************************************************************************)
EXTENDS Singleflight

CONSTANTS WasmLen, SerializedLen,       \* byte estimates of a compiled and of a loaded key
          MaxBytes, ProtectHits, HitCap,
          Configs,                      \* CacheConfig: the sets of enabled tiers
          MaxMishaps                    \* bound: failures, cancellations, prunes that take something

VARIABLES entries, lru, totalBytes,
          disk,     \* per key: no artifact, one that loads, or one that does not
          tiers,    \* the enabled tiers
          at,       \* where each task is in get_component or warmup
          want,     \* the key it asked for
          bytes,    \* the artifact its disk read returned
          strays,   \* keys whose compile outlived its caller
          lost,     \* history: the tiers without what the last flight stored
          mishaps

Mem == INSTANCE MemoryCache

memVars == <<entries, lru, totalBytes>>
callVars == <<at, want, bytes>>
vars == <<flightVars, memVars, disk, tiers, callVars, strays, lost, mishaps>>

Artifacts == {"none", "loads", "stale"}

Init ==
    /\ FlightInit /\ Mem!Init
    /\ disk \in [Keys -> Artifacts] /\ tiers \in Configs
    /\ at = [t \in Tasks |-> "idle"]
    /\ want = [t \in Tasks |-> None]
    /\ bytes = [t \in Tasks |-> "none"]
    /\ strays = {} /\ lost = [k \in Keys |-> {"memory", "disk"}] /\ mishaps = 0

Mishap == mishaps < MaxMishaps /\ mishaps' = mishaps + 1
Calm == UNCHANGED mishaps
Goto(t, place) == at' = [at EXCEPT ![t] = place] /\ UNCHANGED <<want, bytes>>

\* The call returns: before the flight at once, within it when the guard is dropped.
Return(t) == Goto(t, IF pc[t] = "idle" THEN "idle" ELSE "leave")

\* Where a lookup that found nothing in either tier goes on.
Onward(t) == IF pc[t] = "idle" THEN "fly" ELSE "bytes"

\* self.memory.insert, and the tier's losses with it.
Remember(k, len, forgotten) ==
    IF "memory" \in tiers
    THEN /\ Mem!Insert(k, len, FALSE)
         /\ lost' = [j \in Keys |->
                       IF j \in DOMAIN entries \cup {k} /\ j \notin DOMAIN entries'
                       THEN lost[j] \cup {"memory"} ELSE lost[j] \ (IF j = k THEN forgotten ELSE {})]
    ELSE UNCHANGED <<memVars, lost>>

\* Artifacts go from the disk.
Discard(keys) ==
    /\ disk' = [k \in Keys |-> IF k \in keys THEN "none" ELSE disk[k]]
    /\ lost' = [k \in Keys |-> IF k \in keys THEN lost[k] \cup {"disk"} ELSE lost[k]]

\* write_atomic, and the prune_to_limit that follows it: the older artifacts
\* may go, and one above the limit goes itself.
Write(k, pruned, kept) ==
    /\ disk' = [j \in Keys |-> IF j \in pruned THEN "none" ELSE IF j = k THEN "loads" ELSE disk[j]]
    /\ lost' = [j \in Keys |-> IF j \in pruned THEN lost[j] \cup {"disk"}
                               ELSE IF j = k THEN lost[j] \ kept ELSE lost[j]]
    /\ IF pruned = {} THEN Calm ELSE Mishap

-----------------------------------------------------------------------------

\* get_component up to its first await: a memory hit returns.
GetComponent(t, k) ==
    /\ at[t] = "idle"
    /\ IF "memory" \in tiers /\ k \in DOMAIN entries
       THEN Mem!Get(k) /\ UNCHANGED callVars
       ELSE /\ at' = [at EXCEPT ![t] = IF "disk" \in tiers THEN "read" ELSE "fly"]
            /\ want' = [want EXCEPT ![t] = k]
            /\ UNCHANGED <<memVars, bytes>>
    /\ Calm /\ UNCHANGED <<flightVars, disk, tiers, strays, lost>>

\* try_disk_hit: disk.try_read on the blocking pool ...
TryRead(t) ==
    /\ at[t] = "read"
    /\ bytes' = [bytes EXCEPT ![t] = disk[want[t]]]
    /\ at' = [at EXCEPT ![t] = IF disk[want[t]] = "none" THEN Onward(t) ELSE "load"]
    /\ Calm /\ UNCHANGED <<flightVars, memVars, disk, tiers, want, strays, lost>>

\* ... whose error the call returns.
ReadFails(t) ==
    /\ at[t] = "read" /\ Mishap
    /\ Return(t)
    /\ UNCHANGED <<flightVars, memVars, disk, tiers, strays, lost>>

\* deserialize_disk_hit: what loads is remembered and returned ...
Load(t) ==
    /\ at[t] = "load" /\ bytes[t] = "loads"
    /\ Remember(want[t], SerializedLen[want[t]], {})
    /\ Return(t)
    /\ Calm /\ UNCHANGED <<flightVars, disk, tiers, strays>>

\* ... and what does not, or whose task panics, is deleted, whatever is there
\* by now; a delete that fails is ignored.
LoadFails(t) ==
    /\ at[t] = "load" /\ ((bytes[t] = "stale" /\ Calm) \/ (bytes[t] = "loads" /\ Mishap))
    /\ disk' \in {disk, [disk EXCEPT ![want[t]] = "none"]}
    /\ lost' = [lost EXCEPT ![want[t]] = @ \cup {"disk"}]
    /\ Goto(t, Onward(t))
    /\ UNCHANGED <<flightVars, memVars, tiers, strays>>

\* singleflight.acquire(key).await
Fly(t) ==
    /\ \/ at[t] = "fly" /\ CloneLock(t, want[t]) /\ Goto(t, "queue")
       \/ at[t] = "queue" /\ Enqueue(t) /\ UNCHANGED callVars
       \/ at[t] = "queue" /\ Acquire(t) /\ Goto(t, "recheck")
    /\ Calm /\ UNCHANGED <<memVars, disk, tiers, strays, lost>>

\* Mutant: the flight is not followed by a second look in memory.
RecheckDiskOnly(t) ==
    /\ at[t] = "recheck"
    /\ Goto(t, IF "disk" \in tiers THEN "read" ELSE "bytes")
    /\ Calm /\ UNCHANGED <<flightVars, memVars, disk, tiers, strays, lost>>

\* The second look in memory, under the flight.
Recheck(t) ==
    /\ at[t] = "recheck"
    /\ IF "memory" \in tiers /\ want[t] \in DOMAIN entries
       THEN Mem!Get(want[t]) /\ Return(t)
       ELSE Goto(t, IF "disk" \in tiers THEN "read" ELSE "bytes") /\ UNCHANGED memVars
    /\ Calm /\ UNCHANGED <<flightVars, disk, tiers, strays, lost>>

\* wasm_bytes()?, then the compile is handed to the blocking pool.
StartCompile(t) ==
    /\ at[t] = "bytes"
    /\ Goto(t, "compile")
    /\ Calm /\ UNCHANGED <<flightVars, memVars, disk, tiers, strays, lost>>

\* Component::from_binary and, with a disk tier, write_atomic and its prune.
Compiled(t) ==
    /\ at[t] = "compile"
    /\ IF "disk" \in tiers
       THEN \E pruned \in SUBSET Keys : Write(want[t], pruned, {"disk"})
       ELSE Calm /\ UNCHANGED <<disk, lost>>
    /\ Goto(t, "store")
    /\ UNCHANGED <<flightVars, memVars, tiers, strays>>

\* A failed write is logged, and the component returned all the same.
WriteFails(t) ==
    /\ at[t] = "compile" /\ "disk" \in tiers /\ Mishap
    /\ Goto(t, "store")
    /\ lost' = [lost EXCEPT ![want[t]] = @ \cup {"disk"}]
    /\ UNCHANGED <<flightVars, memVars, disk, tiers, strays>>

\* wasm_bytes() or the compile fails: the error is returned.
CompileFails(t) ==
    /\ at[t] \in {"bytes", "compile"} /\ Mishap
    /\ Return(t)
    /\ UNCHANGED <<flightVars, memVars, disk, tiers, strays, lost>>

\* The compiled component is remembered, still under the flight.
Store(t) ==
    /\ at[t] = "store"
    /\ Remember(want[t], WasmLen[want[t]], {"memory"})
    /\ Return(t)
    /\ Calm /\ UNCHANGED <<flightVars, disk, tiers, strays>>

\* The guard is dropped on the way out.
Leave(t) ==
    /\ at[t] = "leave"
    /\ \/ Release(t) /\ UNCHANGED callVars
       \/ Sweep(t) /\ UNCHANGED callVars
       \/ DropGuard(t) /\ Goto(t, "idle")
    /\ Calm /\ UNCHANGED <<memVars, disk, tiers, strays, lost>>

\* The caller's future is dropped at an await: a compile already handed over
\* goes on without it.
Cancel(t) ==
    /\ at[t] \in {"read", "load", "queue", "compile"} /\ Mishap
    /\ IF at[t] = "queue" THEN CancelWait(t) ELSE UNCHANGED flightVars
    /\ Return(t)
    /\ strays' = IF at[t] = "compile" THEN strays \cup {want[t]} ELSE strays
    /\ UNCHANGED <<memVars, disk, tiers, lost>>

StrayWrites(k) ==
    /\ k \in strays /\ strays' = strays \ {k}
    /\ IF "disk" \in tiers
       THEN \E pruned \in SUBSET Keys : Write(k, pruned, {})
       ELSE Calm /\ UNCHANGED <<disk, lost>>
    /\ UNCHANGED <<flightVars, memVars, tiers, callVars>>

\* warmup compiles what the disk lacks, takes no flight and keeps nothing in memory.
Warmup(k) ==
    /\ "disk" \in tiers /\ disk[k] = "none" /\ k \notin strays
    /\ Mishap /\ strays' = strays \cup {k}
    /\ UNCHANGED <<flightVars, memVars, disk, tiers, callVars, lost>>

\* prune_to_limit, of this or another process, or a damaged artifact.
DiskLoses(k) ==
    /\ "disk" \in tiers /\ disk[k] # "none" /\ Mishap
    /\ Discard({k})
    /\ UNCHANGED <<flightVars, memVars, tiers, callVars, strays>>

TaskStep(t) ==
    \/ TryRead(t) \/ ReadFails(t) \/ Load(t) \/ LoadFails(t) \/ Fly(t) \/ Recheck(t)
    \/ StartCompile(t) \/ Compiled(t) \/ WriteFails(t) \/ CompileFails(t) \/ Store(t)
    \/ Leave(t) \/ Cancel(t)

Next ==
    \/ \E t \in Tasks : TaskStep(t) \/ \E k \in Keys : GetComponent(t, k)
    \/ \E k \in Keys : StrayWrites(k) \/ Warmup(k) \/ DiskLoses(k)

Spec == Init /\ [][Next]_vars

-----------------------------------------------------------------------------
(* A component is compiled again only if every enabled tier has lost what  *)
(* the last compile under a flight stored, or failed to load it, whatever  *)
(* was cancelled, evicted, deleted or loaded in between: get_component     *)
(* looks again once it has the flight.                                     *)
RecompiledOnlyIfLost ==
    [][\A t \in Tasks : StartCompile(t) => tiers \subseteq lost[want[t]]]_vars

(* However loads, compiles and hits of concurrent calls interleave,        *)
(* MemoryCache's list and byte count agree with its entries, and the count *)
(* is within max_bytes (the manager pins nothing).                         *)
AccountingExact ==
    Mem!ListAndBytesAgree /\ (MaxBytes > 0 => totalBytes <= MaxBytes)

(* A hot component is evicted only once every cold one is gone, the one    *)
(* just inserted included (should_skip_candidate).                         *)
HotOutlivesCold == Mem!HotOutlivesCold
=============================================================================
