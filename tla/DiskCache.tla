----------------------------- MODULE DiskCache ------------------------------
(***************************************************************************)
(* The disk tier of the component cache: greentic-runner-host              *)
(* src/cache/disk.rs.  An entry is two files, the artifact (.cwasm) and    *)
(* its metadata (.json), written to temp files and renamed into place, the *)
(* artifact first.  Readers, writers, deleters and pruners run in any      *)
(* number of threads and processes with no lock between them, so a test of *)
(* a file and the call that acts on it are separate steps.  One entry is   *)
(* modelled: entries of different keys share no file.                      *)
(***************************************************************************)
EXTENDS Naturals, FiniteSets

CONSTANTS Threads,
          Blobs,       \* serialized components a writer may store for the key
          Damaged,     \* contents no writer stored: truncation, bit rot
          None,        \* the file does not exist
          MaxFaults    \* bound: files damaged and threads stopped half way

ASSUME Distinct == Damaged \notin Blobs /\ None \notin Blobs \cup {Damaged}

VARIABLES file,        \* the two files; metadata is the sha256 it records
          old,         \* files older than INCOMPLETE_ENTRY_GRACE
          pc,          \* per thread: the file-system call it makes next
          seen,        \* per thread: metadata and bytes read, or to be written
          unswept,     \* per thread: files its sweep has not looked at yet
          target,      \* per thread: the lone file it is about to remove
          result,      \* per thread: what its last try_read returned
          written,     \* history: bytes some write_atomic was called with
          faults

vars == <<file, old, pc, seen, unswept, target, result, written, faults>>

Files == {"artifact", "meta"}

Partner(f) == IF f = "artifact" THEN "meta" ELSE "artifact"

(* sha256 is injective on the contents modelled, so metadata is identified *)
(* with the bytes it vouches for.                                          *)
Hash(bytes) == bytes

Nothing == [meta |-> None, artifact |-> None]

Init ==
    /\ file = Nothing /\ old = {}
    /\ pc = [t \in Threads |-> "idle"]
    /\ seen = [t \in Threads |-> Nothing]
    /\ unswept = [t \in Threads |-> {}]
    /\ target = [t \in Threads |-> None]
    /\ result = [t \in Threads |-> None]
    /\ written = {}
    /\ faults = 0

Goto(t, call) == pc' = [pc EXCEPT ![t] = call]

\* fs::rename over f, or fs::remove_file(f): what is there is young, or gone.
Replace(f, contents) ==
    /\ file' = [file EXCEPT ![f] = contents]
    /\ old' = old \ {f}

\* The call returns, and its locals die.
Return(t, bytes) ==
    /\ Goto(t, "idle")
    /\ seen' = [seen EXCEPT ![t] = Nothing]
    /\ result' = [result EXCEPT ![t] = bytes]

sweeping == <<unswept, target>>
disk == <<file, old>>
locals == <<seen, result>>

-----------------------------------------------------------------------------
TryRead(t) ==
    /\ pc[t] = "idle"
    /\ Goto(t, "statMeta")
    /\ result' = [result EXCEPT ![t] = None]
    /\ UNCHANGED <<disk, seen, sweeping, written, faults>>

StatMeta(t) ==
    /\ pc[t] = "statMeta"
    /\ Goto(t, IF file["meta"] = None THEN "ageLone" ELSE "readMeta")
    /\ UNCHANGED <<disk, locals, sweeping, written, faults>>

\* An artifact without metadata is junk only past the grace period.
AgeLone(t) ==
    /\ pc[t] = "ageLone"
    /\ IF "artifact" \in old
       THEN Goto(t, "removeLone") /\ UNCHANGED locals
       ELSE Return(t, None)
    /\ UNCHANGED <<disk, sweeping, written, faults>>

RemoveLone(t) ==
    /\ pc[t] = "removeLone"
    /\ Replace("artifact", None)
    /\ Return(t, None)
    /\ UNCHANGED <<sweeping, written, faults>>

\* Metadata that is gone by now, does not parse, or names another digest or
\* engine profile makes the reader delete the entry.
ReadMeta(t) ==
    /\ pc[t] = "readMeta"
    /\ IF file["meta"] \in {None, Damaged}
       THEN Goto(t, "removeArtifact") /\ UNCHANGED seen
       ELSE Goto(t, "statArtifact") /\ seen' = [seen EXCEPT ![t].meta = file["meta"]]
    /\ UNCHANGED <<disk, result, sweeping, written, faults>>

StatArtifact(t) ==
    /\ pc[t] = "statArtifact"
    /\ Goto(t, IF file["artifact"] = None THEN "ageMeta" ELSE "readArtifact")
    /\ UNCHANGED <<disk, locals, sweeping, written, faults>>

AgeMeta(t) ==
    /\ pc[t] = "ageMeta"
    /\ IF "meta" \in old
       THEN Goto(t, "removeArtifact") /\ UNCHANGED locals
       ELSE Return(t, None)
    /\ UNCHANGED <<disk, sweeping, written, faults>>

ReadArtifact(t) ==
    /\ pc[t] = "readArtifact"
    /\ IF file["artifact"] = None
       THEN Goto(t, "removeArtifact") /\ UNCHANGED seen
       ELSE Goto(t, "verify") /\ seen' = [seen EXCEPT ![t].artifact = file["artifact"]]
    /\ UNCHANGED <<disk, result, sweeping, written, faults>>

\* Mutated: the hash is not compared.
VerifyNothing(t) ==
    /\ pc[t] = "verify"
    /\ Goto(t, "touch") /\ result' = [result EXCEPT ![t] = seen[t].artifact]
    /\ UNCHANGED <<disk, seen, sweeping, written, faults>>

\* Mutated: a mismatch is a plain miss.
VerifyKeepsEntry(t) ==
    /\ pc[t] = "verify"
    /\ IF Hash(seen[t].artifact) = seen[t].meta
       THEN Goto(t, "touch") /\ result' = [result EXCEPT ![t] = seen[t].artifact] /\ UNCHANGED seen
       ELSE Return(t, None)
    /\ UNCHANGED <<disk, sweeping, written, faults>>

\* Length and sha256 against the metadata read earlier; a mismatch deletes.
Verify(t) ==
    /\ pc[t] = "verify"
    /\ IF Hash(seen[t].artifact) = seen[t].meta
       THEN Goto(t, "touch") /\ result' = [result EXCEPT ![t] = seen[t].artifact]
       ELSE Goto(t, "removeArtifact") /\ UNCHANGED result
    /\ UNCHANGED <<disk, seen, sweeping, written, faults>>

\* update_access renames the metadata as it was read over what is there now,
\* or gives up: its errors are dropped.
UpdateAccess(t) ==
    /\ pc[t] = "touch"
    /\ Replace("meta", seen[t].meta) \/ UNCHANGED disk
    /\ Return(t, result[t])
    /\ UNCHANGED <<sweeping, written, faults>>

\* DiskCache::delete, when a component does not deserialize.
Delete(t) ==
    /\ pc[t] = "idle"
    /\ Goto(t, "removeArtifact")
    /\ UNCHANGED <<disk, locals, sweeping, written, faults>>

\* delete_entry, and the removal of a pruned entry: artifact, then metadata.
RemoveArtifact(t) ==
    /\ pc[t] = "removeArtifact"
    /\ Replace("artifact", None)
    /\ Goto(t, "removeMeta")
    /\ UNCHANGED <<locals, sweeping, written, faults>>

RemoveMeta(t) ==
    /\ pc[t] = "removeMeta"
    /\ Replace("meta", None)
    /\ Return(t, None)
    /\ UNCHANGED <<sweeping, written, faults>>

\* write_atomic: both temp files are written; the renames follow.
WriteAtomic(t, blob) ==
    /\ pc[t] = "idle"
    /\ Goto(t, "renameArtifact")
    /\ seen' = [seen EXCEPT ![t] = [meta |-> Hash(blob), artifact |-> blob]]
    /\ written' = written \cup {blob}
    /\ UNCHANGED <<disk, result, sweeping, faults>>

RenameArtifact(t) ==
    /\ pc[t] = "renameArtifact"
    /\ Replace("artifact", seen[t].artifact)
    /\ Goto(t, "renameMeta")
    /\ UNCHANGED <<locals, sweeping, written, faults>>

RenameMeta(t) ==
    /\ pc[t] = "renameMeta"
    /\ Replace("meta", seen[t].meta)
    /\ Return(t, None)
    /\ UNCHANGED <<sweeping, written, faults>>

\* prune_to_limit sweeps the orphans first.
PruneToLimit(t) ==
    /\ pc[t] = "idle"
    /\ Goto(t, "sweep")
    /\ unswept' = [unswept EXCEPT ![t] = Files]
    /\ UNCHANGED <<disk, locals, target, written, faults>>

\* A file of the listing whose partner is absent is a candidate.
Sweep(t, f) ==
    /\ pc[t] = "sweep" /\ f \in unswept[t]
    /\ unswept' = [unswept EXCEPT ![t] = @ \ {f}]
    /\ IF file[f] # None /\ file[Partner(f)] = None
       THEN Goto(t, "ageSwept") /\ target' = [target EXCEPT ![t] = f]
       ELSE UNCHANGED <<pc, target>>
    /\ UNCHANGED <<disk, locals, written, faults>>

AgeSwept(t) ==
    /\ pc[t] = "ageSwept"
    /\ IF target[t] \in old
       THEN Goto(t, "removeSwept") /\ UNCHANGED target
       ELSE Goto(t, "sweep") /\ target' = [target EXCEPT ![t] = None]
    /\ UNCHANGED <<disk, locals, unswept, written, faults>>

RemoveSwept(t) ==
    /\ pc[t] = "removeSwept"
    /\ Replace(target[t], None)
    /\ Goto(t, "sweep")
    /\ target' = [target EXCEPT ![t] = None]
    /\ UNCHANGED <<locals, unswept, written, faults>>

\* Past the sweep: an entry whose metadata can be read is removed if the tier
\* is over disk_max_bytes and the entry is among the least recently used.
Prune(t) ==
    /\ pc[t] = "sweep" /\ unswept[t] = {}
    /\ \/ file["meta"] \notin {None, Damaged} /\ Goto(t, "removeArtifact") /\ UNCHANGED locals
       \/ Return(t, None)
    /\ UNCHANGED <<disk, sweeping, written, faults>>

-----------------------------------------------------------------------------
\* Time passes.  The artifact of a writer that has only its second rename to
\* make stays young: the grace period is "generous next to a write".
Age(f) ==
    /\ file[f] # None /\ f \notin old
    /\ f = "artifact" => \A t \in Threads : pc[t] # "renameMeta"
    /\ old' = old \cup {f}
    /\ UNCHANGED <<file, pc, locals, sweeping, written, faults>>

\* A file is truncated or rots on disk.
Damage(f) ==
    /\ file[f] # None /\ faults < MaxFaults
    /\ file' = [file EXCEPT ![f] = Damaged]
    /\ faults' = faults + 1
    /\ UNCHANGED <<old, pc, locals, sweeping, written>>

\* A process dies between two calls; for a writer, also a rename that fails.
Crash(t) ==
    /\ pc[t] # "idle" /\ faults < MaxFaults
    /\ faults' = faults + 1
    /\ Return(t, None)
    /\ unswept' = [unswept EXCEPT ![t] = {}]
    /\ target' = [target EXCEPT ![t] = None]
    /\ UNCHANGED <<disk, written>>

Step(t) ==
    \/ StatMeta(t) \/ AgeLone(t) \/ RemoveLone(t) \/ ReadMeta(t) \/ StatArtifact(t) \/ AgeMeta(t)
    \/ ReadArtifact(t) \/ Verify(t) \/ UpdateAccess(t)
    \/ RemoveArtifact(t) \/ RemoveMeta(t) \/ RenameArtifact(t) \/ RenameMeta(t)
    \/ AgeSwept(t) \/ RemoveSwept(t) \/ Prune(t)
    \/ \E f \in Files : Sweep(t, f)

Next ==
    \/ \E t \in Threads : Step(t) \/ TryRead(t) \/ Delete(t) \/ PruneToLimit(t) \/ Crash(t)
    \/ \E t \in Threads, blob \in Blobs : WriteAtomic(t, blob)
    \/ \E f \in Files : Age(f) \/ Damage(f)

(* A call that has begun runs to its end, and time passes.  Nothing is     *)
(* assumed about how often the cache is called.                            *)
Fairness ==
    /\ \A t \in Threads : WF_vars(Step(t))
    /\ \A f \in Files : WF_vars(Age(f))

Spec == Init /\ [][Next]_vars /\ Fairness

-----------------------------------------------------------------------------
(* try_read hands Component::deserialize (unsafe) only bytes a writer of   *)
(* this entry stored, whatever renames, deletions, crashes and damage      *)
(* happened between its read of the metadata and its read of the artifact. *)
ReadsOnlyWritten == \A t \in Threads : result[t] # None => result[t] \in written

Mismatched ==
    /\ file["artifact"] # None /\ file["meta"] # None
    /\ Hash(file["artifact"]) # file["meta"]

Lone == (file["artifact"] = None) # (file["meta"] = None)

ReadAgainAndAgain == []<>(\E t \in Threads : pc[t] = "statMeta")

(* As long as the key is asked for, a broken entry heals.  Where artifact  *)
(* and metadata do not match, a read deletes the pair or a write replaces  *)
(* it; a file left alone by a crash, a failed rename or a race does not    *)
(* stay alone forever.                                                     *)
EntryHeals == ReadAgainAndAgain => (Mismatched ~> ~Mismatched) /\ (Lone ~> ~Lone)
=============================================================================
