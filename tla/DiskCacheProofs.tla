--------------------------- MODULE DiskCacheProofs ---------------------------
(***************************************************************************)
(* What try_read returns, for any number of threads, contents, crashes and *)
(* damaged files (DiskCache).                                              *)
(***************************************************************************)
EXTENDS DiskCache, TLAPS

Stored == written \cup {None}

\* Neither file holds anything but stored bytes or damage, a reader keeps
\* only metadata it could parse, and a writer only what it was given.
Sound ==
    /\ file \in [Files -> Stored \cup {Damaged}]
    /\ seen \in [Threads -> [meta : Stored, artifact : Stored \cup {Damaged}]]
    /\ result \in [Threads -> Stored]
    /\ target \in [Threads -> Files \cup {None}]

\* Threads at these calls are about to remove the file they picked.
Targeting == \A t \in Threads : pc[t] \in {"ageSwept", "removeSwept"} => target[t] \in Files

PCs == {"idle", "statMeta", "ageLone", "removeLone", "readMeta", "statArtifact", "ageMeta",
        "readArtifact", "verify", "touch", "removeArtifact", "removeMeta", "renameArtifact",
        "renameMeta", "sweep", "ageSwept", "removeSwept"}

RInv == Sound /\ Targeting /\ pc \in [Threads -> PCs]

-----------------------------------------------------------------------------

(* The end of a call keeps what the other threads have seen.               *)
LEMMA ReturnSound ==
    ASSUME RInv, NEW t \in Threads, NEW b \in Stored, Return(t, b)
    PROVE  /\ seen' \in [Threads -> [meta : Stored, artifact : Stored \cup {Damaged}]]
           /\ result' \in [Threads -> Stored]
           /\ pc' \in [Threads -> PCs] /\ pc'[t] = "idle"
           /\ \A o \in Threads : o # t => pc'[o] = pc[o]
  <1>1. Nothing \in [meta : Stored, artifact : Stored \cup {Damaged}]
    BY DEF Nothing, Stored
  <1>2. seen' \in [Threads -> [meta : Stored, artifact : Stored \cup {Damaged}]]
    BY <1>1 DEF RInv, Sound, Return
  <1>3. result' \in [Threads -> Stored]
    BY DEF RInv, Sound, Return
  <1> QED
    BY <1>2, <1>3 DEF RInv, Return, Goto, PCs

(* A rename or an unlink puts stored bytes, or nothing, in a file's place. *)
LEMMA ReplaceSound ==
    ASSUME RInv, NEW f \in Files, NEW c \in Stored \cup {Damaged}, Replace(f, c)
    PROVE  file' \in [Files -> Stored \cup {Damaged}]
  BY DEF RInv, Sound, Replace

(* A step that only moves a thread on.                                     *)
LEMMA GotoTargets ==
    ASSUME RInv, NEW t \in Threads, NEW l \in PCs, Goto(t, l), target' = target,
           l \in {"ageSwept", "removeSwept"} => target[t] \in Files
    PROVE  Targeting' /\ pc' \in [Threads -> PCs]
  BY DEF RInv, Goto, Targeting

(* ... or ends its call.                                                   *)
LEMMA ReturnTargets ==
    ASSUME RInv, NEW t \in Threads, NEW b, Return(t, b), target' = target
    PROVE  Targeting' /\ pc' \in [Threads -> PCs]
  <1>1. pc' = [pc EXCEPT ![t] = "idle"]
    BY DEF Return, Goto
  <1>2. pc' \in [Threads -> PCs] /\ pc'[t] = "idle" /\ \A o \in Threads : o # t => pc'[o] = pc[o]
    BY <1>1 DEF RInv, PCs
  <1> QED
    BY <1>2 DEF RInv, Targeting

(* No file-system call, crash or damage breaks it.                         *)
LEMMA NextRInv == RInv /\ [Next]_vars => RInv'
  <1> SUFFICES ASSUME RInv, [Next]_vars PROVE RInv'
    OBVIOUS
  <1> USE DEF sweeping, disk, locals
  <1>a. None \in Stored
    BY DEF Stored
  <1>b. written' = written => Stored' = Stored
    BY DEF Stored
  <1>1. ASSUME NEW t \in Threads, TryRead(t) PROVE RInv'
    <2>1. result' \in [Threads -> Stored]
      BY <1>1, <1>a DEF TryRead, RInv, Sound
    <2>2. Targeting' /\ pc' \in [Threads -> PCs]
      BY <1>1, GotoTargets DEF TryRead, PCs
    <2> QED
      BY <1>1, <1>b, <2>1, <2>2 DEF TryRead, RInv, Sound
  <1>2. ASSUME NEW t \in Threads, StatMeta(t) \/ StatArtifact(t) \/ Delete(t) \/ PruneToLimit(t) PROVE RInv'
    <2>1. UNCHANGED <<file, seen, result, target, written>>
      BY <1>2 DEF StatMeta, StatArtifact, Delete, PruneToLimit
    <2>2. \E l \in PCs \ {"ageSwept", "removeSwept"} : Goto(t, l)
      BY <1>2 DEF StatMeta, StatArtifact, Delete, PruneToLimit, PCs
    <2>3. Targeting' /\ pc' \in [Threads -> PCs]
      BY <2>1, <2>2, GotoTargets
    <2> QED
      BY <1>b, <2>1, <2>3 DEF RInv, Sound
  <1>3. ASSUME NEW t \in Threads, AgeLone(t) \/ AgeMeta(t) \/ Prune(t) PROVE RInv'
    <2>1. UNCHANGED <<file, target, written>>
      BY <1>3 DEF AgeLone, AgeMeta, Prune
    <2>2. CASE Return(t, None)
      BY <1>a, <1>b, <2>1, <2>2, ReturnSound, ReturnTargets DEF RInv, Sound
    <2>3. CASE UNCHANGED <<seen, result>> /\ \E l \in {"removeLone", "removeArtifact"} : Goto(t, l)
      <3>1. Targeting' /\ pc' \in [Threads -> PCs]
        BY <2>1, <2>3, GotoTargets DEF PCs
      <3> QED
        BY <1>b, <2>1, <2>3, <3>1 DEF RInv, Sound
    <2> QED
      BY <1>3, <2>2, <2>3 DEF AgeLone, AgeMeta, Prune
  <1>4. ASSUME NEW t \in Threads, RemoveLone(t) \/ RemoveMeta(t) PROVE RInv'
    <2>1. Return(t, None) /\ UNCHANGED <<target, written>> /\ \E f \in Files : Replace(f, None)
      BY <1>4 DEF RemoveLone, RemoveMeta, Files
    <2> QED
      BY <1>a, <1>b, <2>1, ReturnSound, ReturnTargets, ReplaceSound DEF RInv, Sound
  <1>5. ASSUME NEW t \in Threads, ReadMeta(t) PROVE RInv'
    <2>1. file["meta"] \in Stored \cup {Damaged}
      BY DEF RInv, Sound, Files
    <2>2. seen' \in [Threads -> [meta : Stored, artifact : Stored \cup {Damaged}]]
      BY <1>5, <2>1 DEF ReadMeta, RInv, Sound
    <2>3. \E l \in {"removeArtifact", "statArtifact"} : Goto(t, l)
      BY <1>5 DEF ReadMeta
    <2>4. Targeting' /\ pc' \in [Threads -> PCs]
      BY <1>5, <2>3, GotoTargets DEF ReadMeta, PCs
    <2> QED
      BY <1>5, <1>b, <2>2, <2>4 DEF ReadMeta, RInv, Sound
  <1>6. ASSUME NEW t \in Threads, ReadArtifact(t) PROVE RInv'
    <2>1. file["artifact"] \in Stored \cup {Damaged}
      BY DEF RInv, Sound, Files
    <2>2. seen' \in [Threads -> [meta : Stored, artifact : Stored \cup {Damaged}]]
      BY <1>6, <2>1 DEF ReadArtifact, RInv, Sound
    <2>3. \E l \in {"removeArtifact", "verify"} : Goto(t, l)
      BY <1>6 DEF ReadArtifact
    <2>4. Targeting' /\ pc' \in [Threads -> PCs]
      BY <1>6, <2>3, GotoTargets DEF ReadArtifact, PCs
    <2> QED
      BY <1>6, <1>b, <2>2, <2>4 DEF ReadArtifact, RInv, Sound
  <1>7. ASSUME NEW t \in Threads, Verify(t) PROVE RInv'
    <2>1. seen[t].meta \in Stored
      BY DEF RInv, Sound
    <2>2. result' \in [Threads -> Stored]
      BY <1>7, <2>1 DEF Verify, Hash, RInv, Sound
    <2>3. \E l \in {"removeArtifact", "touch"} : Goto(t, l)
      BY <1>7 DEF Verify
    <2>4. Targeting' /\ pc' \in [Threads -> PCs]
      BY <1>7, <2>3, GotoTargets DEF Verify, PCs
    <2> QED
      BY <1>7, <1>b, <2>2, <2>4 DEF Verify, RInv, Sound
  <1>8. ASSUME NEW t \in Threads, UpdateAccess(t) PROVE RInv'
    <2>1. seen[t].meta \in Stored /\ result[t] \in Stored
      BY DEF RInv, Sound
    <2>2. file' \in [Files -> Stored \cup {Damaged}]
      BY <1>8, <2>1, ReplaceSound DEF UpdateAccess, Files, RInv, Sound
    <2> QED
      BY <1>8, <1>b, <2>1, <2>2, ReturnSound, ReturnTargets DEF UpdateAccess, RInv, Sound
  <1>9. ASSUME NEW t \in Threads, RemoveArtifact(t) \/ RenameArtifact(t) PROVE RInv'
    <2>1. seen[t].artifact \in Stored \cup {Damaged}
      BY DEF RInv, Sound
    <2>2. file' \in [Files -> Stored \cup {Damaged}]
      BY <1>9, <1>a, <2>1, ReplaceSound DEF RemoveArtifact, RenameArtifact, Files
    <2>3. UNCHANGED <<seen, result, target, written>> /\ \E l \in {"removeMeta", "renameMeta"} : Goto(t, l)
      BY <1>9 DEF RemoveArtifact, RenameArtifact
    <2>4. Targeting' /\ pc' \in [Threads -> PCs]
      BY <2>3, GotoTargets DEF PCs
    <2> QED
      BY <1>b, <2>2, <2>3, <2>4 DEF RInv, Sound
  <1>10. ASSUME NEW t \in Threads, RenameMeta(t) PROVE RInv'
    <2>1. seen[t].meta \in Stored
      BY DEF RInv, Sound
    <2>2. file' \in [Files -> Stored \cup {Damaged}]
      BY <1>10, <2>1, ReplaceSound DEF RenameMeta, Files
    <2> QED
      BY <1>10, <1>a, <1>b, <2>2, ReturnSound, ReturnTargets DEF RenameMeta, RInv, Sound
  <1>11. ASSUME NEW t \in Threads, NEW blob \in Blobs, WriteAtomic(t, blob) PROVE RInv'
    <2>1. Stored \subseteq Stored' /\ blob \in Stored'
      BY <1>11 DEF WriteAtomic, Stored
    <2>2. [meta |-> blob, artifact |-> blob] \in [meta : Stored', artifact : Stored' \cup {Damaged}]
      BY <2>1
    <2>3. seen \in [Threads -> [meta : Stored', artifact : Stored' \cup {Damaged}]]
      BY <2>1 DEF RInv, Sound
    <2>4. seen' \in [Threads -> [meta : Stored', artifact : Stored' \cup {Damaged}]]
      BY <1>11, <2>2, <2>3 DEF WriteAtomic, Hash
    <2>5. file' \in [Files -> Stored' \cup {Damaged}] /\ result' \in [Threads -> Stored']
      BY <1>11, <2>1 DEF WriteAtomic, RInv, Sound
    <2>6. Targeting' /\ pc' \in [Threads -> PCs]
      BY <1>11, GotoTargets DEF WriteAtomic, PCs
    <2> QED
      BY <1>11, <2>4, <2>5, <2>6 DEF WriteAtomic, RInv, Sound
  <1>12. ASSUME NEW t \in Threads, NEW f \in Files, Sweep(t, f) PROVE RInv'
    <2>1. UNCHANGED <<file, seen, result, written>>
      BY <1>12 DEF Sweep
    <2>2. CASE UNCHANGED <<pc, target>>
      BY <1>b, <2>1, <2>2 DEF RInv, Sound, Targeting
    <2>3. CASE Goto(t, "ageSwept") /\ target' = [target EXCEPT ![t] = f]
      <3>1. target' \in [Threads -> Files \cup {None}] /\ target'[t] = f
            /\ \A o \in Threads : o # t => target'[o] = target[o]
        BY <2>3 DEF RInv, Sound
      <3>2. pc' \in [Threads -> PCs] /\ \A o \in Threads : o # t => pc'[o] = pc[o]
        BY <2>3 DEF Goto, PCs, RInv
      <3>3. Targeting'
        BY <3>1, <3>2 DEF RInv, Targeting
      <3> QED
        BY <1>b, <2>1, <3>1, <3>2, <3>3 DEF RInv, Sound
    <2> QED
      BY <1>12, <2>2, <2>3 DEF Sweep
  <1>13. ASSUME NEW t \in Threads, AgeSwept(t) PROVE RInv'
    <2>1. UNCHANGED <<file, seen, result, written>>
      BY <1>13 DEF AgeSwept
    <2>2. CASE Goto(t, "removeSwept") /\ UNCHANGED target
      <3>1. target[t] \in Files
        BY <1>13 DEF AgeSwept, RInv, Targeting
      <3>2. Targeting' /\ pc' \in [Threads -> PCs]
        BY <2>2, <3>1, GotoTargets DEF PCs
      <3> QED
        BY <1>b, <2>1, <2>2, <3>2 DEF RInv, Sound
    <2>3. CASE Goto(t, "sweep") /\ target' = [target EXCEPT ![t] = None]
      <3>1. /\ target' \in [Threads -> Files \cup {None}] /\ pc' \in [Threads -> PCs]
            /\ \A o \in Threads : o # t => target'[o] = target[o] /\ pc'[o] = pc[o]
            /\ pc'[t] = "sweep"
        BY <2>3 DEF RInv, Sound, Goto, PCs
      <3> QED
        BY <1>b, <2>1, <3>1 DEF RInv, Sound, Targeting
    <2> QED
      BY <1>13, <2>2, <2>3 DEF AgeSwept
  <1>14. ASSUME NEW t \in Threads, RemoveSwept(t) PROVE RInv'
    <2>1. target[t] \in Files
      BY <1>14 DEF RemoveSwept, RInv, Targeting
    <2>2. file' \in [Files -> Stored \cup {Damaged}]
      BY <1>14, <1>a, <2>1, ReplaceSound DEF RemoveSwept
    <2>3. /\ target' \in [Threads -> Files \cup {None}] /\ pc' \in [Threads -> PCs]
          /\ \A o \in Threads : o # t => target'[o] = target[o] /\ pc'[o] = pc[o]
          /\ pc'[t] = "sweep" /\ UNCHANGED <<seen, result, written>>
      BY <1>14 DEF RemoveSwept, RInv, Sound, Goto, PCs
    <2> QED
      BY <1>b, <2>2, <2>3 DEF RInv, Sound, Targeting
  <1>15. ASSUME NEW f \in Files, Age(f) \/ Damage(f) PROVE RInv'
    <2>1. UNCHANGED <<pc, seen, result, target, written>>
      BY <1>15 DEF Age, Damage
    <2>2. file' \in [Files -> Stored \cup {Damaged}]
      BY <1>15 DEF Age, Damage, RInv, Sound
    <2> QED
      BY <1>b, <2>1, <2>2 DEF RInv, Sound, Targeting
  <1>16. ASSUME NEW t \in Threads, Crash(t) PROVE RInv'
    <2>1. Return(t, None) /\ UNCHANGED <<file, written>>
      BY <1>16 DEF Crash
    <2>2. /\ target' \in [Threads -> Files \cup {None}]
          /\ \A o \in Threads : o # t => target'[o] = target[o]
      BY <1>16 DEF Crash, RInv, Sound
    <2>3. /\ seen' \in [Threads -> [meta : Stored, artifact : Stored \cup {Damaged}]]
          /\ result' \in [Threads -> Stored]
          /\ pc' \in [Threads -> PCs] /\ pc'[t] = "idle"
          /\ \A o \in Threads : o # t => pc'[o] = pc[o]
      BY <1>a, <2>1, ReturnSound
    <2> QED
      BY <1>b, <2>1, <2>2, <2>3 DEF RInv, Sound, Targeting
  <1>17. CASE UNCHANGED vars
    BY <1>17 DEF RInv, Sound, Targeting, Stored, vars
  <1> QED
    BY <1>1, <1>2, <1>3, <1>4, <1>5, <1>6, <1>7, <1>8, <1>9, <1>10, <1>11, <1>12, <1>13, <1>14,
       <1>15, <1>16, <1>17 DEF Next, Step

(* try_read returns only bytes that some write_atomic of this entry was    *)
(* given: with no lock between threads or processes, the hash of the bytes *)
(* read against the metadata read before them is enough, whatever was      *)
(* renamed, removed, damaged or left half done in between.                 *)
THEOREM ReadsHold == Spec => []ReadsOnlyWritten
  <1>1. Init => RInv
    BY DEF Init, RInv, Sound, Targeting, Stored, Nothing, Files, PCs
  <1>2. RInv => ReadsOnlyWritten
    BY DEF RInv, Sound, Stored, ReadsOnlyWritten
  <1> QED
    BY <1>1, <1>2, NextRInv, PTL DEF Spec
=============================================================================
