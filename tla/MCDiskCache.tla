---------------------------- MODULE MCDiskCache -----------------------------
(* One cache entry, two threads, two versions of the artifact.    *)
EXTENDS DiskCache
=============================================================================
