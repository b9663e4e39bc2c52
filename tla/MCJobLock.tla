------------------------------ MODULE MCJobLock ------------------------------
(* Small instances of JobLock for TLC. *)
EXTENDS JobLock

CONSTANTS w1, ingest, recheck
=============================================================================
