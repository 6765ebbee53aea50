------------------------------- MODULE Permits -------------------------------
(***************************************************************************)
(* What the two planes share: a permit JTI names one reservation in the     *)
(* Context tables and one lease, attempt and generation in the Generation   *)
(* tables, and one PostgreSQL server keeps time for both.                   *)
(***************************************************************************)
EXTENDS DatabaseClock

CONSTANT Permit  \* permit JTIs
==============================================================================
