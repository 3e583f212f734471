--------------------------- MODULE BatchOfRecord ---------------------------
(***************************************************************************)
(* What gengo promises about the batch at -out, with no file system in     *)
(* it.  Runs are numbered in the order they start.  record is the run      *)
(* whose finished batch a user can get back (0: there is none yet).  A     *)
(* finished run replaces it as a whole; an interrupted, refused or failed  *)
(* run leaves it alone.  It never vanishes and never goes back to an       *)
(* older run.                                                              *)
(***************************************************************************)
EXTENDS Naturals

VARIABLE record

Init == record = 0

Replace == /\ record' \in Nat
           /\ record' > record

Spec == Init /\ [][Replace]_record
=============================================================================
