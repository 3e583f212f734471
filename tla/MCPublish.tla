------------------------------ MODULE MCPublish ------------------------------
(***************************************************************************)
(* Instances of Publish for TLC.  The processes are model values and       *)
(* interchangeable.                                                        *)
(***************************************************************************)
EXTENDS Publish, TLC

ProcSymmetry == Permutations(Procs)
=============================================================================
