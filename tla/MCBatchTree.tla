---------------------------- MODULE MCBatchTree ----------------------------
(***************************************************************************)
(* Instances of BatchTree, and through it of RunBatch, for TLC: an outcome *)
(* is of the program that the manifest lists, of another one, or what a    *)
(* cancellation leaves behind.  The workers are model values.              *)
(***************************************************************************)
EXTENDS BatchTree

MCOutcome == {"listed", "other"}
MCAborted == {"cut"}
MCVerdict == {"match", "mismatch", "infra", "harness-error"}
MCJudge(r, c) == IF "cut" \in {r, c} THEN "infra"
                 ELSE IF r = c THEN "match" ELSE "mismatch"
=============================================================================
