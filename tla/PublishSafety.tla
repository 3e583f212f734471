---------------------------- MODULE PublishSafety ----------------------------
(***************************************************************************)
(* The inductive invariants behind the safety properties of Publish: of    *)
(* any number of checks (ClaimExclusive, CheckKeepsFiles), of any number   *)
(* of processes in either mode (StrangersSpared), and of one process at a  *)
(* time, in either mode (PublishedWhole, RecordKept).                      *)
(***************************************************************************)
EXTENDS Publish

GenerateOnly  == {"stage", "restore", "dropprev", "staging", "dropstaging",
                  "mkstaging", "publish", "aside", "swap", "cleanup"}

\* What is absent has no files.
Bare(n) == n.kind = "none" => n.files = {}

-----------------------------------------------------------------------------
\* What a check at this step has still to write is not in its staging tree.
Unwritten(s, step) ==
  /\ step = "mark" => ~Has(s, "marker")
  /\ step \in {"mark", "gomod"} => ~Has(s, "gomod")
  /\ step \in {"mark", "gomod", "cases"} => ~Has(s, "cases")
  /\ step \in {"mark", "gomod", "cases", "manifest"} => ~Has(s, "manifest")
  /\ step \in {"mark", "gomod", "cases", "manifest", "judge", "complete"} =>
       ~Has(s, "complete")

\* Between its claim and its end a check has the staging tree to itself.
CheckInv ==
  /\ TypeOK
  /\ \A path \in Path : Bare(fs[path])
  /\ ClaimExclusive
  /\ \A p \in Procs :
       /\ At(p, "idle") \/ (mode[p] = "check" /\ pc[p] \notin GenerateOnly)
       /\ Building(p) => fs["staging"].kind = "dir" /\ Unwritten(fs["staging"], pc[p])
       /\ At(p, "rmdir") => fs["out"].kind # "file"

-----------------------------------------------------------------------------
\* Where a process that is at this step may rename, write or remove: the
\* three paths have been looked at one after the other.
Touchable(step) ==
  CASE step \in {"idle", "validate"} -> {}
    [] step = "stage" -> {"out"}
    [] step \in {"claim", "restore", "dropprev", "staging"} -> {"out", "prev"}
    [] OTHER -> Path

\* A stranger's tree has nothing of gengo's in it, and no process has got
\* past the check that it fails.
SparedInv ==
  /\ TypeOK
  /\ \A path \in Path :
       /\ Bare(fs[path])
       /\ Foreign \in fs[path].files =>
            /\ fs[path].files = {Foreign}
            /\ \A p \in Procs : path \notin Touchable(pc[p])

-----------------------------------------------------------------------------
AfterComplete == {"publish", "aside", "swap", "checkpublish", "rmdir", "checkswap"}
AfterManifest == {"judge", "complete"} \cup AfterComplete
AfterCases    == {"manifest"} \cup AfterManifest
AfterGoMod    == {"cases"} \cup AfterCases
AfterClaim    == {"mark", "gomod"} \cup AfterGoMod

\* The manifest in a node, if any, is that of a batch that is all there.
Sound(n) == \A e \in n.files : e[1] = "manifest" => Whole(n, e[2])

\* How far the run r, at step, has filled the staging tree s.
Progress(s, step, r) ==
  /\ step = "mkstaging" => s.kind = "none"
  /\ step \in AfterGoMod => <<"gomod", r>> \in s.files
  /\ step \in AfterCases => <<"cases", r>> \in s.files
  /\ step \in AfterManifest => <<"manifest", r>> \in s.files
  /\ step \in AfterComplete => <<"complete", r>> \in s.files
  /\ step \in AfterClaim =>
       \A e \in s.files : e[1] = "manifest" => e[2] = r /\ step \in AfterManifest

\* The tree v at <out>.prev is taken apart only while a node o is at -out,
\* and a check has no <out>.prev beside it from its claim to its end.
Siblings(o, v, step, m) ==
  /\ step \in {"dropprev", "cleanup"} => o.kind # "none"
  /\ step \in {"claim", "checkpublish", "rmdir", "checkswap"} => m = "check"
  /\ step \in GenerateOnly => m # "check"
  /\ m = "check" /\ step \in AfterClaim \cup {"claim"} => v.kind = "none"

\* Sound at -out, and at <out>.prev whenever the next run would restore it.
SoundAt(o, s, v, step, m, r) ==
  /\ Bare(o) /\ Bare(s) /\ Bare(v)
  /\ Sound(o)
  /\ o.kind = "none" => Sound(v)
  /\ Progress(s, step, r)
  /\ Siblings(o, v, step, m)

SoundInv ==
  /\ TypeOK
  /\ \A p \in Procs :
       SoundAt(fs["out"], fs["staging"], fs["prev"], pc[p], mode[p], run[p])

-----------------------------------------------------------------------------
\* A tree has at most one manifest, of a run before n.
OneManifest(t) == \A e, f \in t.files : e[1] = "manifest" /\ f[1] = "manifest" => e = f
Before(t, n)   == \A e \in t.files : e[1] = "manifest" => e[2] < n

\* n runs were started, and the run r that is at this step is the newest.
\* The trees at -out (o) and <out>.prev (v) are of earlier runs while r is on
\* its way to publication; v is a batch only while o is missing or a newer
\* batch, and it is taken apart only beside one.
RecordAt(o, v, step, r, n) ==
  /\ OneManifest(o) /\ OneManifest(v)
  /\ Before(o, n + 1) /\ Before(v, n + 1)
  /\ \A t \in {o, v} : t.kind = "file" => ~Has(t, "manifest")
  /\ Has(v, "manifest") /\ o.kind # "none" => Has(o, "manifest")
  /\ step # "idle" => r = n /\ n > 0
  /\ step \notin {"idle", "cleanup"} => Before(o, n) /\ Before(v, n)
  /\ step \in {"dropprev", "cleanup"} => Has(o, "manifest")

RecordInv ==
  /\ SoundInv
  /\ runs <= MaxRuns
  /\ \A p \in Procs : /\ RecordAt(fs["out"], fs["prev"], pc[p], run[p], runs)
                      /\ pc[p] \in AfterGoMod => fs["staging"].kind = "dir"
=============================================================================
