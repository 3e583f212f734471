------------------------------ MODULE Publish ------------------------------
(***************************************************************************)
(* Staging and publication of a batch (cmd/gengo/main.go, check.go).       *)
(*                                                                         *)
(* A run builds its batch in the sibling <out>.staging and publishes it by *)
(* renaming the tree onto <out>; a previous batch is kept as <out>.prev    *)
(* until the swap is done.  Every step below is one system call that       *)
(* changes the tree, or one read and the decision taken on it, so a crash  *)
(* or another writer can fall between any two of them.                     *)
(*                                                                         *)
(* A node of the file system is its kind and the set of files under it;    *)
(* a file is a name and the run that wrote it (0: not gengo).  All case    *)
(* files of a run are one entry "cases"; batch.json and manifest.tsv are   *)
(* written with complete.json.  Symlinks are not modelled.                 *)
(***************************************************************************)
EXTENDS Naturals, FiniteSets

CONSTANTS
  Procs,    \* the gengo processes that are given this -out
  Modes,    \* the modes they may run in: "generate", "check"
  User,     \* what the user may do to the three paths meanwhile
  MaxRuns   \* how many runs are started (bounds the model)

ASSUME PublishAssumption ==
  /\ Modes \subseteq {"generate", "check"}
  /\ User \subseteq {"mkdir", "write", "file", "take", "clear"}
  /\ MaxRuns \in Nat

VARIABLES
  fs,    \* the node at each path
  pc,    \* where each process is
  mode,  \* the mode of its current run
  run,   \* the number of its current run
  runs   \* how many runs were started

vars == <<fs, pc, mode, run, runs>>

Path  == {"out", "staging", "prev"}
Name  == {"marker", "gomod", "cases", "manifest", "complete", "foreign"}
Entry == Name \X Nat
Node  == [kind : {"none", "dir", "file"}, files : SUBSET Entry]

Dir(files) == [kind |-> "dir", files |-> files]
NoNode     == [kind |-> "none", files |-> {}]
EmptyDir   == Dir({})
Foreign    == <<"foreign", 0>>
UserFile   == [kind |-> "file", files |-> {Foreign}]

Exists(path)  == fs[path].kind # "none"
Has(n, name)  == \E e \in n.files : e[1] = name

\* The tree parses as a gengo batch: its manifest.json is there.
ownedBatchDir(path) == Has(fs[path], "manifest")

\* The staging tree carries the marker that names this -out.
stagingIsOurs(path) == fs[path].kind = "dir" /\ Has(fs[path], "marker")

\* Every file of run r's batch is in the node.
Whole(n, r) ==
  \A name \in {"gomod", "cases", "manifest", "complete"} : <<name, r>> \in n.files

Step == {"idle", "validate", "stage", "restore", "dropprev", "staging",
         "dropstaging", "mkstaging", "claim", "mark", "gomod", "cases",
         "manifest", "judge", "complete", "publish", "aside", "swap",
         "cleanup", "checkpublish", "rmdir", "checkswap"}

-----------------------------------------------------------------------------
(* Moves of one process.                                                   *)

At(p, step) == pc[p] = step
Goto(p, step) == /\ pc' = [pc EXCEPT ![p] = step]
                 /\ UNCHANGED <<mode, run, runs>>

\* The run returns an error; what it wrote stays where it is.
Refuse(p) == Goto(p, "idle") /\ UNCHANGED fs

\* os.Rename refuses a destination directory, and the kernel a directory
\* over a file.  (A file moved over a file does not occur: a run that finds
\* one at <out>.prev has stopped in stageBatchDir.)
CanRename(src, dst) == Exists(src) /\ ~Exists(dst)

Rename(src, dst) == fs' = [fs EXCEPT ![src] = NoNode, ![dst] = fs[src]]

\* One step of os.RemoveAll(path): it unlinks the entries one by one, in
\* the order the directory lists them, and the directory itself last.
RemoveAll(p, path, next) ==
  \/ /\ fs[path].kind = "dir"
     /\ \E e \in fs[path].files :
          fs' = [fs EXCEPT ![path] = Dir(fs[path].files \ {e})]
     /\ Goto(p, pc[p])
  \/ /\ fs[path].kind = "dir" => fs[path].files = {}
     /\ fs' = [fs EXCEPT ![path] = NoNode]
     /\ Goto(p, next)

\* A file written over whatever had its name in the staging directory.
WriteStaged(p, name, r, next) ==
  /\ fs' = [fs EXCEPT !["staging"] =
              Dir({e \in fs["staging"].files : e[1] # name} \cup {<<name, r>>})]
  /\ Goto(p, next)

-----------------------------------------------------------------------------
(* Slips a change to this code could make.  No step of the model uses      *)
(* them: each, put in the place of the definition it is named after, must  *)
(* break the property that is there to notice it.                          *)

\* An interrupted publish is mistaken for a finished one.
StatPrevDropsAlways(p) ==
  /\ At(p, "stage")
  /\ UNCHANGED fs
  /\ \/ ~Exists("prev") /\ Goto(p, "staging")
     \/ Exists("prev") /\ ~ownedBatchDir("prev") /\ Goto(p, "idle")
     \/ ownedBatchDir("prev") /\ Goto(p, "dropprev")

\* An interrupted publish is refused like a stranger's tree.
StatPrevRefusesMissingOut(p) ==
  /\ At(p, "stage")
  /\ UNCHANGED fs
  /\ \/ ~Exists("prev") /\ Goto(p, "staging")
     \/ Exists("prev") /\ ~(ownedBatchDir("prev") /\ Exists("out")) /\ Goto(p, "idle")
     \/ ownedBatchDir("prev") /\ Exists("out") /\ Goto(p, "dropprev")

\* A staging tree is taken for a leftover by its name alone.
StatStagingByName(p) ==
  /\ At(p, "staging")
  /\ UNCHANGED fs
  /\ \/ ~Exists("staging") /\ Goto(p, "mkstaging")
     \/ Exists("staging") /\ Goto(p, "dropstaging")

\* MkdirAll instead of Mkdir: it claims what exists, too.
ClaimStagingAnyway(p) ==
  /\ At(p, "claim")
  /\ Goto(p, "mark")
  /\ \/ ~Exists("staging") /\ fs' = [fs EXCEPT !["staging"] = EmptyDir]
     \/ Exists("staging") /\ UNCHANGED fs

\* An aborted campaign is published with the cases it has.
JudgeBatchPublishesAborted(p) ==
  /\ At(p, "judge")
  /\ UNCHANGED fs
  /\ Goto(p, "complete") \/ Goto(p, "publish")

\* The completion is written under a temporary name and never renamed.
WriteCompleteTemporary(p) ==
  /\ At(p, "complete")
  /\ WriteStaged(p, "complete.tmp", run[p],
                 IF mode[p] = "check" THEN "checkpublish" ELSE "publish")

\* RemoveAll instead of Remove.
RemoveOutAll(p) == At(p, "rmdir") /\ RemoveAll(p, "out", "checkswap")

-----------------------------------------------------------------------------
(* A run begins: validate and loadCheck.                                   *)

Start(p) ==
  /\ At(p, "idle")
  /\ runs < MaxRuns
  /\ \E m \in Modes : mode' = [mode EXCEPT ![p] = m]
  /\ runs' = runs + 1
  /\ run' = [run EXCEPT ![p] = runs + 1]
  /\ pc' = [pc EXCEPT ![p] = "validate"]
  /\ UNCHANGED fs

\* -out is absent, empty, or a batch of ours.
OutAcceptable == \/ ~Exists("out")
                 \/ fs["out"] = EmptyDir
                 \/ fs["out"].kind = "dir" /\ ownedBatchDir("out")

\* A check wants a fresh destination and no interrupted publish beside it.
CheckAcceptable == /\ ~Exists("out") \/ fs["out"] = EmptyDir
                   /\ ~Exists("prev")

Validate(p) ==
  /\ At(p, "validate")
  /\ \/ mode[p] = "generate" /\ OutAcceptable /\ Goto(p, "stage") /\ UNCHANGED fs
     \/ mode[p] = "generate" /\ ~OutAcceptable /\ Refuse(p)
     \/ mode[p] = "check" /\ CheckAcceptable /\ Goto(p, "claim") /\ UNCHANGED fs
     \/ mode[p] = "check" /\ ~CheckAcceptable /\ Refuse(p)

-----------------------------------------------------------------------------
(* stageBatchDir.                                                          *)

\* Generate: a leftover <out>.prev is restored, dropped or refused.
StatPrev(p) ==
  /\ At(p, "stage")
  /\ UNCHANGED fs
  /\ \/ ~Exists("prev") /\ Goto(p, "staging")
     \/ Exists("prev") /\ ~ownedBatchDir("prev") /\ Goto(p, "idle")
     \/ ownedBatchDir("prev") /\ ~Exists("out") /\ Goto(p, "restore")
     \/ ownedBatchDir("prev") /\ Exists("out") /\ Goto(p, "dropprev")

RestorePrev(p) ==
  /\ At(p, "restore")
  /\ \/ CanRename("prev", "out") /\ Rename("prev", "out") /\ Goto(p, "staging")
     \/ ~CanRename("prev", "out") /\ Refuse(p)

DropPrev(p) == At(p, "dropprev") /\ RemoveAll(p, "prev", "staging")

\* Generate: a leftover staging tree is removed if it is ours.
StatStaging(p) ==
  /\ At(p, "staging")
  /\ UNCHANGED fs
  /\ \/ ~Exists("staging") /\ Goto(p, "mkstaging")
     \/ stagingIsOurs("staging") /\ Goto(p, "dropstaging")
     \/ Exists("staging") /\ ~stagingIsOurs("staging") /\ Goto(p, "idle")

DropStaging(p) == At(p, "dropstaging") /\ RemoveAll(p, "staging", "mkstaging")

\* os.MkdirAll takes a directory that another run has put there since.
MakeStaging(p) ==
  /\ At(p, "mkstaging")
  /\ Goto(p, "mark")
  /\ \/ ~Exists("staging") /\ fs' = [fs EXCEPT !["staging"] = EmptyDir]
     \/ Exists("staging") /\ UNCHANGED fs

\* Check: the atomic os.Mkdir is the claim on the staging path.
ClaimStaging(p) ==
  /\ At(p, "claim")
  /\ \/ /\ ~Exists("staging")
        /\ fs' = [fs EXCEPT !["staging"] = EmptyDir]
        /\ Goto(p, "mark")
     \/ Exists("staging") /\ Refuse(p)

WriteMarker(p) ==
  /\ At(p, "mark")
  /\ \/ fs["staging"].kind = "dir" /\ WriteStaged(p, "marker", run[p], "gomod")
     \/ fs["staging"].kind # "dir" /\ Refuse(p)

-----------------------------------------------------------------------------
(* run: the batch is written into staging, complete.json last.             *)

WriteGoMod(p) ==
  /\ At(p, "gomod")
  /\ \/ fs["staging"].kind = "dir" /\ WriteStaged(p, "gomod", run[p], "cases")
     \/ fs["staging"].kind # "dir" /\ Refuse(p)

\* The MkdirAll of a case directory creates a staging root that has gone.
WriteCases(p) ==
  /\ At(p, "cases")
  /\ WriteStaged(p, "cases", run[p], "manifest")

\* WriteManifest digests go.mod and every case; either missing is an error.
WriteManifest(p) ==
  /\ At(p, "manifest")
  /\ LET ready == Has(fs["staging"], "gomod") /\ Has(fs["staging"], "cases")
     IN \/ ready /\ WriteStaged(p, "manifest", run[p], "judge")
        \/ ~ready /\ Refuse(p)

\* A judged campaign may be aborted; an unjudged run goes straight on.
JudgeBatch(p) ==
  /\ At(p, "judge")
  /\ \/ Goto(p, "complete") /\ UNCHANGED fs
     \/ Refuse(p)

\* complete.json binds the manifest that is on disk.
WriteComplete(p) ==
  /\ At(p, "complete")
  /\ LET next == IF mode[p] = "check" THEN "checkpublish" ELSE "publish"
     IN \/ \E e \in fs["staging"].files :
             e[1] = "manifest" /\ WriteStaged(p, "complete", e[2], next)
        \/ ~Has(fs["staging"], "manifest") /\ Refuse(p)

-----------------------------------------------------------------------------
(* publishBatchMode: the generate swap.                                    *)

StatOut(p) ==
  /\ At(p, "publish")
  /\ UNCHANGED fs
  /\ \/ Exists("out") /\ Goto(p, "aside")
     \/ ~Exists("out") /\ Goto(p, "swap")

MoveAside(p) ==
  /\ At(p, "aside")
  /\ \/ CanRename("out", "prev") /\ Rename("out", "prev") /\ Goto(p, "swap")
     \/ ~CanRename("out", "prev") /\ Refuse(p)

Swap(p) ==
  /\ At(p, "swap")
  /\ \/ CanRename("staging", "out") /\ Rename("staging", "out") /\ Goto(p, "cleanup")
     \/ ~CanRename("staging", "out") /\ Refuse(p)

Cleanup(p) == At(p, "cleanup") /\ RemoveAll(p, "prev", "idle")

-----------------------------------------------------------------------------
(* publishCheck: nothing at -out is replaced but an empty directory.       *)

StatCheckOut(p) ==
  /\ At(p, "checkpublish")
  /\ UNCHANGED fs
  /\ \/ ~Exists("out") /\ Goto(p, "checkswap")
     \/ fs["out"] = EmptyDir /\ Goto(p, "rmdir")
     \/ Exists("out") /\ fs["out"] # EmptyDir /\ Goto(p, "idle")

\* os.Remove unlinks a file and removes an empty directory.
RemoveOut(p) ==
  /\ At(p, "rmdir")
  /\ LET removable == fs["out"] = EmptyDir \/ fs["out"].kind = "file"
     IN \/ /\ removable
           /\ fs' = [fs EXCEPT !["out"] = NoNode]
           /\ Goto(p, "checkswap")
        \/ ~removable /\ Refuse(p)

CheckSwap(p) ==
  /\ At(p, "checkswap")
  /\ \/ CanRename("staging", "out") /\ Rename("staging", "out") /\ Goto(p, "idle")
     \/ ~CanRename("staging", "out") /\ Refuse(p)

-----------------------------------------------------------------------------
(* The environment.                                                        *)

\* A process dies, or a system call fails, at any point of its run.  The
\* last run is let through, so there is always a next run to look at the
\* leftovers.
Crash(p) ==
  /\ ~At(p, "idle")
  /\ runs < MaxRuns
  /\ Refuse(p)

Put(path, node) == /\ fs' = [fs EXCEPT ![path] = node]
                   /\ UNCHANGED <<pc, mode, run, runs>>

MkdirOut == "mkdir" \in User /\ ~Exists("out") /\ Put("out", EmptyDir)

\* What is the user's own takes the place of an absent or empty -out: a
\* directory with a file outside any batch of ours, or a plain file.
FillOut == \E what \in {"write", "file"} \intersect User :
             /\ ~Exists("out") \/ fs["out"] = EmptyDir
             /\ Put("out", IF what = "file" THEN UserFile ELSE Dir({Foreign}))

TakeOut == "take" \in User /\ Exists("out") /\ Put("out", NoNode)

\* The advice in the error messages: with no run alive, move the tree that
\* a run refused to touch aside.
ClearSibling ==
  /\ "clear" \in User
  /\ \A p \in Procs : At(p, "idle")
  /\ \/ Exists("staging") /\ Put("staging", NoNode)
     \/ Exists("prev") /\ ~ownedBatchDir("prev") /\ Put("prev", NoNode)

UserStep == MkdirOut \/ FillOut \/ TakeOut \/ ClearSibling

-----------------------------------------------------------------------------
\* One step of a run that has begun.
RunStep(p) ==
  \/ Validate(p) \/ StatPrev(p) \/ RestorePrev(p) \/ DropPrev(p)
  \/ StatStaging(p) \/ DropStaging(p) \/ MakeStaging(p) \/ ClaimStaging(p)
  \/ WriteMarker(p) \/ WriteGoMod(p) \/ WriteCases(p) \/ WriteManifest(p)
  \/ JudgeBatch(p) \/ WriteComplete(p) \/ StatOut(p) \/ MoveAside(p)
  \/ Swap(p) \/ Cleanup(p) \/ StatCheckOut(p) \/ RemoveOut(p) \/ CheckSwap(p)

Init ==
  /\ fs \in [Path -> {NoNode, EmptyDir, UserFile, Dir({Foreign})}]
  /\ pc = [p \in Procs |-> "idle"]
  /\ mode = [p \in Procs |-> "generate"]
  /\ run = [p \in Procs |-> 0]
  /\ runs = 0

Next == \/ \E p \in Procs : Start(p) \/ RunStep(p) \/ Crash(p)
        \/ UserStep

Spec == Init /\ [][Next]_vars

\* A process that runs keeps running, and the user keeps starting runs.
FairSpec == Spec /\ \A p \in Procs : WF_vars(Start(p)) /\ WF_vars(RunStep(p))

-----------------------------------------------------------------------------
(* Properties.                                                             *)

TypeOK ==
  /\ fs \in [Path -> Node]
  /\ pc \in [Procs -> Step]
  /\ mode \in [Procs -> {"generate", "check"}]
  /\ run \in [Procs -> Nat]
  /\ runs \in Nat

\* What stands at -out and parses as a batch is one finished run's batch,
\* every file of it there: publication happens only after complete.json,
\* and recovery (stageBatchDir) only ever brings back such a tree.
PublishedWhole ==
  \A e \in fs["out"].files : e[1] = "manifest" => Whole(fs["out"], e[2])

\* The run whose batch the user has, or gets back from the next run.
ManifestOf(path) == CHOOSE r \in 0..MaxRuns : <<"manifest", r>> \in fs[path].files
Recoverable == IF ownedBatchDir("out") THEN ManifestOf("out")
               ELSE IF ownedBatchDir("prev") THEN ManifestOf("prev")
               ELSE 0

Abstract == INSTANCE BatchOfRecord WITH record <- Recoverable

\* E3, "interruption preserves the previous batch": wherever a run is cut
\* off, what -out and <out>.prev hold between them is the newest published
\* batch, until a newer one takes its place.
RecordKept == Abstract!Spec

\* A tree that is not gengo's is never consumed, deleted or published by a
\* run, at any of the three paths (validate and stageBatchDir refuse it).
StrangersSpared ==
  [][\/ UserStep
     \/ \A path \in Path : Foreign \in fs[path].files => Foreign \in fs'[path].files]_fs

\* An interrupted publish (the batch is in <out>.prev and -out is missing)
\* is rolled back by a later run that generates, or completed by the run
\* that is in it.  (A check refuses such an -out; the bound on the runs may
\* leave only that one to be started.)
LastIsCheck == runs = MaxRuns /\ \A p \in Procs : mode[p] = "check"
Recovers ==
  (~Exists("out") /\ ownedBatchDir("prev")) ~> (ownedBatchDir("out") \/ LastIsCheck)

\* Two checks never write into one staging tree: the Mkdir that claims it
\* lets one of them past (stageBatchDir, exclusive).
Building(p) == pc[p] \in {"mark", "gomod", "cases", "manifest", "judge",
                          "complete", "checkpublish", "rmdir", "checkswap"}
ClaimExclusive == \A p, q \in Procs : Building(p) /\ Building(q) => p = q

\* A check replaces nothing: a file that stands at one of the paths is
\* still there after a step of a check, or has moved from staging to -out
\* in its publication (publishCheck).
CheckKeepsFiles ==
  [][\/ UserStep
     \/ \A path \in Path :
          \/ fs[path].files \subseteq fs'[path].files
          \/ path = "staging" /\ fs'["out"] = fs["staging"]]_fs

=============================================================================
