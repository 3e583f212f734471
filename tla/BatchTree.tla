------------------------------ MODULE BatchTree ------------------------------
(***************************************************************************)
(* A batch's files from generation to -verify (harness/manifest.go and the *)
(* parts of run, cmd/gengo/main.go, around it), with another writer.       *)
(*                                                                         *)
(* gengo writes the cases, records the batteries' outcomes, digests every  *)
(* input into manifest.json, has RunBatch compare the tree with it and     *)
(* judge, writes batch.json, and digests manifest and reports into         *)
(* complete.json.  Later -verify compares all of it again.  The pool is    *)
(* RunBatch: this module says what its workers find on disk.  Somebody     *)
(* else edits, removes and adds files between any two steps.               *)
(*                                                                         *)
(* A file's content is a version: not there, as gengo wrote it, or the     *)
(* k-th edit.  Digests are compared as versions.  No file goes back to     *)
(* what it was: manifest.go names an edit that is undone between           *)
(* validation and build as what it does not cover.  Symbolic links, the    *)
(* spelling of names and of digests, and golean-work (GoLean) are left     *)
(* out; ValidateBatchReport's own account of verdicts is in Report.        *)
(***************************************************************************)
EXTENDS RunBatch

CONSTANTS
  CaseFiles,   \* what gengo writes into a case directory
  BatteryFiles,\* those of them a battery needs, all or none
  MaxEdits     \* what the other writer does

ASSUME BatchTreeAssumption ==
  /\ {"subject.go", "driver.go"} \subseteq CaseFiles
  /\ BatteryFiles \in {{}, {"functions.json", "battery/functions.go"}}
  /\ BatteryFiles \subseteq CaseFiles
  /\ "stray.go" \notin CaseFiles
  /\ MaxEdits \in Nat
  /\ Outcome = {"listed", "other"}

VARIABLES
  phase,    \* where the batch is
  tree,     \* the versions of its files
  manifest, \* what manifest.json lists: a version per input
  named,    \* the battery source that functions.json names, by case
  complete, \* complete.json
  sha,      \* the subject that the report names, by case
  edits,    \* how often the other writer acted
  touched,  \* ... and when: after manifest.json, after complete.json was there
  verify    \* -verify: where it is, its flag, what it has read

batchVars == <<phase, tree, manifest, named, complete, sha, edits, touched, verify>>
files     == <<tree, manifest, named, complete>>

Absent    == 0
Generated == 1
Versions  == 0..MaxEdits + 1

Root      == 0
Reports   == {<<Root, "batch.json">>, <<Root, "manifest.tsv">>}
Descriptor == <<Root, "manifest.json">>
CaseInputs(i) == {<<i, n>> : n \in CaseFiles \cup {"stray.go"}}
Strays    == {<<i, "stray.go">> : i \in Cases \cup {Root}}
Inputs    == (UNION {CaseInputs(i) : i \in Cases}) \cup {<<Root, "go.mod">>, <<Root, "stray.go">>}
Paths     == Inputs \cup Reports \cup {Descriptor}

\* What gc compiles for a case: every .go file of its directory, under the
\* go.mod of the batch.
Compiled(i) == {<<i, n>> : n \in {"subject.go", "driver.go", "stray.go"}} \cup {<<Root, "go.mod">>}

NoComplete == [there |-> FALSE, manifest |-> Absent, bound |-> FALSE,
               reports |-> [p \in Reports |-> Absent]]

Put(p, v) == tree' = [tree EXCEPT ![p] = v]

-----------------------------------------------------------------------------
(* The checks of manifest.go.                                              *)

\* A battery's files are all there or all missing.
batteryComplete(t, i) ==
  \A m, n \in BatteryFiles : t[<<i, m>>] = Absent <=> t[<<i, n>>] = Absent

ReadManifest ==
  /\ tree[Descriptor] # Absent
  /\ \A i \in Cases : /\ \E p \in CaseInputs(i) : manifest[p] # Absent
                      /\ batteryComplete(manifest, i)

\* Nothing listed is missing or changed and nothing else is there.
InputsMatch == \A p \in Inputs : tree[p] = manifest[p]

\* functions.json names the battery source that the manifest lists.  What
\* an edited one says is anybody's guess.
checkFunctionsDoc(i) ==
  manifest[<<i, "functions.json">>] = Generated =>
    named[i] = manifest[<<i, "battery/functions.go">>]

\* A slip a change could make: what is not there now is not compared.
checkCompletePresent ==
  /\ complete.manifest = tree[Descriptor]
  /\ complete.bound => \A p \in Reports : tree[p] \in {Absent, complete.reports[p]}

checkComplete ==
  /\ complete.manifest = tree[Descriptor]
  /\ complete.bound => \A p \in Reports : complete.reports[p] = tree[p]

\* Called again after complete.json is there, it asks for the binding too.
Valid == /\ ReadManifest
         /\ InputsMatch
         /\ BatteryFiles # {} => \A i \in Cases : checkFunctionsDoc(i)
         /\ complete.there => checkComplete

\* May ValidateBatch accept, may it refuse: what it makes of a battery
\* document or a descriptor that somebody edited is open.
Edited == \/ tree[Descriptor] > Generated
          \/ \E i \in Cases : BatteryFiles # {} /\ tree[<<i, "functions.json">>] > Generated
ValidateBatch == IF Valid THEN IF Edited THEN BOOLEAN ELSE {TRUE} ELSE {FALSE}

-----------------------------------------------------------------------------
(* run, up to the judging.                                                 *)

WriteCases ==
  /\ phase = "write"
  /\ tree' = [p \in Paths |->
                IF p \in Strays \cup {Descriptor, <<Root, "batch.json">>}
                   \/ p[2] = "functions.json"
                THEN tree[p] ELSE Generated]
  /\ phase' = "battery"
  /\ UNCHANGED <<manifest, named, complete, sha, edits, touched, verify, vars>>

\* RunBattery digests the sources, runs them, and writes functions.json.
RecordBatteries ==
  /\ phase = "battery"
  /\ IF \A n \in BatteryFiles \ {"functions.json"}, i \in Cases : tree[<<i, n>>] # Absent
     THEN /\ phase' = "describe"
          /\ named' = [i \in Cases |-> IF BatteryFiles = {} THEN Absent
                                       ELSE tree[<<i, "battery/functions.go">>]]
          /\ tree' = [p \in Paths |-> IF p[2] = "functions.json" THEN Generated ELSE tree[p]]
     ELSE phase' = "failed" /\ UNCHANGED <<tree, named>>
  /\ UNCHANGED <<manifest, complete, sha, edits, touched, verify, vars>>

\* Digests are taken one file at a time, but of each file once: an edit
\* before or after one of them is an edit before or after all.
WriteManifest ==
  /\ phase = "describe"
  /\ IF /\ tree[<<Root, "go.mod">>] # Absent
        /\ \A i \in Cases : tree[<<i, "stray.go">>] = Absent /\ batteryComplete(tree, i)
     THEN /\ manifest' = [p \in Inputs |-> IF p = <<Root, "stray.go">> THEN Absent ELSE tree[p]]
          /\ Put(Descriptor, Generated)
          /\ phase' \in {"validate", "complete"}     \* judged, or only generated
     ELSE phase' = "failed" /\ UNCHANGED <<tree, manifest>>
  /\ UNCHANGED <<named, complete, sha, edits, touched, verify, vars>>

\* RunBatch begins with it.
Validate ==
  /\ phase = "validate"
  /\ \E ok \in ValidateBatch : phase' = IF ok THEN "judge" ELSE "failed"
  /\ UNCHANGED <<files, sha, edits, touched, verify, vars>>

-----------------------------------------------------------------------------
(* The judging: RunBatch's workers on this tree.                           *)

\* What a build and a run of a case now come to: what the program that the
\* manifest lists comes to, or what another one does.
OutcomeNow(i) ==
  Aborted \cup
  IF \A p \in Compiled(i) : tree[p] = manifest[p] THEN {"listed"} ELSE {"other"}

\* The worker's own reading of subject.go and the two builds are three
\* different moments.
Reads(w) ==
  /\ ReadSubject(w)
  /\ LET p == <<job[w], "subject.go">> IN
     IF at'[w] = "reference"
     THEN tree[p] # Absent /\ sha' = [sha EXCEPT ![job[w]] = tree[p]]
     ELSE UNCHANGED sha

BuildsReference(w) ==
  /\ RunReference(w)
  /\ IF HasClone THEN seen'[w] \in OutcomeNow(job[w])
                 ELSE results'[job[w]].ref \in OutcomeNow(job[w])
  /\ UNCHANGED sha

BuildsClone(w) ==
  /\ RunClone(w)
  /\ results'[job[w]].clone \in OutcomeNow(job[w])
  /\ UNCHANGED sha

TreeWorkerStep(w) ==
  /\ phase = "judge"
  /\ \/ (Skip(w) \/ Begin(w) \/ Leave(w)) /\ UNCHANGED sha
     \/ Reads(w)
     \/ BuildsReference(w)
     \/ BuildsClone(w)
  /\ UNCHANGED <<phase, files, edits, touched, verify>>

TreeMainStep ==
  /\ phase = "judge"
  /\ MainStep \/ Cancel
  /\ UNCHANGED batchVars

\* A slip: the manifest is made to list what the report names.
WriteBatchRebinds ==
  /\ phase = "judge" /\ main \in {"report", "error"}
  /\ IF main = "report"
     THEN /\ phase' = "complete" /\ Put(<<Root, "batch.json">>, Generated)
          /\ manifest' = [p \in Inputs |-> IF p[2] = "subject.go" THEN sha[p[1]] ELSE manifest[p]]
     ELSE phase' = "failed" /\ UNCHANGED <<tree, manifest>>
  /\ UNCHANGED <<named, complete, sha, edits, touched, verify, vars>>

WriteBatch ==
  /\ phase = "judge" /\ main \in {"report", "error"}
  /\ IF main = "report" THEN phase' = "complete" /\ Put(<<Root, "batch.json">>, Generated)
                        ELSE phase' = "failed" /\ UNCHANGED tree
  /\ UNCHANGED <<manifest, named, complete, sha, edits, touched, verify, vars>>

\* complete.json digests manifest.json and the reports as they are now.
WriteComplete ==
  /\ phase = "complete"
  /\ complete' = [there |-> TRUE, manifest |-> tree[Descriptor],
                  bound |-> \E p \in Reports : tree[p] # Absent,
                  reports |-> [p \in Reports |-> tree[p]]]
  /\ phase' = "published"
  /\ UNCHANGED <<tree, manifest, named, sha, edits, touched, verify, vars>>

-----------------------------------------------------------------------------
(* gengo -verify.                                                          *)

VerifyStep(from, to) == /\ verify.at = from
                        /\ \E end \in to : verify' = [verify EXCEPT !.at = end]
                        /\ UNCHANGED <<phase, files, sha, edits, touched, vars>>

StartVerify ==
  /\ phase = "published" /\ verify.at = "none"
  /\ \E legacy \in BOOLEAN : verify' = [verify EXCEPT !.at = "complete", !.legacy = legacy]
  /\ UNCHANGED <<phase, files, sha, edits, touched, vars>>

\* VerifyBatch asks for complete.json first, and remembers whether it binds
\* the reports.
VerifyComplete ==
  /\ verify.at = "complete"
  /\ verify' = [verify EXCEPT !.at = IF complete.there /\ checkComplete THEN "tree" ELSE "refused",
                              !.bound = complete.bound]
  /\ UNCHANGED <<phase, files, sha, edits, touched, vars>>

VerifyTree ==
  VerifyStep("tree",
    {IF ok /\ (verify.bound \/ verify.legacy) THEN "report" ELSE "refused" : ok \in ValidateBatch})

\* A batch that was not judged has no report.  A report or a descriptor
\* that somebody edits now is read as it is then.
VerifyReport ==
  LET report == tree[<<Root, "batch.json">>] IN
  VerifyStep("report",
    IF report = Absent THEN {"accepted"}
    ELSE IF ~ReadManifest THEN {"refused"}
    ELSE IF report > Generated \/ tree[Descriptor] > Generated THEN {"accepted", "refused"}
    ELSE IF \A i \in Cases : sha[i] # Absent /\ sha[i] = manifest[<<i, "subject.go">>]
         THEN {"accepted"} ELSE {"refused"})

-----------------------------------------------------------------------------
(* The other writer.  Until complete.json is there it leaves the           *)
(* descriptor and the reports alone ("call it after every other batch      *)
(* file is final").                                                        *)

Editable == IF complete.there THEN Paths ELSE Inputs

\* What is changed while -verify runs is as if it were changed afterwards.
When == IF phase = "published" THEN IF verify.at = "none" THEN {"completed"} ELSE {}
        ELSE IF phase \in {"write", "battery", "describe"} THEN {} ELSE {"described"}

Acts == /\ phase \notin {"write", "failed"} /\ edits < MaxEdits
        /\ verify.at \notin {"accepted", "refused"}
        /\ edits' = edits + 1
        /\ touched' = touched \cup When
        /\ UNCHANGED <<phase, manifest, named, sha, verify, vars>>

Edit ==
  /\ Acts
  /\ \E p \in Editable : /\ tree[p] # Absent \/ p \in Strays
                         /\ Put(p, edits + 2)
  /\ UNCHANGED complete

Remove ==
  /\ Acts
  /\ \E p \in Editable \ Strays : tree[p] # Absent /\ Put(p, Absent)
  /\ UNCHANGED complete

\* complete.json is taken away, or loses its reportFiles.
EditComplete ==
  /\ Acts
  /\ complete.there
  /\ complete' \in {NoComplete, [complete EXCEPT !.bound = FALSE]}
  /\ UNCHANGED tree

-----------------------------------------------------------------------------
TreeInit ==
  /\ Init
  /\ phase = "write"
  /\ tree = [p \in Paths |-> Absent]
  /\ manifest = [p \in Inputs |-> Absent]
  /\ named = [i \in Cases |-> Absent]
  /\ complete = NoComplete
  /\ sha = [i \in Cases |-> Absent]
  /\ edits = 0
  /\ touched = {}
  /\ verify = [at |-> "none", legacy |-> FALSE, bound |-> FALSE]

Gengo == \/ WriteCases \/ RecordBatteries \/ WriteManifest \/ Validate
         \/ WriteBatch \/ WriteComplete

Verification == StartVerify \/ VerifyComplete \/ VerifyTree \/ VerifyReport

TreeNext == \/ Gengo \/ TreeMainStep \/ (\E w \in Workers : TreeWorkerStep(w))
            \/ Verification
            \/ Edit \/ Remove \/ EditComplete

TreeSpec == TreeInit /\ [][TreeNext]_<<batchVars, vars>>

\* gengo's goroutines are scheduled and every build and run ends (GcAdapter).
\* Nobody has to cancel, to edit or to verify.
FairTreeSpec ==
  /\ TreeSpec
  /\ WF_<<batchVars, vars>>(phase = "judge" /\ MainStep /\ UNCHANGED batchVars)
  /\ \A w \in Workers : WF_<<batchVars, vars>>(TreeWorkerStep(w))

-----------------------------------------------------------------------------
(* Properties.                                                             *)

TreeTypeOK ==
  /\ TypeOK
  /\ phase \in {"write", "battery", "describe", "validate", "judge", "complete",
                "published", "failed"}
  /\ tree \in [Paths -> Versions]
  /\ manifest \in [Inputs -> Versions]
  /\ named \in [Cases -> Versions]
  /\ complete \in [there : BOOLEAN, manifest : Versions, bound : BOOLEAN,
                   reports : [Reports -> Versions]]
  /\ sha \in [Cases -> Versions]
  /\ edits \in 0..MaxEdits /\ touched \subseteq {"described", "completed"}
  /\ verify \in [at : {"none", "complete", "tree", "report", "accepted", "refused"},
                 legacy : BOOLEAN, bound : BOOLEAN]

\* "batch.json names the exact programs a verdict was computed over": when
\* -verify accepts a judged batch, every outcome in its report, of the
\* reference and of the clone, is of the program that the manifest lists, and
\* the subject the report names is that program's, although the tree is
\* checked once before all the builds and once long after them; and no input
\* of any batch it accepts was changed between its two descriptors.  (A
\* report that somebody edits while -verify runs is digested before the edit
\* and read after it: it is not gengo's.)
OwnReport == \A p \in {<<Root, "batch.json">>, Descriptor} : tree[p] = Generated
AcceptedIsJudged ==
  verify.at = "accepted" =>
    /\ "described" \notin touched
    /\ main = "report" /\ OwnReport =>
         \A i \in Cases : /\ {results[i].ref, results[i].clone} \subseteq {"listed", None}
                          /\ sha[i] = manifest[<<i, "subject.go">>]

\* -verify accepts a batch that nobody changed, and without
\* -allow-legacy-verify none that was changed since it was complete: not an
\* input, not a report, not complete.json.  A case whose subject could not be
\* read is refused too.
VerifyIsExact ==
  /\ verify.at = "accepted" /\ ~verify.legacy => "completed" \notin touched
  /\ verify.at = "refused" =>
       edits > 0 \/ \E i \in Cases : main = "report" /\ results[i] = Unreadable

\* Once the tree is found valid, RunBatch returns, cancelled or not.
JudgingEnds == phase = "judge" ~> main \in {"report", "error"}
=============================================================================
