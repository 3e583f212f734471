------------------------------- MODULE GoLean -------------------------------
(***************************************************************************)
(* golean campaigns over one work directory (golean/golean.go, golean.Run  *)
(* and workdigest.go; runGoLean, cmd/gengo/main.go).                       *)
(*                                                                         *)
(* A campaign writes its cases and a manifest into the work directory,     *)
(* runs an external script on them, and takes the verdicts from the        *)
(* results that the script leaves there.  A later campaign finds what an   *)
(* earlier one left: golean.Run takes any work directory.  A campaign may  *)
(* fail or die between any two steps; whether its script outlives it is    *)
(* the parameter Orphans.                                                  *)
(*                                                                         *)
(* A file is the set of its content, {} when it is not there.  The bytes   *)
(* of a subject are a token, "edited" for any others in its place (a       *)
(* short write, somebody's edit), "none" for a case without its main.go.   *)
(* The script's log, its artifacts and the go shim are left out: nothing   *)
(* reads them.                                                             *)
(***************************************************************************)
EXTENDS Naturals, FiniteSets, Functions

CONSTANTS
  N,         \* cases per campaign
  MaxRuns,   \* campaigns; there is one edit at most
  Classes,   \* what the reference made of a case, see Status
  Sources,   \* the subjects there are
  Found,     \* what the script may find: verdicts
  Orphans,   \* does a script outlive the gengo that started it
  Editor     \* what somebody else may do: "edit", "place"

ASSUME GoLeanAssumption ==
  /\ N \in Nat /\ MaxRuns \in Nat
  /\ Classes \subseteq {"ok", "panic", "message", "obs", "infra", "invalid"}
  /\ "edited" \notin Sources /\ "none" \notin Sources
  /\ Found \subseteq {"match", "observation-mismatch", "clone-infra-failure", "harness-error"}
  /\ Orphans \in BOOLEAN

Ids    == 1..N
Theirs == 0      \* a directory under cases/ that no campaign wrote
Runs   == 1..MaxRuns

VARIABLES
  work,    \* the work directory
  run,     \* the number of the campaign
  pc,      \* where it is
  batch,   \* per case: class, subject.go on disk, its digest in the report
  k,       \* the case being translated
  manifest,\* the rows written so far: case -> expected status
  verdict, \* the verdicts so far: case -> verdict, and the row it is from
  digests, \* the digests of the report: {} before they are taken
  script,  \* the scripts, by campaign
  edited,  \* somebody has edited the tree
  accepted \* VerifyWork's answer

vars == <<work, run, pc, batch, k, manifest, verdict, digests, script, edited, accepted>>
campaign == <<batch, k, manifest, verdict, digests>>

NoWork == [root |-> FALSE, cases |-> <<>>, marker |-> "none",
           manifest |-> {}, results |-> {}, meta |-> {}, extra |-> FALSE]

Without(f, i) == Restrict(f, DOMAIN f \ {i})
With(f, i, v) == [j \in DOMAIN f \cup {i} |-> IF j = i THEN v ELSE f[j]]

At(here)   == pc = here
Goto(next) == pc' = next

\* The campaign ends without a report; what it knew is gone.
End == /\ pc' = "idle"
       /\ batch' = <<>> /\ k' = 1 /\ manifest' = <<>> /\ verdict' = <<>> /\ digests' = {}
Continue(next) == Goto(next) /\ UNCHANGED campaign

NoScript == [pc |-> "none", manifest |-> <<>>, rows |-> {}, todo |-> {}]
Exits    == {"exit0", "exit1", "exit2"}
Gone     == Exits \cup {"killed"}

-----------------------------------------------------------------------------
(* Slips a change to this code could make; no action uses them.            *)

\* Any marker will do.
ClearCaseRootAnyMarker ==
  /\ At("clear")
  /\ \/ ~work.root /\ Continue("make")
     \/ work.root /\ work.marker # "none" /\ Continue("remove")
     \/ work.root /\ work.marker = "none" /\ End
  /\ UNCHANGED <<work, run, script, edited, accepted>>

\* The meta file alone is taken for proof that the results are new.
RemoveResultsKeeps ==
  /\ At("rmresults")
  /\ Goto("rmmeta")
  /\ UNCHANGED <<work, run, campaign, script, edited, accepted>>

\* The ceiling bounds the build, not what comes after it.
CeilingOfBuild ==
  /\ At("wait") /\ script[run].pc = "started"
  /\ script' = [script EXCEPT ![run].pc = "killed"]
  /\ End
  /\ UNCHANGED <<work, run, edited, accepted>>

\* The digests are recorded without comparing them with the subjects'.
DigestUncompared ==
  /\ At("digest")
  /\ digests' = {[cases |-> work.cases, manifest |-> work.manifest,
                  results |-> work.results, meta |-> work.meta]}
  /\ Goto("written")
  /\ UNCHANGED <<work, run, batch, k, manifest, verdict, script, edited, accepted>>

\* Entries that no digest covers go unnoticed.
WorkDigestsOpen ==
  IF \E i \in DOMAIN work.cases : work.cases[i] \in {"none", "extra"}
    THEN {}
    ELSE {[cases |-> work.cases, manifest |-> work.manifest,
           results |-> work.results, meta |-> work.meta]}

-----------------------------------------------------------------------------
(* The campaign starts.                                                    *)

\* The class of a case that reaches the script is its expected status;
\* translate answers for the others.
Status == {"ok", "panic"}
Refusal == [message |-> "clone-infra-failure", obs |-> "harness-error",
            infra |-> "reference-infra-failure"]

\* Run's preconditions (prevalidate): a broken reference document ends it
\* before anything is written.
Begin ==
  /\ pc \in {"idle", "written", "verified"} /\ run < MaxRuns
  /\ run' = run + 1
  /\ \E class \in [Ids -> Classes], source \in [Ids -> Sources] :
       \/ (\E i \in Ids : class[i] = "invalid") /\ End
       \/ /\ \A i \in Ids : class[i] # "invalid"
          /\ batch' = [i \in Ids |-> [class |-> class[i], subject |-> source[i],
                                      sha |-> source[i]]]
          /\ k' = 1 /\ manifest' = <<>> /\ verdict' = <<>> /\ digests' = {}
          /\ Goto("clear")
  /\ script' = [s \in Runs |-> IF script[s].pc \in Gone THEN NoScript ELSE script[s]]
  /\ accepted' = FALSE
  /\ UNCHANGED <<work, edited>>

\* clearCaseRoot: a leftover has to prove that it is ours.
ClearCaseRoot ==
  /\ At("clear")
  /\ \/ ~work.root /\ Continue("make")
     \/ work.root /\ work.marker = "ours" /\ Continue("remove")
     \/ work.root /\ work.marker # "ours" /\ End
  /\ UNCHANGED <<work, run, script, edited, accepted>>

\* os.RemoveAll of the case tree, entry by entry.
RemoveCases ==
  /\ At("remove")
  /\ \/ \E i \in DOMAIN work.cases :
          work' = [work EXCEPT !.cases = Without(@, i)] /\ UNCHANGED pc
     \/ work.cases = <<>> /\ work' = [work EXCEPT !.root = FALSE] /\ Goto("make")
  /\ UNCHANGED <<run, campaign, script, edited, accepted>>

MakeCases ==
  /\ At("make")
  /\ work' = [work EXCEPT !.root = TRUE]
  /\ Goto("mark")
  /\ UNCHANGED <<run, campaign, script, edited, accepted>>

WriteMarker ==
  /\ At("mark")
  /\ work' = [work EXCEPT !.marker = "ours"]
  /\ Goto("translate")
  /\ UNCHANGED <<run, campaign, script, edited, accepted>>

\* translate: the case's tree and its row, or a verdict that needs no
\* script.  A directory or a main.go that cannot be written is such a
\* verdict, and what was written stays.
Translate ==
  /\ At("translate") /\ k \in Ids
  /\ LET c == batch[k]
         Answer(v) == verdict' = With(verdict, k, [verdict |-> v, by |-> 0, of |-> "none"])
     IN \/ /\ c.class \notin Status
           /\ Answer(Refusal[c.class])
           /\ UNCHANGED <<work, manifest>>
        \/ /\ c.class \in Status
           /\ work' = [work EXCEPT !.cases = With(@, k, c.subject)]
           /\ manifest' = With(manifest, k, c.class)
           /\ UNCHANGED verdict
        \/ /\ c.class \in Status
           /\ work' \in {work} \cup {[work EXCEPT !.cases = With(@, k, left)] :
                                     left \in {"none", "edited"}}
           /\ Answer("harness-error")
           /\ UNCHANGED manifest
  /\ k' = k + 1
  /\ UNCHANGED <<run, pc, batch, digests, script, edited, accepted>>

\* With no case translated there is nothing to run, and nothing else is
\* written.
WriteManifest ==
  /\ At("translate") /\ k > N
  /\ \/ manifest = <<>> /\ Goto("digest") /\ UNCHANGED work
     \/ /\ manifest # <<>>
        /\ work' = [work EXCEPT !.manifest = {manifest}]
        /\ Goto("rmresults")
  /\ UNCHANGED <<run, campaign, script, edited, accepted>>

-----------------------------------------------------------------------------
(* The invocation.                                                         *)

RemoveResults ==
  /\ At("rmresults")
  /\ work' = [work EXCEPT !.results = {}]
  /\ Goto("rmmeta")
  /\ UNCHANGED <<run, campaign, script, edited, accepted>>

RemoveMeta ==
  /\ At("rmmeta")
  /\ work' = [work EXCEPT !.meta = {}]
  /\ Goto("invoke")
  /\ UNCHANGED <<run, campaign, script, edited, accepted>>

Invoke ==
  /\ At("invoke")
  /\ script' = [script EXCEPT ![run] = [pc |-> "started", manifest |-> <<>>, rows |-> {},
                                        todo |-> {"results", "meta"}]]
  /\ Goto("wait")
  /\ UNCHANGED <<work, run, campaign, edited, accepted>>

\* Exit 1 stands for FAIL rows as well as for an early end; any other
\* failure ends the campaign.
Wait ==
  /\ At("wait")
  /\ \/ script[run].pc \in {"exit0", "exit1"} /\ Continue("meta")
     \/ script[run].pc = "exit2" /\ End
  /\ UNCHANGED <<work, run, script, edited, accepted>>

\* The ceiling kills the script and its group.
Ceiling ==
  /\ At("wait")
  /\ script' = [script EXCEPT ![run].pc = "killed"]
  /\ End
  /\ UNCHANGED <<work, run, edited, accepted>>

checkMeta ==
  /\ At("meta")
  /\ \/ work.meta = {manifest} /\ Continue("parse")
     \/ work.meta # {manifest} /\ End
  /\ UNCHANGED <<work, run, script, edited, accepted>>

\* parseResults fails closed, and every translated case needs its row.
WellFormed(rows) ==
  /\ {r.id : r \in rows} = DOMAIN manifest
  /\ \A r, s \in rows : r.id = s.id => r = s

Fold(rows) ==
  [i \in DOMAIN verdict \cup DOMAIN manifest |->
     IF i \in DOMAIN manifest
       THEN LET r == CHOOSE r \in rows : r.id = i
            IN [verdict |-> r.verdict, by |-> r.by, of |-> r.of]
       ELSE verdict[i]]

parseResults ==
  /\ At("parse")
  /\ \/ /\ \E rows \in work.results : WellFormed(rows) /\ verdict' = Fold(rows)
        /\ Goto("digest")
        /\ UNCHANGED <<batch, k, manifest, digests>>
     \/ (~\E rows \in work.results : WellFormed(rows)) /\ End
  /\ UNCHANGED <<work, run, script, edited, accepted>>

-----------------------------------------------------------------------------
(* WorkDigests and VerifyWork.                                             *)

\* The files and cases that a digest covers; {} if the tree has an entry
\* that is not one of them, or a case without its main.go.
WorkDigests ==
  IF work.extra \/ \E i \in DOMAIN work.cases : work.cases[i] \in {"none", "extra"}
    THEN {}
    ELSE {[cases |-> work.cases, manifest |-> work.manifest,
           results |-> work.results, meta |-> work.meta]}

\* runGoLean: every translated case is of the report, and what the script
\* was given is the subject that the report names.
Digest ==
  /\ At("digest")
  /\ \/ /\ \E d \in WorkDigests :
             \A i \in DOMAIN d.cases : i \in Ids /\ d.cases[i] = batch[i].sha
        /\ digests' = WorkDigests
        /\ Goto("written")
        /\ UNCHANGED <<batch, k, manifest, verdict>>
     \/ /\ ~\E d \in WorkDigests :
             \A i \in DOMAIN d.cases : i \in Ids /\ d.cases[i] = batch[i].sha
        /\ End
  /\ UNCHANGED <<work, run, script, edited, accepted>>

Semantic == {"match", "observation-mismatch"}

VerifyWork ==
  \E d \in digests :
    /\ \A i \in Ids : verdict[i].verdict \in Semantic => i \in DOMAIN d.cases
    /\ d.cases # <<>> => {} \notin {d.manifest, d.results, d.meta}
    /\ WorkDigests = {d}

Verify ==
  /\ At("written")
  /\ accepted' = VerifyWork
  /\ Goto("verified")
  /\ UNCHANGED <<work, run, campaign, script, edited>>

-----------------------------------------------------------------------------
(* The script, which is not of this repository: what golean.Run allows for *)
(* it to do.                                                               *)

Advance(s, next) == script' = [script EXCEPT ![s] = next]

\* It reads the manifest and the case trees that are there, and judges; a
\* row may be lost, given twice, or be for a case nobody asked about.
ScriptJudges(s) ==
  /\ script[s].pc = "started" /\ work.manifest # {}
  /\ \E m \in work.manifest :
       \E v \in [DOMAIN m -> Found] :
         LET Of(i) == IF i \in DOMAIN work.cases THEN work.cases[i] ELSE "none"
             Row(i, w) == [id |-> i, verdict |-> w, by |-> s, of |-> Of(i)]
             good == {Row(i, IF Of(i) = "none" THEN "harness-error" ELSE v[i]) : i \in DOMAIN m}
         IN \E rows \in {good, good \cup {Row(Theirs, "match")}}
                        \cup {good \ {r} : r \in good}
                        \cup {good \cup {Row(r.id, "clone-infra-failure")} : r \in good} :
              Advance(s, [script[s] EXCEPT !.pc = "judged", !.manifest = m, !.rows = rows])
  /\ UNCHANGED <<work, run, pc, campaign, edited, accepted>>

\* The results and the meta file, in an order we do not know.
ScriptPublishes(s) ==
  /\ script[s].pc = "judged"
  /\ \E what \in script[s].todo :
       /\ work' = IF what = "results" THEN [work EXCEPT !.results = {script[s].rows}]
                  ELSE [work EXCEPT !.meta = {script[s].manifest}]
       /\ Advance(s, [script[s] EXCEPT !.todo = @ \ {what}])
  /\ UNCHANGED <<run, pc, campaign, edited, accepted>>

ScriptExits(s) ==
  /\ script[s].pc \in {"started", "judged"}
  /\ \E e \in Exits : /\ e = "exit0" => script[s].todo = {}
                      /\ Advance(s, [script[s] EXCEPT !.pc = e])
  /\ UNCHANGED <<work, run, pc, campaign, edited, accepted>>

-----------------------------------------------------------------------------
(* Deaths, and somebody else.                                              *)

Working == pc \notin {"idle", "written", "verified"}

\* A system call fails, or gengo is killed.  Its script is in a group of
\* its own.
Crash ==
  /\ Working
  /\ End
  /\ script' = IF pc = "wait" /\ ~Orphans
                 THEN [script EXCEPT ![run].pc = "killed"] ELSE script
  /\ UNCHANGED <<work, run, edited, accepted>>

\* One edit of the subject, of what was translated from it, or of a work
\* tree that is already in the report.
Edits ==
  {[work EXCEPT !.cases[i] = e] : i \in DOMAIN work.cases \ {Theirs},
                                       e \in {"edited", "none", "extra"}}
  \cup {[work EXCEPT !.cases = Without(@, i)] : i \in DOMAIN work.cases \ {Theirs}}
  \cup (IF ~At("written") THEN {} ELSE
         {[work EXCEPT !.cases = With(@, Theirs, "edited"), !.root = TRUE],
          [work EXCEPT !.extra = TRUE], [work EXCEPT !.marker = "none"]}
         \cup {[work EXCEPT !.manifest = f] : f \in {{}, {<<>>}}}
         \cup {[work EXCEPT !.results = f] : f \in {{}, {{}}}}
         \cup {[work EXCEPT !.meta = f] : f \in {{}, {<<>>}}})

Edit ==
  /\ "edit" \in Editor
  /\ ~edited /\ (Working \/ At("written"))
  /\ edited' = TRUE
  /\ \/ work' \in Edits \ {work} /\ UNCHANGED batch
     \/ /\ \E i \in Ids : batch' = [batch EXCEPT ![i].subject = "edited"]
        /\ UNCHANGED work
  /\ UNCHANGED <<run, pc, k, manifest, verdict, digests, script, accepted>>

\* A tree of theirs, or a copy of a work directory from another place.
Place ==
  /\ "place" \in Editor
  /\ At("idle") /\ ~work.root /\ work.marker = "none"
  /\ \E m \in {"none", "other"} :
       work' = [work EXCEPT !.root = TRUE, !.cases = With(@, Theirs, "edited"), !.marker = m]
  /\ UNCHANGED <<run, pc, campaign, script, edited, accepted>>

-----------------------------------------------------------------------------
Init ==
  /\ work = NoWork
  /\ run = 0 /\ pc = "idle"
  /\ batch = <<>> /\ k = 1 /\ manifest = <<>> /\ verdict = <<>> /\ digests = {}
  /\ script = [s \in Runs |-> NoScript]
  /\ edited = FALSE /\ accepted = FALSE

RunStep ==
  \/ ClearCaseRoot \/ RemoveCases \/ MakeCases \/ WriteMarker
  \/ Translate \/ WriteManifest
  \/ RemoveResults \/ RemoveMeta \/ Invoke \/ Wait \/ Ceiling
  \/ checkMeta \/ parseResults \/ Digest

ScriptStep(s) == ScriptJudges(s) \/ ScriptPublishes(s) \/ ScriptExits(s)

Next ==
  \/ Begin \/ RunStep \/ Verify
  \/ \E s \in Runs : ScriptStep(s)
  \/ Crash \/ Edit \/ Place

Spec == Init /\ [][Next]_vars

\* Nothing is assumed of the script: time passes, and the ceiling ends it.
FairSpec == Spec /\ WF_vars(RunStep)

-----------------------------------------------------------------------------
(* Properties.                                                             *)

\* The report of a campaign has the rows that this campaign's script gave,
\* and no others: results of an earlier invocation are never read as this
\* run's verdicts (Run, "a stale results file").
FreshVerdicts ==
  pc \in {"written", "verified"} =>
    /\ DOMAIN verdict = Ids
    /\ \A i \in DOMAIN manifest :
         LET v == verdict[i]
         IN [id |-> i, verdict |-> v.verdict, by |-> run, of |-> v.of] \in script[run].rows

\* A semantic verdict is on the subject whose digest the report has,
\* whoever edits the subject or the case tree during the campaign
\* ("the clone's tree changed under the run", runGoLean).
JudgedSource ==
  pc \in {"written", "verified"} =>
    \A i \in Ids : verdict[i].verdict \in Semantic => verdict[i].of = batch[i].sha

\* -verify accepts the work tree that a campaign left, and no tree that was
\* edited since: no file is left out of the digests, none is asked for that
\* a campaign does not leave, and every semantic verdict has its source in
\* the tree (VerifyWork, "nothing may exist that no digest names").
DigestedNow == [cases |-> work.cases, manifest |-> work.manifest,
                results |-> work.results, meta |-> work.meta]
VerifyExact ==
  At("verified") =>
    /\ ~edited => accepted
    /\ accepted =>
         /\ ~work.extra /\ digests = {DigestedNow}
         /\ \A i \in Ids : verdict[i].verdict \in Semantic =>
              i \in DOMAIN work.cases /\ work.cases[i] = batch[i].sha

\* No campaign removes a case tree that no campaign wrote (clearCaseRoot,
\* "refusing to touch it").
ForeignSpared ==
  [][work.marker # "ours" /\ Theirs \in DOMAIN work.cases
       => (Theirs \in DOMAIN work.cases)']_vars

\* A campaign ends, although the script may never do so (RunCeiling).
Returns == Working ~> ~Working
=============================================================================
