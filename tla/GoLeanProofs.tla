---------------------------- MODULE GoLeanProofs ----------------------------
(***************************************************************************)
(* Proofs about GoLean, for any number of cases and of campaigns over one  *)
(* work directory: what a report says is what this campaign's script said, *)
(* of the subjects that the report names, and -verify accepts that tree.   *)
(*                                                                         *)
(* The first three theorems take it that no script outlives its gengo.     *)
(***************************************************************************)
EXTENDS GoLean, TLAPS

-----------------------------------------------------------------------------
(* The inductive invariant.                                                *)

Clearing   == {"clear", "remove", "make", "mark"}
Translated == {"rmresults", "rmmeta", "invoke", "wait", "meta", "parse"}
Folded     == {"digest", "written", "verified"}
Steps      == {"idle", "translate"} \cup Clearing \cup Translated \cup Folded

WorkFields   == {"root", "cases", "marker", "manifest", "results", "meta", "extra"}
ScriptFields == {"pc", "manifest", "rows", "todo"}

TypeOK ==
  /\ pc \in Steps /\ run \in 0..MaxRuns /\ edited \in BOOLEAN
  /\ work = [f \in WorkFields |-> work[f]]
  /\ work.cases = [i \in DOMAIN work.cases |-> work.cases[i]]
  /\ script = [s \in Runs |-> script[s]]
  /\ \A s \in Runs : script[s] = [f \in ScriptFields |-> script[s][f]]

\* What a campaign knows of its cases.
CasesInv ==
  /\ pc # "idle" =>
       /\ run \in Runs
       /\ batch = [i \in Ids |-> batch[i]]
       /\ \A i \in Ids : /\ batch[i] = [f \in {"class", "subject", "sha"} |-> batch[i][f]]
                         /\ batch[i].class \in Classes \ {"invalid"}
                         /\ batch[i].sha \in Sources
                         /\ \/ batch[i].subject = batch[i].sha
                            \/ edited /\ batch[i].subject = "edited"
  /\ pc \in Clearing => k = 1 /\ DOMAIN manifest = {} /\ DOMAIN verdict = {}
  /\ pc \in {"translate"} \cup Clearing \cup Translated =>
       /\ k \in 1..(N + 1)
       /\ DOMAIN manifest \cup DOMAIN verdict = 1..(k - 1)
       /\ DOMAIN manifest \cap DOMAIN verdict = {}
       /\ \A i \in DOMAIN verdict : verdict[i].verdict \notin Semantic
  /\ pc \in Translated => k = N + 1
  /\ pc \in Folded => DOMAIN verdict = Ids /\ DOMAIN manifest \subseteq Ids

\* The case tree has what was translated, unless somebody edited it.
Kept == \A i \in DOMAIN manifest : i \in DOMAIN work.cases /\ work.cases[i] = batch[i].sha
TreeInv ==
  /\ ~work.root => DOMAIN work.cases = {}
  /\ pc \in {"make", "mark"} => DOMAIN work.cases = {}
  /\ pc \in {"mark", "translate", "digest"} \cup Translated => work.root
  /\ pc \in {"translate", "digest"} \cup Translated =>
       \A i \in DOMAIN work.cases :
         i \in DOMAIN manifest \/ work.cases[i] \in {"none", "edited", "extra"}
  /\ pc \in {"translate"} \cup Translated \cup Folded /\ ~edited => Kept

\* Only the script of this campaign is alive, and what it says of a case it
\* saw in the tree.
Alive(s)     == script[s].pc \in {"started", "judged"}
Seen(i, of)  == \/ of = batch[i].sha
                \/ edited /\ i \in DOMAIN work.cases /\ work.cases[i] = of
ScriptInv ==
  /\ \A s \in Runs : Alive(s) => s = run /\ pc = "wait"
  /\ pc = "wait" /\ script[run].pc = "started" => work.results = {}
  /\ pc \in {"rmmeta", "invoke"} => work.results = {}
  /\ pc \in {"wait", "meta", "parse"} =>
       /\ work.results \subseteq {script[run].rows}
       /\ \A r \in script[run].rows :
            /\ r = [id |-> r.id, verdict |-> r.verdict, by |-> run, of |-> r.of]
            /\ r.id \in DOMAIN manifest /\ r.verdict \in Semantic => Seen(r.id, r.of)
  /\ pc \in Translated => work.manifest = {manifest}
  /\ pc = "parse" => work.meta = {manifest}

FilesThere == {} \notin {work.manifest, work.results, work.meta}

\* What the report has, and what the tree still has of it.
ReportInv ==
  /\ pc \in Folded =>
       /\ \A i \in DOMAIN manifest :
            [id |-> i, verdict |-> verdict[i].verdict, by |-> run, of |-> verdict[i].of]
              \in script[run].rows
       /\ \A i \in Ids : verdict[i].verdict \in Semantic => i \in DOMAIN manifest
  /\ pc = "digest" =>
       /\ \A i \in Ids : verdict[i].verdict \in Semantic => Seen(i, verdict[i].of)
       /\ DOMAIN manifest # {} => FilesThere
  /\ pc \in {"written", "verified"} =>
       /\ \A i \in Ids : verdict[i].verdict \in Semantic => verdict[i].of = batch[i].sha
       /\ \E d \in digests :
            /\ digests = {d}
            /\ \A i \in DOMAIN d.cases : i \in Ids /\ d.cases[i] = batch[i].sha
            /\ ~edited => WorkDigests = {d}
            /\ ~edited /\ d.cases # <<>> => FilesThere
  /\ pc = "verified" => (accepted <=> VerifyWork)

Inv == TypeOK /\ CasesInv /\ TreeInv /\ ScriptInv /\ ReportInv

USE DEF At, Goto, Continue, campaign, Steps, Clearing, Translated, Folded

-----------------------------------------------------------------------------
(* Steps that have something in common.                                    *)

LEMMA GoLeanInit == Init => Inv
  <1> SUFFICES ASSUME Init
               PROVE  Inv
    OBVIOUS
  <1>1. 0 \in 0..MaxRuns
    BY GoLeanAssumption
  <1>2. TypeOK
    <2>1. NoWork = [f \in WorkFields |-> NoWork[f]] /\ NoWork.cases = <<>>
      BY DEF NoWork, WorkFields
    <2>2. <<>> = [i \in DOMAIN <<>> |-> <<>>[i]]
      OBVIOUS
    <2>3. NoScript = [f \in ScriptFields |-> NoScript[f]]
      BY DEF NoScript, ScriptFields
    <2> QED
      BY <1>1, <2>1, <2>2, <2>3 DEF Init, TypeOK
  <1>3. CasesInv /\ ReportInv
    BY DEF Init, CasesInv, ReportInv
  <1>4. TreeInv
    BY DEF Init, TreeInv, NoWork
  <1>5. ScriptInv
    BY DEF Init, ScriptInv, NoScript, Alive
  <1> QED
    BY <1>2, <1>3, <1>4, <1>5 DEF Inv

\* A campaign that ended knows of no case.
LEMMA EndForgets ==
  ASSUME End
  PROVE  CasesInv' /\ ReportInv'
  BY DEF End, CasesInv, ReportInv

\* A step that moves a campaign only, within a phase.
LEMMA SameCases ==
  ASSUME CasesInv, UNCHANGED <<run, batch, k, manifest, verdict>>, edited => edited',
         edited \in BOOLEAN,
         \/ pc \in Clearing /\ pc' \in Clearing \cup {"translate"}
         \/ pc \in Translated /\ pc' \in Translated
         \/ pc \in Folded /\ pc' \in Folded
         \/ pc = pc'
  PROVE  CasesInv'
  <1>1. pc # "idle" => pc' # "idle"
    OBVIOUS
  <1>2. pc' # "idle" =>
       /\ run' \in Runs
       /\ batch' = [i \in Ids |-> batch'[i]]
       /\ \A i \in Ids : /\ batch'[i] = [f \in {"class", "subject", "sha"} |-> batch'[i][f]]
                         /\ batch'[i].class \in Classes \ {"invalid"}
                         /\ batch'[i].sha \in Sources
                         /\ \/ batch'[i].subject = batch'[i].sha
                            \/ edited' /\ batch'[i].subject = "edited"
    <2>1. pc' # "idle" => pc # "idle"
      OBVIOUS
    <2> QED
      BY <2>1 DEF CasesInv
  <1>3. pc' \in Clearing => k' = 1 /\ DOMAIN manifest' = {} /\ DOMAIN verdict' = {}
    BY DEF CasesInv
  <1>4. pc' \in {"translate"} \cup Clearing \cup Translated =>
       /\ k' \in 1..(N + 1)
       /\ DOMAIN manifest' \cup DOMAIN verdict' = 1..(k' - 1)
       /\ DOMAIN manifest' \cap DOMAIN verdict' = {}
       /\ \A i \in DOMAIN verdict' : verdict'[i].verdict \notin Semantic
    <2>1. pc' \in {"translate"} \cup Clearing \cup Translated
             => pc \in {"translate"} \cup Clearing \cup Translated
      OBVIOUS
    <2> QED
      BY <2>1 DEF CasesInv
  <1>5. pc' \in Translated => k' = N + 1
    BY DEF CasesInv
  <1>6. pc' \in Folded => DOMAIN verdict' = Ids /\ DOMAIN manifest' \subseteq Ids
    BY DEF CasesInv
  <1> HIDE DEF Clearing, Translated, Folded
  <1> QED
    BY <1>2, <1>3, <1>4, <1>5, <1>6, Zenon DEF CasesInv, Ids

-----------------------------------------------------------------------------
(* The campaign's steps.                                                   *)

LEMMA ClearCaseRootStep ==
  ASSUME Inv, ClearCaseRoot
  PROVE  Inv'
  <1>1. TypeOK'
    BY DEF Inv, TypeOK, ClearCaseRoot, End
  <1>2. CasesInv' /\ ReportInv'
    BY EndForgets, SameCases DEF Inv, TypeOK, ReportInv, ClearCaseRoot
  <1>3. TreeInv'
    BY DEF Inv, TreeInv, ClearCaseRoot, End
  <1>4. ScriptInv'
    BY DEF Inv, ScriptInv, Alive, ClearCaseRoot, End
  <1> QED
    BY <1>1, <1>2, <1>3, <1>4 DEF Inv

LEMMA RemoveCasesStep ==
  ASSUME Inv, RemoveCases
  PROVE  Inv'
  <1>1. TypeOK'
    BY DEF Inv, TypeOK, WorkFields, RemoveCases, Without, Restrict
  <1>2. CasesInv' /\ ReportInv'
    BY SameCases DEF Inv, TypeOK, ReportInv, RemoveCases
  <1>3. TreeInv'
    <2>1. TypeOK /\ TreeInv /\ pc = "remove" /\ UNCHANGED campaign
      BY DEF Inv, RemoveCases
    <2>2. ASSUME NEW i \in DOMAIN work.cases, UNCHANGED pc,
                 work' = [work EXCEPT !.cases = Without(@, i)]
          PROVE  TreeInv'
      <3>1. work'.cases = Without(work.cases, i) /\ work'.root = work.root
        BY <2>1, <2>2 DEF TypeOK, WorkFields
      <3>2. DOMAIN work'.cases \subseteq DOMAIN work.cases
        BY <3>1 DEF Without, Restrict
      <3> QED
        BY <2>1, <2>2, <3>1, <3>2 DEF TreeInv
    <2>3. ASSUME work.cases = <<>>, work' = [work EXCEPT !.root = FALSE], pc' = "make"
          PROVE  TreeInv'
      <3>1. work'.cases = <<>>
        BY <2>1, <2>3 DEF TypeOK, WorkFields
      <3> QED
        BY <2>3, <3>1 DEF TreeInv
    <2> QED
      BY <2>1, <2>2, <2>3 DEF RemoveCases
  <1>4. ScriptInv'
    BY DEF Inv, ScriptInv, Alive, RemoveCases
  <1> QED
    BY <1>1, <1>2, <1>3, <1>4 DEF Inv

LEMMA MakeCasesStep ==
  ASSUME Inv, MakeCases
  PROVE  Inv'
  <1>1. TypeOK'
    BY DEF Inv, TypeOK, WorkFields, MakeCases
  <1>2. CasesInv' /\ ReportInv'
    BY SameCases DEF Inv, TypeOK, ReportInv, MakeCases
  <1>3. TreeInv'
    BY DEF Inv, TypeOK, WorkFields, TreeInv, MakeCases
  <1>4. ScriptInv'
    BY DEF Inv, ScriptInv, Alive, MakeCases
  <1> QED
    BY <1>1, <1>2, <1>3, <1>4 DEF Inv

LEMMA WriteMarkerStep ==
  ASSUME Inv, WriteMarker
  PROVE  Inv'
  <1>1. TypeOK'
    BY DEF Inv, TypeOK, WorkFields, WriteMarker
  <1>2. CasesInv' /\ ReportInv'
    BY SameCases DEF Inv, TypeOK, ReportInv, WriteMarker
  <1>3. TreeInv'
    <2>1. work'.cases = work.cases /\ work'.root = work.root
      BY DEF Inv, TypeOK, WorkFields, WriteMarker
    <2>2. DOMAIN manifest' = {} /\ DOMAIN work'.cases = {} /\ pc' = "translate" /\ work'.root
      BY <2>1 DEF Inv, CasesInv, TreeInv, WriteMarker
    <2> QED
      BY <2>2 DEF TreeInv, Kept
  <1>4. ScriptInv'
    BY DEF Inv, ScriptInv, Alive, WriteMarker
  <1> QED
    BY <1>1, <1>2, <1>3, <1>4 DEF Inv

LEMMA TranslateStep ==
  ASSUME Inv, Translate
  PROVE  Inv'
  <1>1. /\ TypeOK /\ CasesInv /\ TreeInv /\ ScriptInv
        /\ pc = "translate" /\ k \in Ids
        /\ k' = k + 1 /\ UNCHANGED <<run, pc, batch, digests, script, edited, accepted>>
    BY DEF Inv, Translate
  <1>2. /\ k \in 1..(N + 1) /\ N \in Nat
        /\ DOMAIN manifest \cup DOMAIN verdict = 1..(k - 1)
        /\ DOMAIN manifest \cap DOMAIN verdict = {}
        /\ k \notin DOMAIN manifest /\ k \notin DOMAIN verdict
    BY <1>1, GoLeanAssumption DEF CasesInv
  <1>3. /\ k + 1 \in 1..(N + 1)
        /\ 1..k = 1..(k - 1) \cup {k}
    BY <1>1, <1>2 DEF Ids
  \* Either it gets its row ...
  <1>4. ASSUME work' = [work EXCEPT !.cases = With(@, k, batch[k].subject)],
               manifest' = With(manifest, k, batch[k].class), UNCHANGED verdict
        PROVE  Inv'
    <2>1. /\ work'.root = work.root
          /\ work'.cases = With(work.cases, k, batch[k].subject)
          /\ work' = [f \in WorkFields |-> work'[f]]
      BY <1>1, <1>4 DEF TypeOK, WorkFields
    <2>2. /\ DOMAIN work'.cases = DOMAIN work.cases \cup {k}
          /\ work'.cases[k] = batch[k].subject
          /\ \A i \in DOMAIN work.cases \ {k} : work'.cases[i] = work.cases[i]
          /\ work'.cases = [i \in DOMAIN work'.cases |-> work'.cases[i]]
      BY <2>1 DEF With
    <2>3. DOMAIN manifest' = DOMAIN manifest \cup {k}
      BY <1>4 DEF With
    <2>4. TypeOK'
      BY <1>1, <2>1, <2>2 DEF TypeOK
    <2>5. CasesInv'
      <3>1. DOMAIN manifest' \cup DOMAIN verdict' = 1..k
        BY <1>2, <1>3, <1>4, <2>3
      <3>2. DOMAIN manifest' \cap DOMAIN verdict' = {}
        BY <1>2, <1>4, <2>3
      <3>3. k' - 1 = k
        BY <1>1, <1>2
      <3> QED
        BY <1>1, <1>3, <1>4, <3>1, <3>2, <3>3 DEF CasesInv
    <2>6. TreeInv'
      <3>1. ~edited => batch[k].subject = batch[k].sha
        BY <1>1 DEF CasesInv
      <3>2. \A i \in DOMAIN work'.cases :
              i \in DOMAIN manifest' \/ work'.cases[i] \in {"none", "edited", "extra"}
        BY <1>1, <2>2, <2>3 DEF TreeInv
      <3>3. ~edited => \A i \in DOMAIN manifest' :
              i \in DOMAIN work'.cases /\ work'.cases[i] = batch[i].sha
        BY <1>1, <1>2, <2>2, <2>3, <3>1 DEF TreeInv, Kept
      <3>4. work'.root
        BY <1>1, <2>1 DEF TreeInv
      <3> QED
        BY <1>1, <3>2, <3>3, <3>4 DEF TreeInv, Kept
    <2>7. ScriptInv' /\ ReportInv'
      BY <1>1 DEF ScriptInv, ReportInv, Alive
    <2> QED
      BY <2>4, <2>5, <2>6, <2>7 DEF Inv
  \* ... or a verdict that is not one on the program.
  <1>5. ASSUME NEW v, v \notin Semantic,
               verdict' = With(verdict, k, [verdict |-> v, by |-> 0, of |-> "none"]),
               UNCHANGED manifest,
               \/ UNCHANGED work
               \/ \E left \in {"none", "edited"} :
                    work' = [work EXCEPT !.cases = With(@, k, left)]
        PROVE  Inv'
    <2>1. /\ work'.root = work.root
          /\ work' = [f \in WorkFields |-> work'[f]]
          /\ \/ work'.cases = work.cases
             \/ \E left \in {"none", "edited"} : work'.cases = With(work.cases, k, left)
      BY <1>1, <1>5 DEF TypeOK, WorkFields
    <2>2. /\ DOMAIN work.cases \subseteq DOMAIN work'.cases
          /\ \A i \in DOMAIN work'.cases :
               \/ i \in DOMAIN work.cases /\ work'.cases[i] = work.cases[i]
               \/ i = k /\ work'.cases[i] \in {"none", "edited"}
          /\ work'.cases = [i \in DOMAIN work'.cases |-> work'.cases[i]]
      BY <1>1, <2>1 DEF With, TypeOK
    <2>3. /\ DOMAIN verdict' = DOMAIN verdict \cup {k}
          /\ \A i \in DOMAIN verdict' : verdict'[i].verdict \notin Semantic
      BY <1>1, <1>5 DEF With, CasesInv
    <2>4. TypeOK'
      BY <1>1, <2>1, <2>2 DEF TypeOK
    <2>5. CasesInv'
      <3>1. DOMAIN manifest' \cup DOMAIN verdict' = 1..k
        BY <1>2, <1>3, <1>5, <2>3
      <3>2. DOMAIN manifest' \cap DOMAIN verdict' = {}
        BY <1>2, <1>5, <2>3
      <3>3. k' - 1 = k
        BY <1>1, <1>2
      <3> QED
        BY <1>1, <1>3, <2>3, <3>1, <3>2, <3>3 DEF CasesInv
    <2>6. TreeInv'
      <3>1. \A i \in DOMAIN work'.cases :
              i \in DOMAIN manifest' \/ work'.cases[i] \in {"none", "edited", "extra"}
        BY <1>1, <1>5, <2>2 DEF TreeInv
      <3>2. ~edited => \A i \in DOMAIN manifest' :
              i \in DOMAIN work'.cases /\ work'.cases[i] = batch[i].sha
        BY <1>1, <1>2, <1>5, <2>2 DEF TreeInv, Kept
      <3>3. work'.root
        BY <1>1, <2>1 DEF TreeInv
      <3> QED
        BY <1>1, <3>1, <3>2, <3>3 DEF TreeInv, Kept
    <2>7. ScriptInv' /\ ReportInv'
      BY <1>1 DEF ScriptInv, ReportInv, Alive
    <2> QED
      BY <2>4, <2>5, <2>6, <2>7 DEF Inv
  <1>6. batch[k].class \notin Status => Refusal[batch[k].class] \notin Semantic
    <2>1. batch[k].class \in Classes \ {"invalid"}
      BY <1>1 DEF CasesInv
    <2>2. batch[k].class \notin Status => batch[k].class \in {"message", "obs", "infra"}
      BY <2>1, GoLeanAssumption DEF Status
    <2> QED
      BY <2>2 DEF Refusal, Semantic
  <1> QED
    BY <1>4, <1>5, <1>6 DEF Translate, Semantic

LEMMA WriteManifestStep ==
  ASSUME Inv, WriteManifest
  PROVE  Inv'
  <1>1. /\ TypeOK /\ CasesInv /\ TreeInv /\ ScriptInv
        /\ pc = "translate" /\ k > N
        /\ UNCHANGED <<run, campaign, script, edited, accepted>>
    BY DEF Inv, WriteManifest
  <1>2. k = N + 1 /\ DOMAIN manifest \cup DOMAIN verdict = Ids
    BY <1>1, GoLeanAssumption DEF CasesInv, Ids
  <1>3. CASE manifest = <<>> /\ pc' = "digest" /\ UNCHANGED work
    <2>1. TypeOK'
      BY <1>1, <1>3 DEF TypeOK
    <2>2. DOMAIN verdict = Ids /\ DOMAIN manifest = {}
      BY <1>2, <1>3
    <2>3. CasesInv'
      BY <1>1, <1>3, <2>2 DEF CasesInv, Ids
    <2>4. TreeInv'
      BY <1>1, <1>3 DEF TreeInv, Kept
    <2>5. ScriptInv'
      BY <1>1, <1>3 DEF ScriptInv, Alive
    <2>6. ReportInv'
      BY <1>1, <1>3, <2>2 DEF ReportInv, CasesInv
    <2> QED
      BY <2>1, <2>3, <2>4, <2>5, <2>6 DEF Inv
  <1>4. CASE work' = [work EXCEPT !.manifest = {manifest}] /\ pc' = "rmresults"
    <2>1. work'.cases = work.cases /\ work'.root = work.root /\ work'.manifest = {manifest}
      BY <1>1, <1>4 DEF TypeOK, WorkFields
    <2>2. TypeOK'
      BY <1>1, <1>4 DEF TypeOK, WorkFields
    <2>3. CasesInv'
      BY <1>1, <1>2, <1>4 DEF CasesInv, Ids
    <2>4. TreeInv'
      BY <1>1, <1>4, <2>1 DEF TreeInv, Kept
    <2>5. ScriptInv' /\ ReportInv'
      BY <1>1, <1>4, <2>1 DEF ScriptInv, ReportInv, Alive
    <2> QED
      BY <2>2, <2>3, <2>4, <2>5 DEF Inv
  <1> QED
    BY <1>3, <1>4 DEF WriteManifest

LEMMA RemoveResultsStep ==
  ASSUME Inv, RemoveResults
  PROVE  Inv'
  <1>1. TypeOK'
    BY DEF Inv, TypeOK, WorkFields, RemoveResults
  <1>2. CasesInv' /\ ReportInv'
    BY SameCases DEF Inv, TypeOK, ReportInv, RemoveResults
  <1>3. TreeInv'
    BY DEF Inv, TypeOK, WorkFields, TreeInv, Kept, RemoveResults
  <1>4. ScriptInv'
    BY DEF Inv, TypeOK, WorkFields, ScriptInv, Alive, RemoveResults
  <1> QED
    BY <1>1, <1>2, <1>3, <1>4 DEF Inv

LEMMA RemoveMetaStep ==
  ASSUME Inv, RemoveMeta
  PROVE  Inv'
  <1>1. TypeOK'
    BY DEF Inv, TypeOK, WorkFields, RemoveMeta
  <1>2. CasesInv' /\ ReportInv'
    BY SameCases DEF Inv, TypeOK, ReportInv, RemoveMeta
  <1>3. TreeInv'
    BY DEF Inv, TypeOK, WorkFields, TreeInv, Kept, RemoveMeta
  <1>4. ScriptInv'
    <2>1. /\ pc = "rmmeta" /\ pc' = "invoke" /\ UNCHANGED <<run, campaign, script, edited>>
          /\ work'.manifest = work.manifest /\ work'.results = work.results
      BY DEF Inv, TypeOK, WorkFields, RemoveMeta
    <2>2. ScriptInv
      BY DEF Inv
    <2>3. work.results = {} /\ work.manifest = {manifest}
      BY <2>1, <2>2 DEF ScriptInv
    <2>4. \A s \in Runs : ~Alive(s)'
      BY <2>1, <2>2 DEF ScriptInv, Alive
    <2> QED
      BY <2>1, <2>3, <2>4 DEF ScriptInv
  <1> QED
    BY <1>1, <1>2, <1>3, <1>4 DEF Inv

LEMMA InvokeStep ==
  ASSUME Inv, Invoke
  PROVE  Inv'
  <1>1. TypeOK'
    BY DEF Inv, TypeOK, ScriptFields, Invoke
  <1>2. CasesInv' /\ ReportInv'
    BY SameCases DEF Inv, TypeOK, ReportInv, Invoke
  <1>3. TreeInv'
    BY DEF Inv, TreeInv, Kept, Invoke
  <1>4. ScriptInv'
    <2>1. /\ TypeOK /\ CasesInv /\ ScriptInv /\ pc = "invoke" /\ pc' = "wait"
          /\ UNCHANGED <<work, run, campaign, edited>>
          /\ script' = [script EXCEPT ![run] = [pc |-> "started", manifest |-> <<>>,
                                                rows |-> {}, todo |-> {"results", "meta"}]]
      BY DEF Inv, Invoke
    <2>2. run \in Runs /\ work.results = {} /\ work.manifest = {manifest}
      BY <2>1 DEF CasesInv, ScriptInv
    <2>3. /\ script'[run].rows = {}
          /\ \A s \in Runs \ {run} : script'[s] = script[s]
      BY <2>1, <2>2 DEF TypeOK
    <2>4. \A s \in Runs : Alive(s)' => s = run
      BY <2>1, <2>3 DEF ScriptInv, Alive
    <2> QED
      BY <2>1, <2>2, <2>3, <2>4 DEF ScriptInv
  <1> QED
    BY <1>1, <1>2, <1>3, <1>4 DEF Inv

LEMMA WaitStep ==
  ASSUME Inv, Wait
  PROVE  Inv'
  <1>1. /\ TypeOK /\ CasesInv /\ TreeInv /\ ScriptInv /\ pc = "wait"
        /\ ~Alive(run) /\ UNCHANGED <<work, run, script, edited, accepted>>
    BY DEF Inv, Wait, Alive
  <1>2. \A s \in Runs : ~Alive(s)'
    BY <1>1 DEF ScriptInv, Alive
  <1>3. CASE pc' = "meta" /\ UNCHANGED campaign
    <2>1. TypeOK'
      BY <1>1, <1>3 DEF TypeOK
    <2>2. CasesInv' /\ ReportInv'
      BY <1>1, <1>3, SameCases DEF ReportInv, TypeOK
    <2>3. TreeInv'
      BY <1>1, <1>3 DEF TreeInv, Kept
    <2>4. ScriptInv'
      BY <1>1, <1>2, <1>3 DEF ScriptInv, Seen
    <2> QED
      BY <2>1, <2>2, <2>3, <2>4 DEF Inv
  <1>4. CASE End
    <2>1. TypeOK'
      BY <1>1, <1>4 DEF TypeOK, End
    <2>2. TreeInv' /\ ScriptInv'
      BY <1>1, <1>2, <1>4 DEF TreeInv, ScriptInv, End
    <2> QED
      BY <1>4, <2>1, <2>2, EndForgets DEF Inv
  <1> QED
    BY <1>3, <1>4 DEF Wait

LEMMA CeilingStep ==
  ASSUME Inv, Ceiling
  PROVE  Inv'
  <1>1. TypeOK'
    BY DEF Inv, TypeOK, ScriptFields, Ceiling, End
  <1>2. CasesInv' /\ ReportInv'
    BY EndForgets DEF Ceiling
  <1>3. TreeInv'
    BY DEF Inv, TreeInv, Ceiling, End
  <1>4. ScriptInv'
    BY DEF Inv, TypeOK, ScriptInv, Alive, Ceiling, End
  <1> QED
    BY <1>1, <1>2, <1>3, <1>4 DEF Inv

LEMMA checkMetaStep ==
  ASSUME Inv, checkMeta
  PROVE  Inv'
  <1>1. TypeOK'
    BY DEF Inv, TypeOK, checkMeta, End
  <1>2. CasesInv' /\ ReportInv'
    BY EndForgets, SameCases DEF Inv, TypeOK, ReportInv, checkMeta
  <1>3. TreeInv'
    BY DEF Inv, TreeInv, Kept, checkMeta, End
  <1>4. ScriptInv'
    BY DEF Inv, ScriptInv, Alive, Seen, checkMeta, End
  <1> QED
    BY <1>1, <1>2, <1>3, <1>4 DEF Inv

\* The rows that are folded in are this campaign's.
LEMMA parseResultsStep ==
  ASSUME Inv, parseResults
  PROVE  Inv'
  <1>1. /\ TypeOK /\ CasesInv /\ TreeInv /\ ScriptInv /\ pc = "parse"
        /\ UNCHANGED <<work, run, script, edited, accepted>>
    BY DEF Inv, parseResults
  <1>2. \A s \in Runs : ~Alive(s)'
    BY <1>1 DEF ScriptInv, Alive
  <1>3. CASE End
    <2>1. TypeOK'
      BY <1>1, <1>3 DEF TypeOK, End
    <2>2. TreeInv' /\ ScriptInv'
      BY <1>1, <1>2, <1>3 DEF TreeInv, ScriptInv, End
    <2> QED
      BY <1>3, <2>1, <2>2, EndForgets DEF Inv
  <1>4. ASSUME NEW rows \in work.results, WellFormed(rows), verdict' = Fold(rows),
               pc' = "digest", UNCHANGED <<batch, k, manifest, digests>>
        PROVE  Inv'
    <2>1. /\ rows = script[run].rows
          /\ \A r \in rows :
               /\ r = [id |-> r.id, verdict |-> r.verdict, by |-> run, of |-> r.of]
               /\ r.id \in DOMAIN manifest /\ r.verdict \in Semantic => Seen(r.id, r.of)
      BY <1>1, <1>4 DEF ScriptInv
    <2>2. \A i \in DOMAIN manifest : \E r \in rows : r.id = i
      BY <1>4 DEF WellFormed
    <2>3. /\ DOMAIN verdict' = DOMAIN verdict \cup DOMAIN manifest
          /\ \A i \in DOMAIN manifest :
               \E r \in rows : /\ r.id = i
                               /\ verdict'[i] = [verdict |-> r.verdict, by |-> r.by, of |-> r.of]
          /\ \A i \in DOMAIN verdict \ DOMAIN manifest : verdict'[i] = verdict[i]
      BY <1>4, <2>2 DEF Fold
    <2>4. DOMAIN verdict' = Ids /\ DOMAIN manifest \subseteq Ids
      BY <1>1, <2>3, GoLeanAssumption DEF CasesInv, Ids
    <2>5. \A i \in Ids : verdict'[i].verdict \in Semantic => i \in DOMAIN manifest
      BY <1>1, <2>3, <2>4 DEF CasesInv
    <2>6. ASSUME NEW i \in DOMAIN manifest
          PROVE  /\ [id |-> i, verdict |-> verdict'[i].verdict, by |-> run,
                     of |-> verdict'[i].of] \in script[run].rows
                 /\ verdict'[i].verdict \in Semantic => Seen(i, verdict'[i].of)
      <3>1. PICK r \in rows : /\ r.id = i
                              /\ verdict'[i] = [verdict |-> r.verdict, by |-> r.by, of |-> r.of]
        BY <2>3
      <3>2. verdict'[i].verdict = r.verdict /\ verdict'[i].of = r.of
        BY <3>1
      <3> QED
        BY <2>1, <3>1, <3>2
    <2>7. FilesThere
      BY <1>1, <1>4 DEF ScriptInv, FilesThere
    <2>8. TypeOK'
      BY <1>1, <1>4 DEF TypeOK
    <2>9. CasesInv'
      BY <1>1, <1>4, <2>4 DEF CasesInv
    <2>10. TreeInv'
      BY <1>1, <1>4 DEF TreeInv, Kept
    <2>11. ScriptInv'
      BY <1>2, <1>4 DEF ScriptInv
    <2>12. ReportInv'
      BY <1>1, <1>4, <2>5, <2>6, <2>7 DEF ReportInv, Seen, FilesThere
    <2> QED
      BY <2>8, <2>9, <2>10, <2>11, <2>12 DEF Inv
  <1> QED
    BY <1>3, <1>4 DEF parseResults

\* What is digested is the translated subjects, and with them what was judged.
LEMMA DigestStep ==
  ASSUME Inv, Digest
  PROVE  Inv'
  <1>1. /\ TypeOK /\ CasesInv /\ TreeInv /\ ScriptInv /\ ReportInv /\ pc = "digest"
        /\ UNCHANGED <<work, run, script, edited, accepted>>
    BY DEF Inv, Digest
  <1>2. \A s \in Runs : ~Alive(s)'
    BY <1>1 DEF ScriptInv, Alive
  <1>3. CASE End
    <2>1. TypeOK'
      BY <1>1, <1>3 DEF TypeOK, End
    <2>2. TreeInv' /\ ScriptInv'
      BY <1>1, <1>2, <1>3 DEF TreeInv, ScriptInv, End
    <2> QED
      BY <1>3, <2>1, <2>2, EndForgets DEF Inv
  <1>4. ASSUME NEW d \in WorkDigests,
               \A i \in DOMAIN d.cases : i \in Ids /\ d.cases[i] = batch[i].sha,
               digests' = WorkDigests, pc' = "written", UNCHANGED <<batch, k, manifest, verdict>>
        PROVE  Inv'
    <2>1. WorkDigests = {d} /\ d.cases = work.cases
      BY <1>4 DEF WorkDigests
    <2>2. \A i \in DOMAIN work.cases : i \in Ids /\ work.cases[i] = batch[i].sha
      BY <1>4, <2>1
    <2>3. \A i \in Ids : verdict[i].verdict \in Semantic => verdict[i].of = batch[i].sha
      BY <1>1, <2>2 DEF ReportInv, Seen
    <2>4. ~edited /\ d.cases # <<>> => FilesThere
      <3> SUFFICES ASSUME ~edited, work.cases # <<>>, DOMAIN manifest = {}
                   PROVE  FALSE
        BY <1>1, <2>1 DEF ReportInv
      <3>1. DOMAIN work.cases # {}
        <4> DEFINE c == work.cases
        <4>1. c = [i \in DOMAIN c |-> c[i]] /\ c # <<>>
          BY <1>1 DEF TypeOK
        <4>2. DOMAIN c = {} => [i \in DOMAIN c |-> c[i]] = <<>>
          OBVIOUS
        <4> QED
          BY <4>1, <4>2
      <3>2. PICK i \in DOMAIN work.cases : work.cases[i] \in {"none", "edited", "extra"}
        BY <1>1, <3>1 DEF TreeInv
      <3>3. work.cases[i] = batch[i].sha /\ batch[i].sha \in Sources
        BY <1>1, <2>2 DEF CasesInv
      <3>4. work.cases[i] \notin {"none", "extra"}
        BY <2>1 DEF WorkDigests
      <3> QED
        BY <3>2, <3>3, <3>4, GoLeanAssumption
    <2>5. WorkDigests' = WorkDigests
      BY <1>1 DEF WorkDigests
    <2>6. TypeOK'
      BY <1>1, <1>4 DEF TypeOK
    <2>7. CasesInv'
      BY <1>1, <1>4, SameCases DEF TypeOK
    <2>8. TreeInv'
      BY <1>1, <1>4 DEF TreeInv, Kept
    <2>9. ScriptInv'
      BY <1>2, <1>4 DEF ScriptInv
    <2>10. ReportInv'
      <3>1. /\ \A i \in DOMAIN manifest' :
                 [id |-> i, verdict |-> verdict'[i].verdict, by |-> run', of |-> verdict'[i].of]
                   \in script'[run'].rows
            /\ \A i \in Ids : verdict'[i].verdict \in Semantic => i \in DOMAIN manifest'
        BY <1>1, <1>4 DEF ReportInv
      <3>2. /\ digests' = {d}
            /\ \A i \in DOMAIN d.cases : i \in Ids /\ d.cases[i] = batch'[i].sha
            /\ ~edited' => WorkDigests' = {d}
            /\ ~edited' /\ d.cases # <<>> => FilesThere'
        BY <1>1, <1>4, <2>1, <2>4, <2>5 DEF FilesThere
      <3> QED
        BY <1>4, <2>3, <3>1, <3>2 DEF ReportInv
    <2> QED
      BY <2>6, <2>7, <2>8, <2>9, <2>10 DEF Inv
  <1> QED
    BY <1>3, <1>4 DEF Digest

LEMMA BeginStep ==
  ASSUME Inv, Begin
  PROVE  Inv'
  <1>1. /\ TypeOK /\ TreeInv /\ ScriptInv
        /\ pc \in {"idle", "written", "verified"} /\ run < MaxRuns /\ run' = run + 1
        /\ script' = [s \in Runs |-> IF script[s].pc \in Gone THEN NoScript ELSE script[s]]
        /\ UNCHANGED <<work, edited>>
    BY DEF Inv, Begin
  <1>2. /\ run' \in Runs
        /\ \A s \in Runs : ~Alive(s)'
    <2>1. run' \in Runs
      BY <1>1, GoLeanAssumption DEF TypeOK, Runs
    <2>2. \A s \in Runs : ~Alive(s)
      BY <1>1 DEF ScriptInv
    <2>3. \A s \in Runs : script'[s] = NoScript \/ script'[s] = script[s]
      BY <1>1
    <2> QED
      BY <2>1, <2>2, <2>3 DEF Alive, NoScript
  <1>3. \/ End
        \/ /\ pc' = "clear"
           /\ k' = 1 /\ manifest' = <<>> /\ verdict' = <<>>
           /\ \E class \in [Ids -> Classes], source \in [Ids -> Sources] :
                /\ \A i \in Ids : class[i] # "invalid"
                /\ batch' = [i \in Ids |-> [class |-> class[i], subject |-> source[i],
                                            sha |-> source[i]]]
    BY DEF Begin
  <1>4. pc' \in {"idle", "clear"}
    BY <1>3 DEF End
  <1>5. TypeOK'
    <2>1. \A s \in Runs : script'[s] = [f \in ScriptFields |-> script'[s][f]]
      <3>1. NoScript = [f \in ScriptFields |-> NoScript[f]]
        BY DEF NoScript, ScriptFields
      <3> QED
        BY <1>1, <3>1 DEF TypeOK
    <2>2. run' \in 0..MaxRuns
      BY <1>2, GoLeanAssumption DEF Runs
    <2>3. script' = [s \in Runs |-> script'[s]]
      BY <1>1
    <2> QED
      BY <1>1, <1>4, <2>1, <2>2, <2>3 DEF TypeOK
  <1>6. CasesInv' /\ ReportInv'
    <2>1. CASE End
      BY <2>1, EndForgets
    <2>2. ASSUME pc' = "clear", k' = 1, manifest' = <<>>, verdict' = <<>>,
                 NEW class \in [Ids -> Classes], NEW source \in [Ids -> Sources],
                 \A i \in Ids : class[i] # "invalid",
                 batch' = [i \in Ids |-> [class |-> class[i], subject |-> source[i],
                                          sha |-> source[i]]]
          PROVE  CasesInv' /\ ReportInv'
      <3>1. \A i \in Ids : /\ batch'[i] = [f \in {"class", "subject", "sha"} |-> batch'[i][f]]
                           /\ batch'[i].class \in Classes \ {"invalid"}
                           /\ batch'[i].sha \in Sources
                           /\ batch'[i].subject = batch'[i].sha
        BY <2>2
      <3>2. batch' = [i \in Ids |-> batch'[i]]
        BY <2>2
      <3>3. 1 \in 1..(N + 1) /\ 1..(1 - 1) = {}
        BY GoLeanAssumption
      <3> QED
        BY <1>2, <2>2, <3>1, <3>2, <3>3 DEF CasesInv, ReportInv
    <2> QED
      BY <1>3, <2>1, <2>2
  <1>7. TreeInv'
    BY <1>1, <1>4 DEF TreeInv
  <1>8. ScriptInv'
    BY <1>2, <1>4 DEF ScriptInv
  <1> QED
    BY <1>5, <1>6, <1>7, <1>8 DEF Inv

LEMMA VerifyStep ==
  ASSUME Inv, Verify
  PROVE  Inv'
  <1>1. /\ TypeOK /\ CasesInv /\ TreeInv /\ ScriptInv /\ ReportInv
        /\ pc = "written" /\ pc' = "verified" /\ accepted' = VerifyWork
        /\ UNCHANGED <<work, run, campaign, script, edited>>
    BY DEF Inv, Verify
  <1>2. TypeOK'
    BY <1>1 DEF TypeOK
  <1>3. CasesInv'
    BY <1>1, SameCases DEF TypeOK
  <1>4. TreeInv'
    BY <1>1 DEF TreeInv, Kept
  <1>5. ScriptInv'
    BY <1>1 DEF ScriptInv, Alive
  <1>6. ReportInv'
    <2>1. VerifyWork' = VerifyWork /\ WorkDigests' = WorkDigests /\ FilesThere' = FilesThere
      BY <1>1 DEF VerifyWork, WorkDigests, FilesThere
    <2> QED
      BY <1>1, <2>1 DEF ReportInv
  <1> QED
    BY <1>2, <1>3, <1>4, <1>5, <1>6 DEF Inv

-----------------------------------------------------------------------------
(* The script's steps.                                                     *)

\* A script that does something is the campaign's own, which waits for it.
LEMMA ScriptOfRun ==
  ASSUME Inv, NEW s \in Runs, Alive(s)
  PROVE  s = run /\ pc = "wait" /\ work.manifest = {manifest}
  BY DEF Inv, ScriptInv

\* What else a script's step has to leave as it is.
LEMMA ScriptKeeps ==
  ASSUME Inv, pc = "wait", UNCHANGED <<run, pc, campaign, edited, accepted>>,
         work'.cases = work.cases, work'.root = work.root
  PROVE  CasesInv' /\ TreeInv' /\ ReportInv'
  <1>1. CasesInv' /\ ReportInv'
    BY SameCases DEF Inv, TypeOK, ReportInv
  <1>2. TreeInv'
    BY DEF Inv, TreeInv, Kept
  <1> QED
    BY <1>1, <1>2

LEMMA ScriptJudgesStep ==
  ASSUME Inv, NEW s \in Runs, ScriptJudges(s)
  PROVE  Inv'
  <1>1. /\ TypeOK /\ CasesInv /\ ScriptInv
        /\ script[s].pc = "started" /\ UNCHANGED <<work, run, pc, campaign, edited, accepted>>
    BY DEF Inv, ScriptJudges
  <1>2. s = run /\ pc = "wait" /\ work.manifest = {manifest} /\ work.results = {}
    BY <1>1, ScriptOfRun DEF Alive, ScriptInv
  <1> DEFINE Of(i) == IF i \in DOMAIN work.cases THEN work.cases[i] ELSE "none"
             Row(i, w) == [id |-> i, verdict |-> w, by |-> s, of |-> Of(i)]
             GoodOf(m, v) == {Row(i, IF Of(i) = "none" THEN "harness-error" ELSE v[i]) :
                              i \in DOMAIN m}
             Good(v) == GoodOf(manifest, v)
  <1>3. PICK v \in [DOMAIN manifest -> Found] :
          \E rows \in {Good(v), Good(v) \cup {Row(Theirs, "match")}}
                      \cup {Good(v) \ {r} : r \in Good(v)}
                      \cup {Good(v) \cup {Row(r.id, "clone-infra-failure")} : r \in Good(v)} :
            Advance(s, [script[s] EXCEPT !.pc = "judged", !.manifest = manifest, !.rows = rows])
    <2> DEFINE Judged(m) ==
          \E v \in [DOMAIN m -> Found] :
            \E rows \in {GoodOf(m, v), GoodOf(m, v) \cup {Row(Theirs, "match")}}
                        \cup {GoodOf(m, v) \ {r} : r \in GoodOf(m, v)}
                        \cup {GoodOf(m, v) \cup {Row(r.id, "clone-infra-failure")} :
                             r \in GoodOf(m, v)} :
              Advance(s, [script[s] EXCEPT !.pc = "judged", !.manifest = m, !.rows = rows])
    <2>1. \E m \in work.manifest : Judged(m)
      BY Zenon DEF ScriptJudges
    <2> HIDE DEF Judged
    <2>2. Judged(manifest)
      BY <1>2, <2>1
    <2> HIDE DEF Row, Of
    <2> QED
      BY <2>2, Zenon DEF Judged
  <1>4. PICK rows \in {Good(v), Good(v) \cup {Row(Theirs, "match")}}
                      \cup {Good(v) \ {r} : r \in Good(v)}
                      \cup {Good(v) \cup {Row(r.id, "clone-infra-failure")} : r \in Good(v)} :
          Advance(s, [script[s] EXCEPT !.pc = "judged", !.manifest = manifest, !.rows = rows])
    BY <1>3
  <1>5. \A r \in rows :
          \/ \E i \in DOMAIN manifest :
               r = Row(i, IF Of(i) = "none" THEN "harness-error" ELSE v[i])
          \/ r = Row(Theirs, "match")
          \/ \E i : r = Row(i, "clone-infra-failure")
    BY <1>4
  <1>6. \A i \in DOMAIN manifest : Of(i) # "none" => Seen(i, Of(i))
    <2> SUFFICES ASSUME NEW i \in DOMAIN manifest, i \in DOMAIN work.cases
                 PROVE  Seen(i, work.cases[i])
      OBVIOUS
    <2> QED
      BY <1>2 DEF Inv, TreeInv, Kept, Seen
  <1>7. Theirs \notin DOMAIN manifest
    BY <1>1, <1>2, GoLeanAssumption DEF CasesInv, Theirs
  <1>8. ASSUME NEW r \in rows
        PROVE  /\ r = [id |-> r.id, verdict |-> r.verdict, by |-> run, of |-> r.of]
               /\ r.id \in DOMAIN manifest /\ r.verdict \in Semantic => Seen(r.id, r.of)
    <2>1. \A i, w : /\ Row(i, w).id = i /\ Row(i, w).verdict = w /\ Row(i, w).of = Of(i)
                    /\ Row(i, w) = [id |-> i, verdict |-> w, by |-> run, of |-> Of(i)]
      BY <1>2
    <2>2. "harness-error" \notin Semantic /\ "clone-infra-failure" \notin Semantic
      BY DEF Semantic
    <2> HIDE DEF Row, Of
    <2>3. CASE \E i \in DOMAIN manifest :
                 r = Row(i, IF Of(i) = "none" THEN "harness-error" ELSE v[i])
      BY <1>6, <2>1, <2>2, <2>3
    <2>4. CASE r = Row(Theirs, "match")
      BY <1>7, <2>1, <2>4
    <2>5. CASE \E i : r = Row(i, "clone-infra-failure")
      BY <2>1, <2>2, <2>5
    <2> QED
      BY <1>5, <2>3, <2>4, <2>5
  <1> HIDE DEF Row, Of, Good
  <1>9. /\ script'[s].rows = rows /\ script'[s].pc = "judged"
        /\ script'[s] = [f \in ScriptFields |-> script'[s][f]]
        /\ script' = [t \in Runs |-> script'[t]]
        /\ \A t \in Runs \ {s} : script'[t] = script[t]
    <2>1. script[s] = [f \in ScriptFields |-> script[s][f]] /\ script = [t \in Runs |-> script[t]]
      BY <1>1 DEF TypeOK
    <2> QED
      BY <1>4, <2>1 DEF Advance, ScriptFields
  <1>10. TypeOK'
    BY <1>1, <1>9 DEF TypeOK
  <1>11. ScriptInv'
    <2>1. \A t \in Runs : Alive(t)' => t = run' /\ pc' = "wait"
      BY <1>1, <1>2, <1>9 DEF ScriptInv, Alive
    <2>2. \A r \in rows : r.id \in DOMAIN manifest /\ r.verdict \in Semantic
                             => Seen(r.id, r.of)'
      BY <1>1, <1>8 DEF Seen
    <2> QED
      BY <1>1, <1>2, <1>8, <1>9, <2>1, <2>2 DEF ScriptInv
  <1>12. CasesInv' /\ TreeInv' /\ ReportInv'
    BY <1>1, <1>2, ScriptKeeps
  <1> QED
    BY <1>10, <1>11, <1>12 DEF Inv

LEMMA ScriptPublishesStep ==
  ASSUME Inv, NEW s \in Runs, ScriptPublishes(s)
  PROVE  Inv'
  <1>1. /\ TypeOK /\ CasesInv /\ ScriptInv
        /\ script[s].pc = "judged" /\ UNCHANGED <<run, pc, campaign, edited, accepted>>
    BY DEF Inv, ScriptPublishes
  <1>2. s = run /\ pc = "wait" /\ work.manifest = {manifest}
    BY <1>1, ScriptOfRun DEF Alive
  <1>3. PICK what \in script[s].todo :
          /\ work' = IF what = "results" THEN [work EXCEPT !.results = {script[s].rows}]
                     ELSE [work EXCEPT !.meta = {script[s].manifest}]
          /\ Advance(s, [script[s] EXCEPT !.todo = @ \ {what}])
    BY DEF ScriptPublishes
  <1>4. /\ work'.cases = work.cases /\ work'.root = work.root
        /\ work'.manifest = work.manifest
        /\ work'.results = work.results \/ work'.results = {script[s].rows}
        /\ work' = [f \in WorkFields |-> work'[f]]
    BY <1>1, <1>3 DEF TypeOK, WorkFields
  <1>5. /\ script'[s].rows = script[s].rows /\ script'[s].pc = "judged"
        /\ script'[s] = [f \in ScriptFields |-> script'[s][f]]
        /\ script' = [t \in Runs |-> script'[t]]
        /\ \A t \in Runs \ {s} : script'[t] = script[t]
    <2>1. script[s] = [f \in ScriptFields |-> script[s][f]] /\ script = [t \in Runs |-> script[t]]
      BY <1>1 DEF TypeOK
    <2> QED
      BY <1>1, <1>3, <2>1 DEF Advance, ScriptFields
  <1>6. TypeOK'
    BY <1>1, <1>4, <1>5 DEF TypeOK
  <1>7. ScriptInv'
    <2>1. \A t \in Runs : Alive(t)' => t = run' /\ pc' = "wait"
      BY <1>1, <1>2, <1>5 DEF ScriptInv, Alive
    <2>2. /\ work'.results \subseteq {script[run].rows}
          /\ \A r \in script[run].rows :
               /\ r = [id |-> r.id, verdict |-> r.verdict, by |-> run, of |-> r.of]
               /\ r.id \in DOMAIN manifest /\ r.verdict \in Semantic => Seen(r.id, r.of)'
      BY <1>1, <1>2, <1>4 DEF ScriptInv, Seen
    <2> QED
      BY <1>1, <1>2, <1>4, <1>5, <2>1, <2>2 DEF ScriptInv
  <1>8. CasesInv' /\ TreeInv' /\ ReportInv'
    BY <1>1, <1>2, <1>4, ScriptKeeps
  <1> QED
    BY <1>6, <1>7, <1>8 DEF Inv

LEMMA ScriptExitsStep ==
  ASSUME Inv, NEW s \in Runs, ScriptExits(s)
  PROVE  Inv'
  <1>1. /\ TypeOK /\ CasesInv /\ ScriptInv /\ Alive(s)
        /\ UNCHANGED <<work, run, pc, campaign, edited, accepted>>
    BY DEF Inv, ScriptExits, Alive
  <1>2. s = run /\ pc = "wait" /\ work.manifest = {manifest}
    BY <1>1, ScriptOfRun
  <1>3. /\ script'[s].rows = script[s].rows /\ script'[s].pc \in Exits
        /\ script'[s] = [f \in ScriptFields |-> script'[s][f]]
        /\ script' = [t \in Runs |-> script'[t]]
        /\ \A t \in Runs \ {s} : script'[t] = script[t]
    <2>1. script[s] = [f \in ScriptFields |-> script[s][f]] /\ script = [t \in Runs |-> script[t]]
      BY <1>1 DEF TypeOK
    <2> QED
      BY <2>1 DEF ScriptExits, Advance, ScriptFields
  <1>4. TypeOK'
    BY <1>1, <1>3 DEF TypeOK
  <1>5. ScriptInv'
    <2>1. \A t \in Runs : ~Alive(t)'
      BY <1>1, <1>2, <1>3 DEF ScriptInv, Alive, Exits
    <2>2. script'[run].pc # "started"
      BY <1>2, <1>3 DEF Exits
    <2> QED
      BY <1>1, <1>2, <1>3, <2>1, <2>2 DEF ScriptInv, Seen
  <1>6. CasesInv' /\ TreeInv' /\ ReportInv'
    BY <1>1, <1>2, ScriptKeeps
  <1> QED
    BY <1>4, <1>5, <1>6 DEF Inv

-----------------------------------------------------------------------------
(* Deaths, and somebody else.                                              *)

\* A campaign that dies in its wait takes its script with it.
LEMMA CrashStep ==
  ASSUME Inv, Crash, Orphans = FALSE
  PROVE  Inv'
  <1>1. /\ TypeOK /\ TreeInv /\ ScriptInv /\ End /\ UNCHANGED <<work, run, edited, accepted>>
        /\ script' = IF pc = "wait" THEN [script EXCEPT ![run].pc = "killed"] ELSE script
    BY DEF Inv, Crash
  <1>2. /\ script' = [s \in Runs |-> script'[s]]
        /\ \A s \in Runs : script'[s] = [f \in ScriptFields |-> script'[s][f]]
    BY <1>1 DEF TypeOK, ScriptFields
  <1>3. \A s \in Runs : ~Alive(s)'
    BY <1>1 DEF TypeOK, ScriptFields, ScriptInv, Alive
  <1>4. pc' = "idle"
    BY <1>1 DEF End
  <1>5. TypeOK'
    BY <1>1, <1>2, <1>4 DEF TypeOK
  <1>6. TreeInv'
    BY <1>1, <1>4 DEF TreeInv
  <1>7. ScriptInv'
    BY <1>3, <1>4 DEF ScriptInv
  <1> QED
    BY <1>1, <1>5, <1>6, <1>7, EndForgets DEF Inv

\* The edits of the work tree, one by one.
LEMMA EditsCases ==
  ASSUME work' \in Edits
  PROVE  \/ \E i \in DOMAIN work.cases \ {Theirs}, e \in {"edited", "none", "extra"} :
              work' = [work EXCEPT !.cases[i] = e]
         \/ \E i \in DOMAIN work.cases \ {Theirs} :
              work' = [work EXCEPT !.cases = Without(@, i)]
         \/ /\ pc = "written"
            /\ \/ work' = [work EXCEPT !.cases = With(@, Theirs, "edited"), !.root = TRUE]
               \/ work' = [work EXCEPT !.extra = TRUE]
               \/ work' = [work EXCEPT !.marker = "none"]
               \/ \E f \in {{}, {<<>>}} : work' = [work EXCEPT !.manifest = f]
               \/ \E f \in {{}, {{}}} : work' = [work EXCEPT !.results = f]
               \/ \E f \in {{}, {<<>>}} : work' = [work EXCEPT !.meta = f]
  BY DEF Edits

\* What an edit of the work tree may do.
LEMMA EditsShape ==
  ASSUME TypeOK, TreeInv, work' \in Edits
  PROVE  /\ work' = [f \in WorkFields |-> work'[f]]
         /\ work'.cases = [i \in DOMAIN work'.cases |-> work'.cases[i]]
         /\ ~work'.root => DOMAIN work'.cases = {}
         /\ pc # "written" =>
              /\ work'.root = work.root /\ work'.manifest = work.manifest
              /\ work'.results = work.results /\ work'.meta = work.meta
              /\ DOMAIN work'.cases \subseteq DOMAIN work.cases
              /\ \A i \in DOMAIN work'.cases :
                   \/ work'.cases[i] = work.cases[i]
                   \/ work'.cases[i] \in {"none", "edited", "extra"}
  <1> DEFINE Same == /\ work'.root = work.root /\ work'.manifest = work.manifest
                     /\ work'.results = work.results /\ work'.meta = work.meta
             Whole == work' = [f \in WorkFields |-> work'[f]]
  <1>1. /\ work = [f \in WorkFields |-> work[f]]
        /\ work.cases = [i \in DOMAIN work.cases |-> work.cases[i]]
        /\ ~work.root => DOMAIN work.cases = {}
    BY DEF TypeOK, TreeInv
  <1>2. ASSUME NEW i \in DOMAIN work.cases, NEW e \in {"edited", "none", "extra"},
               work' = [work EXCEPT !.cases[i] = e]
        PROVE  Whole /\ Same /\ work'.cases = [work.cases EXCEPT ![i] = e]
    BY <1>1, <1>2 DEF WorkFields
  <1>3. ASSUME NEW i \in DOMAIN work.cases, work' = [work EXCEPT !.cases = Without(@, i)]
        PROVE  Whole /\ Same /\ work'.cases = Without(work.cases, i)
    BY <1>1, <1>3 DEF WorkFields
  <1>4. ASSUME work' = [work EXCEPT !.cases = With(@, Theirs, "edited"), !.root = TRUE]
        PROVE  Whole /\ work'.root /\ work'.cases = With(work.cases, Theirs, "edited")
    BY <1>1, <1>4 DEF WorkFields
  <1>5. ASSUME \/ work' = [work EXCEPT !.extra = TRUE] \/ work' = [work EXCEPT !.marker = "none"]
               \/ \E f \in {{}, {<<>>}} : work' = [work EXCEPT !.manifest = f]
               \/ \E f \in {{}, {{}}} : work' = [work EXCEPT !.results = f]
               \/ \E f \in {{}, {<<>>}} : work' = [work EXCEPT !.meta = f]
        PROVE  Whole /\ work'.root = work.root /\ work'.cases = work.cases
    BY <1>1, <1>5 DEF WorkFields
  <1> HIDE DEF Whole
  <1>6. CASE \E i \in DOMAIN work.cases, e \in {"edited", "none", "extra"} :
               work' = [work EXCEPT !.cases[i] = e]
    <2>1. PICK i \in DOMAIN work.cases, e \in {"edited", "none", "extra"} :
            Whole /\ Same /\ work'.cases = [work.cases EXCEPT ![i] = e]
      BY <1>2, <1>6
    <2> QED
      BY <1>1, <2>1 DEF Whole
  <1>7. CASE \E i \in DOMAIN work.cases : work' = [work EXCEPT !.cases = Without(@, i)]
    <2>1. PICK i \in DOMAIN work.cases : Whole /\ Same /\ work'.cases = Without(work.cases, i)
      BY <1>3, <1>7
    <2> QED
      BY <1>1, <2>1 DEF Whole, Without, Restrict
  <1>8. CASE /\ pc = "written"
             /\ Whole /\ work'.root /\ work'.cases = With(work.cases, Theirs, "edited")
    BY <1>8 DEF Whole, With
  <1>9. CASE pc = "written" /\ Whole /\ work'.root = work.root /\ work'.cases = work.cases
    BY <1>1, <1>9 DEF Whole
  <1> QED
    BY <1>4, <1>5, <1>6, <1>7, <1>8, <1>9, EditsCases

\* The digests of the report tell an edit, or it was of something that no
\* report has.
LEMMA EditStep ==
  ASSUME Inv, Edit
  PROVE  Inv'
  <1>1. /\ TypeOK /\ CasesInv /\ TreeInv /\ ScriptInv /\ ReportInv
        /\ ~edited /\ edited' /\ edited' \in BOOLEAN /\ pc \notin {"idle", "verified"}
        /\ UNCHANGED <<run, pc, k, manifest, verdict, digests, script, accepted>>
    BY DEF Inv, Edit, Working
  <1>2. /\ work' = [f \in WorkFields |-> work'[f]]
        /\ work'.cases = [i \in DOMAIN work'.cases |-> work'.cases[i]]
        /\ ~work'.root => DOMAIN work'.cases = {}
        /\ pc # "written" =>
             /\ work'.root = work.root /\ work'.manifest = work.manifest
             /\ work'.results = work.results /\ work'.meta = work.meta
             /\ DOMAIN work'.cases \subseteq DOMAIN work.cases
             /\ \A i \in DOMAIN work'.cases :
                  \/ work'.cases[i] = work.cases[i]
                  \/ work'.cases[i] \in {"none", "edited", "extra"}
    <2>1. work' \in Edits \/ UNCHANGED work
      BY DEF Edit
    <2>2. CASE UNCHANGED work
      BY <1>1, <2>2 DEF TypeOK, TreeInv
    <2> QED
      BY <1>1, <2>1, <2>2, EditsShape
  <1>3. \/ UNCHANGED batch
        \/ \E i \in Ids : batch' = [batch EXCEPT ![i].subject = "edited"]
    BY DEF Edit
  <1>4. /\ batch' = [i \in Ids |-> batch'[i]]
        /\ \A i \in Ids : /\ batch'[i] = [f \in {"class", "subject", "sha"} |-> batch'[i][f]]
                          /\ batch'[i].class \in Classes \ {"invalid"}
                          /\ batch'[i].sha = batch[i].sha /\ batch'[i].sha \in Sources
                          /\ batch'[i].subject \in {batch'[i].sha, "edited"}
    <2>1. /\ batch = [i \in Ids |-> batch[i]]
          /\ \A i \in Ids : /\ batch[i] = [f \in {"class", "subject", "sha"} |-> batch[i][f]]
                            /\ batch[i].class \in Classes \ {"invalid"}
                            /\ batch[i].sha \in Sources
                            /\ batch[i].subject = batch[i].sha
      BY <1>1 DEF CasesInv
    <2>2. ASSUME NEW i \in Ids, batch' = [batch EXCEPT ![i].subject = "edited"]
          PROVE  /\ batch' = [j \in Ids |-> batch'[j]]
                 /\ batch'[i] = [batch[i] EXCEPT !.subject = "edited"]
                 /\ \A j \in Ids \ {i} : batch'[j] = batch[j]
      BY <2>1, <2>2
    <2> QED
      BY <1>3, <2>1, <2>2
  <1>5. TypeOK'
    BY <1>1, <1>2 DEF TypeOK
  <1>6. CasesInv'
    BY <1>1, <1>4 DEF CasesInv
  <1>7. TreeInv'
    BY <1>1, <1>2 DEF TreeInv
  <1>8. ScriptInv'
    <2>1. \A s \in Runs : Alive(s)' => s = run' /\ pc' = "wait"
      BY <1>1 DEF ScriptInv, Alive
    <2>2. pc \in {"wait", "meta", "parse"} =>
            \A r \in script[run].rows :
              /\ r = [id |-> r.id, verdict |-> r.verdict, by |-> run, of |-> r.of]
              /\ r.id \in DOMAIN manifest /\ r.verdict \in Semantic => Seen(r.id, r.of)'
      <3>1. pc \in {"wait", "meta", "parse"} => DOMAIN manifest \subseteq Ids
        BY <1>1, GoLeanAssumption DEF CasesInv, Ids
      <3> QED
        BY <1>1, <1>4, <3>1 DEF ScriptInv, Seen
    <2> QED
      BY <1>1, <1>2, <2>1, <2>2 DEF ScriptInv
  <1>9. ReportInv'
    <2>1. pc' \in Folded =>
            /\ \A i \in DOMAIN manifest' :
                 [id |-> i, verdict |-> verdict'[i].verdict, by |-> run', of |-> verdict'[i].of]
                   \in script'[run'].rows
            /\ \A i \in Ids : verdict'[i].verdict \in Semantic => i \in DOMAIN manifest'
      BY <1>1 DEF ReportInv
    <2>2. pc' = "digest" =>
            /\ \A i \in Ids : verdict'[i].verdict \in Semantic => Seen(i, verdict[i].of)'
            /\ DOMAIN manifest' # {} => FilesThere'
      BY <1>1, <1>2, <1>4 DEF ReportInv, Seen, FilesThere
    <2>3. pc' \in {"written", "verified"} =>
            /\ \A i \in Ids : verdict'[i].verdict \in Semantic => verdict'[i].of = batch'[i].sha
            /\ \E d \in digests' :
                 /\ digests' = {d}
                 /\ \A i \in DOMAIN d.cases : i \in Ids /\ d.cases[i] = batch'[i].sha
      BY <1>1, <1>4 DEF ReportInv
    <2>4. pc' # "verified"
      BY <1>1
    <2> QED
      BY <1>1, <2>1, <2>2, <2>3, <2>4 DEF ReportInv
  <1> QED
    BY <1>5, <1>6, <1>7, <1>8, <1>9 DEF Inv

LEMMA PlaceStep ==
  ASSUME Inv, Place
  PROVE  Inv'
  <1>1. /\ TypeOK /\ ScriptInv /\ pc = "idle"
        /\ UNCHANGED <<run, pc, campaign, script, edited, accepted>>
    BY DEF Inv, Place
  <1>2. PICK m \in {"none", "other"} :
          work' = [work EXCEPT !.root = TRUE, !.cases = With(@, Theirs, "edited"), !.marker = m]
    BY DEF Place
  <1>3. /\ work' = [f \in WorkFields |-> work'[f]] /\ work'.root
        /\ work'.cases = With(work.cases, Theirs, "edited")
    BY <1>1, <1>2 DEF TypeOK, WorkFields
  <1>4. work'.cases = [i \in DOMAIN work'.cases |-> work'.cases[i]]
    BY <1>3 DEF With
  <1>5. TypeOK'
    BY <1>1, <1>3, <1>4 DEF TypeOK
  <1>6. CasesInv' /\ ReportInv'
    BY <1>1 DEF CasesInv, ReportInv
  <1>7. TreeInv' /\ ScriptInv'
    BY <1>1, <1>3 DEF TreeInv, ScriptInv, Alive
  <1> QED
    BY <1>5, <1>6, <1>7 DEF Inv

LEMMA StutterStep ==
  ASSUME Inv, UNCHANGED vars
  PROVE  Inv'
  <1>1. TypeOK'
    BY DEF Inv, TypeOK, vars
  <1>2. CasesInv'
    BY SameCases DEF Inv, TypeOK, vars
  <1>3. TreeInv' /\ ScriptInv'
    BY DEF Inv, TreeInv, Kept, ScriptInv, Alive, Seen, vars
  <1>4. ReportInv'
    <2>1. VerifyWork' = VerifyWork /\ WorkDigests' = WorkDigests /\ FilesThere' = FilesThere
      BY DEF VerifyWork, WorkDigests, FilesThere, vars
    <2> QED
      BY <2>1 DEF Inv, ReportInv, Seen, vars
  <1> QED
    BY <1>1, <1>2, <1>3, <1>4 DEF Inv

LEMMA Inductive ==
  ASSUME Inv, [Next]_vars, Orphans = FALSE
  PROVE  Inv'
  <1>1. CASE RunStep
    BY <1>1, ClearCaseRootStep, RemoveCasesStep, MakeCasesStep, WriteMarkerStep, TranslateStep,
       WriteManifestStep, RemoveResultsStep, RemoveMetaStep, InvokeStep, WaitStep, CeilingStep,
       checkMetaStep, parseResultsStep, DigestStep DEF RunStep
  <1>2. ASSUME NEW s \in Runs, ScriptStep(s)
        PROVE  Inv'
    BY <1>2, ScriptJudgesStep, ScriptPublishesStep, ScriptExitsStep DEF ScriptStep
  <1> QED
    BY <1>1, <1>2, BeginStep, VerifyStep, CrashStep, EditStep, PlaceStep, StutterStep DEF Next

LEMMA Invariant ==
  ASSUME Orphans = FALSE
  PROVE  Spec => []Inv
  BY GoLeanInit, Inductive, PTL DEF Spec

-----------------------------------------------------------------------------
(* What a report says.                                                     *)

\* The rows of a report are those of this campaign's script: what an earlier
\* invocation left is never read (golean.Run, "a stale results file").
THEOREM OwnVerdicts ==
  ASSUME Orphans = FALSE
  PROVE  Spec => []FreshVerdicts
  <1>1. Inv => FreshVerdicts
    BY DEF Inv, CasesInv, ReportInv, FreshVerdicts
  <1> QED
    BY <1>1, Invariant, PTL

\* A semantic verdict is on the subject that the report names, whoever edits
\* the subjects or the case tree meanwhile (runGoLean's comparison).
THEOREM JudgedAsNamed ==
  ASSUME Orphans = FALSE
  PROVE  Spec => []JudgedSource
  <1>1. Inv => JudgedSource
    BY DEF Inv, ReportInv, JudgedSource
  <1> QED
    BY <1>1, Invariant, PTL

\* -verify accepts the tree that the campaign left, and no edited one
\* (VerifyWork).
THEOREM VerifiedAsLeft ==
  ASSUME Orphans = FALSE
  PROVE  Spec => []VerifyExact
  <1>1. Inv => VerifyExact
    <2> SUFFICES ASSUME Inv, pc = "verified"
                 PROVE  /\ ~edited => accepted
                        /\ accepted =>
                             /\ ~work.extra /\ digests = {DigestedNow}
                             /\ \A i \in Ids : verdict[i].verdict \in Semantic =>
                                  i \in DOMAIN work.cases /\ work.cases[i] = batch[i].sha
      BY DEF VerifyExact
    <2>1. PICK d \in digests :
            /\ digests = {d}
            /\ \A i \in DOMAIN d.cases : i \in Ids /\ d.cases[i] = batch[i].sha
            /\ ~edited => WorkDigests = {d}
            /\ ~edited /\ d.cases # <<>> => FilesThere
      BY DEF Inv, ReportInv
    <2>2. accepted <=> VerifyWork
      BY DEF Inv, ReportInv
    <2>3. WorkDigests = {d} => d = DigestedNow /\ ~work.extra
      BY DEF WorkDigests, DigestedNow
    <2>4. ~edited => \A i \in Ids : verdict[i].verdict \in Semantic => i \in DOMAIN work.cases
      BY DEF Inv, ReportInv, TreeInv, Kept
    <2>5. ASSUME ~edited
          PROVE  accepted
      <3>1. d = DigestedNow /\ WorkDigests = {d}
        BY <2>1, <2>3, <2>5
      <3>2. \A i \in Ids : verdict[i].verdict \in Semantic => i \in DOMAIN d.cases
        BY <2>4, <2>5, <3>1 DEF DigestedNow
      <3>3. d.cases # <<>> => {} \notin {d.manifest, d.results, d.meta}
        BY <2>1, <2>5, <3>1 DEF DigestedNow, FilesThere
      <3> QED
        BY <2>2, <3>1, <3>2, <3>3 DEF VerifyWork
    <2>6. ASSUME accepted
          PROVE  /\ ~work.extra /\ digests = {DigestedNow}
                 /\ \A i \in Ids : verdict[i].verdict \in Semantic =>
                      i \in DOMAIN work.cases /\ work.cases[i] = batch[i].sha
      <3>1. /\ WorkDigests = {d}
            /\ \A i \in Ids : verdict[i].verdict \in Semantic => i \in DOMAIN d.cases
        BY <2>1, <2>2, <2>6 DEF VerifyWork
      <3>2. d.cases = work.cases
        BY <2>3, <3>1 DEF DigestedNow
      <3> QED
        BY <2>1, <2>3, <3>1, <3>2
    <2> QED
      BY <2>5, <2>6
  <1> QED
    BY <1>1, Invariant, PTL

-----------------------------------------------------------------------------
(* What a campaign may remove.                                             *)

RemoveInv == /\ work = [f \in WorkFields |-> work[f]]
             /\ pc = "remove" => work.marker = "ours"

LEMMA StrangersStep ==
  ASSUME RemoveInv, [Next]_vars
  PROVE  /\ RemoveInv'
         /\ work.marker # "ours" /\ Theirs \in DOMAIN work.cases => Theirs \in DOMAIN work'.cases
  <1> DEFINE Spared == work.marker # "ours" /\ Theirs \in DOMAIN work.cases
                         => Theirs \in DOMAIN work'.cases
             Whole  == work' = [f \in WorkFields |-> work'[f]]
  <1> USE DEF RemoveInv
  \* Most steps leave the cases alone, and none of those begins a removal.
  <1>1. ASSUME Whole, work'.cases = work.cases, pc' # "remove"
        PROVE  RemoveInv' /\ Spared
    BY <1>1
  <1>2. CASE ClearCaseRoot
    BY <1>2 DEF ClearCaseRoot, End
  <1>3. CASE RemoveCases
    BY <1>3 DEF RemoveCases, WorkFields
  <1>4. CASE MakeCases \/ WriteMarker \/ WriteManifest \/ RemoveResults \/ RemoveMeta
    BY <1>1, <1>4 DEF MakeCases, WriteMarker, WriteManifest, RemoveResults, RemoveMeta, WorkFields
  <1>5. CASE Translate
    <2>1. /\ pc' # "remove"
          /\ \/ UNCHANGED work
             \/ \E v : work' = [work EXCEPT !.cases = With(@, k, v)]
      BY <1>5 DEF Translate
    <2>2. Whole /\ (work'.cases = work.cases \/ \E v : work'.cases = With(work.cases, k, v))
      BY <2>1 DEF WorkFields
    <2> QED
      BY <2>1, <2>2 DEF With
  <1>6. CASE Invoke \/ Wait \/ Ceiling \/ checkMeta \/ parseResults \/ Digest \/ Begin \/ Verify
             \/ Crash
    <2>1. UNCHANGED work /\ pc' # "remove"
      BY <1>6 DEF Invoke, Wait, Ceiling, checkMeta, parseResults, Digest, Begin, Verify, Crash, End
    <2> QED
      BY <1>1, <2>1
  <1>7. ASSUME NEW s \in Runs, ScriptStep(s)
        PROVE  RemoveInv' /\ Spared
    <2>1. pc' = pc /\ (UNCHANGED work \/ ScriptPublishes(s))
      BY <1>7 DEF ScriptStep, ScriptJudges, ScriptPublishes, ScriptExits
    <2>2. CASE ScriptPublishes(s)
      BY <2>1, <2>2 DEF ScriptPublishes, WorkFields
    <2> QED
      BY <2>1, <2>2
  <1>8. CASE Edit
    <2>1. pc' = pc /\ (UNCHANGED work \/ work' \in Edits)
      BY <1>8 DEF Edit
    <2>2. CASE work' \in Edits
      <3>1. CASE \E i \in DOMAIN work.cases \ {Theirs}, e \in {"edited", "none", "extra"} :
                   work' = [work EXCEPT !.cases[i] = e]
        BY <2>1, <3>1 DEF WorkFields
      <3>2. CASE \E i \in DOMAIN work.cases \ {Theirs} :
                   work' = [work EXCEPT !.cases = Without(@, i)]
        BY <2>1, <3>2 DEF WorkFields, Without, Restrict
      <3>3. CASE work' = [work EXCEPT !.cases = With(@, Theirs, "edited"), !.root = TRUE]
                 /\ pc = "written"
        BY <2>1, <3>3 DEF WorkFields, With
      <3>4. CASE /\ pc = "written"
                 /\ \/ work' = [work EXCEPT !.extra = TRUE]
                    \/ work' = [work EXCEPT !.marker = "none"]
                    \/ \E f \in {{}, {<<>>}} : work' = [work EXCEPT !.manifest = f]
                    \/ \E f \in {{}, {{}}} : work' = [work EXCEPT !.results = f]
                    \/ \E f \in {{}, {<<>>}} : work' = [work EXCEPT !.meta = f]
        <4>1. Whole /\ work'.cases = work.cases
          BY <3>4 DEF WorkFields
        <4> QED
          BY <1>1, <2>1, <3>4, <4>1
      <3> HIDE DEF Whole, Spared
      <3> QED
        BY <2>2, <3>1, <3>2, <3>3, <3>4, EditsCases
    <2> QED
      BY <2>1, <2>2
  <1>9. CASE Place
    <2>1. PICK m \in {"none", "other"} :
            work' = [work EXCEPT !.root = TRUE, !.cases = With(@, Theirs, "edited"), !.marker = m]
      BY <1>9 DEF Place
    <2>2. Whole /\ work'.cases = With(work.cases, Theirs, "edited") /\ pc' = "idle"
      BY <1>9, <2>1 DEF Place, WorkFields
    <2> QED
      BY <2>2 DEF With
  <1>10. CASE UNCHANGED vars
    BY <1>10 DEF vars
  <1> QED
    BY <1>2, <1>3, <1>4, <1>5, <1>6, <1>7, <1>8, <1>9, <1>10 DEF Next, RunStep

\* No campaign removes a case tree that no campaign wrote, also when scripts
\* outlive theirs (clearCaseRoot).
THEOREM StrangersTreeStays == Spec => ForeignSpared
  <1>1. Init => RemoveInv
    BY DEF Init, NoWork, RemoveInv, WorkFields
  <1>2. RemoveInv /\ [Next]_vars => RemoveInv'
    BY StrangersStep
  <1>3. RemoveInv /\ [Next]_vars
          => [work.marker # "ours" /\ Theirs \in DOMAIN work.cases
                => (Theirs \in DOMAIN work.cases)']_vars
    BY StrangersStep
  <1> QED
    BY <1>1, <1>2, <1>3, PTL DEF Spec, ForeignSpared
=============================================================================
