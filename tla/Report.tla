------------------------------- MODULE Report -------------------------------
(***************************************************************************)
(* The report of a judged batch: what run (cmd/gengo/main.go) makes of the *)
(* outcomes of every case, and what ValidateBatchReport                    *)
(* (harness/report.go) makes of the report when -verify reads it.          *)
(*                                                                         *)
(* RunBatch judges a gc clone itself; a golean clone is judged by          *)
(* runGoLean afterwards; the wrapper counts come last.  Between writing    *)
(* and verifying, one fact of the report may be falsified: a producer's    *)
(* defect, bound by digest like the rest of it.  A report is its facts     *)
(* that can be recomputed; identities, oracles and seeds are left out.     *)
(***************************************************************************)
EXTENDS Verdicts, FiniteSets

CONSTANTS
  Batches,  \* per case: outcomes, golean's row, features, subject readable
  Clones,   \* the -clone of the campaign: "" (none), "gc", "golean"
  Policy    \* the -panic-policy values a caller may pass

\* The verdicts that a row of golean's campaign carries.
RowVerdicts == {"match", "observation-mismatch", "clone-infra-failure", "harness-error"}

ASSUME ReportAssumption ==
  /\ Clones \subseteq {"", "gc", "golean"}
  /\ \A b \in Batches :
       /\ Len(b) \in Nat /\ DOMAIN b = 1..Len(b)
       /\ \A i \in DOMAIN b : /\ IsOutcome(b[i].ref) /\ IsOutcome(b[i].clone)
                             /\ b[i].row \in RowVerdicts
                             /\ b[i].read \in BOOLEAN

VARIABLES
  batch,    \* the evidence
  clone, policy,
  step,
  rep,      \* the report as far as it is filled
  defect,   \* the fact that was falsified ("": none)
  accepted  \* ValidateBatchReport's answer

vars == <<batch, clone, policy, step, rep, defect, accepted>>

NoOutcome == [status |-> "", document |-> NoDocument, detail |-> ""]
Empty == [cases |-> <<>>]

-----------------------------------------------------------------------------
(* Recomputing: the same rules serve the producer and the validator.       *)

\* How many cases carry each key; a key that none carries is absent.
Histogram(keys) ==
  [k \in UNION {keys[i] : i \in DOMAIN keys} |->
     Cardinality({i \in DOMAIN keys : k \in keys[i]})]

Count(cases, Test(_)) == Cardinality({i \in DOMAIN cases : Test(cases[i])})

VerdictsOf(cases) == Histogram([i \in DOMAIN cases |-> {cases[i].verdict} \ {""}])

Ran(c)     == c.ref.status = "ran"
Panicked(c) == Ran(c) /\ c.ref.document.status = "panic"

\* Events, not cases.
RecoveredIn(c) == IF Ran(c)
                  THEN {j \in DOMAIN c.ref.document.events :
                          c.ref.document.events[j].at = "recovered"}
                  ELSE {}
Recovered(cases) ==
  Cardinality(UNION {{i} \X RecoveredIn(cases[i]) : i \in DOMAIN cases})

\* The wrapped subject caught a panic: it ended well, with a panic site in
\* its last value.
Caught(i, c) ==
  /\ "recover_wrapper" \in batch[i].features
  /\ Ran(c) /\ c.ref.document.status = "ok"
  /\ LET values == c.ref.document.values
     IN Len(values) > 0 /\ values[Len(values)].kind = "int"
                        /\ values[Len(values)].data # 0

CaughtAs(cases, kinds) ==
  Cardinality({i \in DOMAIN cases : Caught(i, cases[i]) /\ cases[i].verdict \in kinds})

Composition == Histogram([i \in DOMAIN batch |-> batch[i].features])
CompositionJudged(cases) ==
  Histogram([i \in DOMAIN cases |->
    IF cases[i].verdict \in Semantic THEN batch[i].features ELSE {}])

-----------------------------------------------------------------------------
(* The producer.                                                           *)

\* RunBatch's result for a case; without a subject there is nothing to run.
CaseOf(e) ==
  IF ~e.read
    THEN [ref |-> NoOutcome, clone |-> {}, verdict |-> "harness-error", sha |-> ""]
  ELSE IF clone = "gc"
    THEN [ref |-> e.ref, clone |-> {e.clone},
          verdict |-> Judge(e.ref, e.clone, policy), sha |-> "digest"]
  ELSE [ref |-> e.ref, clone |-> {}, verdict |-> "", sha |-> "digest"]

RunBatch ==
  /\ step = "run"
  /\ LET cases == [i \in DOMAIN batch |-> CaseOf(batch[i])]
     IN rep' = [cases |-> cases, policy |-> policy,
                total |-> Len(cases), verdicts |-> VerdictsOf(cases),
                refRan |-> Count(cases, Ran), panicPaths |-> Count(cases, Panicked),
                recovered |-> Recovered(cases),
                composition |-> Composition,
                caught |-> 0, judged |-> {}, infra |-> {},
                compositionJudged |-> <<>>]
  /\ step' = IF clone = "golean" THEN "campaign" ELSE "account"
  /\ UNCHANGED <<batch, clone, policy, defect, accepted>>

\* A panic message that a row of golean's manifest cannot carry.
GoLeanRefusesPanicMessage(m) == m \in {"", "control"}

\* translate and the script's row: the verdict on a case of a golean
\* campaign.
GoLeanVerdict(ref, row) ==
  IF ~Observed(ref) THEN "reference-infra-failure"
  ELSE IF \E p \in ref.document.panic : GoLeanRefusesPanicMessage(p.message)
    THEN "clone-infra-failure"
  ELSE row

\* A slip: the verdicts are folded in, the histogram is RunBatch's.
runGoLeanKeepsHistogram ==
  /\ step = "campaign"
  /\ rep' = [rep EXCEPT !.policy = "golean-harness",
                        !.cases = [i \in DOMAIN batch |->
                          [rep.cases[i] EXCEPT
                             !.verdict = GoLeanVerdict(rep.cases[i].ref, batch[i].row)]]]
  /\ step' = "account"
  /\ UNCHANGED <<batch, clone, policy, defect, accepted>>

\* runGoLean folds the verdicts in and counts them anew.  A reference
\* document that breaks the protocol ends the run (prevalidate).
runGoLean ==
  /\ step = "campaign"
  /\ LET cases == [i \in DOMAIN batch |->
                    [rep.cases[i] EXCEPT
                       !.verdict = GoLeanVerdict(rep.cases[i].ref, batch[i].row)]]
     IN \/ /\ \A i \in DOMAIN cases : Ran(cases[i]) => ValidDocument(cases[i].ref.document)
           /\ rep' = [rep EXCEPT !.cases = cases, !.policy = "golean-harness",
                                 !.verdicts = VerdictsOf(cases)]
           /\ step' = "account"
        \/ /\ \E i \in DOMAIN cases : Ran(cases[i]) /\ ~ValidDocument(cases[i].ref.document)
           /\ step' = "refused"
           /\ UNCHANGED rep
  /\ UNCHANGED <<batch, clone, policy, defect, accepted>>

\* The wrapper counts, once the verdicts are there; the legs only if a
\* clone judged.
Account ==
  /\ step = "account"
  /\ LET legs(kinds) == IF clone = "" THEN {} ELSE {CaughtAs(rep.cases, kinds)}
     IN rep' = [rep EXCEPT
                  !.caught = CaughtAs(rep.cases, Verdict \cup {""}),
                  !.judged = legs(Semantic),
                  !.infra = legs({"clone-infra-failure"}),
                  !.compositionJudged =
                     IF clone = "" THEN <<>> ELSE CompositionJudged(rep.cases)]
  /\ step' = "written"
  /\ UNCHANGED <<batch, clone, policy, defect, accepted>>

-----------------------------------------------------------------------------
(* ValidateBatchReport.                                                    *)

External == clone = "golean" /\ rep.policy = "golean-harness"
PolicyKnown == rep.policy \in Policies \/ External

LegsPresent == /\ rep.judged = {} <=> rep.infra = {}
               /\ rep.judged = {} <=> clone = ""

\* checkExternalVerdict: the reference's part of a verdict that golean gave.
checkExternalVerdict(c) ==
  /\ ~Observed(c.ref) <=> c.verdict = "reference-infra-failure"
  /\ c.verdict # "both-infra-failure"
  /\ Panicked(c) /\ (\E p \in c.ref.document.panic : GoLeanRefusesPanicMessage(p.message))
       => c.verdict = "clone-infra-failure"

CaseHolds(c) ==
  /\ c.sha = "digest"
  /\ ValidOutcome(c.ref) /\ \A o \in c.clone : ValidOutcome(o)
  /\ c.verdict \in Verdict \cup {""}
  /\ clone = "" <=> c.verdict = ""
  /\ c.clone # {} <=> clone # "" /\ ~External
  /\ \A o \in c.clone : c.verdict = Judge(c.ref, o, rep.policy)
  /\ External => checkExternalVerdict(c)

TotalsHold ==
  /\ rep.total = Len(rep.cases)
  /\ rep.refRan = Count(rep.cases, Ran)
  /\ rep.panicPaths = Count(rep.cases, Panicked)
  /\ rep.recovered = Recovered(rep.cases)
  /\ rep.verdicts = VerdictsOf(rep.cases)
  /\ rep.composition = Composition
  /\ rep.compositionJudged = CompositionJudged(rep.cases)

\* Every caught panic was judged or lost to the clone's infrastructure.
LegsAddUp == \A j \in rep.judged, f \in rep.infra : rep.caught = j + f

\* A slip: the legs are compared in sum only.
LegsHoldInSum ==
  /\ rep.caught = CaughtAs(rep.cases, Verdict \cup {""})
  /\ LegsAddUp

LegsHold ==
  /\ rep.caught = CaughtAs(rep.cases, Verdict \cup {""})
  /\ \A j \in rep.judged : j = CaughtAs(rep.cases, Semantic)
  /\ \A f \in rep.infra : f = CaughtAs(rep.cases, {"clone-infra-failure"})
  /\ LegsAddUp

ValidateBatchReport ==
  /\ PolicyKnown
  /\ LegsPresent
  /\ Len(rep.cases) = Len(batch)
  /\ \A i \in DOMAIN rep.cases : CaseHolds(rep.cases[i])
  /\ TotalsHold
  /\ LegsHold

-----------------------------------------------------------------------------
(* A defect of the producer, and -verify.                                  *)

\* The verdict of case i is v, and all that follows from it agrees.
WithVerdict(i, v) ==
  LET cases == [rep.cases EXCEPT ![i].verdict = v]
      leg(old, kinds) == {CaughtAs(cases, kinds) : x \in old}
  IN [rep EXCEPT !.cases = cases, !.verdicts = VerdictsOf(cases),
                 !.judged = leg(rep.judged, Semantic),
                 !.infra = leg(rep.infra, {"clone-infra-failure"}),
                 !.compositionJudged = CompositionJudged(cases)]

Falsified(what) ==
  CASE what = "total"      -> {[rep EXCEPT !.total = @ + 1]}
    [] what = "refRan"     -> {[rep EXCEPT !.refRan = @ + 1]}
    [] what = "panicPaths" -> {[rep EXCEPT !.panicPaths = @ + 1]}
    [] what = "recovered"  -> {[rep EXCEPT !.recovered = @ + 1]}
    [] what = "caught"     -> {[rep EXCEPT !.caught = @ + 1]}
    [] what = "legs"       -> {[rep EXCEPT !.judged = rep.infra, !.infra = rep.judged]}
    [] what = "subject"    -> {[rep EXCEPT !.cases[i].sha = "other"] : i \in DOMAIN rep.cases}
    [] what = "tags"       -> {[rep EXCEPT !.composition = <<>>]}
    [] what = "verdict"    ->
         {WithVerdict(i, v) : i \in DOMAIN rep.cases, v \in Verdict}

Facts == {"total", "refRan", "panicPaths", "recovered", "caught", "legs",
          "subject", "tags", "verdict"}

Falsify ==
  /\ step = "written" /\ defect = ""
  /\ \E what \in Facts : /\ rep' \in Falsified(what) \ {rep}
                        /\ defect' = what
  /\ UNCHANGED <<batch, clone, policy, step, accepted>>

Verify ==
  /\ step = "written"
  /\ accepted' = ValidateBatchReport
  /\ step' = "verified"
  /\ UNCHANGED <<batch, clone, policy, rep, defect>>

-----------------------------------------------------------------------------
\* The golean campaign takes no -panic-policy.
Init ==
  /\ batch \in Batches
  /\ clone \in Clones
  /\ policy \in Policy /\ (clone # "gc" => policy = "exact")
  /\ step = "run"
  /\ rep = Empty
  /\ defect = ""
  /\ accepted = FALSE

Next == RunBatch \/ runGoLean \/ Account \/ Falsify \/ Verify

Spec == Init /\ [][Next]_vars

-----------------------------------------------------------------------------
(* Properties.                                                             *)

Judged(i) == step = "written" /\ clone = "gc" /\ defect = "" /\ batch[i].read

\* Nothing but real observations is ever called a match or a mismatch, in
\* a campaign of either clone: an infrastructure failure on either axis, or
\* a document that breaks the protocol, never becomes a semantic divergence
\* (the taxonomy of Verdict).
SemanticOnlyIfObserved ==
  step = "written" /\ defect = "" =>
    \A i \in DOMAIN rep.cases :
      LET c == rep.cases[i]
      IN c.verdict \in Semantic =>
           \A o \in {c.ref} \cup c.clone : ValidOutcome(o) /\ Observed(o)

\* A harness error names a broken contract of an adapter or of the caller,
\* and every broken contract gets it whatever the other side did: two valid
\* outcomes are always comparable (Judge, "must not hide").
HarnessErrorIsContract ==
  \A i \in DOMAIN batch : Judged(i) =>
    (rep.cases[i].verdict = "harness-error"
       <=> \/ policy \notin Policies
           \/ ~ValidOutcome(batch[i].ref) \/ ~ValidOutcome(batch[i].clone))

\* Under "kind" two observations that differ in panic messages only, at the
\* top or in a recovered event, match.
SameButMessages(a, b) ==
  /\ a.status = b.status /\ a.values = b.values /\ a.error = b.error
  /\ {p.kind : p \in a.panic} = {p.kind : p \in b.panic}
  /\ DOMAIN a.events = DOMAIN b.events
  /\ \A i \in DOMAIN a.events :
       /\ a.events[i].at = b.events[i].at
       /\ a.events[i].value = b.events[i].value
       /\ {p.kind : p \in a.events[i].panic} = {p.kind : p \in b.events[i].panic}

KindIgnoresMessages ==
  \A i \in DOMAIN batch :
    Judged(i) /\ policy = "kind" /\ rep.cases[i].verdict \in Semantic =>
      (rep.cases[i].verdict = "match"
         <=> SameButMessages(batch[i].ref.document, batch[i].clone.document))

\* The verdict does not depend on which implementation is the reference,
\* but for the side it blames.
Mirror(v) == CASE v = "reference-infra-failure" -> "clone-infra-failure"
               [] v = "clone-infra-failure" -> "reference-infra-failure"
               [] OTHER -> v
SidesMirror ==
  \A i \in DOMAIN batch : Judged(i) =>
    Judge(batch[i].clone, batch[i].ref, policy) = Mirror(rep.cases[i].verdict)

\* What run publishes, -verify accepts, unless a subject could not be read,
\* an adapter broke its contract, or a caught panic ended as a harness
\* error (run and ValidateBatchReport compute every number separately).
Regular == /\ policy \in Policies
           /\ \A i \in DOMAIN batch : /\ batch[i].read
                                      /\ ValidOutcome(rep.cases[i].ref)
                                      /\ \A o \in rep.cases[i].clone : ValidOutcome(o)
OwnReportAccepted ==
  step = "verified" /\ defect = "" => (accepted <=> Regular /\ LegsAddUp)

\* A report with one false fact does not verify ("it compares rather than
\* trusts", report.go), even when all that follows from it agrees; only
\* golean's own part of a verdict is taken on its word.
DefectRefused ==
  step = "verified" /\ defect # "" /\ accepted =>
    /\ clone = "golean" /\ defect = "verdict"
    /\ \A i \in DOMAIN batch :
         \/ rep.cases[i].verdict = GoLeanVerdict(batch[i].ref, batch[i].row)
         \/ Observed(batch[i].ref)
=============================================================================
