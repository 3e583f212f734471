---------------------------- MODULE ReportProofs ----------------------------
(***************************************************************************)
(* Proofs about Verdicts and Report, for any evidence and any number of    *)
(* cases: what a verdict means, and what -verify does with a report.       *)
(***************************************************************************)
EXTENDS Report, FiniteSetTheorems, WellFoundedInduction, TLAPS

-----------------------------------------------------------------------------
(* Judge.                                                                  *)

\* A document that was observed is a valid one.
LEMMA ObservedIsValid ==
  ASSUME NEW o, ValidOutcome(o), Observed(o)
  PROVE  ValidDocument(o.document)
  BY DEF ValidOutcome, Observed, Failures

\* Only observations are compared.
LEMMA JudgeSemantic ==
  ASSUME NEW r, NEW c, NEW p, Judge(r, c, p) \in Semantic
  PROVE  /\ ValidOutcome(r) /\ Observed(r)
         /\ ValidOutcome(c) /\ Observed(c)
         /\ Judge(r, c, p) = "match" <=> Equal(r.document, c.document, p) = {TRUE}
  BY DEF Judge, Semantic

LEMMA JudgeIsVerdict == \A r, c, p : Judge(r, c, p) \in Verdict
  BY DEF Judge, Verdict, Semantic

\* Records of the three shapes are their fields.
LEMMA DocumentEqual ==
  \A s, t, v, e, p, k, s2, t2, v2, e2, p2, k2 :
    [schema |-> s, status |-> t, values |-> v, events |-> e, panic |-> p, error |-> k]
      = [schema |-> s2, status |-> t2, values |-> v2, events |-> e2, panic |-> p2, error |-> k2]
    <=> s = s2 /\ t = t2 /\ v = v2 /\ e = e2 /\ p = p2 /\ k = k2
  OBVIOUS

LEMMA DocumentExcept ==
  ASSUME NEW d, NEW p2, NEW e2,
         d = [schema |-> d.schema, status |-> d.status, values |-> d.values,
              events |-> d.events, panic |-> d.panic, error |-> d.error]
  PROVE  [d EXCEPT !.panic = p2, !.events = e2]
           = [schema |-> d.schema, status |-> d.status, values |-> d.values,
              events |-> e2, panic |-> p2, error |-> d.error]
  <1>1. PICK m : m = [d EXCEPT !.panic = p2]
    OBVIOUS
  <1>2. m = [schema |-> d.schema, status |-> d.status, values |-> d.values,
             events |-> d.events, panic |-> p2, error |-> d.error]
    BY <1>1
  <1>3. /\ m = [schema |-> m.schema, status |-> m.status, values |-> m.values,
                events |-> m.events, panic |-> m.panic, error |-> m.error]
        /\ m.schema = d.schema /\ m.status = d.status /\ m.values = d.values
        /\ m.panic = p2 /\ m.error = d.error
    BY <1>2
  <1>4. [m EXCEPT !.events = e2]
          = [schema |-> m.schema, status |-> m.status, values |-> m.values,
             events |-> e2, panic |-> m.panic, error |-> m.error]
    BY <1>3
  <1>5. [m EXCEPT !.events = e2]
          = [schema |-> d.schema, status |-> d.status, values |-> d.values,
             events |-> e2, panic |-> p2, error |-> d.error]
    BY <1>3, <1>4, Zenon
  <1> QED
    BY <1>1, <1>5, Zenon

LEMMA EventEqual ==
  \A a, v, p, a2, v2, p2 :
    [at |-> a, value |-> v, panic |-> p] = [at |-> a2, value |-> v2, panic |-> p2]
    <=> a = a2 /\ v = v2 /\ p = p2
  OBVIOUS

LEMMA EventExcept ==
  \A a, v, p, p2 :
    [[at |-> a, value |-> v, panic |-> p] EXCEPT !.panic = p2]
      = [at |-> a, value |-> v, panic |-> p2]
  OBVIOUS

\* What normalization leaves of the panics, and of the events.
Kinds(S)   == {NewPanicInfo(p.kind, "") : p \in S}
Bare(d, i) == [at |-> d.events[i].at, value |-> d.events[i].value,
               panic |-> Kinds(d.events[i].panic)]

LEMMA Normalized ==
  ASSUME NEW d, IsDocument(d)
  PROVE  normalizePanicMessages(d) =
           [schema |-> d.schema, status |-> d.status, values |-> d.values,
            events |-> [i \in DOMAIN d.events |-> Bare(d, i)],
            panic |-> Kinds(d.panic), error |-> d.error]
  <1> DEFINE E == [i \in DOMAIN d.events |->
                    [d.events[i] EXCEPT !.panic = Kinds(d.events[i].panic)]]
             P == Kinds(d.panic)
  <1>1. d = [schema |-> d.schema, status |-> d.status, values |-> d.values,
             events |-> d.events, panic |-> d.panic, error |-> d.error]
    BY DEF IsDocument
  <1>2. normalizePanicMessages(d) = [d EXCEPT !.panic = P, !.events = E]
    BY DEF normalizePanicMessages, Kinds
  <1>3. \A i \in DOMAIN d.events :
           [d.events[i] EXCEPT !.panic = Kinds(d.events[i].panic)] = Bare(d, i)
    <2> SUFFICES ASSUME NEW i \in DOMAIN d.events
                 PROVE  [d.events[i] EXCEPT !.panic = Kinds(d.events[i].panic)] = Bare(d, i)
      OBVIOUS
    <2>1. d.events[i] = [at |-> d.events[i].at, value |-> d.events[i].value,
                         panic |-> d.events[i].panic]
      BY DEF IsDocument, IsEvent
    <2> DEFINE a == d.events[i].at   v == d.events[i].value   p == d.events[i].panic
               q == Kinds(d.events[i].panic)
    <2>2. [[at |-> a, value |-> v, panic |-> p] EXCEPT !.panic = q]
            = [at |-> a, value |-> v, panic |-> q]
      BY EventExcept
    <2> QED
      BY <2>1, <2>2 DEF Bare
  <1>4. E = [i \in DOMAIN d.events |-> Bare(d, i)]
    BY <1>3
  <1> HIDE DEF E, P
  <1>5. [d EXCEPT !.panic = P, !.events = E] =
          [schema |-> d.schema, status |-> d.status, values |-> d.values,
           events |-> E, panic |-> P, error |-> d.error]
    BY <1>1, DocumentExcept, Zenon
  <1> QED
    BY <1>2, <1>4, <1>5, Zenon DEF P

\* Whatever was observed can be written down, with its messages or without.
LEMMA ObservedIsWritten ==
  ASSUME NEW d, IsDocument(d), ValidDocument(d)
  PROVE  /\ Canonical(d) = {d}
         /\ Canonical(normalizePanicMessages(d)) = {normalizePanicMessages(d)}
  <1> DEFINE n == normalizePanicMessages(d)
  <1>1. /\ \A p \in d.panic : ValidPanic(p)
        /\ \A i \in DOMAIN d.events : \A p \in d.events[i].panic : ValidPanic(p)
    BY DEF ValidDocument, ValidEvent
  <1>2. ASSUME NEW S, \A p \in S : ValidPanic(p), NEW q \in Kinds(S)
        PROVE  ValidPanic(q)
    <2>1. PICK p \in S : q = [kind |-> p.kind, message |-> ""]
      BY <1>2 DEF Kinds, NewPanicInfo
    <2>2. p.kind \in PanicKinds
      BY <1>2 DEF ValidPanic
    <2>3. q.kind = p.kind /\ q.message = ""
      BY <2>1
    <2> QED
      BY <2>2, <2>3 DEF ValidPanic
  <1>3. n.panic = Kinds(d.panic) /\ n.events = [i \in DOMAIN d.events |-> Bare(d, i)]
    BY Normalized
  <1>4. \A i \in DOMAIN d.events : Bare(d, i).panic = Kinds(d.events[i].panic)
    BY DEF Bare
  <1> HIDE DEF n
  <1>5. /\ \A p \in n.panic : ValidPanic(p)
        /\ \A i \in DOMAIN n.events : \A p \in n.events[i].panic : ValidPanic(p)
    BY <1>1, <1>2, <1>3, <1>4
  <1>6. Canonical(d) = {d}
    BY <1>1 DEF Canonical
  <1>7. Canonical(n) = {n}
    BY <1>5 DEF Canonical
  <1> QED
    BY <1>6, <1>7 DEF n

\* Two observations are always comparable.
LEMMA EqualOfObserved ==
  ASSUME NEW a, NEW b, NEW p \in Policies,
         IsDocument(a), ValidDocument(a), IsDocument(b), ValidDocument(b)
  PROVE  Equal(a, b, p) =
           IF p = "kind" THEN {normalizePanicMessages(a) = normalizePanicMessages(b)}
                         ELSE {a = b}
  <1>1. /\ Canonical(a) = {a} /\ Canonical(b) = {b}
        /\ Canonical(normalizePanicMessages(a)) = {normalizePanicMessages(a)}
        /\ Canonical(normalizePanicMessages(b)) = {normalizePanicMessages(b)}
    BY ObservedIsWritten
  <1>2. CASE p = "kind"
    BY <1>1, <1>2 DEF Equal, Policies
  <1>3. CASE p # "kind"
    BY <1>1, <1>3 DEF Equal, Policies
  <1> QED
    BY <1>2, <1>3

LEMMA JudgeHarnessError ==
  ASSUME NEW r, NEW c, NEW p, IsOutcome(r), IsOutcome(c)
  PROVE  Judge(r, c, p) = "harness-error"
           <=> p \notin Policies \/ ~ValidOutcome(r) \/ ~ValidOutcome(c)
  <1>1. ASSUME p \in Policies, ValidOutcome(r), ValidOutcome(c), Observed(r), Observed(c)
        PROVE  Equal(r.document, c.document, p) # {}
    <2>1. /\ IsDocument(r.document) /\ ValidDocument(r.document)
          /\ IsDocument(c.document) /\ ValidDocument(c.document)
      BY <1>1, ObservedIsValid DEF IsOutcome
    <2> QED
      BY <1>1, <2>1, EqualOfObserved
  <1> QED
    BY <1>1 DEF Judge

LEMMA JudgeMirrors ==
  \A r, c, p : Judge(c, r, p) = Mirror(Judge(r, c, p))
  <1>1. \A a, b, p : /\ Equal(a, b, p) = {} <=> Equal(b, a, p) = {}
                     /\ Equal(a, b, p) = {TRUE} <=> Equal(b, a, p) = {TRUE}
    <2> DEFINE n(d, p) == IF p = "kind" THEN normalizePanicMessages(d) ELSE d
               Can(a, b, p) == /\ ValidDocument(a) /\ ValidDocument(b) /\ p \in Policies
                               /\ Canonical(n(a, p)) # {} /\ Canonical(n(b, p)) # {}
    <2>1. \A a, b, p : Equal(a, b, p) =
             IF Can(a, b, p) THEN {Canonical(n(a, p)) = Canonical(n(b, p))} ELSE {}
      BY DEF Equal
    <2>2. \A a, b, p : Can(a, b, p) <=> Can(b, a, p)
      OBVIOUS
    <2>3. \A a, b, p : Canonical(n(a, p)) = Canonical(n(b, p))
                        <=> Canonical(n(b, p)) = Canonical(n(a, p))
      OBVIOUS
    <2> HIDE DEF n, Can
    <2> QED
      BY <2>1, <2>2, <2>3
  <1>2. ASSUME NEW r, NEW c, NEW p
        PROVE  Judge(c, r, p) = Mirror(Judge(r, c, p))
    <2>1. /\ Equal(r.document, c.document, p) = {} <=> Equal(c.document, r.document, p) = {}
          /\ Equal(r.document, c.document, p) = {TRUE}
               <=> Equal(c.document, r.document, p) = {TRUE}
      BY <1>1
    <2>2. /\ Mirror("harness-error") = "harness-error"
          /\ Mirror("both-infra-failure") = "both-infra-failure"
          /\ Mirror("reference-infra-failure") = "clone-infra-failure"
          /\ Mirror("clone-infra-failure") = "reference-infra-failure"
          /\ Mirror("match") = "match"
          /\ Mirror("observation-mismatch") = "observation-mismatch"
      BY DEF Mirror
    <2>3. CASE p \notin Policies \/ ~ValidOutcome(r) \/ ~ValidOutcome(c)
      BY <2>2, <2>3 DEF Judge
    <2>4. CASE /\ p \in Policies /\ ValidOutcome(r) /\ ValidOutcome(c)
               /\ ~(Observed(r) /\ Observed(c))
      BY <2>2, <2>4 DEF Judge
    <2>5. CASE /\ p \in Policies /\ ValidOutcome(r) /\ ValidOutcome(c)
               /\ Observed(r) /\ Observed(c)
      BY <2>1, <2>2, <2>5 DEF Judge
    <2> QED
      BY <2>3, <2>4, <2>5
  <1> QED
    BY <1>2

\* Without its messages a panic is its kind.
LEMMA KindsDecide ==
  \A S, T : Kinds(S) = Kinds(T) <=> {p.kind : p \in S} = {p.kind : p \in T}
  <1>1. \A k, l : NewPanicInfo(k, "") = NewPanicInfo(l, "") <=> k = l
    BY DEF NewPanicInfo
  <1>2. \A S, k : k \in {p.kind : p \in S} <=> NewPanicInfo(k, "") \in Kinds(S)
    BY <1>1 DEF Kinds
  <1>3. \A S : \A q \in Kinds(S) : \E k : q = NewPanicInfo(k, "")
    BY DEF Kinds
  <1>4. ASSUME NEW S, NEW T, Kinds(S) = Kinds(T)
        PROVE  {p.kind : p \in S} = {p.kind : p \in T}
    <2>1. \A k : k \in {p.kind : p \in S} <=> k \in {p.kind : p \in T}
      BY <1>2, <1>4
    <2> QED
      BY <2>1
  <1>5. ASSUME NEW S, NEW T, {p.kind : p \in S} = {p.kind : p \in T}
        PROVE  Kinds(S) = Kinds(T)
    <2>1. \A k : NewPanicInfo(k, "") \in Kinds(S) <=> NewPanicInfo(k, "") \in Kinds(T)
      BY <1>2, <1>5
    <2>2. \A q : q \in Kinds(S) <=> q \in Kinds(T)
      BY <1>3, <2>1
    <2> QED
      BY <2>2 DEF Kinds
  <1> QED
    BY <1>4, <1>5

LEMMA SameButMessagesIsEqual ==
  ASSUME NEW a, NEW b, IsDocument(a), IsDocument(b), ValidDocument(a), ValidDocument(b)
  PROVE  normalizePanicMessages(a) = normalizePanicMessages(b) <=> SameButMessages(a, b)
  <1> DEFINE ea == [i \in DOMAIN a.events |-> Bare(a, i)]
             eb == [i \in DOMAIN b.events |-> Bare(b, i)]
  <1>1. a.schema = b.schema
    BY DEF ValidDocument
  <1>2. ea = eb <=> /\ DOMAIN a.events = DOMAIN b.events
                    /\ \A i \in DOMAIN a.events : Bare(a, i) = Bare(b, i)
    OBVIOUS
  <1>3. \A i : Bare(a, i) = Bare(b, i) <=>
                 /\ a.events[i].at = b.events[i].at
                 /\ a.events[i].value = b.events[i].value
                 /\ {p.kind : p \in a.events[i].panic} = {p.kind : p \in b.events[i].panic}
    <2>1. \A i : Bare(a, i) = Bare(b, i) <=>
                   /\ a.events[i].at = b.events[i].at
                   /\ a.events[i].value = b.events[i].value
                   /\ Kinds(a.events[i].panic) = Kinds(b.events[i].panic)
      BY EventEqual, Zenon DEF Bare
    <2> QED
      BY <2>1, KindsDecide, Zenon
  <1> HIDE DEF ea, eb
  <1>4. normalizePanicMessages(a) = normalizePanicMessages(b) <=>
          /\ a.status = b.status /\ a.values = b.values /\ a.error = b.error
          /\ Kinds(a.panic) = Kinds(b.panic) /\ ea = eb
    <2>1. normalizePanicMessages(a) =
            [schema |-> a.schema, status |-> a.status, values |-> a.values,
             events |-> ea, panic |-> Kinds(a.panic), error |-> a.error]
      BY Normalized DEF ea
    <2>2. normalizePanicMessages(b) =
            [schema |-> b.schema, status |-> b.status, values |-> b.values,
             events |-> eb, panic |-> Kinds(b.panic), error |-> b.error]
      BY Normalized DEF eb
    <2> QED
      BY <1>1, <2>1, <2>2, DocumentEqual
  <1> QED
    BY <1>2, <1>3, <1>4, KindsDecide DEF SameButMessages

-----------------------------------------------------------------------------
(* What each step leaves in the report.                                    *)

Fields == {"cases", "policy", "total", "verdicts", "refRan", "panicPaths", "recovered",
           "composition", "caught", "judged", "infra", "compositionJudged"}
IsReport(r) == r = [f \in Fields |-> r[f]]

RanCases == [i \in DOMAIN batch |-> CaseOf(batch[i])]
ByGoLean(c, row) == [c EXCEPT !.verdict = GoLeanVerdict(c.ref, row)]
JudgedCases ==
  IF clone = "golean"
    THEN [i \in DOMAIN batch |-> ByGoLean(CaseOf(batch[i]), batch[i].row)]
    ELSE RanCases

\* Before the wrapper counts the report is a function of the cases ...
Filled(cases, name) ==
  /\ IsReport(rep)
  /\ rep.cases = cases
  /\ rep.policy = name
  /\ rep.total = Len(cases)
  /\ rep.refRan = Count(cases, Ran)
  /\ rep.panicPaths = Count(cases, Panicked)
  /\ rep.recovered = Recovered(cases)
  /\ rep.verdicts = VerdictsOf(cases)
  /\ rep.composition = Composition

\* ... and after them.
Leg(kinds) == IF clone = "" THEN {} ELSE {CaughtAs(rep.cases, kinds)}
AnyVerdict == Verdict \cup {""}
Accounted ==
  /\ rep.caught = CaughtAs(rep.cases, AnyVerdict)
  /\ rep.judged = Leg(Semantic)
  /\ rep.infra = Leg({"clone-infra-failure"})
  /\ rep.compositionJudged = IF clone = "" THEN <<>> ELSE CompositionJudged(rep.cases)

PolicyName == IF clone = "golean" THEN "golean-harness" ELSE policy

\* What golean says of an observation is the one thing taken on its word.
OnItsWord ==
  /\ clone = "golean" /\ defect = "verdict"
  /\ \A i \in DOMAIN batch :
       \/ rep.cases[i].verdict = GoLeanVerdict(batch[i].ref, batch[i].row)
       \/ Observed(batch[i].ref)

ReportInv ==
  /\ batch \in Batches /\ clone \in Clones /\ (clone # "gc" => policy = "exact")
  /\ step \in {"run", "campaign", "account", "written", "verified", "refused"}
  /\ step \in {"run", "campaign", "account", "refused"} => defect = ""
  /\ step = "campaign" => clone = "golean" /\ Filled(RanCases, policy)
  /\ step = "account" => Filled(JudgedCases, PolicyName)
  /\ step \in {"written", "verified"} /\ defect = "" =>
       Filled(JudgedCases, PolicyName) /\ Accounted
  /\ step \in {"account", "written", "verified"} /\ clone = "golean" =>
       \A i \in DOMAIN batch :
         Ran(CaseOf(batch[i])) => ValidDocument(CaseOf(batch[i]).ref.document)
  /\ step \in {"written", "verified"} /\ defect # "" /\ ValidateBatchReport => OnItsWord
  /\ step = "verified" => (accepted <=> ValidateBatchReport)

-----------------------------------------------------------------------------
(* The evidence, and one case of it.                                       *)

LEMMA Evidence ==
  ASSUME batch \in Batches
  PROVE  /\ Len(batch) \in Nat /\ DOMAIN batch = 1..Len(batch)
         /\ \A i \in DOMAIN batch : /\ IsOutcome(batch[i].ref) /\ IsOutcome(batch[i].clone)
                                   /\ batch[i].row \in RowVerdicts
                                   /\ batch[i].read \in BOOLEAN
  BY ReportAssumption

LEMMA CaseFields ==
  \A e, row :
    /\ ~e.read => /\ CaseOf(e).ref = NoOutcome /\ CaseOf(e).clone = {}
                  /\ CaseOf(e).sha = "" /\ CaseOf(e).verdict = "harness-error"
    /\ e.read => /\ CaseOf(e).ref = e.ref /\ CaseOf(e).sha = "digest"
                 /\ clone = "gc" => /\ CaseOf(e).clone = {e.clone}
                                    /\ CaseOf(e).verdict = Judge(e.ref, e.clone, policy)
                 /\ clone # "gc" => CaseOf(e).clone = {} /\ CaseOf(e).verdict = ""
    /\ ByGoLean(CaseOf(e), row).ref = CaseOf(e).ref
    /\ ByGoLean(CaseOf(e), row).clone = CaseOf(e).clone
    /\ ByGoLean(CaseOf(e), row).sha = CaseOf(e).sha
    /\ ByGoLean(CaseOf(e), row).verdict = GoLeanVerdict(CaseOf(e).ref, row)
  <1> TAKE e, row
  <1>1. CASE ~e.read
    BY <1>1 DEF CaseOf, ByGoLean
  <1>2. CASE e.read /\ clone = "gc"
    BY <1>2 DEF CaseOf, ByGoLean
  <1>3. CASE e.read /\ clone # "gc"
    BY <1>3 DEF CaseOf, ByGoLean
  <1> QED
    BY <1>1, <1>2, <1>3

LEMMA GoLeanVerdictIs ==
  ASSUME NEW r, NEW row \in RowVerdicts
  PROVE  /\ GoLeanVerdict(r, row) \in Verdict
         /\ GoLeanVerdict(r, row) # "both-infra-failure"
         /\ GoLeanVerdict(r, row) = "reference-infra-failure" <=> ~Observed(r)
         /\ GoLeanVerdict(r, row) \in Semantic => Observed(r)
  BY DEF GoLeanVerdict, RowVerdicts, Verdict, Semantic

\* A case of the written report: the subject's outcome as the batch has it,
\* and a verdict exactly when a clone judged.
LEMMA JudgedCase ==
  ASSUME batch \in Batches, clone \in Clones, NEW i \in DOMAIN batch
  PROVE  LET c == JudgedCases[i]
             e == batch[i]
         IN /\ DOMAIN JudgedCases = DOMAIN batch
            /\ c.ref = CaseOf(e).ref /\ c.clone = CaseOf(e).clone /\ c.sha = CaseOf(e).sha
            /\ e.read <=> c.sha = "digest"
            /\ e.read => c.ref = e.ref
            /\ ~e.read => c.ref = NoOutcome
            /\ clone = "golean" => /\ c.clone = {}
                                   /\ c.verdict = GoLeanVerdict(c.ref, e.row)
            /\ clone = "gc" /\ e.read => /\ c.clone = {e.clone}
                                         /\ c.verdict = Judge(e.ref, e.clone, policy)
            /\ clone # "golean" /\ ~e.read => c.clone = {} /\ c.verdict = "harness-error"
            /\ clone = "" /\ e.read => c.clone = {} /\ c.verdict = ""
  <1>2. JudgedCases[i] = IF clone = "golean" THEN ByGoLean(CaseOf(batch[i]), batch[i].row)
                                            ELSE CaseOf(batch[i])
    BY DEF JudgedCases, RanCases
  <1>3. DOMAIN JudgedCases = DOMAIN batch
    BY DEF JudgedCases, RanCases
  <1>4. clone \in {"", "gc", "golean"}
    BY ReportAssumption
  <1>5. PICK e : e = batch[i]
    OBVIOUS
  <1>6. PICK c : c = CaseOf(e)
    OBVIOUS
  <1>7. PICK g : g = ByGoLean(c, e.row)
    OBVIOUS
  <1>8. /\ ~e.read => /\ c.ref = NoOutcome /\ c.clone = {} /\ c.sha = ""
                      /\ c.verdict = "harness-error"
        /\ e.read => /\ c.ref = e.ref /\ c.sha = "digest"
                     /\ clone = "gc" => /\ c.clone = {e.clone}
                                        /\ c.verdict = Judge(e.ref, e.clone, policy)
                     /\ clone # "gc" => c.clone = {} /\ c.verdict = ""
        /\ g.ref = c.ref /\ g.clone = c.clone /\ g.sha = c.sha
        /\ g.verdict = GoLeanVerdict(c.ref, e.row)
    BY <1>6, <1>7, CaseFields
  <1>9. /\ JudgedCases[i] = IF clone = "golean" THEN g ELSE c
        /\ clone = "golean" \/ clone = "gc" \/ clone = ""
    BY <1>2, <1>4, <1>5, <1>6, <1>7
  <1>10. CASE clone = "golean"
    <2>1. JudgedCases[i] = g /\ clone # "gc"
      BY <1>9, <1>10
    <2> QED
      BY <1>3, <1>5, <1>6, <1>8, <1>9, <1>10, <2>1
  <1>11. CASE clone = "gc"
    <2>1. JudgedCases[i] = c
      BY <1>9, <1>11
    <2> QED
      BY <1>3, <1>5, <1>6, <1>8, <1>9, <1>11, <2>1
  <1>12. CASE clone = ""
    <2>1. JudgedCases[i] = c /\ clone # "gc"
      BY <1>9, <1>12
    <2> QED
      BY <1>3, <1>5, <1>6, <1>8, <1>9, <1>12, <2>1
  <1> QED
    BY <1>9, <1>10, <1>11, <1>12

-----------------------------------------------------------------------------
(* The totals are numbers, and depend on the references only.              *)

\* Induction, for a set of numbers.
LEMMA NatInduct ==
  ASSUME NEW S, 0 \in S, \A n \in Nat : n \in S => n + 1 \in S
  PROVE  \A n \in Nat : n \in S
  <1> DEFINE T == {n \in Nat : n \notin S}
             R == OpToRel(<, Nat)
  <1>1. SUFFICES ASSUME T # {}
                 PROVE  FALSE
    OBVIOUS
  <1>2. IsWellFoundedOn(R, Nat)
    BY NatLessThanWellFounded
  <1>3. T \subseteq Nat
    OBVIOUS
  <1> HIDE DEF T, R
  <1>4. PICK x \in T : \A y \in T : ~(<<y, x>> \in R)
    BY <1>1, <1>2, <1>3, WFMin
  <1>5. \A y \in T : ~(y < x)
    BY <1>3, <1>4 DEF R, OpToRel
  <1>6. x \in Nat /\ x \notin S
    BY <1>4 DEF T
  <1>7. x - 1 \in Nat /\ x - 1 \notin T
    BY <1>5, <1>6
  <1>8. x - 1 \in S
    BY <1>7 DEF T
  <1> QED
    BY <1>6, <1>7, <1>8

\* Finitely many finite sets, kept apart, are a finite set.
LEMMA FiniteUnion ==
  ASSUME NEW n \in Nat, NEW f, \A i \in 1..n : IsFiniteSet(f[i])
  PROVE  IsFiniteSet(UNION {{i} \X f[i] : i \in 1..n})
  <1> DEFINE U(k) == UNION {{i} \X f[i] : i \in 1..k}
             S    == {k \in Nat : k <= n => IsFiniteSet(U(k))}
  <1>1. 0 \in S
    <2>1. U(0) = {}
      OBVIOUS
    <2> QED
      BY <2>1, FS_EmptySet
  <1>2. ASSUME NEW k \in Nat, k \in S, k + 1 <= n
        PROVE  IsFiniteSet(U(k + 1))
    <2> DEFINE T == {k + 1} \X f[k + 1]
               b == [x \in f[k + 1] |-> <<k + 1, x>>]
    <2>1. U(k + 1) = U(k) \cup T
      <3>1. 1..(k + 1) = 1..k \cup {k + 1}
        OBVIOUS
      <3> QED
        BY <3>1
    <2>2. IsFiniteSet(f[k + 1])
      BY <1>2
    <2>3. b \in Bijection(f[k + 1], T)
      <3>1. b \in [f[k + 1] -> T]
        OBVIOUS
      <3>2. \A x, y \in f[k + 1] : b[x] = b[y] => x = y
        OBVIOUS
      <3>3. \A t \in T : \E x \in f[k + 1] : b[x] = t
        OBVIOUS
      <3> HIDE DEF b, T
      <3> QED
        BY <3>1, <3>2, <3>3 DEF Bijection, Injection, Surjection, IsInjective
    <2>4. IsFiniteSet(T)
      BY <2>2, <2>3, FS_Bijection DEF ExistsBijection
    <2>5. IsFiniteSet(U(k))
      BY <1>2
    <2> HIDE DEF U, T, b, S
    <2>6. IsFiniteSet(U(k) \cup T)
      BY ONLY <2>4, <2>5, FS_Union
    <2> QED
      BY ONLY <2>1, <2>6
  <1>3. \A k \in Nat : k \in S => k + 1 \in S
    BY <1>2
  <1> HIDE DEF S
  <1>4. n \in S
    BY <1>1, <1>3, NatInduct
  <1> QED
    BY <1>4 DEF S

LEMMA SubsetCount ==
  ASSUME NEW n \in Nat, NEW T, T \subseteq 1..n
  PROVE  IsFiniteSet(T) /\ Cardinality(T) \in Nat
  <1>1. IsFiniteSet(1..n)
    BY FS_Interval
  <1>2. T \in SUBSET (1..n)
    OBVIOUS
  <1>3. IsFiniteSet(T)
    BY <1>1, <1>2, FS_Subset
  <1> QED
    BY <1>3, FS_CardinalityType

LEMMA Numbers ==
  ASSUME NEW cases, NEW n \in Nat, DOMAIN cases = 1..n,
         \A i \in DOMAIN cases : IsDocument(cases[i].ref.document)
  PROVE  /\ Count(cases, Ran) \in Nat
         /\ Count(cases, Panicked) \in Nat
         /\ Recovered(cases) \in Nat
         /\ \A kinds : CaughtAs(cases, kinds) \in Nat
  <1>1. Count(cases, Ran) \in Nat /\ Count(cases, Panicked) \in Nat
    BY SubsetCount DEF Count
  <1>2. ASSUME NEW kinds
        PROVE  CaughtAs(cases, kinds) \in Nat
    <2>1. {i \in DOMAIN cases : Caught(i, cases[i]) /\ cases[i].verdict \in kinds} \subseteq 1..n
      OBVIOUS
    <2> HIDE DEF Caught
    <2> QED
      BY <2>1, SubsetCount DEF CaughtAs
  <1>3. Recovered(cases) \in Nat
    <2> DEFINE f == [i \in 1..n |-> RecoveredIn(cases[i])]
    <2>1. ASSUME NEW i \in 1..n
          PROVE  IsFiniteSet(f[i])
      <3> DEFINE ev == cases[i].ref.document.events
      <3>1. Len(ev) \in Nat /\ DOMAIN ev = 1..Len(ev)
        BY DEF IsDocument
      <3>2. RecoveredIn(cases[i]) \subseteq DOMAIN ev
        BY DEF RecoveredIn
      <3> HIDE DEF ev
      <3>3. IsFiniteSet(RecoveredIn(cases[i]))
        BY <3>1, <3>2, SubsetCount
      <3> QED
        BY <3>3
    <2>2. UNION {{i} \X f[i] : i \in 1..n}
            = UNION {{i} \X RecoveredIn(cases[i]) : i \in DOMAIN cases}
      OBVIOUS
    <2> HIDE DEF f
    <2>3. IsFiniteSet(UNION {{i} \X f[i] : i \in 1..n})
      BY <2>1, FiniteUnion
    <2>4. IsFiniteSet(UNION {{i} \X RecoveredIn(cases[i]) : i \in DOMAIN cases})
      BY <2>2, <2>3
    <2> QED
      BY <2>4, FS_CardinalityType DEF Recovered
  <1> QED
    BY <1>1, <1>2, <1>3

LEMMA SameReferences ==
  ASSUME NEW s, NEW t, DOMAIN s = DOMAIN t, \A i \in DOMAIN s : s[i].ref = t[i].ref
  PROVE  /\ Count(s, Ran) = Count(t, Ran)
         /\ Count(s, Panicked) = Count(t, Panicked)
         /\ Recovered(s) = Recovered(t)
  <1>1. \A i \in DOMAIN s : /\ Ran(s[i]) = Ran(t[i])
                            /\ Panicked(s[i]) = Panicked(t[i])
                            /\ RecoveredIn(s[i]) = RecoveredIn(t[i])
    BY DEF Ran, Panicked, RecoveredIn
  <1>2. {i \in DOMAIN s : Ran(s[i])} = {i \in DOMAIN t : Ran(t[i])}
    BY <1>1
  <1>3. {i \in DOMAIN s : Panicked(s[i])} = {i \in DOMAIN t : Panicked(t[i])}
    BY <1>1
  <1>4. UNION {{i} \X RecoveredIn(s[i]) : i \in DOMAIN s}
          = UNION {{i} \X RecoveredIn(t[i]) : i \in DOMAIN t}
    BY <1>1
  <1> QED
    BY <1>2, <1>3, <1>4 DEF Count, Recovered

-----------------------------------------------------------------------------
(* The producer's steps.                                                   *)

\* The evidence stays, and what is computed from it.
LEMMA SameEvidence ==
  ASSUME UNCHANGED <<batch, clone, policy>>
  PROVE  /\ RanCases' = RanCases /\ JudgedCases' = JudgedCases
         /\ PolicyName' = PolicyName /\ Composition' = Composition
         /\ \A cases, kinds : CaughtAs(cases, kinds)' = CaughtAs(cases, kinds)
         /\ \A cases : CompositionJudged(cases)' = CompositionJudged(cases)
         /\ \A e : CaseOf(e)' = CaseOf(e)
  BY DEF RanCases, JudgedCases, PolicyName, Composition, CaughtAs, Caught,
         CompositionJudged, CaseOf, ByGoLean

LEMMA JudgedDomain ==
  ASSUME batch \in Batches
  PROVE  /\ DOMAIN JudgedCases = 1..Len(batch) /\ Len(JudgedCases) = Len(batch)
         /\ DOMAIN RanCases = 1..Len(batch) /\ Len(RanCases) = Len(batch)
         /\ \A i \in 1..Len(batch) : JudgedCases[i].ref = RanCases[i].ref
  <1>1. Len(batch) \in Nat /\ DOMAIN batch = 1..Len(batch)
    BY Evidence
  <1>2. DOMAIN RanCases = 1..Len(batch) /\ Len(RanCases) = Len(batch)
    BY <1>1 DEF RanCases
  <1>3. DOMAIN JudgedCases = 1..Len(batch) /\ Len(JudgedCases) = Len(batch)
    BY <1>1, <1>2 DEF JudgedCases
  <1>4. \A i \in 1..Len(batch) : JudgedCases[i].ref = RanCases[i].ref
    BY <1>1, CaseFields DEF JudgedCases, RanCases
  <1> QED
    BY <1>2, <1>3, <1>4

LEMMA ReportInit == Init => ReportInv
  BY DEF Init, ReportInv

LEMMA RunBatchStep ==
  ASSUME ReportInv, RunBatch
  PROVE  ReportInv'
  <1>1. UNCHANGED <<batch, clone, policy, defect, accepted>> /\ step = "run"
    BY DEF RunBatch
  <1>2. /\ batch \in Batches /\ clone \in Clones /\ (clone # "gc" => policy = "exact")
        /\ defect = ""
    BY <1>1 DEF ReportInv
  <1>3. rep' = [cases |-> RanCases, policy |-> policy,
                total |-> Len(RanCases), verdicts |-> VerdictsOf(RanCases),
                refRan |-> Count(RanCases, Ran), panicPaths |-> Count(RanCases, Panicked),
                recovered |-> Recovered(RanCases),
                composition |-> Composition,
                caught |-> 0, judged |-> {}, infra |-> {},
                compositionJudged |-> <<>>]
    BY DEF RunBatch, RanCases
  <1>4. Filled(RanCases, policy)'
    <2>1. /\ rep'.cases = RanCases /\ rep'.policy = policy
          /\ rep'.total = Len(RanCases)
          /\ rep'.refRan = Count(RanCases, Ran)
          /\ rep'.panicPaths = Count(RanCases, Panicked)
          /\ rep'.recovered = Recovered(RanCases)
          /\ rep'.verdicts = VerdictsOf(RanCases)
          /\ rep'.composition = Composition
      BY <1>3
    <2>2. IsReport(rep')
      BY <1>3 DEF IsReport, Fields
    <2>3. RanCases' = RanCases /\ Composition' = Composition /\ policy' = policy
      BY <1>1, SameEvidence
    <2> QED
      BY <2>1, <2>2, <2>3 DEF Filled
  <1>5. CASE clone = "golean"
    <2>1. step' = "campaign"
      BY <1>5 DEF RunBatch
    <2> QED
      BY <1>1, <1>2, <1>4, <1>5, <2>1 DEF ReportInv
  <1>6. CASE clone # "golean"
    <2>1. step' = "account"
      BY <1>6 DEF RunBatch
    <2>2. JudgedCases = RanCases /\ PolicyName = policy
      BY <1>6 DEF JudgedCases, PolicyName
    <2>3. Filled(JudgedCases, PolicyName)'
      BY <1>1, <1>4, <2>2, SameEvidence DEF Filled
    <2> QED
      BY <1>1, <1>2, <1>6, <2>1, <2>3 DEF ReportInv
  <1> QED
    BY <1>5, <1>6

LEMMA runGoLeanStep ==
  ASSUME ReportInv, runGoLean
  PROVE  ReportInv'
  <1>1. UNCHANGED <<batch, clone, policy, defect, accepted>> /\ step = "campaign"
    BY DEF runGoLean
  <1>2. /\ batch \in Batches /\ clone \in Clones /\ (clone # "gc" => policy = "exact")
        /\ defect = "" /\ clone = "golean" /\ Filled(RanCases, policy)
    BY <1>1 DEF ReportInv
  <1>3. [i \in DOMAIN batch |->
           [rep.cases[i] EXCEPT
              !.verdict = GoLeanVerdict(rep.cases[i].ref, batch[i].row)]] = JudgedCases
    BY <1>2 DEF Filled, JudgedCases, RanCases, ByGoLean
  <1>4. CASE step' = "refused"
    BY <1>1, <1>2, <1>4 DEF ReportInv
  <1>5. CASE /\ \A i \in DOMAIN JudgedCases : Ran(JudgedCases[i]) =>
                    ValidDocument(JudgedCases[i].ref.document)
             /\ rep' = [rep EXCEPT !.cases = JudgedCases, !.policy = "golean-harness",
                                   !.verdicts = VerdictsOf(JudgedCases)]
             /\ step' = "account"
    <2>1. \A i \in DOMAIN batch :
            Ran(CaseOf(batch[i])) => ValidDocument(CaseOf(batch[i]).ref.document)
      <3>1. \A i \in DOMAIN batch : JudgedCases[i].ref = CaseOf(batch[i]).ref
        BY <1>2, JudgedCase
      <3>2. DOMAIN JudgedCases = DOMAIN batch
        BY DEF JudgedCases, RanCases
      <3> QED
        BY <1>5, <3>1, <3>2 DEF Ran
    <2>2. /\ IsReport(rep')
          /\ rep'.cases = JudgedCases /\ rep'.policy = "golean-harness"
          /\ rep'.verdicts = VerdictsOf(JudgedCases)
          /\ rep'.total = rep.total /\ rep'.refRan = rep.refRan
          /\ rep'.panicPaths = rep.panicPaths /\ rep'.recovered = rep.recovered
          /\ rep'.composition = rep.composition
      <3>1. IsReport(rep)
        BY <1>2 DEF Filled
      <3> QED
        BY <1>5, <3>1 DEF IsReport, Fields
    <2>3. Filled(JudgedCases, PolicyName)'
      <3>1. /\ rep.total = Len(RanCases)
            /\ rep.refRan = Count(RanCases, Ran)
            /\ rep.panicPaths = Count(RanCases, Panicked)
            /\ rep.recovered = Recovered(RanCases)
            /\ rep.composition = Composition
        BY <1>2 DEF Filled
      <3>2. /\ Len(RanCases) = Len(JudgedCases)
            /\ DOMAIN RanCases = DOMAIN JudgedCases
            /\ \A i \in DOMAIN RanCases : RanCases[i].ref = JudgedCases[i].ref
        BY <1>2, JudgedDomain
      <3>3. /\ Count(RanCases, Ran) = Count(JudgedCases, Ran)
            /\ Count(RanCases, Panicked) = Count(JudgedCases, Panicked)
            /\ Recovered(RanCases) = Recovered(JudgedCases)
        BY <3>2, SameReferences
      <3>4. /\ JudgedCases' = JudgedCases /\ Composition' = Composition
            /\ PolicyName' = PolicyName /\ PolicyName = "golean-harness"
        BY <1>1, <1>2, SameEvidence DEF PolicyName
      <3> QED
        BY <2>2, <3>1, <3>2, <3>3, <3>4, Zenon DEF Filled
    <2>4. \A i \in DOMAIN batch :
            Ran(CaseOf(batch[i]))' => ValidDocument(CaseOf(batch[i]).ref.document)'
      <3>1. \A i \in DOMAIN batch : CaseOf(batch[i])' = CaseOf(batch[i])
        BY <1>1, SameEvidence
      <3> QED
        BY <2>1, <3>1 DEF Ran
    <2>5. batch' = batch /\ clone' = clone /\ policy' = policy /\ defect' = ""
      BY <1>1, <1>2
    <2> QED
      BY <1>2, <1>5, <2>3, <2>4, <2>5 DEF ReportInv
  <1> QED
    <2>1. \/ step' = "refused"
          \/ /\ \A i \in DOMAIN JudgedCases : Ran(JudgedCases[i]) =>
                    ValidDocument(JudgedCases[i].ref.document)
             /\ rep' = [rep EXCEPT !.cases = JudgedCases, !.policy = "golean-harness",
                                   !.verdicts = VerdictsOf(JudgedCases)]
             /\ step' = "account"
      BY <1>3 DEF runGoLean
    <2> QED
      BY <1>4, <1>5, <2>1

LEMMA AccountStep ==
  ASSUME ReportInv, Account
  PROVE  ReportInv'
  <1>1. UNCHANGED <<batch, clone, policy, defect, accepted>> /\ step = "account"
        /\ step' = "written"
    BY DEF Account
  <1>2. /\ batch \in Batches /\ clone \in Clones /\ (clone # "gc" => policy = "exact")
        /\ defect = "" /\ Filled(JudgedCases, PolicyName)
        /\ clone = "golean" => \A i \in DOMAIN batch :
             Ran(CaseOf(batch[i])) => ValidDocument(CaseOf(batch[i]).ref.document)
    BY <1>1 DEF ReportInv
  <1>3. rep' = [rep EXCEPT
                  !.caught = CaughtAs(rep.cases, AnyVerdict),
                  !.judged = Leg(Semantic),
                  !.infra = Leg({"clone-infra-failure"}),
                  !.compositionJudged =
                     IF clone = "" THEN <<>> ELSE CompositionJudged(rep.cases)]
    BY DEF Account, Leg, AnyVerdict
  <1>4. /\ IsReport(rep')
        /\ rep'.cases = rep.cases /\ rep'.policy = rep.policy
        /\ rep'.verdicts = rep.verdicts
        /\ rep'.total = rep.total /\ rep'.refRan = rep.refRan
        /\ rep'.panicPaths = rep.panicPaths /\ rep'.recovered = rep.recovered
        /\ rep'.composition = rep.composition
        /\ rep'.caught = CaughtAs(rep.cases, AnyVerdict)
        /\ rep'.judged = Leg(Semantic)
        /\ rep'.infra = Leg({"clone-infra-failure"})
        /\ rep'.compositionJudged =
              IF clone = "" THEN <<>> ELSE CompositionJudged(rep.cases)
    <2>1. IsReport(rep)
      BY <1>2 DEF Filled
    <2> QED
      BY <1>3, <2>1 DEF IsReport, Fields
  <1>5. Filled(JudgedCases, PolicyName)'
    BY <1>1, <1>2, <1>4, SameEvidence DEF Filled
  <1>6. Accounted'
    <2>1. \A kinds : CaughtAs(rep.cases, kinds)' = CaughtAs(rep.cases, kinds)
      BY <1>1, <1>4 DEF CaughtAs, Caught
    <2>2. CompositionJudged(rep.cases)' = CompositionJudged(rep.cases)
      BY <1>1, <1>4 DEF CompositionJudged
    <2>3. \A kinds : Leg(kinds)' = Leg(kinds)
      BY <1>1, <2>1 DEF Leg
    <2> QED
      BY <1>1, <1>4, <2>1, <2>2, <2>3, Zenon DEF Accounted
  <1>7. clone' = "golean" => \A i \in DOMAIN batch' :
             Ran(CaseOf(batch[i]))' => ValidDocument(CaseOf(batch[i]).ref.document)'
    BY <1>1, <1>2, SameEvidence DEF Ran
  <1> QED
    BY <1>1, <1>2, <1>5, <1>6, <1>7 DEF ReportInv

-----------------------------------------------------------------------------
(* What -verify makes of an honest report.                                 *)

LEMMA NothingJudged ==
  ASSUME NEW cases, \A i \in DOMAIN cases : cases[i].verdict \notin Semantic
  PROVE  CompositionJudged(cases) = <<>>
  <1> DEFINE keys == [i \in DOMAIN cases |->
                       IF cases[i].verdict \in Semantic THEN batch[i].features ELSE {}]
  <1>1. CompositionJudged(cases) = Histogram(keys)
    BY DEF CompositionJudged
  <1>2. \A i \in DOMAIN keys : keys[i] = {}
    OBVIOUS
  <1> HIDE DEF keys
  <1>3. UNION {keys[i] : i \in DOMAIN keys} = {}
    BY <1>2
  <1>4. Histogram(keys) = [k \in {} |-> Cardinality({i \in DOMAIN keys : k \in keys[i]})]
    BY <1>3 DEF Histogram
  <1>5. \A x : DOMAIN [k \in {} |-> x] = {}
    OBVIOUS
  <1>6. Histogram(keys) = <<>>
    BY <1>4
  <1> QED
    BY <1>1, <1>6

LEMMA HonestCase ==
  ASSUME batch \in Batches, clone \in Clones, NEW i \in DOMAIN batch,
         rep.cases = JudgedCases, rep.policy = PolicyName,
         clone # "gc" => policy = "exact"
  PROVE  LET c == rep.cases[i]
         IN CaseHolds(c) <=> /\ batch[i].read
                             /\ ValidOutcome(c.ref) /\ \A o \in c.clone : ValidOutcome(o)
  <1> DEFINE c == rep.cases[i]
             Shown == ValidOutcome(c.ref) /\ \A o \in c.clone : ValidOutcome(o)
  <1>1. clone = "golean" \/ clone = "gc" \/ clone = ""
    BY ReportAssumption
  <1>2. /\ batch[i].read <=> c.sha = "digest"
        /\ clone = "golean" => /\ c.clone = {}
                               /\ c.verdict = GoLeanVerdict(c.ref, batch[i].row)
        /\ clone = "gc" /\ batch[i].read =>
              /\ c.clone = {batch[i].clone} /\ c.ref = batch[i].ref
              /\ c.verdict = Judge(batch[i].ref, batch[i].clone, policy)
        /\ clone = "" /\ batch[i].read => c.clone = {} /\ c.verdict = ""
    BY JudgedCase
  <1>3. batch[i].row \in RowVerdicts
    BY Evidence
  <1> HIDE DEF c
  <1>4. CASE ~batch[i].read
    BY <1>2, <1>4 DEF CaseHolds, c
  <1>5. CASE batch[i].read /\ clone = "golean"
    <2>1. External
      BY <1>5 DEF External, PolicyName
    <2>2. /\ c.verdict \in Verdict /\ c.verdict # "" /\ c.verdict # "both-infra-failure"
          /\ c.verdict = "reference-infra-failure" <=> ~Observed(c.ref)
      BY <1>2, <1>3, <1>5, GoLeanVerdictIs DEF Verdict, Semantic
    <2>3. Panicked(c) /\ (\E p \in c.ref.document.panic : GoLeanRefusesPanicMessage(p.message))
             => c.verdict = "clone-infra-failure"
      BY <1>2, <1>5 DEF Panicked, Ran, Observed, GoLeanVerdict
    <2>4. checkExternalVerdict(c)
      BY <2>2, <2>3 DEF checkExternalVerdict
    <2> QED
      BY <1>2, <1>5, <2>1, <2>2, <2>4 DEF CaseHolds, c
  <1>6. CASE batch[i].read /\ clone = "gc"
    <2>1. ~External /\ rep.policy = policy
      BY <1>6 DEF External, PolicyName
    <2>2. /\ c.verdict \in Verdict /\ c.verdict # ""
          /\ \A o \in c.clone : c.verdict = Judge(c.ref, o, rep.policy)
      <3>1. c.verdict \in Verdict
        BY <1>2, <1>6, JudgeIsVerdict
      <3> QED
        BY <1>2, <1>6, <2>1, <3>1 DEF Verdict, Semantic
    <2>3. c.clone # {}
      BY <1>2, <1>6
    <2> QED
      BY <1>2, <1>6, <2>1, <2>2, <2>3 DEF CaseHolds, c
  <1>7. CASE batch[i].read /\ clone = ""
    <2>1. ~External
      BY <1>7 DEF External
    <2>2. c.clone = {} /\ c.verdict = ""
      BY <1>2, <1>7
    <2> QED
      BY <1>2, <1>7, <2>1, <2>2 DEF CaseHolds, c
  <1> QED
    BY <1>1, <1>4, <1>5, <1>6, <1>7

LEMMA HonestReport ==
  ASSUME batch \in Batches, clone \in Clones, clone # "gc" => policy = "exact",
         Filled(JudgedCases, PolicyName), Accounted
  PROVE  ValidateBatchReport <=> Regular /\ LegsAddUp
  <1>1. /\ Len(batch) \in Nat /\ DOMAIN batch = 1..Len(batch)
        /\ rep.cases = JudgedCases /\ DOMAIN rep.cases = DOMAIN batch
        /\ Len(rep.cases) = Len(batch) /\ rep.policy = PolicyName
    BY Evidence, JudgedDomain DEF Filled
  <1>2. (\A i \in DOMAIN rep.cases : CaseHolds(rep.cases[i])) <=>
          \A i \in DOMAIN batch : /\ batch[i].read
                                  /\ ValidOutcome(rep.cases[i].ref)
                                  /\ \A o \in rep.cases[i].clone : ValidOutcome(o)
    BY <1>1, HonestCase
  <1>3. PolicyKnown <=> policy \in Policies
    BY <1>1, ReportAssumption DEF PolicyKnown, External, PolicyName, Policies
  <1>4. LegsPresent
    BY DEF LegsPresent, Accounted, Leg
  <1>5. ASSUME Regular
        PROVE  TotalsHold
    <2>1. rep.compositionJudged = CompositionJudged(rep.cases)
      <3>1. CASE clone # ""
        BY <3>1 DEF Accounted
      <3>2. CASE clone = ""
        <4>1. \A i \in DOMAIN rep.cases : rep.cases[i].verdict = ""
          BY <1>1, <1>5, <3>2, JudgedCase DEF Regular
        <4>2. CompositionJudged(rep.cases) = <<>>
          BY <4>1, NothingJudged DEF Semantic
        <4> QED
          BY <3>2, <4>2 DEF Accounted
      <3> QED
        BY <3>1, <3>2
    <2> QED
      BY <1>1, <2>1, Zenon DEF TotalsHold, Filled
  <1>6. LegsHold <=> LegsAddUp
    BY DEF LegsHold, Accounted, Leg, AnyVerdict
  <1> QED
    BY <1>1, <1>2, <1>3, <1>4, <1>5, <1>6 DEF ValidateBatchReport, Regular

-----------------------------------------------------------------------------
(* A false fact.                                                           *)

\* A report is determined by its fields.
LEMMA SameReport ==
  ASSUME NEW r, NEW s, IsReport(r), IsReport(s), \A f \in Fields : r[f] = s[f]
  PROVE  r = s
  BY DEF IsReport

LEMMA CaseShape ==
  ASSUME NEW i \in DOMAIN batch
  PROVE  DOMAIN JudgedCases[i] = {"ref", "clone", "verdict", "sha"}
  <1>1. \A e : DOMAIN CaseOf(e) = {"ref", "clone", "verdict", "sha"}
    BY DEF CaseOf
  <1>2. \A c, row : DOMAIN ByGoLean(c, row) = DOMAIN c
    BY DEF ByGoLean
  <1> QED
    BY <1>1, <1>2 DEF JudgedCases, RanCases

LEMMA EmptyDocument == IsDocument(NoDocument)
  <1>1. \A s : [schema |-> s, status |-> s, values |-> <<>>, events |-> <<>>,
                 panic |-> {}, error |-> {}].events = <<>>
    OBVIOUS
  <1> QED
    BY DEF NoDocument, IsDocument

LEMMA HonestNumbers ==
  ASSUME batch \in Batches, clone \in Clones, Filled(JudgedCases, PolicyName), Accounted
  PROVE  /\ rep.total \in Nat /\ rep.refRan \in Nat /\ rep.panicPaths \in Nat
         /\ rep.recovered \in Nat /\ rep.caught \in Nat
         /\ Len(rep.cases) = Len(batch) /\ DOMAIN rep.cases = DOMAIN batch
         /\ \A kinds : CaughtAs(rep.cases, kinds) \in Nat
  <1>1. /\ Len(batch) \in Nat /\ DOMAIN batch = 1..Len(batch)
        /\ rep.cases = JudgedCases /\ DOMAIN rep.cases = 1..Len(batch)
        /\ Len(rep.cases) = Len(batch)
    BY Evidence, JudgedDomain DEF Filled
  <1>2. \A i \in DOMAIN rep.cases : IsDocument(rep.cases[i].ref.document)
    <2> SUFFICES ASSUME NEW i \in DOMAIN batch
                 PROVE  IsDocument(JudgedCases[i].ref.document)
      BY <1>1
    <2>1. JudgedCases[i].ref = batch[i].ref \/ JudgedCases[i].ref = NoOutcome
      BY JudgedCase
    <2>2. IsDocument(batch[i].ref.document)
      BY Evidence DEF IsOutcome
    <2>3. IsDocument(NoOutcome.document)
      BY EmptyDocument DEF NoOutcome
    <2> QED
      BY <2>1, <2>2, <2>3
  <1>3. /\ Count(rep.cases, Ran) \in Nat
        /\ Count(rep.cases, Panicked) \in Nat
        /\ Recovered(rep.cases) \in Nat
        /\ \A kinds : CaughtAs(rep.cases, kinds) \in Nat
    BY <1>1, <1>2, Numbers
  <1> QED
    BY <1>1, <1>3 DEF Filled, Accounted

\* The part of golean's verdicts that the report gives away.
LEMMA OnlyOnItsWord ==
  ASSUME batch \in Batches, clone \in Clones, Filled(JudgedCases, PolicyName), Accounted,
         UNCHANGED <<batch, clone, policy>>, step = "written",
         NEW i \in DOMAIN rep.cases, NEW v \in Verdict, rep' = WithVerdict(i, v),
         rep' # rep, ValidateBatchReport', defect' = "verdict"
  PROVE  OnItsWord'
  <1> DEFINE old == rep.cases
             new == [old EXCEPT ![i].verdict = v]
             leg(o, kinds) == {CaughtAs(new, kinds) : x \in o}
  <1>1. rep' = [rep EXCEPT !.cases = new, !.verdicts = VerdictsOf(new),
                           !.judged = leg(rep.judged, Semantic),
                           !.infra = leg(rep.infra, {"clone-infra-failure"}),
                           !.compositionJudged = CompositionJudged(new)]
    BY DEF WithVerdict
  <1>2. IsReport(rep) /\ old = JudgedCases /\ DOMAIN old = DOMAIN batch
    BY HonestNumbers DEF Filled
  <1>3. /\ IsReport(rep') /\ rep'.cases = new /\ rep'.policy = rep.policy
        /\ rep'.verdicts = VerdictsOf(new)
        /\ rep'.judged = leg(rep.judged, Semantic)
        /\ rep'.infra = leg(rep.infra, {"clone-infra-failure"})
        /\ rep'.compositionJudged = CompositionJudged(new)
        /\ \A f \in Fields \ {"cases", "verdicts", "judged", "infra", "compositionJudged"} :
             rep'[f] = rep[f]
    <2> HIDE DEF new, leg
    <2> QED
      BY <1>1, <1>2 DEF IsReport, Fields
  <1>4. /\ DOMAIN new = DOMAIN batch
        /\ \A j \in DOMAIN batch : j # i => new[j] = old[j]
        /\ new[i] = [old[i] EXCEPT !.verdict = v]
    BY <1>2
  <1>5. /\ new[i].verdict = v /\ new[i].ref = old[i].ref /\ new[i].clone = old[i].clone
        /\ new[i].sha = old[i].sha
    <2>1. DOMAIN old[i] = {"ref", "clone", "verdict", "sha"}
      BY <1>2, CaseShape
    <2> HIDE DEF old, new
    <2> QED
      BY <1>4, <2>1
  <1>6. ASSUME NEW j \in DOMAIN batch
        PROVE  /\ new[j].sha = "digest"
               /\ clone = "" <=> new[j].verdict = ""
               /\ \A o \in new[j].clone : new[j].verdict = Judge(new[j].ref, o, rep.policy)
               /\ clone = "golean" => checkExternalVerdict(new[j])
    <2>1. CaseHolds(rep.cases[j])'
      BY <1>3, <1>4, Zenon DEF ValidateBatchReport
    <2>2. clone' = clone
      OBVIOUS
    <2>3. clone = "golean" => rep.policy = "golean-harness"
      BY DEF Filled, PolicyName
    <2> HIDE DEF new
    <2> QED
      BY <1>3, <2>1, <2>2, <2>3, Zenon DEF CaseHolds, External
  <1>7. \A j \in DOMAIN batch : batch[j].read
    <2> SUFFICES ASSUME NEW j \in DOMAIN batch
                 PROVE  batch[j].read
      OBVIOUS
    <2>1. new[j].sha = old[j].sha
      BY <1>4, <1>5
    <2>2. batch[j].read <=> JudgedCases[j].sha = "digest"
      BY JudgedCase
    <2> HIDE DEF new, old
    <2> QED
      BY <1>2, <1>6, <2>1, <2>2
  <1>8. i \in DOMAIN batch /\ batch' = batch /\ clone' = clone
    BY <1>2
  <1> HIDE DEF old, new, leg
  <1>9. CASE clone = "golean"
    <2> SUFFICES ASSUME NEW j \in DOMAIN batch, ~Observed(batch[j].ref)
                 PROVE  new[j].verdict = GoLeanVerdict(batch[j].ref, batch[j].row)
      BY <1>3, <1>8, <1>9 DEF OnItsWord
    <2>1. old[j].ref = batch[j].ref /\ old[j].verdict = GoLeanVerdict(batch[j].ref, batch[j].row)
      BY <1>2, <1>7, <1>9, JudgedCase
    <2>2. CASE j # i
      BY <1>4, <2>1, <2>2
    <2>3. CASE j = i
      <3>1. new[j].ref = batch[j].ref
        BY <1>5, <2>1, <2>3
      <3>2. new[j].verdict = "reference-infra-failure"
        BY <1>6, <1>9, <3>1 DEF checkExternalVerdict
      <3>3. batch[j].row \in RowVerdicts
        BY Evidence
      <3> QED
        BY <3>2, <3>3, GoLeanVerdictIs
    <2> QED
      BY <2>2, <2>3
  <1>10. CASE clone = ""
    <2>1. v # ""
      BY DEF Verdict, Semantic
    <2> QED
      BY <1>5, <1>6, <1>8, <1>10, <2>1, Zenon
  <1>11. CASE clone = "gc"
    <2>1. /\ old[i].clone = {batch[i].clone} /\ old[i].ref = batch[i].ref
          /\ old[i].verdict = Judge(batch[i].ref, batch[i].clone, policy)
      BY <1>2, <1>7, <1>8, <1>11, JudgedCase
    <2>2. rep.policy = policy
      BY <1>11 DEF Filled, PolicyName
    <2>3. v = old[i].verdict
      BY <1>5, <1>6, <1>8, <2>1, <2>2
    <2>4. new = old
      <3>1. old[i] = [f \in {"ref", "clone", "verdict", "sha"} |-> old[i][f]]
        BY <1>2, <1>8 DEF JudgedCases, RanCases, CaseOf, ByGoLean
      <3>2. [old[i] EXCEPT !.verdict = v] = old[i]
        BY <2>3, <3>1
      <3>3. old = [j \in DOMAIN batch |-> old[j]]
        BY <1>2 DEF JudgedCases, RanCases
      <3> QED
        BY <3>2, <3>3, <1>8 DEF new
    <2>5. /\ rep.verdicts = VerdictsOf(old)
          /\ rep.judged = {CaughtAs(old, Semantic)}
          /\ rep.infra = {CaughtAs(old, {"clone-infra-failure"})}
          /\ rep.compositionJudged = CompositionJudged(old)
      <3>1. clone # ""
        BY <1>11
      <3> QED
        BY <3>1, Zenon DEF Filled, Accounted, Leg, old
    <2>6. \A f \in Fields : rep'[f] = rep[f]
      <3>1. /\ rep'["cases"] = rep["cases"] /\ rep'["verdicts"] = rep["verdicts"]
            /\ rep'["judged"] = rep["judged"] /\ rep'["infra"] = rep["infra"]
            /\ rep'["compositionJudged"] = rep["compositionJudged"]
        BY <1>3, <2>4, <2>5 DEF old, leg
      <3> QED
        BY <1>3, <3>1
    <2> QED
      BY <1>2, <1>3, <2>6, SameReport
  <1> QED
    BY <1>9, <1>10, <1>11, ReportAssumption

LEMMA FalsifyStep ==
  ASSUME ReportInv, Falsify
  PROVE  ReportInv'
  <1>1. UNCHANGED <<batch, clone, policy, step, accepted>> /\ step = "written" /\ defect = ""
    BY DEF Falsify
  <1>2. /\ batch \in Batches /\ clone \in Clones /\ (clone # "gc" => policy = "exact")
        /\ Filled(JudgedCases, PolicyName) /\ Accounted
        /\ clone = "golean" => \A i \in DOMAIN batch :
             Ran(CaseOf(batch[i])) => ValidDocument(CaseOf(batch[i]).ref.document)
    BY <1>1 DEF ReportInv
  <1>3. PICK what \in Facts : rep' \in Falsified(what) /\ rep' # rep /\ defect' = what
    BY DEF Falsify
  <1>4. defect' # ""
    BY <1>3 DEF Facts
  <1>5. ASSUME ValidateBatchReport'
        PROVE  OnItsWord'
    <2>1. /\ IsReport(rep)
          /\ rep.total = Len(rep.cases) /\ rep.refRan = Count(rep.cases, Ran)
          /\ rep.panicPaths = Count(rep.cases, Panicked)
          /\ rep.recovered = Recovered(rep.cases)
          /\ rep.composition = Composition
          /\ rep.caught = CaughtAs(rep.cases, AnyVerdict)
      BY <1>2, Zenon DEF Filled, Accounted
    <2>2. /\ rep.total \in Nat /\ rep.refRan \in Nat /\ rep.panicPaths \in Nat
          /\ rep.recovered \in Nat /\ rep.caught \in Nat
          /\ Len(rep.cases) = Len(batch) /\ DOMAIN rep.cases = DOMAIN batch
      BY <1>2, HonestNumbers
    <2>3. /\ rep'.total = Len(rep'.cases)
          /\ rep'.refRan = Count(rep'.cases, Ran)
          /\ rep'.panicPaths = Count(rep'.cases, Panicked)
          /\ rep'.recovered = Recovered(rep'.cases)
          /\ rep'.composition = Composition'
          /\ rep'.caught = CaughtAs(rep.cases, AnyVerdict)'
          /\ \A j \in rep'.judged : j = CaughtAs(rep.cases, Semantic)'
          /\ \A i \in DOMAIN rep'.cases : CaseHolds(rep.cases[i])'
      BY <1>5, Zenon DEF ValidateBatchReport, TotalsHold, LegsHold, AnyVerdict
    <2>4. \A kinds : rep'.cases = rep.cases =>
             CaughtAs(rep.cases, kinds)' = CaughtAs(rep.cases, kinds)
      BY <1>1 DEF CaughtAs, Caught
    <2>5. CASE what = "total"
      <3>1. rep' = [rep EXCEPT !.total = @ + 1]
        BY <1>3, <2>5 DEF Falsified
      <3>2. rep'.cases = rep.cases /\ rep'.total = rep.total + 1
        BY <2>1, <3>1 DEF IsReport, Fields
      <3> QED
        BY <2>1, <2>2, <2>3, <3>2
    <2>6. CASE what = "refRan"
      <3>1. rep' = [rep EXCEPT !.refRan = @ + 1]
        BY <1>3, <2>6 DEF Falsified
      <3>2. rep'.cases = rep.cases /\ rep'.refRan = rep.refRan + 1
        BY <2>1, <3>1 DEF IsReport, Fields
      <3> QED
        BY <2>1, <2>2, <2>3, <3>2
    <2>7. CASE what = "panicPaths"
      <3>1. rep' = [rep EXCEPT !.panicPaths = @ + 1]
        BY <1>3, <2>7 DEF Falsified
      <3>2. rep'.cases = rep.cases /\ rep'.panicPaths = rep.panicPaths + 1
        BY <2>1, <3>1 DEF IsReport, Fields
      <3> QED
        BY <2>1, <2>2, <2>3, <3>2
    <2>8. CASE what = "recovered"
      <3>1. rep' = [rep EXCEPT !.recovered = @ + 1]
        BY <1>3, <2>8 DEF Falsified
      <3>2. rep'.cases = rep.cases /\ rep'.recovered = rep.recovered + 1
        BY <2>1, <3>1 DEF IsReport, Fields
      <3> QED
        BY <2>1, <2>2, <2>3, <3>2
    <2>9. CASE what = "caught"
      <3>1. rep' = [rep EXCEPT !.caught = @ + 1]
        BY <1>3, <2>9 DEF Falsified
      <3>2. rep'.cases = rep.cases /\ rep'.caught = rep.caught + 1
        BY <2>1, <3>1 DEF IsReport, Fields
      <3> QED
        BY <2>1, <2>2, <2>3, <2>4, <3>2
    <2>10. CASE what = "legs"
      <3>1. rep' = [rep EXCEPT !.judged = rep.infra, !.infra = rep.judged]
        BY <1>3, <2>10 DEF Falsified
      <3>2. /\ IsReport(rep')
            /\ rep'.judged = rep.infra /\ rep'.infra = rep.judged
            /\ \A f \in Fields \ {"judged", "infra"} : rep'[f] = rep[f]
            /\ rep'.cases = rep.cases
        BY <2>1, <3>1 DEF IsReport, Fields
      <3>3. rep.infra = rep.judged
        <4>1. CASE clone = ""
          BY <1>2, <4>1 DEF Accounted, Leg
        <4>2. CASE clone # ""
          <5>1. /\ rep.judged = {CaughtAs(rep.cases, Semantic)}
                /\ rep.infra = {CaughtAs(rep.cases, {"clone-infra-failure"})}
            BY <1>2, <4>2 DEF Accounted, Leg
          <5> QED
            BY <2>3, <2>4, <3>2, <5>1
        <4> QED
          BY <4>1, <4>2
      <3>4. \A f \in Fields : rep'[f] = rep[f]
        BY <3>2, <3>3
      <3> QED
        BY <1>3, <2>1, <3>2, <3>4, SameReport
    <2>11. CASE what = "subject"
      <3>1. PICK i \in DOMAIN rep.cases : rep' = [rep EXCEPT !.cases[i].sha = "other"]
        BY <1>3, <2>11 DEF Falsified
      <3>2. rep'.cases = [rep.cases EXCEPT ![i].sha = "other"]
        BY <2>1, <3>1 DEF IsReport, Fields
      <3>3. rep'.cases[i] = [rep.cases[i] EXCEPT !.sha = "other"] /\ i \in DOMAIN rep'.cases
        BY <3>1, <3>2
      <3>4. rep'.cases[i].sha = "digest"
        BY <2>3, <3>3, Zenon DEF CaseHolds
      <3>5. "sha" \in DOMAIN rep.cases[i]
        BY <1>2, <2>2, <3>1, CaseShape DEF Filled
      <3> QED
        BY <3>3, <3>4, <3>5
    <2>12. CASE what = "tags"
      <3>1. rep' = [rep EXCEPT !.composition = <<>>]
        BY <1>3, <2>12 DEF Falsified
      <3>2. /\ IsReport(rep') /\ rep'.composition = <<>>
            /\ \A f \in Fields \ {"composition"} : rep'[f] = rep[f]
        BY <2>1, <3>1 DEF IsReport, Fields
      <3>3. rep'.composition = rep.composition
        BY <1>1, <2>1, <2>3, SameEvidence
      <3>4. \A f \in Fields : rep'[f] = rep[f]
        BY <3>2, <3>3
      <3> QED
        BY <1>3, <2>1, <3>2, <3>4, SameReport
    <2>13. CASE what = "verdict"
      <3>1. PICK i \in DOMAIN rep.cases, v \in Verdict : rep' = WithVerdict(i, v)
        BY <1>3, <2>13 DEF Falsified
      <3> QED
        BY <1>1, <1>2, <1>3, <1>5, <2>13, <3>1, OnlyOnItsWord
    <2> QED
      BY <2>5, <2>6, <2>7, <2>8, <2>9, <2>10, <2>11, <2>12, <2>13 DEF Facts
  <1>6. clone' = "golean" => \A i \in DOMAIN batch' :
             Ran(CaseOf(batch[i]))' => ValidDocument(CaseOf(batch[i]).ref.document)'
    BY <1>1, <1>2, SameEvidence DEF Ran
  <1> QED
    BY <1>1, <1>2, <1>4, <1>5, <1>6 DEF ReportInv

\* The invariant reads nothing but the evidence and the report.
LEMMA SameState ==
  ASSUME UNCHANGED <<batch, clone, policy, rep, defect>>
  PROVE  /\ JudgedCases' = JudgedCases /\ PolicyName' = PolicyName
         /\ RanCases' = RanCases
         /\ Filled(JudgedCases, PolicyName)' <=> Filled(JudgedCases, PolicyName)
         /\ Filled(RanCases, policy)' <=> Filled(RanCases, policy)
         /\ Accounted' <=> Accounted
         /\ ValidateBatchReport' <=> ValidateBatchReport
         /\ OnItsWord' <=> OnItsWord
         /\ \A e : CaseOf(e)' = CaseOf(e)
  <1>1. /\ JudgedCases' = JudgedCases /\ PolicyName' = PolicyName
        /\ RanCases' = RanCases
        /\ Composition' = Composition /\ \A e : CaseOf(e)' = CaseOf(e)
    BY SameEvidence
  <1>2. /\ Filled(JudgedCases, PolicyName)' <=> Filled(JudgedCases, PolicyName)
        /\ Filled(RanCases, policy)' <=> Filled(RanCases, policy)
    BY <1>1 DEF Filled
  <1>3. \A kinds : CaughtAs(rep.cases, kinds)' = CaughtAs(rep.cases, kinds)
    BY DEF CaughtAs, Caught
  <1>4. CompositionJudged(rep.cases)' = CompositionJudged(rep.cases)
    BY DEF CompositionJudged
  <1>5. Accounted' <=> Accounted
    BY <1>3, <1>4, Zenon DEF Accounted, Leg
  <1>6. TotalsHold' <=> TotalsHold
    BY <1>1, <1>4, Zenon DEF TotalsHold
  <1>7. LegsHold' <=> LegsHold
    BY <1>3, Zenon DEF LegsHold, LegsAddUp
  <1>8. ValidateBatchReport' <=> ValidateBatchReport
    BY <1>6, <1>7, Zenon
       DEF ValidateBatchReport, PolicyKnown, External, LegsPresent, CaseHolds
  <1>9. OnItsWord' <=> OnItsWord
    BY DEF OnItsWord
  <1> QED
    BY <1>1, <1>2, <1>5, <1>8, <1>9

LEMMA VerifyStep ==
  ASSUME ReportInv, Verify
  PROVE  ReportInv'
  <1>1. /\ UNCHANGED <<batch, clone, policy, rep, defect>>
        /\ step = "written" /\ step' = "verified" /\ accepted' = ValidateBatchReport
    BY DEF Verify
  <1> QED
    BY <1>1, SameState DEF ReportInv, Ran

LEMMA ReportInductive == Spec => []ReportInv
  <1>1. Init => ReportInv
    BY ReportInit
  <1>2. ReportInv /\ [Next]_vars => ReportInv'
    <2> SUFFICES ASSUME ReportInv, [Next]_vars
                 PROVE  ReportInv'
      OBVIOUS
    <2>1. CASE RunBatch
      BY <2>1, RunBatchStep
    <2>2. CASE runGoLean
      BY <2>2, runGoLeanStep
    <2>3. CASE Account
      BY <2>3, AccountStep
    <2>4. CASE Falsify
      BY <2>4, FalsifyStep
    <2>5. CASE Verify
      BY <2>5, VerifyStep
    <2>6. CASE UNCHANGED vars
      <3>1. UNCHANGED <<batch, clone, policy, rep, defect>> /\ UNCHANGED <<step, accepted>>
        BY <2>6 DEF vars
      <3> QED
        BY <3>1, SameState DEF ReportInv, Ran
    <2> QED
      BY <2>1, <2>2, <2>3, <2>4, <2>5, <2>6 DEF Next
  <1> QED
    BY <1>1, <1>2, PTL DEF Spec

-----------------------------------------------------------------------------
(* The properties.                                                         *)

\* A case that two adapters judged, as it is written.
LEMMA JudgedByTwo ==
  ASSUME ReportInv, NEW i \in DOMAIN batch, Judged(i)
  PROVE  /\ rep.cases[i].verdict = Judge(batch[i].ref, batch[i].clone, policy)
         /\ IsOutcome(batch[i].ref) /\ IsOutcome(batch[i].clone)
  <1>1. /\ batch \in Batches /\ clone \in Clones /\ rep.cases = JudgedCases
        /\ clone = "gc" /\ batch[i].read
    <2>1. step = "written" /\ defect = "" /\ clone = "gc" /\ batch[i].read
      BY DEF Judged
    <2>2. Filled(JudgedCases, PolicyName) /\ batch \in Batches /\ clone \in Clones
      BY <2>1, Zenon DEF ReportInv
    <2> QED
      BY <2>1, <2>2 DEF Filled
  <1> QED
    BY <1>1, JudgedCase, Evidence

\* No report, of either clone, calls a case a match or a mismatch unless the
\* reference and the clone that was run were both observed.
THEOREM SemanticIsObserved == Spec => []SemanticOnlyIfObserved
  <1>1. ReportInv => SemanticOnlyIfObserved
    <2> SUFFICES ASSUME ReportInv, step = "written", defect = "",
                        NEW i \in DOMAIN rep.cases, rep.cases[i].verdict \in Semantic
                 PROVE  \A o \in {rep.cases[i].ref} \cup rep.cases[i].clone :
                          ValidOutcome(o) /\ Observed(o)
      BY DEF SemanticOnlyIfObserved
    <2> DEFINE c == rep.cases[i]
    <2>1. /\ batch \in Batches /\ clone \in Clones /\ Filled(JudgedCases, PolicyName)
          /\ clone = "golean" => \A j \in DOMAIN batch :
               Ran(CaseOf(batch[j])) => ValidDocument(CaseOf(batch[j]).ref.document)
      BY Zenon DEF ReportInv
    <2>2. rep.cases = JudgedCases /\ i \in DOMAIN batch
      BY <2>1 DEF Filled, JudgedCases, RanCases
    <2>3. /\ c.ref = CaseOf(batch[i]).ref
          /\ clone = "golean" => /\ c.clone = {}
                                 /\ c.verdict = GoLeanVerdict(c.ref, batch[i].row)
          /\ clone = "gc" /\ batch[i].read =>
               /\ c.clone = {batch[i].clone} /\ c.ref = batch[i].ref
               /\ c.verdict = Judge(batch[i].ref, batch[i].clone, policy)
          /\ clone # "golean" /\ ~batch[i].read => c.verdict = "harness-error"
          /\ clone = "" /\ batch[i].read => c.verdict = ""
      BY <2>1, <2>2, JudgedCase
    <2>4. c.verdict \in Semantic
      OBVIOUS
    <2>5. clone = "golean" \/ clone = "gc" \/ clone = ""
      BY <2>1, ReportAssumption
    <2> HIDE DEF c
    <2>6. CASE clone = "golean"
      <3>1. Observed(c.ref)
        <4>1. batch[i].row \in RowVerdicts
          BY <2>1, <2>2, Evidence
        <4> QED
          BY <2>3, <2>4, <2>6, <4>1, GoLeanVerdictIs
      <3>2. ValidOutcome(c.ref)
        BY <2>1, <2>2, <2>3, <2>6, <3>1 DEF Observed, Ran, ValidOutcome
      <3> QED
        BY <2>3, <2>6, <3>1, <3>2 DEF c
    <2>7. CASE clone = "gc"
      <3>1. batch[i].read
        BY <2>3, <2>4, <2>7 DEF Semantic
      <3> QED
        <4>1. PICK r, o : /\ r = batch[i].ref /\ o = batch[i].clone
                          /\ c.clone = {o} /\ c.ref = r /\ Judge(r, o, policy) \in Semantic
          BY <2>3, <2>4, <2>7, <3>1
        <4>2. ValidOutcome(r) /\ Observed(r) /\ ValidOutcome(o) /\ Observed(o)
          BY <4>1, JudgeSemantic
        <4> QED
          BY <4>1, <4>2 DEF c
    <2>8. CASE clone = ""
      BY <2>3, <2>4, <2>8 DEF Semantic
    <2> QED
      BY <2>5, <2>6, <2>7, <2>8
  <1> QED
    BY <1>1, ReportInductive, PTL

\* A gc case ends as a harness error exactly when the policy or one of the
\* two outcomes breaks its contract.
THEOREM HarnessErrors == Spec => []HarnessErrorIsContract
  <1>1. ReportInv => HarnessErrorIsContract
    BY JudgedByTwo, JudgeHarnessError DEF HarnessErrorIsContract
  <1> QED
    BY <1>1, ReportInductive, PTL

\* Under the policy "kind" a gc case matches exactly when the two documents
\* differ in panic messages at most.
THEOREM MessagesAreIgnored == Spec => []KindIgnoresMessages
  <1>1. ReportInv => KindIgnoresMessages
    <2> SUFFICES ASSUME ReportInv, NEW i \in DOMAIN batch, Judged(i), policy = "kind",
                        rep.cases[i].verdict \in Semantic
                 PROVE  rep.cases[i].verdict = "match"
                          <=> SameButMessages(batch[i].ref.document, batch[i].clone.document)
      BY DEF KindIgnoresMessages
    <2>1. PICK r, c : r = batch[i].ref /\ c = batch[i].clone
      OBVIOUS
    <2>2. /\ rep.cases[i].verdict = Judge(r, c, policy)
          /\ IsOutcome(r) /\ IsOutcome(c)
      BY <2>1, JudgedByTwo
    <2>3. /\ ValidOutcome(r) /\ Observed(r) /\ ValidOutcome(c) /\ Observed(c)
          /\ Judge(r, c, policy) = "match" <=> Equal(r.document, c.document, policy) = {TRUE}
      BY <2>2, JudgeSemantic
    <2>4. /\ IsDocument(r.document) /\ ValidDocument(r.document)
          /\ IsDocument(c.document) /\ ValidDocument(c.document)
      BY <2>2, <2>3, ObservedIsValid DEF IsOutcome
    <2>5. Equal(r.document, c.document, policy) =
            {normalizePanicMessages(r.document) = normalizePanicMessages(c.document)}
      BY <2>4, EqualOfObserved DEF Policies
    <2>6. normalizePanicMessages(r.document) = normalizePanicMessages(c.document)
            <=> SameButMessages(r.document, c.document)
      BY <2>4, SameButMessagesIsEqual
    <2>7. \A b \in BOOLEAN : {b} = {TRUE} <=> b
      OBVIOUS
    <2>8. {normalizePanicMessages(r.document) = normalizePanicMessages(c.document)} = {TRUE}
            <=> SameButMessages(r.document, c.document)
      BY <2>6, <2>7
    <2>9. rep.cases[i].verdict = "match" <=> SameButMessages(r.document, c.document)
      BY <2>2, <2>3, <2>5, <2>8, Zenon
    <2> QED
      BY <2>1, <2>9
  <1> QED
    BY <1>1, ReportInductive, PTL

\* Which of two implementations is called the reference only decides which
\* side a verdict names.
THEOREM SidesAreMirrored == Spec => []SidesMirror
  <1>1. ReportInv => SidesMirror
    BY JudgedByTwo, JudgeMirrors DEF SidesMirror
  <1> QED
    BY <1>1, ReportInductive, PTL

\* -verify accepts the report that run wrote exactly when every subject was
\* read, every adapter kept its contract and no caught panic was lost to a
\* harness error.
THEOREM OwnReports == Spec => []OwnReportAccepted
  <1>1. ReportInv => OwnReportAccepted
    <2> SUFFICES ASSUME ReportInv, step = "verified", defect = ""
                 PROVE  accepted <=> Regular /\ LegsAddUp
      BY DEF OwnReportAccepted
    <2>1. /\ batch \in Batches /\ clone \in Clones /\ (clone # "gc" => policy = "exact")
          /\ Filled(JudgedCases, PolicyName) /\ Accounted
          /\ accepted <=> ValidateBatchReport
      BY Zenon DEF ReportInv
    <2> QED
      BY <2>1, HonestReport
  <1> QED
    BY <1>1, ReportInductive, PTL

\* A report with one false fact verifies only if the fact is golean's own
\* part of a verdict.
THEOREM FalseFacts == Spec => []DefectRefused
  <1>1. ReportInv => DefectRefused
    <2> SUFFICES ASSUME ReportInv, step = "verified", defect # "", accepted
                 PROVE  OnItsWord
      BY Zenon DEF DefectRefused, OnItsWord
    <2> QED
      BY Zenon DEF ReportInv
  <1> QED
    BY <1>1, ReportInductive, PTL
=============================================================================
