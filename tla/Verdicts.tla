------------------------------ MODULE Verdicts ------------------------------
(***************************************************************************)
(* Outcomes of adapters and the verdict on two of them                     *)
(* (harness/harness.go, observe/observe.go).                               *)
(*                                                                         *)
(* An optional part of a document is a set of at most one element.  A      *)
(* value is its kind and a datum: the rules of checkValue about the shape  *)
(* of a value are one kind, "malformed".  A panic message is a token;      *)
(* "missing" stands for every payload that checkPanicInfo refuses.         *)
(***************************************************************************)
EXTENDS Naturals, Sequences

PanicKinds == {"divide", "index-out-of-range", "slice-bounds",
               "interface-conversion", "nil-dereference", "other"}
ErrorKinds == {"compile", "timeout", "run", "no-observation", "adapter"}
Failures   == {"build-failed", "run-failed", "timeout", "adapter-error"}
Policies   == {"exact", "kind"}
Semantic   == {"match", "observation-mismatch"}
Verdict    == Semantic \cup {"reference-infra-failure", "clone-infra-failure",
                             "both-infra-failure", "harness-error"}

\* The zero Document of an outcome that did not run.
NoDocument == [schema |-> "", status |-> "", values |-> <<>>, events |-> <<>>,
               panic |-> {}, error |-> {}]

NewPanicInfo(kind, message) == [kind |-> kind, message |-> message]

\* The fields that every document and every outcome has, whatever is in them.
IsPanic(p) == p = NewPanicInfo(p.kind, p.message)
IsEvent(e) == /\ e = [at |-> e.at, value |-> e.value, panic |-> e.panic]
              /\ \A p \in e.panic : IsPanic(p)
IsDocument(d) ==
  /\ d = [schema |-> d.schema, status |-> d.status, values |-> d.values,
          events |-> d.events, panic |-> d.panic, error |-> d.error]
  /\ \A p \in d.panic : IsPanic(p)
  /\ Len(d.events) \in Nat /\ DOMAIN d.events = 1..Len(d.events)
  /\ \A i \in DOMAIN d.events : IsEvent(d.events[i])
IsOutcome(o) ==
  /\ o = [status |-> o.status, document |-> o.document, detail |-> o.detail]
  /\ IsDocument(o.document)

-----------------------------------------------------------------------------
(* Document.Validate: a document is a tagged union.                        *)

ValidValue(v) == v.kind # "malformed"
ValidPanic(p) == p.kind \in PanicKinds /\ p.message # "missing"

ValidEvent(e) ==
  \/ /\ e.at \in {"point", "defer"}
     /\ e.value # {} /\ e.panic = {}
     /\ \A v \in e.value : ValidValue(v)
  \/ /\ e.at = "recovered"
     /\ e.panic # {} /\ e.value = {}
     /\ \A p \in e.panic : ValidPanic(p)

ValidPayloads(d) ==
  \/ d.status = "ok" /\ d.panic = {} /\ d.error = {} /\ d.values # <<>>
  \/ d.status = "panic" /\ d.panic # {} /\ d.error = {} /\ d.values = <<>>
  \/ /\ d.status = "error" /\ d.error # {}
     /\ d.panic = {} /\ d.values = <<>> /\ d.events = <<>>

ValidDocument(d) ==
  /\ d.schema = "v1"
  /\ ValidPayloads(d)
  /\ \A i \in DOMAIN d.values : ValidValue(d.values[i])
  /\ \A p \in d.panic : ValidPanic(p)
  /\ \A k \in d.error : k \in ErrorKinds
  /\ \A i \in DOMAIN d.events : ValidEvent(d.events[i])

\* Outcome.Validate: a run carries a valid document, a failure carries a
\* reason and none.
ValidOutcome(o) ==
  \/ o.status = "ran" /\ ValidDocument(o.document)
  \/ o.status \in Failures /\ o.detail # "" /\ o.document = NoDocument

-----------------------------------------------------------------------------
(* observe.Equal.                                                          *)

\* Slips: messages dropped without leaving the payload that says so, or
\* dropped from the top-level panic alone.
NormalizeToMissing(d) ==
  [d EXCEPT !.panic = {[kind |-> p.kind, message |-> "missing"] : p \in d.panic}]

NormalizeTopLevel(d) ==
  [d EXCEPT !.panic = {NewPanicInfo(p.kind, "") : p \in d.panic}]

normalizePanicMessages(d) ==
  [d EXCEPT !.panic = {NewPanicInfo(p.kind, "") : p \in d.panic},
            !.events = [i \in DOMAIN d.events |->
              [d.events[i] EXCEPT !.panic =
                 {NewPanicInfo(p.kind, "") : p \in d.events[i].panic}]]]

\* The canonical form exists only if every panic can be written.
Canonical(d) == IF /\ \A p \in d.panic : ValidPanic(p)
                   /\ \A i \in DOMAIN d.events :
                        \A p \in d.events[i].panic : ValidPanic(p)
                THEN {d} ELSE {}

\* Equal under the policy: {TRUE}, {FALSE}, or {} for an error.
Equal(a, b, policy) ==
  LET na == IF policy = "kind" THEN normalizePanicMessages(a) ELSE a
      nb == IF policy = "kind" THEN normalizePanicMessages(b) ELSE b
  IN IF /\ ValidDocument(a) /\ ValidDocument(b)
        /\ policy \in Policies
        /\ Canonical(na) # {} /\ Canonical(nb) # {}
     THEN {Canonical(na) = Canonical(nb)}
     ELSE {}

-----------------------------------------------------------------------------
(* Judge.                                                                  *)

\* There is an observation: the case ran and its document is not an error.
Observed(o) == o.status = "ran" /\ o.document.status # "error"

\* Slips: the document's own error status is not looked at; one side's
\* outcome is classified before the other one is validated.
JudgeByStatus(ref, clone, policy) ==
  IF policy \notin Policies \/ ~ValidOutcome(ref) \/ ~ValidOutcome(clone)
    THEN "harness-error"
  ELSE IF ref.status # "ran" /\ clone.status # "ran" THEN "both-infra-failure"
  ELSE IF ref.status # "ran" THEN "reference-infra-failure"
  ELSE IF clone.status # "ran" THEN "clone-infra-failure"
  ELSE IF Equal(ref.document, clone.document, policy) = {TRUE}
    THEN "match" ELSE "observation-mismatch"

JudgeReferenceFirst(ref, clone, policy) ==
  IF policy \notin Policies \/ ~ValidOutcome(ref) THEN "harness-error"
  ELSE IF ~Observed(ref) THEN "reference-infra-failure"
  ELSE IF ~ValidOutcome(clone) THEN "harness-error"
  ELSE IF ~Observed(clone) THEN "clone-infra-failure"
  ELSE IF Equal(ref.document, clone.document, policy) = {TRUE}
    THEN "match" ELSE "observation-mismatch"

Judge(ref, clone, policy) ==
  IF policy \notin Policies \/ ~ValidOutcome(ref) \/ ~ValidOutcome(clone)
    THEN "harness-error"
  ELSE IF ~Observed(ref) /\ ~Observed(clone) THEN "both-infra-failure"
  ELSE IF ~Observed(ref) THEN "reference-infra-failure"
  ELSE IF ~Observed(clone) THEN "clone-infra-failure"
  ELSE LET eq == Equal(ref.document, clone.document, policy)
       IN IF eq = {} THEN "harness-error"
          ELSE IF eq = {TRUE} THEN "match"
          ELSE "observation-mismatch"
=============================================================================
