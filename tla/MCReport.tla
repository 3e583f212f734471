------------------------------ MODULE MCReport ------------------------------
(***************************************************************************)
(* The batches Report is checked on.  One case has every pair of outcomes: *)
(* every status, every kind of observation with two values, panic kinds    *)
(* and messages, and each way to break the protocol once.  Batches of two  *)
(* cases take each case from fewer outcomes, with every row that golean    *)
(* may give, features and a subject that cannot be read.                   *)
(***************************************************************************)
EXTENDS Report

Doc(status, values, events, panic, error) ==
  [schema |-> "v1", status |-> status, values |-> values, events |-> events,
   panic |-> panic, error |-> error]

Int(n)       == [kind |-> "int", data |-> n]
Malformed    == [kind |-> "malformed", data |-> 0]
Point(v)     == [at |-> "point", value |-> {v}, panic |-> {}]
RecoveredAt(p) == [at |-> "recovered", value |-> {}, panic |-> {p}]

Panics == {NewPanicInfo(k, m) : k \in {"divide", "other"}, m \in {"", "m1", "m2"}}

Observations ==
  {Doc("ok", <<Int(n)>>, es, {}, {}) :
     n \in 0..1, es \in {<<>>, <<Point(Int(0))>>} \cup {<<RecoveredAt(p)>> : p \in Panics}}
  \cup {Doc("panic", <<>>, <<>>, {p}, {}) : p \in Panics}

Broken ==
  { Doc("ok", <<>>, <<>>, {}, {}),
    Doc("ok", <<Malformed>>, <<>>, {}, {}),
    Doc("ok", <<Int(0)>>, <<>>, {NewPanicInfo("divide", "m1")}, {}),
    Doc("ok", <<Int(0)>>, <<RecoveredAt(NewPanicInfo("divide", "missing"))>>, {}, {}),
    Doc("panic", <<>>, <<>>, {}, {}),
    Doc("panic", <<>>, <<>>, {NewPanicInfo("divide", "missing")}, {}),
    Doc("panic", <<>>, <<>>, {NewPanicInfo("segfault", "m1")}, {}),
    Doc("panic", <<Int(0)>>, <<>>, {NewPanicInfo("divide", "m1")}, {}),
    Doc("error", <<>>, <<>>, {}, {}),
    Doc("error", <<>>, <<>>, {}, {"cosmic-ray"}),
    Doc("done", <<Int(0)>>, <<>>, {}, {}),
    [Doc("ok", <<Int(0)>>, <<>>, {}, {}) EXCEPT !.schema = "v0"] }

Ends(d)      == [status |-> "ran", document |-> d, detail |-> ""]
Failed(s, t) == [status |-> s, document |-> NoDocument, detail |-> t]

AllOutcomes ==
  {Ends(d) : d \in Observations \cup Broken}
  \cup {Ends(Doc("error", <<>>, <<>>, {}, {k})) : k \in {"timeout", "run"}}
  \cup {Failed(s, "why") : s \in Failures}
  \cup {Failed("timeout", ""), Failed("lost", "why"), Failed("", ""),
        [Failed("timeout", "why") EXCEPT !.document = Doc("ok", <<Int(0)>>, <<>>, {}, {})]}

FewOutcomes ==
  { Ends(Doc("ok", <<Int(1)>>, <<>>, {}, {})),
    Ends(Doc("ok", <<Int(0)>>, <<RecoveredAt(NewPanicInfo("divide", "m1"))>>, {}, {})),
    Ends(Doc("panic", <<>>, <<>>, {NewPanicInfo("divide", "m1")}, {})),
    Ends(Doc("panic", <<>>, <<>>, {NewPanicInfo("other", "")}, {})),
    Ends(Doc("error", <<>>, <<>>, {}, {"timeout"})),
    Ends(Doc("ok", <<>>, <<>>, {}, {})),
    Failed("timeout", "why") }

Rows == {"match", "observation-mismatch", "clone-infra-failure", "harness-error"}

Case(r, c, row, fs, read) ==
  [ref |-> r, clone |-> c, row |-> row, features |-> fs, read |-> read]

Caught1 == Ends(Doc("ok", <<Int(1)>>, <<>>, {}, {}))
Wrapped == {"recover_wrapper"}

\* A clone's outcome and golean's row are not both looked at.
FewCases ==
  {Case(r, c, "match", fs, TRUE) :
     r \in FewOutcomes, c \in FewOutcomes, fs \in {Wrapped, {"loop"}}}
  \cup {Case(r, Caught1, row, Wrapped, TRUE) : r \in FewOutcomes, row \in Rows}
  \cup {Case(Caught1, Caught1, "match", {}, FALSE)}

SecondCases ==
  {Case(Caught1, c, row, fs, TRUE) :
     c \in {Caught1, Failed("timeout", "why")}, row \in {"match", "clone-infra-failure"},
     fs \in {Wrapped, {"loop"}}}

MCBatches ==
  {<<Case(r, c, "match", {}, TRUE)>> : r \in AllOutcomes, c \in AllOutcomes}
  \cup {<<c, d>> : c \in FewCases, d \in SecondCases}

MCPolicy == {"exact", "kind", "loose"}
=============================================================================
