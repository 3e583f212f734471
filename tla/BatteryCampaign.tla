--------------------------- MODULE BatteryCampaign ---------------------------
(***************************************************************************)
(* What the pool of Batteries records: the line protocol between a battery *)
(* driver (gen/functions.go) and RunBattery (harness/battery.go).          *)
(*                                                                         *)
(* The driver calls every function on every input, prints a row per call,  *)
(* and an END line with their number.  RunBattery reads that output into   *)
(* functions.json.  Every battery has the same specs and the same true     *)
(* outcomes here; its output may lose, repeat or exchange lines, end       *)
(* early, go on after END, or have a field that is no value of its type or *)
(* no message of a runtime error.                                          *)
(*                                                                         *)
(* A value is an integer and whether it is spelled as strconv spells it;   *)
(* FALSE and TRUE are 0 and 1.  A panic message is two bits: is it quoted  *)
(* as the driver quotes, and does it begin as a runtime error does.        *)
(* Digests, the oracle's identity and the tags are left out.               *)
(***************************************************************************)
EXTENDS Batteries, Integers, Sequences, FiniteSets

CONSTANTS
  Specs,   \* per function: how many inputs, and the types of its results
  Truths   \* the outcomes of the calls, in order, that batteries may have

Types == {"bool", "int8", "uint8", "int16", "uint16"}

ASSUME SpecsAssumption ==
  /\ Specs \in Seq([inputs : Nat \ {0}, results : Seq(Types)])
  /\ \A f \in 1..Len(Specs) : Len(Specs[f].results) \in 1..2

VARIABLES
  truth,  \* the outcomes of this batch's batteries
  held,   \* the expectations a worker has read
  docs    \* the functions.json of each battery

campaignVars == <<truth, held, docs>>

-----------------------------------------------------------------------------
(* Values.                                                                 *)

\* The first number that is too large for a type, and its limits.
Span(t) == CASE t = "bool" -> 2 [] t = "int8" -> 128 [] t = "uint8" -> 256
             [] t = "int16" -> 32768 [] t = "uint16" -> 65536

Signed(t) == t \in {"int8", "int16"}
Least(t)  == IF Signed(t) THEN -Span(t) ELSE 0
Most(t)   == Span(t) - 1

-----------------------------------------------------------------------------
(* The driver.                                                             *)

CallsOf(f) == [i \in 1..Specs[f].inputs |-> <<f, i>>]
CallsUpTo[f \in 0..Len(Specs)] == IF f = 0 THEN <<>> ELSE CallsUpTo[f - 1] \o CallsOf(f)
Calls == CallsUpTo[Len(Specs)]

\* What a call comes to: values, or a panic that is a runtime error (with
\* any other panic value the driver exits).
OK(vals)       == [kind |-> "ok", vals |-> vals, quoted |-> TRUE, runtime |-> FALSE]
Panics(runtime) == [kind |-> "panic", vals |-> <<>>, quoted |-> TRUE, runtime |-> runtime]
Value(n)       == [n |-> n, canonical |-> TRUE]

\* Its program is typed, and prints with strconv.
IsOutcome(e, results) ==
  \/ e = Panics(TRUE)
  \/ /\ e = OK([k \in 1..Len(results) |-> e.vals[k]])
     /\ \A k \in 1..Len(results) : /\ e.vals[k] = Value(e.vals[k].n)
                                   /\ e.vals[k].n \in Least(results[k])..Most(results[k])

ASSUME TruthsAssumption ==
  \A t \in Truths : /\ t = [k \in 1..Len(Calls) |-> t[k]]
                    /\ \A k \in 1..Len(Calls) : IsOutcome(t[k], Specs[Calls[k][1]].results)

Row(call, e) == [tag |-> "R", call |-> call, e |-> e]
EndLine(n)   == [tag |-> "END", call |-> <<n>>, e |-> OK(<<>>)]

\* Every line ends in a newline, or the last does not.
Output(lines)    == [lines |-> lines, newline |-> TRUE]
Driver(outcomes) == Output([k \in 1..Len(Calls) |-> Row(Calls[k], outcomes[k])]
                           \o <<EndLine(Len(Calls))>>)

\* What may become of its output.
Without(s, k)  == SubSeq(s, 1, k - 1) \o SubSeq(s, k + 1, Len(s))
Twice(s, k)    == SubSeq(s, 1, k) \o SubSeq(s, k, Len(s))
Swapped(s, j, k) == [s EXCEPT ![j] = s[k], ![k] = s[j]]
Swaps(s)       == {Swapped(s, j, k) : j, k \in 1..Len(s)}
OKRows(s)      == {k \in 1..Len(s) : s[k].e.vals # <<>>}
PanicRows(s)   == {k \in 1..Len(s) : s[k].e.kind = "panic"}
Garbled(s, k, v) == [s EXCEPT ![k].e.vals[1] = v]

Faulty(out) ==
  LET s == out.lines IN
  {Output(Without(s, k)) : k \in 1..Len(s)}
  \cup {Output(Twice(s, k)) : k \in 1..Len(s)}
  \cup {Output(c) : c \in Swaps(s)}
  \cup {Output(SubSeq(s, 1, k)) : k \in 0..Len(s)}
  \cup {[out EXCEPT !.newline = FALSE]}
  \cup (UNION {LET t == Specs[s[k].call[1]].results[1] IN
               {Output(Garbled(s, k, Value(n))) : n \in {Least(t) - 1, Most(t) + 1}}
               : k \in OKRows(s)})
  \cup {Output(Garbled(s, k, [Value(0) EXCEPT !.canonical = FALSE])) : k \in OKRows(s)}
  \cup {Output([s EXCEPT ![k].e.runtime = FALSE]) : k \in PanicRows(s)}
  \cup {Output([s EXCEPT ![k].e.quoted = FALSE]) : k \in PanicRows(s)}

-----------------------------------------------------------------------------
(* RunBattery.                                                             *)

\* ParseInt or ParseUint at the type's width, and one spelling per value.
checkTypedValue(t, v) ==
  /\ v.canonical
  /\ v.n \in Least(t)..Most(t)

\* A slip: the row is taken for the call it names.
RowFitsAnyCall(line, call) ==
  /\ line.tag = "R" /\ line.call \in {Calls[k] : k \in 1..Len(Calls)}

RowFits(line, call) ==
  /\ line.tag = "R" /\ line.call = call
  /\ LET results == Specs[call[1]].results
         e       == line.e
     IN  IF e.kind = "ok"
         THEN /\ Len(e.vals) = Len(results)
              /\ \A k \in 1..Len(results) : checkTypedValue(results[k], e.vals[k])
         ELSE e.kind = "panic" /\ e.quoted

\* A row per call in the order of the calls, one END line with their number,
\* and nothing after it: {} is an error.
parseBattery(out) ==
  LET s == out.lines IN
  IF /\ out.newline
     /\ Len(s) = Len(Calls) + 1
     /\ \A k \in 1..Len(Calls) : RowFits(s[k], Calls[k])
     /\ s[Len(s)] = EndLine(Len(Calls))
  THEN {[k \in 1..Len(Calls) |-> s[k].e]} ELSE {}

\* FunctionsDoc.validate, on what parseBattery read.
validate(expected) ==
  \A k \in 1..Len(expected) :
    IF expected[k].kind = "panic" THEN expected[k].runtime
    ELSE Len(expected[k].vals) = Len(Specs[Calls[k][1]].results)

Expected(out) == {d \in parseBattery(out) : validate(d)}

-----------------------------------------------------------------------------
(* The pool's workers with what they hold.                                 *)

\* The build and the run fail, or end with an output that is read.  A driver
\* that met a panic that is no runtime error exited.
RunsBattery(w) ==
  /\ RunBattery(w)
  /\ IF at'[w] = "write"
     THEN \E out \in {Driver(truth)} \cup Faulty(Driver(truth)) :
            \E d \in Expected(out) : held' = [held EXCEPT ![w] = {d}]
     ELSE UNCHANGED held
  /\ UNCHANGED <<truth, docs>>

WritesDoc(w) ==
  /\ Write(w)
  /\ docs' = IF at'[w] = "receive" THEN [docs EXCEPT ![job[w]] = held[w]] ELSE docs
  /\ held' = [held EXCEPT ![w] = {}]
  /\ UNCHANGED truth

CampaignWorkerStep(w) ==
  \/ RunsBattery(w) \/ WritesDoc(w)
  \/ (Skip(w) \/ Begin(w) \/ Fail(w) \/ CancelOthers(w) \/ Leave(w)) /\ UNCHANGED campaignVars

CampaignMainStep == MainStep /\ UNCHANGED campaignVars

CampaignInit ==
  /\ Init
  /\ truth \in Truths
  /\ held = [w \in Workers |-> {}]
  /\ docs = [j \in Jobs |-> {}]

CampaignNext == CampaignMainStep \/ \E w \in Workers : CampaignWorkerStep(w)

allVars == <<vars, campaignVars>>

CampaignSpec ==
  /\ CampaignInit /\ [][CampaignNext]_allVars
  /\ WF_allVars(CampaignMainStep)
  /\ \A w \in Workers : WF_allVars(CampaignWorkerStep(w))

-----------------------------------------------------------------------------
\* "The battery produced no expected outcomes rather than partial ones":
\* whatever happens to a driver's output, what is recorded on disk is what
\* the calls came to, each at its own call; and an output that nothing
\* happened to is never refused, at the edge of a type either.
RecordedIsTrue ==
  /\ \A j \in Jobs : docs[j] = IF j \in recorded THEN {truth} ELSE {}
  /\ Expected(Driver(truth)) = {truth}
=============================================================================
