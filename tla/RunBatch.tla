------------------------------ MODULE RunBatch ------------------------------
(***************************************************************************)
(* Judging a batch on a pool of workers (RunBatch, harness/harness.go).    *)
(*                                                                         *)
(* The caller's goroutine hands the case indices to the workers one by one *)
(* over an unbuffered channel, closes it, waits for all of them, and only  *)
(* then asks whether the context was cancelled.  Workers write their case  *)
(* result to its own slot.  Outcomes and the verdict on two of them are    *)
(* parameters; Verdicts says what Judge does.                              *)
(***************************************************************************)
EXTENDS Naturals

CONSTANTS
  Workers,    \* the goroutines of the pool
  N,          \* the number of cases, numbered from 1
  Outcome,    \* what a run of a case to its end may yield
  Aborted,    \* what a run yields that the cancellation cut off
  HasClone,   \* a clone is judged against the reference
  Verdict,    \* the verdicts
  Judge(_, _) \* the verdict on a reference and a clone outcome

None == "none"

ASSUME RunBatchAssumption ==
  /\ N \in Nat \ {0}
  /\ HasClone \in BOOLEAN
  /\ None \notin Outcome \cup Aborted
  /\ Outcome \cap Aborted = {}
  /\ None \notin Verdict /\ "harness-error" \in Verdict
  /\ \A r, c \in Outcome \cup Aborted : Judge(r, c) \in Verdict

VARIABLES
  cancelled,  \* ctx.Err() is not nil
  main,       \* where the caller's goroutine is
  next,       \* the next case it hands out
  at,         \* where each worker is
  job,        \* the case each worker has (0: none)
  seen,       \* the reference outcome a worker holds
  results     \* the slots: the case's outcomes and verdict

vars == <<cancelled, main, next, at, job, seen, results>>

Cases == 1..N

\* The slot of a case no worker wrote, the record of an unreadable one, and
\* a case result.
Zero          == [read |-> FALSE, ref |-> None, clone |-> None, verdict |-> None]
Unreadable    == [Zero EXCEPT !.verdict = "harness-error"]
Result(r, c)  == [read |-> TRUE, ref |-> r, clone |-> c,
                  verdict |-> IF HasClone THEN Judge(r, c) ELSE None]

\* A run may be cut off only once the context is cancelled; it may still
\* come to its own end then.
Yields == Outcome \cup (IF cancelled THEN Aborted ELSE {})

Closed == main # "feed"

\* A worker writes its result and receives again.
Store(w, r) == /\ results' = [results EXCEPT ![job[w]] = r]
               /\ at' = [at EXCEPT ![w] = "receive"]
               /\ job' = [job EXCEPT ![w] = 0]
               /\ seen' = [seen EXCEPT ![w] = None]

-----------------------------------------------------------------------------
(* Slips a change to this code could make; no step uses them.              *)

\* A worker leaves the pool when it sees the cancellation.
SkipByLeaving(w) ==
  /\ at[w] = "check" /\ cancelled
  /\ at' = [at EXCEPT ![w] = "done"]
  /\ job' = [job EXCEPT ![w] = 0]
  /\ UNCHANGED <<cancelled, main, next, seen, results>>

\* The caller goes on when the channel is closed, not when all are done.
WaitForClose ==
  /\ main = "wait"
  /\ main' = "judged"
  /\ UNCHANGED <<cancelled, next, at, job, seen, results>>

\* The counter of the send loop runs one behind.
SendOneBehind(w) ==
  /\ main = "feed" /\ next <= N
  /\ at[w] = "receive"
  /\ at' = [at EXCEPT ![w] = "check"]
  /\ job' = [job EXCEPT ![w] = IF next = 1 THEN 1 ELSE next - 1]
  /\ next' = next + 1
  /\ UNCHANGED <<cancelled, main, seen, results>>

\* The context is not asked after the wait.
ReturnAnyway ==
  /\ main = "judged"
  /\ main' = "report"
  /\ UNCHANGED <<cancelled, next, at, job, seen, results>>

-----------------------------------------------------------------------------
(* The caller's goroutine.                                                 *)

\* It blocks on the send until a worker receives.
Send(w) ==
  /\ main = "feed" /\ next <= N
  /\ at[w] = "receive"
  /\ at' = [at EXCEPT ![w] = "check"]
  /\ job' = [job EXCEPT ![w] = next]
  /\ next' = next + 1
  /\ UNCHANGED <<cancelled, main, seen, results>>

Close ==
  /\ main = "feed" /\ next > N
  /\ main' = "wait"
  /\ UNCHANGED <<cancelled, next, at, job, seen, results>>

Wait ==
  /\ main = "wait"
  /\ \A w \in Workers : at[w] = "done"
  /\ main' = "judged"
  /\ UNCHANGED <<cancelled, next, at, job, seen, results>>

\* An aborted batch is an error; any other is a report.
Return ==
  /\ main = "judged"
  /\ main' = IF cancelled THEN "error" ELSE "report"
  /\ UNCHANGED <<cancelled, next, at, job, seen, results>>

-----------------------------------------------------------------------------
(* The workers.                                                            *)

\* A cancelled batch is drained: the worker drops the case and receives.
Skip(w) ==
  /\ at[w] = "check" /\ cancelled
  /\ at' = [at EXCEPT ![w] = "receive"]
  /\ job' = [job EXCEPT ![w] = 0]
  /\ UNCHANGED <<cancelled, main, next, seen, results>>

Begin(w) ==
  /\ at[w] = "check" /\ ~cancelled
  /\ at' = [at EXCEPT ![w] = "read"]
  /\ UNCHANGED <<cancelled, main, next, job, seen, results>>

\* subject.go is read again here, long after the batch was validated.
ReadSubject(w) ==
  /\ at[w] = "read"
  /\ \/ at' = [at EXCEPT ![w] = "reference"] /\ UNCHANGED <<job, seen, results>>
     \/ Store(w, Unreadable)
  /\ UNCHANGED <<cancelled, main, next>>

RunReference(w) ==
  /\ at[w] = "reference"
  /\ \E o \in Yields :
       \/ /\ HasClone
          /\ seen' = [seen EXCEPT ![w] = o]
          /\ at' = [at EXCEPT ![w] = "clone"]
          /\ UNCHANGED <<job, results>>
       \/ ~HasClone /\ Store(w, Result(o, None))
  /\ UNCHANGED <<cancelled, main, next>>

RunClone(w) ==
  /\ at[w] = "clone"
  /\ \E o \in Yields : Store(w, Result(seen[w], o))
  /\ UNCHANGED <<cancelled, main, next>>

\* The channel is closed and empty.
Leave(w) ==
  /\ at[w] = "receive" /\ Closed
  /\ at' = [at EXCEPT ![w] = "done"]
  /\ UNCHANGED <<cancelled, main, next, job, seen, results>>

-----------------------------------------------------------------------------
\* The caller cancels the context, or its deadline passes.
Cancel ==
  /\ ~cancelled
  /\ main \in {"feed", "wait", "judged"}
  /\ cancelled' = TRUE
  /\ UNCHANGED <<main, next, at, job, seen, results>>

MainStep == (\E w \in Workers : Send(w)) \/ Close \/ Wait \/ Return

WorkerStep(w) == \/ Skip(w) \/ Begin(w) \/ ReadSubject(w)
                 \/ RunReference(w) \/ RunClone(w) \/ Leave(w)

Init ==
  /\ cancelled \in BOOLEAN
  /\ main = "feed"
  /\ next = 1
  /\ at = [w \in Workers |-> "receive"]
  /\ job = [w \in Workers |-> 0]
  /\ seen = [w \in Workers |-> None]
  /\ results = [i \in Cases |-> Zero]

Next == MainStep \/ (\E w \in Workers : WorkerStep(w)) \/ Cancel

Spec == Init /\ [][Next]_vars

-----------------------------------------------------------------------------
(* Properties.                                                             *)

CaseResult == [read : BOOLEAN, ref : Outcome \cup Aborted \cup {None},
               clone : Outcome \cup Aborted \cup {None}, verdict : Verdict \cup {None}]

TypeOK ==
  /\ cancelled \in BOOLEAN
  /\ main \in {"feed", "wait", "judged", "report", "error"}
  /\ next \in 1..N + 1
  /\ at \in [Workers -> {"receive", "check", "read", "reference", "clone", "done"}]
  /\ job \in [Workers -> 0..N]
  /\ seen \in [Workers -> Outcome \cup Aborted \cup {None}]
  /\ results \in [Cases -> CaseResult]

\* A report has a result for every case: what the runs of that case yielded
\* and the verdict on exactly these, or the harness error of a subject that
\* could not be read.  No slot is still empty when the caller reads them.
Complete(i) ==
  \/ results[i] = Unreadable
  \/ \E r \in Outcome \cup Aborted, c \in Outcome \cup Aborted \cup {None} :
       /\ c = None <=> ~HasClone
       /\ results[i] = Result(r, c)

ReportIsWhole == main = "report" => \A i \in Cases : Complete(i)

\* "An aborted batch is not a conformance statement": no report holds what
\* the cancellation left of a run, however late it came.
NothingCut ==
  main = "report" => \A i \in Cases : {results[i].ref, results[i].clone} \cap Aborted = {}

\* The slot of a case is written once.
WrittenOnce ==
  [][\A i \in Cases : results[i] # Zero => results'[i] = results[i]]_results
=============================================================================
