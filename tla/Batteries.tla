----------------------------- MODULE Batteries -----------------------------
(***************************************************************************)
(* Recording the expected outcomes of a batch's batteries on a pool of     *)
(* workers (runBatteries, cmd/gengo/battery.go).                           *)
(*                                                                         *)
(* The first error is kept and cancels the others.  A worker that runs a   *)
(* battery when that happens sees its run cut off and reports an error,    *)
(* too; a worker that has looked at the context just before still starts.  *)
(***************************************************************************)
EXTENDS Naturals

CONSTANTS
  Workers,  \* the goroutines of the pool
  N         \* the number of batteries, numbered from 1

ASSUME BatteriesAssumption == N \in Nat \ {0}

VARIABLES
  cancelled,  \* cancel() was called
  first,      \* the error kept (Nil: none)
  main,       \* where the caller's goroutine is
  next,       \* the next battery it hands out
  at,         \* where each worker is
  job,        \* the battery each worker has (0: none)
  err,        \* the error each worker holds
  recorded    \* the batteries whose functions.json is on disk

vars == <<cancelled, first, main, next, at, job, err, recorded>>

Jobs == 1..N

\* An error names its battery and whether the battery failed by itself
\* (it did not build, run or parse, or its file could not be written) or
\* was cut off by the cancellation.
Nil         == [job |-> 0, why |-> "none"]
Failed(j)   == [job |-> j, why |-> "failed"]
CutOff(j)   == [job |-> j, why |-> "cut off"]
Error       == [job : Jobs, why : {"failed", "cut off"}]

\* The mutex of fail is held by the worker that is about to cancel.
Locked == \E w \in Workers : at[w] = "cancel"

Receive(w) == /\ at' = [at EXCEPT ![w] = "receive"]
              /\ job' = [job EXCEPT ![w] = 0]
              /\ err' = [err EXCEPT ![w] = Nil]

Hold(w, e) == /\ at' = [at EXCEPT ![w] = "fail"]
              /\ err' = [err EXCEPT ![w] = e]
              /\ UNCHANGED job

-----------------------------------------------------------------------------
(* Slips a change to this code could make; no step uses them.              *)

\* The last error is kept instead of the first.
FailKeepsLast(w) ==
  /\ at[w] = "fail" /\ ~Locked
  /\ first' = err[w]
  /\ at' = [at EXCEPT ![w] = "cancel"]
  /\ UNCHANGED <<cancelled, main, next, job, err, recorded>>

\* The error of os.WriteFile is dropped.
WriteUnchecked(w) ==
  /\ at[w] = "write"
  /\ recorded' \in {recorded, recorded \cup {job[w]}}
  /\ Receive(w)
  /\ UNCHANGED <<cancelled, first, main, next>>

\* A worker leaves after its error.
FailLeaves(w) ==
  /\ at[w] = "fail" /\ ~Locked
  /\ at' = [at EXCEPT ![w] = "done"]
  /\ job' = [job EXCEPT ![w] = 0]
  /\ err' = [err EXCEPT ![w] = Nil]
  /\ first' = IF first = Nil THEN err[w] ELSE first
  /\ UNCHANGED <<cancelled, main, next, recorded>>

-----------------------------------------------------------------------------
(* The caller's goroutine.                                                 *)

Send(w) ==
  /\ main = "feed" /\ next <= N
  /\ at[w] = "receive"
  /\ at' = [at EXCEPT ![w] = "check"]
  /\ job' = [job EXCEPT ![w] = next]
  /\ next' = next + 1
  /\ UNCHANGED <<cancelled, first, main, err, recorded>>

Close ==
  /\ main = "feed" /\ next > N
  /\ main' = "wait"
  /\ UNCHANGED <<cancelled, first, next, at, job, err, recorded>>

\* All workers are done; first is returned as it is.
Return ==
  /\ main = "wait"
  /\ \A w \in Workers : at[w] = "done"
  /\ main' = "returned"
  /\ UNCHANGED <<cancelled, first, next, at, job, err, recorded>>

-----------------------------------------------------------------------------
(* The workers.                                                            *)

Skip(w) ==
  /\ at[w] = "check" /\ cancelled
  /\ Receive(w)
  /\ UNCHANGED <<cancelled, first, main, next, recorded>>

Begin(w) ==
  /\ at[w] = "check" /\ ~cancelled
  /\ at' = [at EXCEPT ![w] = "run"]
  /\ UNCHANGED <<cancelled, first, main, next, job, err, recorded>>

\* RunBattery: outcomes, an error of its own, or a run that was cut off.
RunBattery(w) ==
  /\ at[w] = "run"
  /\ \/ at' = [at EXCEPT ![w] = "write"] /\ UNCHANGED <<job, err>>
     \/ Hold(w, Failed(job[w]))
     \/ cancelled /\ Hold(w, CutOff(job[w]))
  /\ UNCHANGED <<cancelled, first, main, next, recorded>>

Write(w) ==
  /\ at[w] = "write"
  /\ \/ recorded' = recorded \cup {job[w]} /\ Receive(w)
     \/ Hold(w, Failed(job[w])) /\ UNCHANGED recorded
  /\ UNCHANGED <<cancelled, first, main, next>>

\* fail, under its mutex: the first error is kept, then the others are
\* cancelled.
Fail(w) ==
  /\ at[w] = "fail" /\ ~Locked
  /\ \/ /\ first = Nil
        /\ first' = err[w]
        /\ at' = [at EXCEPT ![w] = "cancel"]
        /\ UNCHANGED <<job, err>>
     \/ first # Nil /\ Receive(w) /\ UNCHANGED first
  /\ UNCHANGED <<cancelled, main, next, recorded>>

CancelOthers(w) ==
  /\ at[w] = "cancel"
  /\ cancelled' = TRUE
  /\ Receive(w)
  /\ UNCHANGED <<first, main, next, recorded>>

Leave(w) ==
  /\ at[w] = "receive" /\ main # "feed"
  /\ at' = [at EXCEPT ![w] = "done"]
  /\ UNCHANGED <<cancelled, first, main, next, job, err, recorded>>

-----------------------------------------------------------------------------
MainStep == (\E w \in Workers : Send(w)) \/ Close \/ Return

WorkerStep(w) == \/ Skip(w) \/ Begin(w) \/ RunBattery(w) \/ Write(w)
                 \/ Fail(w) \/ CancelOthers(w) \/ Leave(w)

Init ==
  /\ cancelled = FALSE
  /\ first = Nil
  /\ main = "feed"
  /\ next = 1
  /\ at = [w \in Workers |-> "receive"]
  /\ job = [w \in Workers |-> 0]
  /\ err = [w \in Workers |-> Nil]
  /\ recorded = {}

Next == MainStep \/ \E w \in Workers : WorkerStep(w)

Spec == Init /\ [][Next]_vars

-----------------------------------------------------------------------------
(* Properties.                                                             *)

TypeOK ==
  /\ cancelled \in BOOLEAN
  /\ first \in Error \cup {Nil}
  /\ main \in {"feed", "wait", "returned"}
  /\ next \in 1..N + 1
  /\ at \in [Workers -> {"receive", "check", "run", "write", "fail", "cancel", "done"}]
  /\ job \in [Workers -> 0..N]
  /\ err \in [Workers -> Error \cup {Nil}]
  /\ recorded \in SUBSET Jobs

\* "A case without expected outcomes is not a battery case": no error means
\* that the functions.json of every battery is on disk, so the manifest
\* that is written next digests them all.
NilMeansAll == main = "returned" /\ first = Nil => recorded = Jobs

\* The error that the batch fails with is one a battery met by itself,
\* never the noise of the cancellation that another error set off; and
\* that battery has no outcomes on disk.
FirstErrorIsCause ==
  first # Nil => first.why = "failed" /\ first.job \notin recorded

\* runBatteries returns, whatever fails.
Returns == <>(main = "returned")
=============================================================================
