--------------------------- MODULE BatchTreeProofs ---------------------------
(***************************************************************************)
(* The report of RunBatch, for every number of cases and any workers; then *)
(* the course of a batch around it.  Whatever happens to the files of a    *)
(* batch, its judging is RunBatch's, so what is proved of the pool holds   *)
(* of the whole; and what -verify accepts is what was judged.              *)
(***************************************************************************)
EXTENDS BatchTree, TLAPS

AllOutcomes == Outcome \cup Aborted

\* What a worker holds where, and who has the case that is not written.
Held(w) ==
  /\ job[w] # 0 <=> at[w] \in {"check", "read", "reference", "clone"}
  /\ at[w] = "clone" => HasClone /\ seen[w] \in AllOutcomes
  /\ at[w] = "done" => main # "feed"
  /\ main \in {"judged", "report", "error"} => at[w] = "done"
  /\ seen[w] \in Aborted => cancelled

\* A slot is empty or whole; it is empty only while its case is not handed
\* out yet, in a worker's hands, or dropped by the cancellation.
Slot(i) ==
  /\ results[i] = Zero \/ Complete(i)
  /\ i < next => cancelled \/ Complete(i) \/ \E w \in Workers : job[w] = i
  /\ {results[i].ref, results[i].clone} \cap Aborted # {} => cancelled

BatchInv ==
  /\ TypeOK
  /\ \A w \in Workers : Held(w)
  /\ \A i \in Cases : Slot(i)
  /\ main # "feed" => next = N + 1
  /\ main = "report" => ~cancelled

USE RunBatchAssumption DEF Cases, AllOutcomes

-----------------------------------------------------------------------------
\* The case results a worker can write.
LEMMA Written ==
  /\ Zero \in CaseResult /\ Unreadable \in CaseResult
  /\ \A r \in AllOutcomes, c \in AllOutcomes \cup {None} :
       (c = None <=> ~HasClone) => Result(r, c) \in CaseResult
  <1>1. Zero \in CaseResult /\ Unreadable \in CaseResult
    BY DEF Zero, Unreadable, CaseResult
  <1>2. ASSUME NEW r \in AllOutcomes, NEW c \in AllOutcomes \cup {None},
               c = None <=> ~HasClone
        PROVE  Result(r, c) \in CaseResult
    <2>1. (IF HasClone THEN Judge(r, c) ELSE None) \in Verdict \cup {None}
      BY <1>2
    <2> QED
      BY <2>1 DEF Result, CaseResult
  <1> QED
    BY <1>1, <1>2

\* What makes a case result whole.
Whole(r) ==
  \/ r = Unreadable
  \/ \E x \in AllOutcomes, c \in AllOutcomes \cup {None} :
       (c = None <=> ~HasClone) /\ r = Result(x, c)

\* A worker that stores a whole result for its case keeps the invariant.
LEMMA StoreKeeps ==
  ASSUME BatchInv, NEW w \in Workers, NEW r, Whole(r), Store(w, r),
         at[w] \in {"read", "reference", "clone"},
         {r.ref, r.clone} \cap Aborted # {} => cancelled,
         UNCHANGED <<cancelled, main, next>>
  PROVE  BatchInv'
  <1>1. job[w] \in Cases /\ TypeOK
    BY DEF BatchInv, Held, TypeOK
  <1>2. r \in CaseResult
    BY Written DEF Whole
  <1>3. TypeOK'
    BY <1>1, <1>2 DEF Store, TypeOK
  <1>4. results'[job[w]] = r /\ \A i \in Cases \ {job[w]} : results'[i] = results[i]
    BY <1>1 DEF Store, TypeOK
  <1>5. /\ job'[w] = 0 /\ at'[w] = "receive" /\ seen'[w] = None
        /\ \A v \in Workers \ {w} : /\ job'[v] = job[v] /\ at'[v] = at[v]
                                    /\ seen'[v] = seen[v]
    BY <1>1 DEF Store, TypeOK
  <1>6. \A v \in Workers : Held(v)'
    <2> SUFFICES ASSUME NEW v \in Workers
                 PROVE  Held(v)'
      OBVIOUS
    <2>1. Held(v) /\ (at[w] # "done") /\ Held(w)
      BY DEF BatchInv
    <2>2. CASE v = w
      BY <1>5, <2>1, <2>2 DEF Held
    <2>3. CASE v # w
      BY <1>5, <2>1, <2>3 DEF Held
    <2> QED
      BY <2>2, <2>3
  <1>7. \A i \in Cases : Slot(i)'
    <2> SUFFICES ASSUME NEW i \in Cases
                 PROVE  Slot(i)'
      OBVIOUS
    <2>1. Slot(i)
      BY DEF BatchInv
    <2>2. CASE i = job[w]
      <3>1. Complete(i)'
        BY <1>4, <2>2 DEF Whole, Complete
      <3>2. ({results[i].ref, results[i].clone} \cap Aborted # {} => cancelled)'
        BY <1>4, <2>2
      <3> QED
        BY <3>1, <3>2 DEF Slot
    <2>3. CASE i # job[w]
      <3>1. results'[i] = results[i]
        BY <1>4, <2>3
      <3>2. Complete(i) <=> Complete(i)'
        BY <3>1 DEF Complete
      <3>3. (\E v \in Workers : job[v] = i) => \E v \in Workers : job'[v] = i
        BY <1>5, <2>3
      <3> QED
        BY <2>1, <3>1, <3>2, <3>3 DEF Slot
    <2> QED
      BY <2>2, <2>3
  <1> QED
    BY <1>3, <1>6, <1>7 DEF BatchInv

\* A step that moves one worker on and writes nothing keeps the slots: the
\* cases in its and in the others' hands stay there.
LEMMA MoveKeeps ==
  ASSUME BatchInv, TypeOK', NEW w \in Workers,
         \A v \in Workers : Held(v)',
         UNCHANGED <<main, next, results>>, cancelled => cancelled',
         main = "report" => cancelled' = cancelled,
         \A v \in Workers \ {w} : job'[v] = job[v],
         job'[w] = job[w] \/ cancelled
  PROVE  BatchInv'
  <1>1. \A i \in Cases : Slot(i)'
    <2> SUFFICES ASSUME NEW i \in Cases
                 PROVE  Slot(i)'
      OBVIOUS
    <2>1. Slot(i)
      BY DEF BatchInv
    <2>2. Complete(i) <=> Complete(i)'
      BY DEF Complete
    <2>3. (\E v \in Workers : job[v] = i) => cancelled' \/ \E v \in Workers : job'[v] = i
      OBVIOUS
    <2> QED
      BY <2>1, <2>2, <2>3 DEF Slot
  <1> QED
    BY <1>1 DEF BatchInv

LEMMA MainStepKeeps ==
  ASSUME BatchInv, MainStep
  PROVE  BatchInv'
  <1> USE DEF BatchInv
  <1>1. ASSUME NEW w \in Workers, Send(w)
        PROVE  BatchInv'
    <2>1. TypeOK'
      BY <1>1 DEF Send, TypeOK
    <2>2. /\ at'[w] = "check" /\ job'[w] = next /\ next' = next + 1
          /\ \A v \in Workers \ {w} : at'[v] = at[v] /\ job'[v] = job[v]
          /\ UNCHANGED <<cancelled, main, seen, results>>
          /\ main = "feed" /\ next \in Cases /\ at[w] = "receive"
      BY <1>1 DEF Send, TypeOK
    <2>3. \A v \in Workers : Held(v)'
      <3> SUFFICES ASSUME NEW v \in Workers
                   PROVE  Held(v)'
        OBVIOUS
      <3>1. Held(v)
        OBVIOUS
      <3>2. CASE v = w
        BY <2>2, <3>1, <3>2 DEF Held
      <3>3. CASE v # w
        BY <2>2, <3>1, <3>3 DEF Held
      <3> QED
        BY <3>2, <3>3
    <2>4. \A i \in Cases : Slot(i)'
      <3> SUFFICES ASSUME NEW i \in Cases
                   PROVE  Slot(i)'
        OBVIOUS
      <3>1. Slot(i) /\ job[w] = 0
        BY <2>2 DEF Held, TypeOK
      <3>2. Complete(i) <=> Complete(i)'
        BY <2>2 DEF Complete
      <3>3. (\E v \in Workers : job[v] = i) => \E v \in Workers : job'[v] = i
        BY <2>2, <3>1
      <3>4. i < next' => i < next \/ job'[w] = i
        BY <2>2
      <3> QED
        BY <2>2, <3>1, <3>2, <3>3, <3>4 DEF Slot
    <2> QED
      BY <2>1, <2>2, <2>3, <2>4
  <1>2. CASE Close \/ Wait \/ Return
    <2>1. TypeOK' /\ UNCHANGED <<cancelled, next, at, job, seen, results>>
      BY <1>2 DEF Close, Wait, Return, TypeOK
    <2>2. \A v \in Workers : Held(v)'
      BY <1>2, <2>1 DEF Close, Wait, Return, Held
    <2>3. \A i \in Cases : Slot(i)'
      BY <2>1 DEF Slot, Complete
    <2>4. main' # "feed" => next' = N + 1
      BY <1>2, <2>1 DEF Close, Wait, Return, TypeOK
    <2>5. main' = "report" => ~cancelled'
      BY <1>2, <2>1 DEF Close, Wait, Return
    <2> QED
      BY <2>1, <2>2, <2>3, <2>4, <2>5
  <1> QED
    BY <1>1, <1>2 DEF MainStep

LEMMA WorkerStepKeeps ==
  ASSUME BatchInv, NEW w \in Workers, WorkerStep(w)
  PROVE  BatchInv'
  <1>1. TypeOK /\ Held(w)
    BY DEF BatchInv
  <1>2. CASE Skip(w) \/ Begin(w) \/ Leave(w)
    <2>1. \E a \in {"receive", "read", "done"} : at' = [at EXCEPT ![w] = a]
      BY <1>2 DEF Skip, Begin, Leave
    <2>2. job' = [job EXCEPT ![w] = 0] \/ job' = job
      BY <1>2 DEF Skip, Begin, Leave
    <2>3. UNCHANGED <<cancelled, main, next, seen, results>>
      BY <1>2 DEF Skip, Begin, Leave
    <2>4. TypeOK'
      BY <1>1, <2>1, <2>2, <2>3 DEF TypeOK
    <2>5. \A v \in Workers \ {w} : at'[v] = at[v] /\ job'[v] = job[v]
      BY <1>1, <2>1, <2>2 DEF TypeOK
    <2>6. Held(w)'
      <3>1. CASE Skip(w)
        BY <1>1, <2>3, <3>1 DEF Skip, TypeOK, Held
      <3>2. CASE Begin(w)
        BY <1>1, <2>3, <3>2 DEF Begin, TypeOK, Held
      <3>3. CASE Leave(w)
        BY <1>1, <2>3, <3>3 DEF Leave, TypeOK, Held, Closed
      <3> QED
        BY <1>2, <3>1, <3>2, <3>3
    <2>7. \A v \in Workers : Held(v)'
      BY <2>3, <2>5, <2>6 DEF BatchInv, Held
    <2>8. job'[w] = job[w] \/ cancelled
      BY <1>2 DEF Skip, Begin, Leave
    <2> QED
      BY <2>3, <2>4, <2>5, <2>7, <2>8, MoveKeeps
  <1>3. CASE ReadSubject(w)
    <2>1. CASE Store(w, Unreadable)
      <3>1. {Unreadable.ref, Unreadable.clone} \cap Aborted = {}
        BY DEF Unreadable, Zero
      <3> QED
        BY <1>3, <2>1, <3>1, StoreKeeps DEF ReadSubject, Whole
    <2>2. CASE at' = [at EXCEPT ![w] = "reference"] /\ UNCHANGED <<job, seen, results>>
      <3>1. TypeOK'
        BY <1>1, <1>3, <2>2 DEF ReadSubject, TypeOK
      <3>2. /\ UNCHANGED <<cancelled, main, next, seen, results, job>>
            /\ at'[w] = "reference" /\ at[w] = "read"
            /\ \A v \in Workers \ {w} : at'[v] = at[v]
        BY <1>1, <1>3, <2>2 DEF ReadSubject, TypeOK
      <3>3. \A v \in Workers : Held(v)'
        BY <3>2 DEF BatchInv, Held
      <3> QED
        BY <3>1, <3>2, <3>3, MoveKeeps
    <2> QED
      BY <1>3, <2>1, <2>2 DEF ReadSubject
  <1>4. Yields \subseteq AllOutcomes /\ (Yields \cap Aborted # {} => cancelled)
    BY DEF Yields
  <1>5. CASE RunReference(w)
    <2>1. PICK o \in Yields :
            \/ /\ HasClone
               /\ seen' = [seen EXCEPT ![w] = o]
               /\ at' = [at EXCEPT ![w] = "clone"]
               /\ UNCHANGED <<job, results>>
            \/ ~HasClone /\ Store(w, Result(o, None))
      BY <1>5 DEF RunReference
    <2>2. at[w] = "reference" /\ UNCHANGED <<cancelled, main, next>>
      BY <1>5 DEF RunReference
    <2>3. o \in AllOutcomes /\ (o \in Aborted => cancelled)
      BY <1>4, <2>1
    <2>4. CASE HasClone
      <3>1. TypeOK'
        BY <1>1, <2>1, <2>2, <2>3, <2>4 DEF TypeOK
      <3>2. /\ UNCHANGED <<cancelled, main, next, results, job>>
            /\ at'[w] = "clone" /\ seen'[w] = o
            /\ \A v \in Workers \ {w} : at'[v] = at[v] /\ seen'[v] = seen[v]
        BY <1>1, <2>1, <2>2, <2>4 DEF TypeOK
      <3>3. Held(w)'
        BY <1>1, <2>2, <2>3, <2>4, <3>2 DEF Held
      <3>4. \A v \in Workers : Held(v)'
        BY <3>2, <3>3 DEF BatchInv, Held
      <3> QED
        BY <3>1, <3>2, <3>4, MoveKeeps
    <2>5. CASE ~HasClone
      <3>1. Store(w, Result(o, None)) /\ Whole(Result(o, None))
        BY <2>1, <2>3, <2>5 DEF Whole
      <3>2. Result(o, None).ref = o /\ Result(o, None).clone = None
        BY DEF Result
      <3> QED
        BY <2>2, <2>3, <3>1, <3>2, StoreKeeps
    <2> QED
      BY <2>4, <2>5
  <1>6. CASE RunClone(w)
    <2>1. PICK o \in Yields : Store(w, Result(seen[w], o))
      BY <1>6 DEF RunClone
    <2>2. at[w] = "clone" /\ UNCHANGED <<cancelled, main, next>>
      BY <1>6 DEF RunClone
    <2>3. /\ o \in AllOutcomes /\ (o \in Aborted => cancelled)
          /\ seen[w] \in AllOutcomes /\ (seen[w] \in Aborted => cancelled) /\ HasClone
      BY <1>1, <1>4, <2>1, <2>2 DEF Held
    <2>4. Whole(Result(seen[w], o))
      BY <2>3 DEF Whole
    <2>5. Result(seen[w], o).ref = seen[w] /\ Result(seen[w], o).clone = o
      BY DEF Result
    <2> QED
      BY <2>1, <2>2, <2>3, <2>4, <2>5, StoreKeeps
  <1> QED
    BY <1>2, <1>3, <1>5, <1>6 DEF WorkerStep

\* RunBatch's state is always well typed, and every slot is empty, whole, or
\* of a batch that was cancelled: the induction behind the two theorems.
LEMMA Inductive == Spec => []BatchInv
  <1>1. Init => BatchInv
    <2> SUFFICES ASSUME Init
                 PROVE  BatchInv
      OBVIOUS
    <2>1. TypeOK
      BY Written DEF Init, TypeOK
    <2>2. \A w \in Workers : Held(w)
      BY DEF Init, Held
    <2>3. \A i \in Cases : Slot(i)
      BY DEF Init, Slot, Zero
    <2> QED
      BY <2>1, <2>2, <2>3 DEF BatchInv, Init
  <1>2. BatchInv /\ [Next]_vars => BatchInv'
    <2> SUFFICES ASSUME BatchInv, [Next]_vars
                 PROVE  BatchInv'
      OBVIOUS
    <2>1. CASE Cancel
      <3>1. TypeOK' /\ (\A v \in Workers : Held(v)')
        BY <2>1 DEF Cancel, BatchInv, TypeOK, Held
      <3>2. \A i \in Cases : Slot(i)'
        BY <2>1 DEF Cancel, BatchInv, Slot, Complete
      <3> QED
        BY <2>1, <3>1, <3>2 DEF Cancel, BatchInv
    <2>2. CASE UNCHANGED vars
      BY <2>2 DEF vars, BatchInv, TypeOK, Held, Slot, Complete
    <2> QED
      BY <2>1, <2>2, MainStepKeeps, WorkerStepKeeps DEF Next
  <1> QED
    BY <1>1, <1>2, PTL DEF Spec

-----------------------------------------------------------------------------
\* For every number of cases and any pool: the report RunBatch returns has,
\* for every case, the outcomes of that case and the verdict on them.
THEOREM ReportWhole == Spec => []ReportIsWhole
  <1>1. BatchInv => ReportIsWhole
    BY DEF BatchInv, ReportIsWhole, Slot, Held, TypeOK
  <1> QED
    BY <1>1, Inductive, PTL

\* And none of them was cut off by a cancellation of the batch.
THEOREM ReportUncut == Spec => []NothingCut
  <1>1. BatchInv => NothingCut
    BY DEF BatchInv, NothingCut, Slot
  <1> QED
    BY <1>1, Inductive, PTL

-----------------------------------------------------------------------------
\* A case is in one worker's hands at most, and then its slot is empty.
Own ==
  /\ \A v, w \in Workers : job[v] = job[w] => v = w \/ job[v] = 0
  /\ \A w \in Workers : job[w] < next /\ (job[w] # 0 => results[job[w]] = Zero)
  /\ \A i \in Cases : i >= next => results[i] = Zero

\* A step writes nothing, or a worker stores the case in its hands.
LEMMA StepWrites ==
  ASSUME BatchInv, [Next]_vars
  PROVE  \/ UNCHANGED results
         \/ \E w \in Workers : \E r : job[w] # 0 /\ Store(w, r) /\ UNCHANGED next
  <1>1. CASE MainStep \/ Cancel \/ UNCHANGED vars
    BY <1>1 DEF MainStep, Send, Close, Wait, Return, Cancel, vars
  <1>2. ASSUME NEW w \in Workers, WorkerStep(w)
        PROVE  \/ UNCHANGED results
               \/ \E r : job[w] # 0 /\ Store(w, r) /\ UNCHANGED next
    <2>1. Held(w)
      BY DEF BatchInv
    <2>2. CASE Skip(w) \/ Begin(w) \/ Leave(w)
      BY <2>2 DEF Skip, Begin, Leave
    <2>3. CASE ReadSubject(w)
      BY <2>1, <2>3 DEF ReadSubject, Held
    <2>4. CASE RunReference(w)
      BY <2>1, <2>4 DEF RunReference, Held
    <2>5. CASE RunClone(w)
      BY <2>1, <2>5 DEF RunClone, Held
    <2> QED
      BY <1>2, <2>2, <2>3, <2>4, <2>5 DEF WorkerStep
  <1> QED
    BY <1>1, <1>2 DEF Next

\* A step that writes nothing hands a case over, or takes it away, or leaves
\* it where it is.
LEMMA StepHands ==
  ASSUME BatchInv, [Next]_vars, UNCHANGED results
  PROVE  \/ /\ next' = next
            /\ \A w \in Workers : job'[w] \in {0, job[w]}
         \/ /\ next \in Cases /\ next' = next + 1
            /\ \E w \in Workers : /\ job'[w] = next
                                  /\ \A v \in Workers \ {w} : job'[v] = job[v]
  <1>1. job \in [Workers -> 0..N] /\ next \in 1..N + 1
    BY DEF BatchInv, TypeOK
  <1>2. CASE (\E w \in Workers : Send(w))
    BY <1>1, <1>2 DEF Send
  <1>3. CASE Close \/ Wait \/ Return \/ Cancel \/ UNCHANGED vars
    BY <1>3 DEF Close, Wait, Return, Cancel, vars
  <1>4. ASSUME NEW w \in Workers, WorkerStep(w)
        PROVE  next' = next /\ \A v \in Workers : job'[v] \in {0, job[v]}
    <2>1. next' = next /\ (job' = job \/ job' = [job EXCEPT ![w] = 0])
      BY <1>4 DEF WorkerStep, Skip, Begin, Leave, ReadSubject, RunReference, RunClone, Store
    <2> QED
      BY <1>1, <2>1
  <1> QED
    BY <1>2, <1>3, <1>4 DEF Next, MainStep

LEMMA OwnKept ==
  ASSUME BatchInv, Own, [Next]_vars
  PROVE  Own' /\ \A i \in Cases : results[i] # Zero => results'[i] = results[i]
  <1>1. /\ job \in [Workers -> 0..N] /\ results \in [Cases -> CaseResult]
        /\ next \in 1..N + 1
    BY DEF BatchInv, TypeOK
  <1>2. CASE UNCHANGED results
    <2>1. CASE /\ next' = next
               /\ \A w \in Workers : job'[w] \in {0, job[w]}
      BY <1>1, <1>2, <2>1 DEF Own
    <2>2. ASSUME next \in Cases, next' = next + 1, NEW w \in Workers, job'[w] = next,
                 \A v \in Workers \ {w} : job'[v] = job[v]
          PROVE  Own'
      <3>1. \A v \in Workers \ {w} : job'[v] < next
        BY <2>2 DEF Own
      <3>2. \A u, v \in Workers : job'[u] = job'[v] => u = v \/ job'[u] = 0
        BY <1>1, <2>2, <3>1 DEF Own
      <3>3. \A v \in Workers : job'[v] < next' /\ (job'[v] # 0 => results'[job'[v]] = Zero)
        <4> SUFFICES ASSUME NEW v \in Workers
                     PROVE  job'[v] < next' /\ (job'[v] # 0 => results'[job'[v]] = Zero)
          OBVIOUS
        <4>1. CASE v = w
          <5>1. results[next] = Zero
            BY <1>1, <2>2 DEF Own
          <5>2. job'[w] < next'
            BY <1>1, <2>2
          <5> QED
            BY <1>2, <2>2, <4>1, <5>1, <5>2
        <4>2. CASE v # w
          BY <1>1, <1>2, <2>2, <3>1, <4>2 DEF Own
        <4> QED
          BY <4>1, <4>2
      <3>4. \A i \in Cases : i >= next' => results'[i] = Zero
        BY <1>1, <1>2, <2>2 DEF Own
      <3> QED
        BY <3>2, <3>3, <3>4 DEF Own
    <2> QED
      BY <1>2, <2>1, <2>2, StepHands
  <1>3. CASE \E w \in Workers : \E r : job[w] # 0 /\ Store(w, r) /\ UNCHANGED next
    <2>0. PICK w \in Workers : \E r : job[w] # 0 /\ Store(w, r) /\ UNCHANGED next
      BY <1>3
    <2>1. PICK r : job[w] # 0 /\ Store(w, r) /\ UNCHANGED next
      BY <2>0
    <2>2. /\ job'[w] = 0 /\ \A v \in Workers \ {w} : job'[v] = job[v]
          /\ \A i \in Cases \ {job[w]} : results'[i] = results[i]
      BY <1>1, <2>1 DEF Store
    <2>3. results[job[w]] = Zero /\ \A v \in Workers \ {w} : job[v] # 0 => job[v] # job[w]
      BY <2>1 DEF Own
    <2>4. \A u, v \in Workers : job'[u] = job'[v] => u = v \/ job'[u] = 0
      BY <2>2 DEF Own
    <2>5. \A v \in Workers : job'[v] < next' /\ (job'[v] # 0 => results'[job'[v]] = Zero)
      BY <1>1, <2>1, <2>2, <2>3 DEF Own
    <2>6. \A i \in Cases : i >= next' => results'[i] = Zero
      BY <1>1, <2>1, <2>2 DEF Own
    <2> QED
      BY <2>2, <2>3, <2>4, <2>5, <2>6 DEF Own
  <1> QED
    BY <1>2, <1>3, StepWrites

\* No result is ever overwritten, by any worker of any pool, in a batch that
\* is cancelled or not.
THEOREM SlotWrittenOnce == Spec => WrittenOnce
  <1>1. Init => Own
    BY DEF Init, Own
  <1>2. BatchInv /\ Own /\ [Next]_vars => Own'
    BY OwnKept
  <1>3. BatchInv /\ Own /\ [Next]_vars =>
          [\A i \in Cases : results[i] # Zero => results'[i] = results[i]]_results
    BY OwnKept
  <1> QED
    BY <1>1, <1>2, <1>3, Inductive, PTL DEF Spec, WrittenOnce

-----------------------------------------------------------------------------
(* The tree.                                                               *)
HIDE RunBatchAssumption DEF Cases, AllOutcomes

\* What a worker finds on disk decides which of RunBatch's steps it takes,
\* and every other step of a batch leaves the pool alone.
LEMMA TreeImplementsPool == TreeSpec => Spec
  <1>1. TreeInit => Init
    BY DEF TreeInit
  <1>2. [TreeNext]_<<batchVars, vars>> => [Next]_vars
    <2> SUFFICES ASSUME [TreeNext]_<<batchVars, vars>>
                 PROVE  [Next]_vars
      OBVIOUS
    <2>1. CASE Gengo
      BY <2>1 DEF Gengo, WriteCases, RecordBatteries, WriteManifest, Validate,
                  WriteBatch, WriteComplete
    <2>2. CASE TreeMainStep
      BY <2>2 DEF TreeMainStep, Next
    <2>3. ASSUME NEW w \in Workers, TreeWorkerStep(w)
          PROVE  Next
      BY <2>3 DEF TreeWorkerStep, Reads, BuildsReference, BuildsClone, WorkerStep, Next
    <2>4. CASE Verification
      BY <2>4 DEF Verification, StartVerify, VerifyComplete, VerifyTree, VerifyReport,
                  VerifyStep
    <2>5. CASE Edit \/ Remove \/ EditComplete
      BY <2>5 DEF Edit, Remove, EditComplete, Acts
    <2>6. CASE UNCHANGED <<batchVars, vars>>
      BY <2>6
    <2> QED
      BY <2>1, <2>2, <2>3, <2>4, <2>5, <2>6 DEF TreeNext
  <1> QED
    BY <1>1, <1>2, PTL DEF TreeSpec, Spec


-----------------------------------------------------------------------------
(* The files.  The inductive invariant, in named parts.                    *)

Described  == {"validate", "judge", "complete", "published"}
BatchJson  == <<Root, "batch.json">>
Subject(i) == <<i, "subject.go">>
OfListed   == {"listed", None} \cup Aborted

\* The files are not what manifest.json lists, not what complete.json seals.
Changed  == \E p \in Inputs : tree[p] # manifest[p]
Unsealed == \/ ~complete.there \/ ~complete.bound
            \/ tree[Descriptor] # complete.manifest
            \/ \E p \in Reports : tree[p] # complete.reports[p]

\* The next edit makes a version that nothing has: what is changed stays
\* changed.
Versioned ==
  /\ \A p \in Paths : tree[p] <= edits + 1
  /\ \A p \in Inputs : manifest[p] <= edits + 1
  /\ \A p \in Reports : complete.reports[p] <= edits + 1

\* What a descriptor lists as missing is a stray file or stays missing.
StaysMissing ==
  /\ phase \in Described =>
       \A p \in Inputs : IF p \in Strays THEN manifest[p] = Absent
                         ELSE manifest[p] = Absent => tree[p] = Absent
  /\ complete.there =>
       /\ complete.manifest = Generated
       /\ \A p \in Reports : complete.reports[p] = Absent => tree[p] = Absent

\* When the descriptors and the report are written.
Descriptors ==
  /\ phase \in {"validate", "judge", "complete"} => tree[Descriptor] = Generated
  /\ complete.there \/ verify.at # "none" => phase = "published"
  /\ tree[BatchJson] # Absent => main = "report"

\* Who acted between the descriptors, or after them, left a trace.
Touched ==
  /\ "described" \in touched => phase \in Described \cup {"failed"} /\ Changed
  /\ "completed" \in touched => phase = "published" /\ (Changed \/ Unsealed)

\* As long as nobody did, the builds are of what the manifest lists.
JudgedListed ==
  "described" \notin touched =>
    /\ phase = "judge" => InputsMatch
    /\ \A w \in Workers : seen[w] \in OfListed
    /\ \A i \in Cases : {results[i].ref, results[i].clone} \subseteq OfListed

\* An outcome is of a case whose subject was read.
Named ==
  /\ \A w \in Workers : at[w] \in {"reference", "clone"} => sha[job[w]] # Absent
  /\ \A i \in Cases : results[i].read => sha[i] # Absent
  /\ edits = 0 => \A i \in Cases : sha[i] <= Generated

\* What -verify has found out when it is there.
Verified ==
  /\ verify.at = "tree" /\ "completed" \in touched => Changed \/ ~verify.bound
  /\ verify.at \in {"report", "accepted"} =>
       /\ "described" \notin touched
       /\ verify.legacy \/ "completed" \notin touched
  /\ verify.at = "accepted" /\ OwnReport => \A i \in Cases : sha[i] = manifest[Subject(i)]

\* What gengo leaves when nobody else acts: the files ...
GengoFiles ==
  /\ \A p \in Strays : tree[p] = Absent
  /\ phase \notin {"write", "failed"} =>
       \A p \in Inputs \ Strays :
         tree[p] = Generated \/ (phase = "battery" /\ p[2] = "functions.json")
  /\ phase \notin {"write", "failed"} => tree[<<Root, "manifest.tsv">>] = Generated
  /\ phase \in Described =>
       InputsMatch /\ (BatteryFiles # {} => \A i \in Cases : named[i] = Generated)
  /\ phase = "describe" =>
       (BatteryFiles # {} => \A i \in Cases : named[i] = Generated)

\* ... complete.json, and a -verify that has nothing to refuse.
GengoSeals ==
  /\ touched = {}
  /\ phase = "published" =>
       complete.there /\ complete.bound /\ checkComplete /\ tree[Descriptor] = Generated
  /\ verify.at = "tree" => verify.bound
  /\ verify.at = "refused" => \E i \in Cases : main = "report" /\ results[i] = Unreadable

TreeInv ==
  /\ TreeTypeOK /\ Versioned /\ StaysMissing /\ Descriptors /\ Touched
  /\ JudgedListed /\ Named /\ Verified
  /\ edits = 0 => GengoFiles /\ GengoSeals

USE RunBatchAssumption, BatchTreeAssumption DEF Cases, Absent, Generated, Root

-----------------------------------------------------------------------------
\* Which files are which.
LEMMA Layout ==
  /\ Paths = Inputs \cup Reports \cup {Descriptor}
  /\ Reports \cap Inputs = {} /\ Descriptor \notin Inputs \cup Reports
  /\ Strays \subseteq Inputs /\ <<Root, "stray.go">> \in Strays
  /\ \A p \in Strays : p = <<Root, "stray.go">> \/ \E i \in Cases : p = <<i, "stray.go">>
  /\ BatchJson \in Reports /\ <<Root, "manifest.tsv">> \in Reports
  /\ <<Root, "manifest.tsv">> # BatchJson
  /\ \A i \in Cases : /\ CaseInputs(i) \subseteq Inputs /\ Compiled(i) \subseteq Inputs
                      /\ Subject(i) \in CaseInputs(i) \ Strays /\ Subject(i) \in Compiled(i)
                      /\ \A n \in BatteryFiles : <<i, n>> \in CaseInputs(i) \ Strays
                      /\ <<i, "stray.go">> \in Strays
  <1>0. "subject.go" \in CaseFiles /\ "driver.go" \in CaseFiles /\ BatteryFiles \subseteq CaseFiles
        /\ "stray.go" \notin CaseFiles
    OBVIOUS
  <1>1. \A i \in Cases : i # Root
    OBVIOUS
  <1>7. \A p : p \in Inputs <=> \/ \E i \in Cases : p \in CaseInputs(i)
                               \/ p = <<Root, "go.mod">> \/ p = <<Root, "stray.go">>
    BY DEF Inputs
  <1>8. \A i \in Cases : \A p : p \in CaseInputs(i) <=> \E n \in CaseFiles \cup {"stray.go"} : p = <<i, n>>
    BY Zenon DEF CaseInputs
  <1>9. \A p : p \in Strays <=> (\E i \in Cases : p = <<i, "stray.go">>) \/ p = <<Root, "stray.go">>
    BY DEF Strays
  <1>2. Paths = Inputs \cup Reports \cup {Descriptor}
    BY DEF Paths
  <1>3. Reports \cap Inputs = {} /\ Descriptor \notin Inputs \cup Reports
    <2>1. \A p \in Inputs : \/ \E i \in Cases, n \in CaseFiles \cup {"stray.go"} : p = <<i, n>>
                            \/ p = <<Root, "go.mod">> \/ p = <<Root, "stray.go">>
      BY <1>7, <1>8
    <2> QED
      BY <1>1, <2>1 DEF Reports, Descriptor
  <1>4. /\ Strays \subseteq Inputs /\ <<Root, "stray.go">> \in Strays
        /\ \A p \in Strays : p = <<Root, "stray.go">> \/ \E i \in Cases : p = <<i, "stray.go">>
    BY <1>7, <1>8, <1>9
  <1>5. /\ BatchJson \in Reports /\ <<Root, "manifest.tsv">> \in Reports
        /\ <<Root, "manifest.tsv">> # BatchJson
    BY DEF Reports, BatchJson
  <1>6. ASSUME NEW i \in Cases
        PROVE  /\ CaseInputs(i) \subseteq Inputs /\ Compiled(i) \subseteq Inputs
               /\ Subject(i) \in CaseInputs(i) \ Strays /\ Subject(i) \in Compiled(i)
               /\ \A n \in BatteryFiles : <<i, n>> \in CaseInputs(i) \ Strays
               /\ <<i, "stray.go">> \in Strays
    <2>1. CaseInputs(i) \subseteq Inputs
      BY Zenon DEF Inputs
    <2>2. <<i, "stray.go">> \in Strays
      BY DEF Strays
    <2>3. \A n \in CaseFiles : <<i, n>> \in CaseInputs(i) \ Strays
      <3>1. \A n \in CaseFiles : <<i, n>> \notin Strays
        BY <1>0 DEF Strays
      <3> QED
        BY <3>1 DEF CaseInputs
    <2>4. Compiled(i) \subseteq Inputs
      <3>1. \A p \in Compiled(i) : p \in CaseInputs(i) \/ p = <<Root, "go.mod">>
        BY <1>0, <1>8 DEF Compiled
      <3> QED
        BY <1>7, <3>1
    <2>5. Subject(i) \in Compiled(i)
      BY DEF Compiled, Subject
    <2>6. Subject(i) \in CaseInputs(i) \ Strays
      BY <1>0, <2>3 DEF Subject
    <2>7. \A n \in BatteryFiles : <<i, n>> \in CaseInputs(i) \ Strays
      BY <1>0, <2>3
    <2> HIDE DEF Inputs, CaseInputs, Strays, Compiled, Subject
    <2> QED
      BY <2>1, <2>2, <2>4, <2>5, <2>6, <2>7
  <1> QED
    BY <1>2, <1>3, <1>4, <1>5, <1>6, Zenon

-----------------------------------------------------------------------------
(* gengo, up to the judging.                                               *)

LEMMA WriteCasesKeeps ==
  ASSUME TreeInv, WriteCases
  PROVE  TreeInv'
  <1> USE Layout DEF TreeInv
  <1>1. /\ phase = "write" /\ phase' = "battery" /\ tree' \in [Paths -> Versions]
        /\ UNCHANGED <<manifest, named, complete, sha, edits, touched, verify, vars>>
    BY DEF WriteCases, TreeTypeOK, Versions
  <1>2. /\ \A p \in Strays \cup {Descriptor, BatchJson} : tree'[p] = tree[p]
        /\ \A p \in Paths : tree'[p] = tree[p] \/ tree'[p] = Generated
        /\ \A p \in Inputs \ Strays : tree'[p] = Generated \/ p[2] = "functions.json"
        /\ tree'[<<Root, "manifest.tsv">>] = Generated
    BY DEF WriteCases, BatchJson
  <1>3. TreeTypeOK' /\ Versioned'
    BY <1>1, <1>2 DEF TreeTypeOK, TypeOK, vars, Versioned
  <1>4. StaysMissing' /\ Descriptors' /\ Touched'
    BY <1>1, <1>2 DEF StaysMissing, Descriptors, Touched, Described, vars
  <1>5. JudgedListed' /\ Named' /\ Verified'
    BY <1>1 DEF JudgedListed, Named, Descriptors, Verified, OwnReport, vars
  <1>6. edits' = 0 => GengoFiles' /\ GengoSeals'
    BY <1>1, <1>2 DEF GengoFiles, GengoSeals, Described, Descriptors, vars
  <1> QED
    BY <1>3, <1>4, <1>5, <1>6

LEMMA RecordBatteriesKeeps ==
  ASSUME TreeInv, RecordBatteries
  PROVE  TreeInv'
  <1> USE Layout DEF TreeInv
  <1>1. /\ phase = "battery" /\ phase' \in {"describe", "failed"}
        /\ phase' = "failed" => UNCHANGED <<tree, named>>
        /\ UNCHANGED <<manifest, complete, sha, edits, touched, verify, vars>>
    BY DEF RecordBatteries
  <1>2. CASE phase' = "describe"
    <2>1. /\ tree' = [p \in Paths |-> IF p[2] = "functions.json" THEN Generated ELSE tree[p]]
          /\ named' = [i \in Cases |-> IF BatteryFiles = {} THEN Absent
                                       ELSE tree[<<i, "battery/functions.go">>]]
      BY <1>2 DEF RecordBatteries
    <2>2. tree' \in [Paths -> Versions] /\ \A p \in Paths : tree'[p] \in {tree[p], Generated}
      BY <2>1 DEF TreeTypeOK, Versions
    <2>3. \A i \in Cases : BatteryFiles # {} =>
            /\ <<i, "battery/functions.go">> \in Inputs \ Strays
            /\ named'[i] = tree[<<i, "battery/functions.go">>]
            /\ named'[i] \in Versions
      BY <2>1 DEF TreeTypeOK
    <2>4. named' \in [Cases -> Versions]
      BY <2>1, <2>3 DEF TreeTypeOK, Versions
    <2>5. \A p \in Strays \cup {Descriptor, BatchJson, <<Root, "manifest.tsv">>} : tree'[p] = tree[p]
      BY <2>1 DEF BatchJson, Descriptor
    <2>6. TreeTypeOK' /\ Versioned'
      <3>1. TypeOK' /\ edits \in Nat
        BY <1>1 DEF TreeTypeOK, TypeOK, vars
      <3>2. Versioned'
        BY <1>1, <2>2, <3>1 DEF Versioned
      <3> QED
        BY <1>1, <1>2, <2>2, <2>4, <3>1, <3>2 DEF TreeTypeOK
    <2>7. StaysMissing' /\ Descriptors' /\ Touched'
      BY <1>1, <1>2, <2>5 DEF StaysMissing, Descriptors, Touched, Described, vars
    <2>8. JudgedListed' /\ Named' /\ Verified'
      BY <1>1, <1>2 DEF JudgedListed, Named, Descriptors, Verified, OwnReport, vars
    <2>9. edits' = 0 => GengoFiles' /\ GengoSeals'
      <3> SUFFICES ASSUME edits = 0
                   PROVE  GengoFiles' /\ GengoSeals'
        BY <1>1
      <3>1. \A p \in Inputs \ Strays : tree'[p] = Generated
        BY <1>1, <2>1 DEF GengoFiles
      <3>2. BatteryFiles # {} => \A i \in Cases : named'[i] = Generated
        <4> SUFFICES ASSUME BatteryFiles # {}, NEW i \in Cases
                     PROVE  named'[i] = Generated
          OBVIOUS
        <4>1. <<i, "battery/functions.go">>[2] # "functions.json"
          OBVIOUS
        <4> QED
          BY <1>1, <2>3, <4>1 DEF GengoFiles
      <3> QED
        BY <1>1, <1>2, <2>5, <3>1, <3>2 DEF GengoFiles, GengoSeals, Described, Descriptors, vars
    <2> QED
      BY <2>6, <2>7, <2>8, <2>9
  <1>3. CASE phase' = "failed"
    <2>1. UNCHANGED <<tree, named>>
      BY <1>1, <1>3
    <2>2. TreeTypeOK' /\ Versioned'
      <3>1. TypeOK'
        BY <1>1 DEF TreeTypeOK, TypeOK, vars
      <3> QED
        BY <1>1, <1>3, <2>1, <3>1 DEF TreeTypeOK, Versioned
    <2>3. StaysMissing' /\ Descriptors' /\ Touched'
      BY <1>1, <1>3, <2>1 DEF StaysMissing, Descriptors, Touched, Described, Changed, Unsealed, vars
    <2>4. JudgedListed' /\ Named' /\ Verified'
      BY <1>1, <1>3, <2>1 DEF JudgedListed, Named, Descriptors, Verified, OwnReport, vars
    <2>5. edits' = 0 => GengoFiles' /\ GengoSeals'
      BY <1>1, <1>3, <2>1 DEF GengoFiles, GengoSeals, Described, Descriptors, vars
    <2> QED
      BY <2>2, <2>3, <2>4, <2>5
  <1> QED
    BY <1>1, <1>2, <1>3

LEMMA WriteManifestKeeps ==
  ASSUME TreeInv, WriteManifest
  PROVE  TreeInv'
  <1> USE Layout DEF TreeInv
  <1>1. /\ phase = "describe" /\ phase' \in {"validate", "complete", "failed"}
        /\ phase' = "failed" => UNCHANGED <<tree, manifest>>
        /\ UNCHANGED <<named, complete, sha, edits, touched, verify, vars>>
    BY DEF WriteManifest
  <1>2. TypeOK'
    BY <1>1 DEF TreeTypeOK, TypeOK, vars
  <1>3. CASE phase' # "failed"
    <2>1. /\ \A i \in Cases : tree[<<i, "stray.go">>] = Absent
          /\ manifest' = [p \in Inputs |-> IF p = <<Root, "stray.go">> THEN Absent ELSE tree[p]]
          /\ tree' = [tree EXCEPT ![Descriptor] = Generated]
      BY <1>1, <1>3 DEF WriteManifest, Put
    <2>2. /\ tree' \in [Paths -> Versions] /\ manifest' \in [Inputs -> Versions]
          /\ tree'[Descriptor] = Generated
          /\ \A p \in Inputs \cup Reports : tree'[p] = tree[p]
      BY <2>1 DEF TreeTypeOK, Versions
    <2>3. /\ \A p \in Strays : manifest'[p] = Absent
          /\ \A p \in Inputs \ Strays : manifest'[p] = tree[p]
      BY <2>1
    <2>4. TreeTypeOK'
      BY <1>1, <1>2, <2>2 DEF TreeTypeOK
    <2>5. Versioned'
      <3>1. edits \in Nat
        BY DEF TreeTypeOK
      <3>2. \A p \in Paths : tree'[p] <= edits + 1
        BY <2>2, <3>1 DEF Versioned
      <3>3. \A p \in Inputs : manifest'[p] <= edits + 1
        BY <2>3, <3>1 DEF Versioned
      <3> QED
        BY <1>1, <3>2, <3>3 DEF Versioned
    <2>6. StaysMissing' /\ Descriptors' /\ Touched'
      BY <1>1, <2>2, <2>3 DEF StaysMissing, Descriptors, Touched, Described, vars
    <2>7. JudgedListed' /\ Named' /\ Verified'
      BY <1>1 DEF JudgedListed, Named, Descriptors, Verified, OwnReport, vars
    <2>8. edits' = 0 => GengoFiles' /\ GengoSeals'
      BY <1>1, <2>2, <2>3 DEF GengoFiles, GengoSeals, Described, Descriptors, InputsMatch, vars
    <2> QED
      BY <2>4, <2>5, <2>6, <2>7, <2>8
  <1>4. CASE phase' = "failed"
    <2>1. UNCHANGED <<tree, manifest>>
      BY <1>1, <1>4
    <2>2. TreeTypeOK' /\ Versioned'
      BY <1>1, <1>2, <2>1 DEF TreeTypeOK, Versioned
    <2>3. StaysMissing' /\ Descriptors' /\ Touched'
      BY <1>1, <1>4, <2>1 DEF StaysMissing, Descriptors, Touched, Described, vars
    <2>4. JudgedListed' /\ Named' /\ Verified'
      BY <1>1, <1>4 DEF JudgedListed, Named, Descriptors, Verified, OwnReport, vars
    <2>5. edits' = 0 => GengoFiles' /\ GengoSeals'
      BY <1>1, <1>4, <2>1 DEF GengoFiles, GengoSeals, Described, Descriptors, vars
    <2> QED
      BY <2>2, <2>3, <2>4, <2>5
  <1> QED
    BY <1>3, <1>4

LEMMA ValidateKeeps ==
  ASSUME TreeInv, Validate
  PROVE  TreeInv'
  <1> USE Layout DEF TreeInv
  <1>1. /\ phase = "validate" /\ phase' \in {"judge", "failed"}
        /\ UNCHANGED <<files, sha, edits, touched, verify, vars>>
    BY DEF Validate
  <1>2. phase' = "judge" => InputsMatch
    BY DEF Validate, ValidateBatch, Valid
  <1>3. TypeOK'
    BY <1>1 DEF TreeTypeOK, TypeOK, vars
  <1>4. TreeTypeOK' /\ Versioned'
    BY <1>1, <1>3 DEF TreeTypeOK, Versioned, files
  <1>5. StaysMissing' /\ Descriptors' /\ Touched'
    BY <1>1 DEF StaysMissing, Descriptors, Touched, Described, Changed, files, vars
  <1>6. JudgedListed' /\ Named' /\ Verified'
    BY <1>1, <1>2 DEF JudgedListed, Named, Descriptors, Verified, OwnReport, InputsMatch, files, vars
  <1>7. edits' = 0 => GengoFiles' /\ GengoSeals'
    BY <1>1 DEF GengoFiles, GengoSeals, Described, Descriptors, InputsMatch, files, vars
  <1> QED
    BY <1>4, <1>5, <1>6, <1>7

-----------------------------------------------------------------------------
(* The judging.                                                            *)

\* The pool changes nothing on disk.
LEMMA JudgingKeeps ==
  ASSUME TreeInv, TypeOK', phase = "judge",
         UNCHANGED <<phase, files, edits, touched, verify>>,
         sha' \in [Cases -> Versions],
         edits = 0 => \A i \in Cases : sha'[i] <= Generated,
         main # "report",
         JudgedListed', Named'
  PROVE  TreeInv'
  <1> USE DEF TreeInv
  <1>1. TreeTypeOK' /\ Versioned'
    BY DEF TreeTypeOK, Versioned, files
  <1>2. StaysMissing' /\ Descriptors' /\ Touched'
    BY DEF StaysMissing, Descriptors, Touched, Described, Changed, files
  <1>3. Verified'
    BY DEF Descriptors, Verified
  <1>4. edits' = 0 => GengoFiles' /\ GengoSeals'
    BY DEF GengoFiles, GengoSeals, Described, Descriptors, InputsMatch, files
  <1> QED
    BY <1>1, <1>2, <1>3, <1>4

\* As long as nobody touched the described files a build is of the program
\* that the manifest lists.
LEMMA BuildsListed ==
  ASSUME InputsMatch, NEW i \in Cases
  PROVE  OutcomeNow(i) \subseteq OfListed
  <1>1. \A p \in Compiled(i) : tree[p] = manifest[p]
    BY Layout DEF InputsMatch
  <1> QED
    BY <1>1 DEF OutcomeNow, OfListed

\* What a worker stores: its slot, and nothing else, and it holds nothing.
LEMMA StoreStores ==
  ASSUME TypeOK, NEW w \in Workers, NEW r, Store(w, r), job[w] \in Cases
  PROVE  /\ results'[job[w]] = r /\ seen'[w] = None /\ at'[w] = "receive"
         /\ \A i \in Cases \ {job[w]} : results'[i] = results[i]
         /\ \A v \in Workers \ {w} : seen'[v] = seen[v] /\ at'[v] = at[v] /\ job'[v] = job[v]
  BY DEF Store, TypeOK

LEMMA StoreKeepsListed ==
  ASSUME TypeOK, NEW w \in Workers, NEW r, Store(w, r), job[w] \in Cases,
         JudgedListed, Named, InputsMatch <=> InputsMatch',
         UNCHANGED <<phase, touched, sha, edits>>,
         "described" \notin touched => {r.ref, r.clone} \subseteq OfListed,
         r.read => sha[job[w]] # Absent
  PROVE  JudgedListed' /\ Named'
  <1>1. /\ results'[job[w]] = r /\ seen'[w] = None /\ at'[w] = "receive"
        /\ \A i \in Cases \ {job[w]} : results'[i] = results[i]
        /\ \A v \in Workers \ {w} : seen'[v] = seen[v] /\ at'[v] = at[v] /\ job'[v] = job[v]
    BY StoreStores
  <1>2. None \in OfListed
    BY DEF OfListed
  <1>3. JudgedListed'
    BY <1>1, <1>2 DEF JudgedListed
  <1>4. Named'
    BY <1>1 DEF Named
  <1> QED
    BY <1>3, <1>4

LEMMA WorkerKeeps ==
  ASSUME TreeInv, BatchInv, TypeOK', NEW w \in Workers, TreeWorkerStep(w)
  PROVE  TreeInv'
  <1>1. /\ phase = "judge" /\ UNCHANGED <<phase, files, edits, touched, verify>>
        /\ sha \in [Cases -> Versions] /\ edits \in Nat
    BY DEF TreeWorkerStep, TreeInv, TreeTypeOK
  <1>2. TypeOK /\ Held(w) /\ JudgedListed /\ Named
    BY DEF BatchInv, TreeInv
  <1>3. at[w] # "done"
    BY <1>2 DEF TreeWorkerStep, Skip, Begin, Leave, Reads, ReadSubject, BuildsReference,
                RunReference, BuildsClone, RunClone
  <1>4. main # "report"
    BY <1>2, <1>3 DEF Held
  <1>5. at[w] \in {"check", "read", "reference", "clone"} => job[w] \in Cases
    BY <1>2 DEF Held, TypeOK
  <1>11. \A v \in Workers : at[v] \in {"reference", "clone"} => job[v] \in Cases
    BY <1>2 DEF BatchInv, Held, TypeOK
  <1>6. InputsMatch <=> InputsMatch'
    BY <1>1 DEF InputsMatch, files
  <1> USE DEF TypeOK
  <1>7. CASE (Skip(w) \/ Begin(w) \/ Leave(w)) /\ UNCHANGED sha
    <2>1. /\ UNCHANGED <<seen, results, sha>> /\ at'[w] \in {"receive", "read", "done"}
          /\ \A v \in Workers \ {w} : at'[v] = at[v] /\ job'[v] = job[v]
      BY <1>2, <1>7 DEF Skip, Begin, Leave
    <2>2. JudgedListed' /\ Named'
      BY <1>1, <1>2, <1>6, <2>1 DEF JudgedListed, Named
    <2> QED
      BY <1>1, <1>2, <1>4, <2>1, <2>2, JudgingKeeps DEF Named
  <1>8. CASE Reads(w)
    <2> DEFINE p == <<job[w], "subject.go">>
    <2>1. job[w] \in Cases /\ at[w] = "read"
      BY <1>5, <1>8 DEF Reads, ReadSubject
    <2>2. p \in Paths /\ tree[p] \in Versions /\ tree[p] <= edits + 1
      BY <2>1, Layout DEF TreeInv, TreeTypeOK, Versioned, Subject
    <2>3. CASE at'[w] = "reference"
      <3>1. /\ at' = [at EXCEPT ![w] = "reference"] /\ UNCHANGED <<job, seen, results>>
            /\ sha' = [sha EXCEPT ![job[w]] = tree[p]] /\ tree[p] # Absent
        BY <1>2, <1>8, <2>1, <2>3, StoreStores DEF Reads, ReadSubject
      <3>2. sha' \in [Cases -> Versions]
        BY <1>1, <2>2, <3>1
      <3>3. /\ sha'[job[w]] = tree[p]
            /\ \A i \in Cases \ {job[w]} : sha'[i] = sha[i]
            /\ \A v \in Workers \ {w} : at'[v] = at[v]
        BY <1>1, <1>2, <2>1, <3>1
      <3>4. edits = 0 => \A i \in Cases : sha'[i] <= Generated
        BY <1>2, <2>2, <3>3 DEF Named
      <3>5. Named'
        BY <1>1, <1>2, <1>11, <2>1, <2>2, <3>1, <3>3, <3>4 DEF Named
      <3>6. JudgedListed'
        BY <1>1, <1>2, <1>6, <3>1 DEF JudgedListed
      <3> QED
        BY <1>1, <1>4, <3>2, <3>4, <3>5, <3>6, JudgingKeeps
    <2>4. CASE at'[w] # "reference"
      <3>1. Store(w, Unreadable) /\ UNCHANGED sha
        BY <1>2, <1>8, <2>4 DEF Reads, ReadSubject
      <3>2. Unreadable.ref = None /\ Unreadable.clone = None /\ Unreadable.read = FALSE
        BY DEF Unreadable, Zero
      <3>3. JudgedListed' /\ Named'
        BY <1>1, <1>2, <1>6, <2>1, <3>1, <3>2, StoreKeepsListed DEF OfListed
      <3> QED
        BY <1>1, <1>2, <1>4, <3>1, <3>3, JudgingKeeps DEF Named
    <2> QED
      BY <2>3, <2>4
  <1>9. CASE BuildsReference(w)
    <2>1. job[w] \in Cases /\ at[w] = "reference" /\ UNCHANGED sha /\ sha[job[w]] # Absent
      BY <1>2, <1>5, <1>9 DEF BuildsReference, RunReference, Named
    <2>2. InputsMatch => OutcomeNow(job[w]) \subseteq OfListed
      BY <2>1, BuildsListed
    <2>3. CASE HasClone
      <3>1. /\ UNCHANGED <<job, results>> /\ at' = [at EXCEPT ![w] = "clone"]
            /\ seen'[w] \in OutcomeNow(job[w]) /\ \E o : seen' = [seen EXCEPT ![w] = o]
        BY <1>9, <2>3 DEF BuildsReference, RunReference
      <3>2. \A v \in Workers \ {w} : at'[v] = at[v] /\ seen'[v] = seen[v]
        BY <1>2, <3>1
      <3>3. JudgedListed'
        BY <1>1, <1>2, <1>6, <2>2, <3>1, <3>2 DEF JudgedListed
      <3>4. Named'
        BY <1>1, <1>2, <2>1, <3>1, <3>2 DEF Named
      <3> QED
        BY <1>1, <1>2, <1>4, <2>1, <3>3, <3>4, JudgingKeeps DEF Named
    <2>4. CASE ~HasClone
      <3>1. PICK o : Store(w, Result(o, None)) /\ results'[job[w]].ref \in OutcomeNow(job[w])
        BY <1>9, <2>4 DEF BuildsReference, RunReference
      <3>2. Result(o, None).clone = None /\ results'[job[w]] = Result(o, None)
        BY <1>2, <2>1, <3>1 DEF Result, Store
      <3>3. "described" \notin touched =>
              {Result(o, None).ref, Result(o, None).clone} \subseteq OfListed
        BY <1>1, <1>2, <2>2, <3>1, <3>2 DEF JudgedListed, OfListed
      <3>4. JudgedListed' /\ Named'
        BY <1>1, <1>2, <1>6, <2>1, <3>1, <3>3, StoreKeepsListed
      <3> QED
        BY <1>1, <1>2, <1>4, <2>1, <3>4, JudgingKeeps DEF Named
    <2> QED
      BY <2>3, <2>4
  <1>10. CASE BuildsClone(w)
    <2>1. job[w] \in Cases /\ at[w] = "clone" /\ UNCHANGED sha /\ sha[job[w]] # Absent
      BY <1>2, <1>5, <1>10 DEF BuildsClone, RunClone, Named
    <2>2. InputsMatch => OutcomeNow(job[w]) \subseteq OfListed
      BY <2>1, BuildsListed
    <2>3. PICK o : Store(w, Result(seen[w], o)) /\ results'[job[w]].clone \in OutcomeNow(job[w])
      BY <1>10 DEF BuildsClone, RunClone
    <2>4. Result(seen[w], o).ref = seen[w] /\ results'[job[w]] = Result(seen[w], o)
      BY <1>2, <2>1, <2>3 DEF Result, Store
    <2>5. "described" \notin touched =>
            {Result(seen[w], o).ref, Result(seen[w], o).clone} \subseteq OfListed
      BY <1>1, <1>2, <2>2, <2>3, <2>4 DEF JudgedListed
    <2>6. JudgedListed' /\ Named'
      BY <1>1, <1>2, <1>6, <2>1, <2>3, <2>5, StoreKeepsListed
    <2> QED
      BY <1>1, <1>2, <1>4, <2>1, <2>6, JudgingKeeps DEF Named
  <1> QED
    BY <1>7, <1>8, <1>9, <1>10 DEF TreeWorkerStep

LEMMA MainKeeps ==
  ASSUME TreeInv, BatchInv, TypeOK', TreeMainStep
  PROVE  TreeInv'
  <1>1. /\ phase = "judge" /\ UNCHANGED <<phase, files, sha, edits, touched, verify>>
        /\ MainStep \/ Cancel
    BY DEF TreeMainStep, batchVars, files
  <1>2. main # "report" /\ UNCHANGED <<seen, results>>
    BY <1>1 DEF MainStep, Send, Close, Wait, Return, Cancel
  <1>3. \A v \in Workers : (at'[v] = at[v] /\ job'[v] = job[v]) \/ at'[v] = "check"
    BY <1>1 DEF MainStep, Send, Close, Wait, Return, Cancel, BatchInv, TypeOK
  <1>4. JudgedListed' /\ Named'
    BY <1>1, <1>2, <1>3 DEF TreeInv, JudgedListed, Named, InputsMatch, files
  <1> QED
    BY <1>1, <1>2, <1>4, JudgingKeeps DEF TreeInv, TreeTypeOK, Named

LEMMA WriteBatchKeeps ==
  ASSUME TreeInv, WriteBatch
  PROVE  TreeInv'
  <1> USE Layout DEF TreeInv
  <1>1. /\ phase = "judge" /\ phase' \in {"complete", "failed"}
        /\ UNCHANGED <<manifest, named, complete, sha, edits, touched, verify, vars>>
    BY DEF WriteBatch
  <1>2. TypeOK' /\ edits \in Nat
    BY <1>1 DEF TreeTypeOK, TypeOK, vars
  <1>10. \/ phase' = "failed" /\ tree' = tree
         \/ phase' = "complete" /\ main = "report" /\ tree' = [tree EXCEPT ![BatchJson] = Generated]
    BY DEF WriteBatch, Put, BatchJson
  <1>3. /\ tree' \in [Paths -> Versions]
        /\ phase' = "complete" => main = "report" /\ tree'[BatchJson] = Generated
        /\ phase' = "failed" => tree' = tree
        /\ \A p \in Paths \ {BatchJson} : tree'[p] = tree[p]
        /\ tree'[BatchJson] \in {tree[BatchJson], Generated}
    <2>1. tree \in [Paths -> Versions] /\ BatchJson \in Paths /\ 1 \in Versions
      BY DEF TreeTypeOK, Versions
    <2> QED
      BY <1>1, <1>10, <2>1
  <1>4. TreeTypeOK'
    BY <1>1, <1>2, <1>3 DEF TreeTypeOK
  <1>5. Versioned'
    BY <1>1, <1>2, <1>3 DEF Versioned
  <1>6. StaysMissing' /\ Touched'
    BY <1>1, <1>3 DEF StaysMissing, Touched, Described, Changed, Descriptors
  <1>7. Descriptors'
    BY <1>1, <1>3 DEF Descriptors, vars
  <1>8. JudgedListed' /\ Named' /\ Verified'
    BY <1>1 DEF JudgedListed, Named, Descriptors, Verified, OwnReport, vars
  <1>9. edits' = 0 => GengoFiles' /\ GengoSeals'
    BY <1>1, <1>3 DEF GengoFiles, GengoSeals, Described, Descriptors, InputsMatch, vars
  <1> QED
    BY <1>4, <1>5, <1>6, <1>7, <1>8, <1>9

LEMMA WriteCompleteKeeps ==
  ASSUME TreeInv, WriteComplete
  PROVE  TreeInv'
  <1> USE Layout DEF TreeInv
  <1>1. /\ phase = "complete" /\ phase' = "published"
        /\ UNCHANGED <<tree, manifest, named, sha, edits, touched, verify, vars>>
    BY DEF WriteComplete
  <1>2. /\ complete'.there = TRUE /\ complete'.manifest = Generated
        /\ complete'.bound = (\E p \in Reports : tree[p] # Absent)
        /\ \A p \in Reports : complete'.reports[p] = tree[p]
        /\ complete' \in [there : BOOLEAN, manifest : Versions, bound : BOOLEAN,
                          reports : [Reports -> Versions]]
    BY <1>1 DEF WriteComplete, TreeTypeOK, Descriptors, Versions
  <1>3. TypeOK' /\ edits \in Nat
    BY <1>1 DEF TreeTypeOK, TypeOK, vars
  <1>4. TreeTypeOK'
    BY <1>1, <1>2, <1>3 DEF TreeTypeOK
  <1>5. Versioned'
    BY <1>1, <1>2, <1>3 DEF Versioned
  <1>6. StaysMissing' /\ Touched'
    BY <1>1, <1>2 DEF StaysMissing, Touched, Described, Changed, Descriptors
  <1>7. Descriptors'
    BY <1>1 DEF Descriptors, vars
  <1>8. JudgedListed' /\ Named' /\ Verified'
    BY <1>1 DEF JudgedListed, Named, Descriptors, Verified, OwnReport, vars
  <1>9. edits' = 0 => GengoFiles'
    BY <1>1 DEF GengoFiles, Described, InputsMatch
  <1>10. edits' = 0 => GengoSeals'
    BY <1>1, <1>2 DEF GengoFiles, GengoSeals, Descriptors, checkComplete
  <1> QED
    BY <1>4, <1>5, <1>6, <1>7, <1>8, <1>9, <1>10

-----------------------------------------------------------------------------
(* gengo -verify.                                                          *)

\* -verify changes nothing but what it has found out.
LEMMA VerifyingKeeps ==
  ASSUME TreeInv, UNCHANGED <<phase, files, sha, edits, touched, vars>>,
         verify' \in [at : {"none", "complete", "tree", "report", "accepted", "refused"},
                      legacy : BOOLEAN, bound : BOOLEAN],
         phase = "published", Verified',
         edits = 0 => /\ verify'.at = "tree" => verify'.bound
                      /\ verify'.at = "refused" =>
                           \E i \in Cases : main = "report" /\ results[i] = Unreadable
  PROVE  TreeInv'
  <1> USE DEF TreeInv
  <1>1. TypeOK'
    BY DEF TreeTypeOK, TypeOK, vars
  <1>2. TreeTypeOK' /\ Versioned'
    BY <1>1 DEF TreeTypeOK, Versioned, files
  <1>3. StaysMissing' /\ Descriptors' /\ Touched'
    BY DEF StaysMissing, Descriptors, Touched, Described, Changed, Unsealed, files, vars
  <1>4. JudgedListed' /\ Named'
    BY DEF JudgedListed, Named, InputsMatch, files, vars
  <1>5. edits' = 0 => GengoFiles' /\ GengoSeals'
    BY DEF GengoFiles, GengoSeals, Described, InputsMatch, checkComplete, files, vars
  <1> QED
    BY <1>2, <1>3, <1>4, <1>5

\* What gengo wrote, and nobody else touched, is valid.
LEMMA GengoIsValid ==
  ASSUME TreeTypeOK, phase = "published", GengoFiles, GengoSeals
  PROVE  Valid /\ ~Edited /\ \A i \in Cases : manifest[Subject(i)] = Generated
  <1>1. \A p \in Inputs \ Strays : tree[p] = Generated /\ manifest[p] = Generated
    BY DEF GengoFiles, Described, InputsMatch
  <1>2. \A i \in Cases : /\ Subject(i) \in CaseInputs(i) /\ manifest[Subject(i)] = Generated
                         /\ \A n \in BatteryFiles : /\ manifest[<<i, n>>] = Generated
                                                    /\ tree[<<i, n>>] = Generated
    BY <1>1, Layout
  <1>3. ReadManifest
    BY <1>2 DEF ReadManifest, batteryComplete, GengoSeals
  <1>4. ASSUME NEW i \in Cases, BatteryFiles # {}
        PROVE  checkFunctionsDoc(i) /\ tree[<<i, "functions.json">>] = Generated
    <2>1. "battery/functions.go" \in BatteryFiles /\ "functions.json" \in BatteryFiles
      BY <1>4
    <2> QED
      BY <1>2, <1>4, <2>1 DEF checkFunctionsDoc, GengoFiles, Described
  <1>5. Valid
    BY <1>3, <1>4 DEF Valid, GengoFiles, GengoSeals, Described
  <1>6. ~Edited
    <2>1. \A i \in Cases : BatteryFiles # {} => tree[<<i, "functions.json">>] = 1
      BY <1>4
    <2>2. tree[Descriptor] = 1
      BY DEF GengoSeals
    <2>3. ~(1 > 1)
      OBVIOUS
    <2> QED
      BY <2>1, <2>2, <2>3, Zenon DEF Edited
  <1> QED
    BY <1>2, <1>5, <1>6

LEMMA VerificationKeeps ==
  ASSUME TreeInv, BatchInv, Verification
  PROVE  TreeInv'
  <1> USE DEF TreeInv
  <1>1. /\ UNCHANGED <<phase, files, sha, edits, touched, vars>>
        /\ Changed <=> Changed'
        /\ OwnReport <=> OwnReport'
    BY DEF Verification, StartVerify, VerifyComplete, VerifyTree, VerifyReport, VerifyStep,
           Changed, OwnReport, files
  <1>2. /\ verify \in [at : {"none", "complete", "tree", "report", "accepted", "refused"},
                       legacy : BOOLEAN, bound : BOOLEAN]
        /\ complete.bound \in BOOLEAN
    BY DEF TreeTypeOK
  <1>3. CASE StartVerify
    <2>1. phase = "published" /\ verify'.at = "complete"
      BY <1>2, <1>3 DEF StartVerify
    <2>2. verify' \in [at : {"none", "complete", "tree", "report", "accepted", "refused"},
                       legacy : BOOLEAN, bound : BOOLEAN]
      BY <1>2, <1>3 DEF StartVerify
    <2>3. Verified'
      BY <2>1 DEF Verified
    <2> QED
      BY <1>1, <2>1, <2>2, <2>3, VerifyingKeeps
  <1>4. CASE VerifyComplete
    <2>1. /\ verify.at = "complete" /\ phase = "published"
          /\ verify'.at = IF complete.there /\ checkComplete THEN "tree" ELSE "refused"
          /\ verify'.bound = complete.bound
      BY <1>2, <1>4 DEF VerifyComplete, Descriptors
    <2>2. verify' \in [at : {"none", "complete", "tree", "report", "accepted", "refused"},
                       legacy : BOOLEAN, bound : BOOLEAN]
      BY <1>2, <1>4 DEF VerifyComplete
    <2>3. Verified'
      BY <1>1, <2>1 DEF Verified, Touched, Unsealed, checkComplete
    <2>4. edits = 0 => complete.there /\ checkComplete /\ complete.bound
      BY <2>1 DEF GengoSeals
    <2> QED
      BY <1>1, <2>1, <2>2, <2>3, <2>4, VerifyingKeeps
  <1>5. CASE VerifyTree
    <2>1. PICK ok \in ValidateBatch :
            /\ verify.at = "tree" /\ phase = "published"
            /\ verify' = [verify EXCEPT !.at =
                            IF ok /\ (verify.bound \/ verify.legacy) THEN "report" ELSE "refused"]
      BY <1>5 DEF VerifyTree, VerifyStep, Descriptors
    <2>2. /\ verify'.at = IF ok /\ (verify.bound \/ verify.legacy) THEN "report" ELSE "refused"
          /\ verify'.legacy = verify.legacy /\ verify'.bound = verify.bound
          /\ verify' \in [at : {"none", "complete", "tree", "report", "accepted", "refused"},
                          legacy : BOOLEAN, bound : BOOLEAN]
      BY <1>2, <2>1
    <2>3. ok => ~Changed
      BY DEF ValidateBatch, Valid, InputsMatch, Changed
    <2>4. Verified'
      BY <1>1, <2>1, <2>2, <2>3 DEF Verified, Touched
    <2>5. edits = 0 => ok /\ verify.bound
      BY <2>1, GengoIsValid DEF ValidateBatch, GengoSeals
    <2> QED
      BY <1>1, <2>1, <2>2, <2>4, <2>5, VerifyingKeeps
  <1>6. CASE VerifyReport
    <2>1. PICK end \in {"accepted", "refused"} :
            /\ verify.at = "report" /\ phase = "published"
            /\ verify' = [verify EXCEPT !.at = end]
            /\ tree[BatchJson] = Absent => end = "accepted"
            /\ tree[BatchJson] = Generated /\ tree[Descriptor] = Generated /\ ReadManifest =>
                 (end = "accepted" <=>
                    \A i \in Cases : sha[i] # Absent /\ sha[i] = manifest[Subject(i)])
            /\ tree[BatchJson] = Generated /\ ~ReadManifest => end = "refused"
      BY <1>6 DEF VerifyReport, VerifyStep, Descriptors, BatchJson, Subject
    <2>2. /\ verify'.at = end /\ verify'.legacy = verify.legacy
          /\ verify' \in [at : {"none", "complete", "tree", "report", "accepted", "refused"},
                          legacy : BOOLEAN, bound : BOOLEAN]
      BY <1>2, <2>1
    <2>3. end = "accepted" /\ OwnReport => \A i \in Cases : sha[i] = manifest[Subject(i)]
      BY <2>1 DEF OwnReport, BatchJson
    <2>4. Verified'
      BY <1>1, <2>1, <2>2, <2>3 DEF Verified, files
    <2>5. ASSUME edits = 0, end = "refused"
          PROVE  \E i \in Cases : main = "report" /\ results[i] = Unreadable
      <3>1. ReadManifest /\ tree[Descriptor] = Generated
            /\ \A i \in Cases : manifest[Subject(i)] = Generated
        BY <2>1, <2>5, GengoIsValid DEF Valid, GengoSeals
      <3>2. tree[BatchJson] = Generated /\ main = "report"
        <4>1. tree[BatchJson] # Absent
          BY <2>1, <2>5
        <4>2. BatchJson \in Paths
          BY Layout
        <4>3. tree[BatchJson] <= 1 /\ tree[BatchJson] \in Versions
          BY <2>5, <4>2 DEF Versioned, TreeTypeOK
        <4> QED
          BY <4>1, <4>3 DEF Descriptors, Versions
      <3>3. PICK i \in Cases : ~(sha[i] # Absent /\ sha[i] = Generated)
        BY <2>1, <2>5, <3>1, <3>2
      <3>4. sha[i] \in Versions /\ sha[i] <= Generated
        BY <2>5 DEF TreeTypeOK, Named
      <3>5. ~results[i].read
        BY <3>3, <3>4 DEF Versions, Named
      <3>6. Slot(i) /\ Complete(i)
        BY <3>2 DEF BatchInv, Slot, Held, TypeOK
      <3>7. \A r, c : Result(r, c).read = TRUE
        BY DEF Result
      <3> QED
        BY <3>2, <3>5, <3>6, <3>7 DEF Complete
    <2> QED
      BY <1>1, <2>1, <2>2, <2>4, <2>5, VerifyingKeeps
  <1> QED
    BY <1>3, <1>4, <1>5, <1>6 DEF Verification

-----------------------------------------------------------------------------
(* The other writer.                                                       *)

\* An edited file differs from what any descriptor lists for it.
LEMMA EditShows ==
  ASSUME TreeInv, NEW p \in Editable, NEW v \in Versions, Put(p, v),
         tree[p] # Absent \/ p \in Strays,
         v = edits + 2 \/ (v = Absent /\ p \notin Strays),
         UNCHANGED <<phase, manifest, complete>>
  PROVE  /\ p \in Paths /\ tree' \in [Paths -> Versions]
         /\ \A q \in Paths \ {p} : tree'[q] = tree[q]
         /\ tree'[p] = v /\ (p \in Inputs \/ complete.there)
         /\ phase \in Described /\ p \in Inputs => tree'[p] # manifest[p]
         /\ complete.there /\ p \in Reports => tree'[p] # complete.reports[p]
         /\ complete.there /\ p = Descriptor => tree'[p] # complete.manifest
  <1> USE Layout DEF TreeInv
  <1>1. p \in Paths /\ (p \in Inputs \/ complete.there)
    BY DEF Editable
  <1>2. /\ tree' \in [Paths -> Versions] /\ tree'[p] = v
        /\ \A q \in Paths \ {p} : tree'[q] = tree[q]
    BY <1>1 DEF Put, TreeTypeOK
  <1>3. edits \in Nat /\ (p \in Inputs => manifest[p] \in Versions)
    BY DEF TreeTypeOK
  <1>4. ASSUME phase \in Described, p \in Inputs
        PROVE  tree'[p] # manifest[p]
    BY <1>2, <1>3, <1>4 DEF StaysMissing, Versioned, Versions
  <1>5. ASSUME complete.there, p \in Reports
        PROVE  tree'[p] # complete.reports[p]
    <2>1. complete.reports[p] \in Versions /\ complete.reports[p] <= edits + 1
      BY <1>5 DEF TreeTypeOK, Versioned
    <2>2. p \notin Strays
      BY <1>5
    <2> QED
      BY <1>2, <1>3, <1>5, <2>1, <2>2 DEF StaysMissing, Versions
  <1>6. ASSUME complete.there, p = Descriptor
        PROVE  tree'[p] # complete.manifest
    BY <1>2, <1>3, <1>6 DEF StaysMissing
  <1> QED
    BY <1>1, <1>2, <1>4, <1>5, <1>6

LEMMA PuttingKeeps ==
  ASSUME TreeInv, Acts, NEW p \in Editable, NEW v \in Versions, Put(p, v),
         tree[p] # Absent \/ p \in Strays,
         v = edits + 2 \/ (v = Absent /\ p \notin Strays),
         UNCHANGED complete
  PROVE  TreeInv'
  <1> USE Layout DEF TreeInv
  <1>1. /\ phase \notin {"write", "failed"} /\ verify.at \notin {"accepted", "refused"}
        /\ edits' = edits + 1 /\ edits' \in 0..MaxEdits /\ touched' = touched \cup When
        /\ UNCHANGED <<phase, manifest, named, complete, sha, verify, vars>>
    BY DEF Acts, TreeTypeOK
  <1>2. /\ p \in Paths /\ tree' \in [Paths -> Versions]
        /\ \A q \in Paths \ {p} : tree'[q] = tree[q]
        /\ tree'[p] = v /\ (p \in Inputs \/ complete.there)
        /\ phase \in Described /\ p \in Inputs => tree'[p] # manifest[p]
        /\ complete.there /\ p \in Reports => tree'[p] # complete.reports[p]
        /\ complete.there /\ p = Descriptor => tree'[p] # complete.manifest
    BY <1>1, EditShows
  <1>3. TypeOK' /\ edits \in Nat /\ When \subseteq {"described", "completed"}
    BY <1>1 DEF TreeTypeOK, TypeOK, vars, When
  <1>4. TreeTypeOK'
    BY <1>1, <1>2, <1>3 DEF TreeTypeOK
  <1>5. Versioned'
    <2>1. \A a \in Versions : a <= edits + 1 => a <= edits + 2
      BY <1>3 DEF Versions
    <2>2. v <= edits + 2
      BY <1>3
    <2>3. /\ \A q \in Paths : tree[q] \in Versions
          /\ \A q \in Inputs : manifest[q] \in Versions
          /\ \A q \in Reports : complete.reports[q] \in Versions
      BY DEF TreeTypeOK
    <2>4. /\ \A q \in Paths : tree'[q] <= edits + 2
          /\ \A q \in Inputs : manifest[q] <= edits + 2
          /\ \A q \in Reports : complete.reports[q] <= edits + 2
      BY <1>2, <2>1, <2>2, <2>3 DEF Versioned
    <2>5. edits' + 1 = edits + 2
      BY <1>1, <1>3
    <2> QED
      BY <1>1, <2>4, <2>5 DEF Versioned
  <1>6. StaysMissing'
    BY <1>1, <1>2 DEF StaysMissing
  <1>7. Descriptors'
    <2>1. phase \in {"validate", "judge", "complete"} => p # Descriptor
      BY <1>2 DEF Descriptors
    <2>2. tree'[BatchJson] # Absent => tree[BatchJson] # Absent
      BY <1>2
    <2> QED
      BY <1>1, <1>2, <2>1, <2>2 DEF Descriptors, vars
  <1>8. phase \in Described /\ (Changed \/ p \in Inputs) => Changed'
    BY <1>1, <1>2 DEF Changed
  <1>9. Unsealed \/ (complete.there /\ p \notin Inputs) => Unsealed'
    BY <1>1, <1>2 DEF Unsealed
  <1>10. /\ "described" \in When <=> phase \in {"validate", "judge", "complete"}
         /\ "completed" \in When <=> phase = "published" /\ verify.at = "none"
    BY <1>1 DEF When, TreeTypeOK
  <1>11. Touched'
    BY <1>1, <1>2, <1>8, <1>9, <1>10 DEF Touched, Descriptors, Described
  <1>12. JudgedListed' /\ Named'
    BY <1>1, <1>3, <1>10 DEF JudgedListed, Named, vars
  <1>13. Verified'
    BY <1>1, <1>8, <1>10 DEF Verified, Descriptors, Described
  <1> QED
    BY <1>1, <1>3, <1>4, <1>5, <1>6, <1>7, <1>11, <1>12, <1>13

LEMMA WriterKeeps ==
  ASSUME TreeInv, Edit \/ Remove \/ EditComplete
  PROVE  TreeInv'
  <1> USE DEF TreeInv
  <1>1. edits \in Nat /\ (Acts => edits < MaxEdits)
    BY DEF TreeTypeOK, Acts
  <1>2. CASE Edit
    BY <1>1, <1>2, PuttingKeeps DEF Edit, Acts, Versions
  <1>3. CASE Remove
    BY <1>3, PuttingKeeps DEF Remove, Versions
  <1>4. CASE EditComplete
    <2>1. /\ phase \notin {"write", "failed"} /\ verify.at \notin {"accepted", "refused"}
          /\ edits' = edits + 1 /\ edits' \in 0..MaxEdits /\ touched' = touched \cup When
          /\ UNCHANGED <<phase, tree, manifest, named, sha, verify, vars>>
          /\ complete.there
      BY <1>4 DEF EditComplete, Acts, TreeTypeOK
    <2>2. /\ complete' \in [there : BOOLEAN, manifest : Versions, bound : BOOLEAN,
                            reports : [Reports -> Versions]]
          /\ complete'.there => complete'.manifest = complete.manifest
          /\ complete'.reports = complete.reports \/ \A p \in Reports : complete'.reports[p] = Absent
          /\ complete'.there => complete'.reports = complete.reports
          /\ ~complete'.there \/ ~complete'.bound
      <3>1. complete \in [there : BOOLEAN, manifest : Versions, bound : BOOLEAN,
                          reports : [Reports -> Versions]]
        BY DEF TreeTypeOK
      <3>2. CASE complete' = NoComplete
        BY <3>2 DEF NoComplete, Versions
      <3>3. CASE complete' = [complete EXCEPT !.bound = FALSE]
        BY <3>1, <3>3
      <3> QED
        BY <1>4, <3>2, <3>3 DEF EditComplete
    <2>3. TypeOK' /\ When \subseteq {"described", "completed"}
      BY <2>1 DEF TreeTypeOK, TypeOK, vars, When
    <2>4. TreeTypeOK'
      BY <2>1, <2>2, <2>3 DEF TreeTypeOK
    <2>5. Versioned'
      BY <1>1, <2>1, <2>2 DEF Versioned, TreeTypeOK, Versions
    <2>6. StaysMissing' /\ Descriptors'
      BY <2>1, <2>2 DEF StaysMissing, Descriptors, vars
    <2>7. Unsealed' /\ (Changed => Changed')
      BY <2>1, <2>2 DEF Unsealed, Changed
    <2>8. phase = "published" /\ "described" \notin When
      BY <2>1 DEF When, Descriptors
    <2>9. Touched'
      BY <2>1, <2>7, <2>8 DEF Touched
    <2>10. JudgedListed' /\ Named'
      BY <1>1, <2>1, <2>8 DEF JudgedListed, Named, vars
    <2>11. Verified'
      BY <2>1, <2>7, <2>8 DEF Verified, When
    <2> QED
      BY <1>1, <2>1, <2>4, <2>5, <2>6, <2>9, <2>10, <2>11
  <1> QED
    BY <1>2, <1>3, <1>4

-----------------------------------------------------------------------------
\* The induction.
LEMMA TreeInductive == TreeSpec => []TreeInv
  <1>1. TreeInit => TreeInv
    <2> SUFFICES ASSUME TreeInit
                 PROVE  TreeInv
      OBVIOUS
    <2> USE Layout DEF TreeInit, NoComplete
    <2>1. TypeOK /\ main = "feed"
      BY Written DEF Init, TypeOK
    <2>2. TreeTypeOK
      BY <2>1 DEF TreeTypeOK, Versions
    <2>3. Versioned /\ StaysMissing /\ Descriptors /\ Touched /\ Verified
      BY DEF Versioned, StaysMissing, Descriptors, Touched, Verified, Described
    <2>4. JudgedListed /\ Named
      BY DEF JudgedListed, Named, OfListed, Init, Zero
    <2>5. GengoFiles /\ GengoSeals
      BY DEF GengoFiles, GengoSeals, Described
    <2> QED
      BY <2>2, <2>3, <2>4, <2>5 DEF TreeInv
  <1>2. TreeInv /\ BatchInv /\ BatchInv' /\ [TreeNext]_<<batchVars, vars>> => TreeInv'
    <2> SUFFICES ASSUME TreeInv, BatchInv, BatchInv', [TreeNext]_<<batchVars, vars>>
                 PROVE  TreeInv'
      OBVIOUS
    <2>1. TypeOK'
      BY DEF BatchInv
    <2>2. CASE Gengo
      BY <2>2, WriteCasesKeeps, RecordBatteriesKeeps, WriteManifestKeeps, ValidateKeeps,
         WriteBatchKeeps, WriteCompleteKeeps DEF Gengo
    <2>3. CASE TreeMainStep \/ \E w \in Workers : TreeWorkerStep(w)
      BY <2>1, <2>3, MainKeeps, WorkerKeeps
    <2>4. CASE Verification
      BY <2>4, VerificationKeeps
    <2>5. CASE Edit \/ Remove \/ EditComplete
      BY <2>5, WriterKeeps
    <2>6. CASE UNCHANGED <<batchVars, vars>>
      BY <2>6 DEF batchVars, vars, TreeInv, TreeTypeOK, TypeOK, Versioned, StaysMissing,
           Descriptors, Touched, Changed, Unsealed, JudgedListed, InputsMatch, Named, Verified,
           OwnReport, GengoFiles, GengoSeals, checkComplete
    <2> QED
      BY <2>2, <2>3, <2>4, <2>5, <2>6 DEF TreeNext
  <1> QED
    BY <1>1, <1>2, TreeImplementsPool, Inductive, PTL DEF TreeSpec

-----------------------------------------------------------------------------
\* For any files, any number of edits of them at any moment, any pool and any
\* number of cases: the report that becomes batch.json has every case's
\* outcomes and the verdict on exactly these, none was cut off, and no slot
\* was written twice.
THEOREM BatchReportWhole == TreeSpec => [](ReportIsWhole /\ NothingCut) /\ WrittenOnce
  BY TreeImplementsPool, ReportWhole, ReportUncut, SlotWrittenOnce, PTL

\* When -verify accepts a judged batch, the outcomes in its report are of the
\* programs its manifest lists, and no input of an accepted batch was changed
\* between the two descriptors: one check of the tree before the builds and
\* one long after them are enough, as no file goes back to what it was.
THEOREM Accepted == TreeSpec => []AcceptedIsJudged
  <1>1. TreeInv /\ BatchInv => AcceptedIsJudged
    <2> SUFFICES ASSUME TreeInv, BatchInv, verify.at = "accepted"
                 PROVE  /\ "described" \notin touched
                        /\ main = "report" /\ OwnReport =>
                             \A i \in Cases : /\ {results[i].ref, results[i].clone} \subseteq {"listed", None}
                                              /\ sha[i] = manifest[<<i, "subject.go">>]
      BY DEF AcceptedIsJudged
    <2>1. "described" \notin touched
      BY DEF TreeInv, Verified
    <2>2. \A i \in Cases : {results[i].ref, results[i].clone} \subseteq OfListed
      BY <2>1 DEF TreeInv, JudgedListed
    <2>3. main = "report" => \A i \in Cases : {results[i].ref, results[i].clone} \cap Aborted = {}
      BY DEF BatchInv, Slot
    <2>4. OwnReport => \A i \in Cases : sha[i] = manifest[<<i, "subject.go">>]
      BY DEF TreeInv, Verified, Subject
    <2> QED
      BY <2>1, <2>2, <2>3, <2>4 DEF OfListed
  <1> QED
    BY <1>1, TreeInductive, TreeImplementsPool, Inductive, PTL

\* And without -allow-legacy-verify it accepts no batch that anything was
\* changed in after it was complete, and refuses none that nobody changed,
\* but for a case whose subject could not be read.
THEOREM ExactVerify == TreeSpec => []VerifyIsExact
  <1>1. TreeInv => VerifyIsExact
    <2> SUFFICES ASSUME TreeInv
                 PROVE  VerifyIsExact
      OBVIOUS
    <2>1. edits \in Nat
      BY DEF TreeInv, TreeTypeOK
    <2>2. verify.at = "accepted" /\ ~verify.legacy => "completed" \notin touched
      BY DEF TreeInv, Verified
    <2>3. edits = 0 /\ verify.at = "refused" => \E i \in Cases : main = "report" /\ results[i] = Unreadable
      BY DEF TreeInv, GengoSeals
    <2> QED
      BY <2>1, <2>2, <2>3 DEF VerifyIsExact
  <1> QED
    BY <1>1, TreeInductive, PTL
=============================================================================
