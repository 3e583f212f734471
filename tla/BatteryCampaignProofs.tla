----------------------- MODULE BatteryCampaignProofs -----------------------
(***************************************************************************)
(* Proofs about the battery pool and what it records: what runBatteries    *)
(* returns, for any pool and any number of batteries (about Batteries),    *)
(* and that nothing but the truth is recorded, for any functions, inputs   *)
(* and outcomes, of an output with any one of the faults (about            *)
(* BatteryCampaign).                                                       *)
(***************************************************************************)
EXTENDS BatteryCampaign, WellFoundedInduction, TLAPS

-----------------------------------------------------------------------------
(* The inductive invariant of the pool.                                    *)

Busy == {"check", "run", "write", "fail", "cancel"}

\* What a worker has in its hands, and where.
HasJob(w) ==
  /\ job[w] # 0 <=> at[w] \in Busy
  /\ job[w] # 0 => job[w] < next /\ job[w] \notin recorded

HasError(w) ==
  /\ at[w] \in {"fail", "cancel"} => err[w] \in Error /\ err[w].job = job[w]
  /\ err[w].why = "cut off" => cancelled = TRUE
  /\ at[w] = "cancel" => first # Nil

Held(w) ==
  /\ HasJob(w)
  /\ HasError(w)
  /\ main = "returned" => at[w] = "done"

\* No two workers have the same battery; the one the kept error names is in
\* nobody's hands but its own worker's.
Apart ==
  /\ \A v, w \in Workers : job[v] = job[w] /\ job[v] # 0 => v = w
  /\ \A w \in Workers : first # Nil /\ job[w] = first.job => at[w] = "cancel"

\* A battery that was handed out is recorded, in a worker's hands, or of a
\* batch that has failed.
Accounted(j) ==
  j < next => j \in recorded \/ first # Nil \/ \E w \in Workers : job[w] = j

Kept ==
  /\ first # Nil => /\ first.why = "failed" /\ first.job < next
                    /\ first.job \notin recorded
  /\ cancelled = TRUE => first # Nil
  /\ \A j \in recorded : j < next

BatteriesInv ==
  /\ TypeOK
  /\ \A w \in Workers : Held(w)
  /\ Apart
  /\ \A j \in Jobs : Accounted(j)
  /\ Kept
  /\ main # "feed" => next = N + 1

USE BatteriesAssumption DEF Jobs, Busy

-----------------------------------------------------------------------------
LEMMA Errors ==
  /\ \A j \in Jobs : Failed(j) \in Error /\ CutOff(j) \in Error
  /\ \A e \in Error : e # Nil /\ e.job \in Jobs /\ e.why \in {"failed", "cut off"}
  /\ Nil.why = "none" /\ Nil.job = 0
  /\ \A j \in Jobs : /\ Failed(j).job = j /\ Failed(j).why = "failed"
                     /\ CutOff(j).job = j
  <1>1. \A j \in Jobs : Failed(j) \in Error /\ CutOff(j) \in Error
    BY DEF Failed, CutOff, Error
  <1>2. \A e \in Error : e # Nil /\ e.job \in Jobs /\ e.why \in {"failed", "cut off"}
    <2> SUFFICES ASSUME NEW e \in Error
                 PROVE  e # Nil /\ e.job \in Jobs /\ e.why \in {"failed", "cut off"}
      OBVIOUS
    <2>1. e.job \in Jobs /\ e.why \in {"failed", "cut off"}
      BY DEF Error
    <2>2. Nil.why = "none"
      BY DEF Nil
    <2> QED
      BY <2>1, <2>2
  <1>3. Nil.why = "none" /\ Nil.job = 0
    BY DEF Nil
  <1>4. \A j \in Jobs : /\ Failed(j).job = j /\ Failed(j).why = "failed"
                        /\ CutOff(j).job = j
    BY DEF Failed, CutOff
  <1> QED
    BY <1>1, <1>2, <1>3, <1>4

\* A worker that goes back to receive keeps the invariant when its battery
\* is recorded or the batch has failed.
LEMMA ReceiveKeeps ==
  ASSUME BatteriesInv, NEW w \in Workers, Receive(w), job[w] # 0,
         UNCHANGED <<first, main, next>>,
         UNCHANGED cancelled \/ (cancelled' = TRUE /\ first # Nil),
         \/ recorded' = recorded /\ first # Nil
         \/ recorded' = recorded \cup {job[w]} /\ at[w] = "write"
  PROVE  BatteriesInv'
  <1>a. TypeOK /\ Apart /\ Kept /\ Held(w)
    BY DEF BatteriesInv
  <1>b. job[w] \in 0..N
    BY <1>a DEF TypeOK
  <1>1. TypeOK /\ Apart /\ Kept /\ Held(w) /\ job[w] \in Jobs
    BY <1>a, <1>b
  <1>2. TypeOK'
    <2>1. at' \in [Workers -> {"receive", "check", "run", "write", "fail", "cancel", "done"}]
      BY <1>1 DEF Receive, TypeOK
    <2>2. job' \in [Workers -> 0..N] /\ err' \in [Workers -> Error \cup {Nil}]
      BY <1>1 DEF Receive, TypeOK
    <2>3. recorded' \in SUBSET Jobs /\ cancelled' \in BOOLEAN
      BY <1>1 DEF TypeOK
    <2> QED
      BY <1>1, <2>1, <2>2, <2>3 DEF TypeOK
  <1>3. /\ at'[w] = "receive" /\ job'[w] = 0 /\ err'[w] = Nil
        /\ \A v \in Workers \ {w} : /\ at'[v] = at[v] /\ job'[v] = job[v]
                                    /\ err'[v] = err[v]
    BY <1>1 DEF Receive, TypeOK
  <1>4. \A v \in Workers : Held(v)'
    <2> SUFFICES ASSUME NEW v \in Workers
                 PROVE  Held(v)'
      OBVIOUS
    <2>1. CASE v = w
      BY <1>1, <1>3, <2>1, Errors DEF Held, HasJob, HasError
    <2>2. CASE v # w
      <3>1. Held(v) /\ job[v] \in 0..N
        BY <1>1 DEF BatteriesInv, TypeOK
      <3>2. job[v] # 0 => job[v] # job[w]
        BY <1>1, <2>2 DEF Apart
      <3>3. job[v] # 0 => job[v] \notin recorded'
        BY <3>1, <3>2 DEF Held, HasJob, HasError
      <3> QED
        BY <1>3, <2>2, <3>1, <3>3 DEF Held, HasJob, HasError
    <2> QED
      BY <2>1, <2>2
  <1>5. Apart'
    <2>1. first # Nil => first.job \in Jobs
      BY <1>1, Errors DEF TypeOK
    <2> QED
      BY <1>1, <1>3, <2>1 DEF Apart
  <1>6. \A j \in Jobs : Accounted(j)'
    <2> SUFFICES ASSUME NEW j \in Jobs
                 PROVE  Accounted(j)'
      OBVIOUS
    <2>1. Accounted(j)
      BY DEF BatteriesInv
    <2>2. (\E v \in Workers : job[v] = j) => j = job[w] \/ \E v \in Workers : job'[v] = j
      BY <1>3
    <2> QED
      BY <2>1, <2>2 DEF Accounted
  <1>7. Kept'
    <2>1. first # Nil /\ at[w] = "write" => first.job # job[w]
      BY <1>1 DEF Apart
    <2>2. first # Nil => first.job \notin recorded'
      BY <1>1, <2>1 DEF Kept
    <2>3. \A j \in recorded' : j < next
      BY <1>1 DEF Kept, Held, HasJob
    <2> QED
      BY <1>1, <2>2, <2>3 DEF Kept
  <1> QED
    BY <1>2, <1>4, <1>5, <1>6, <1>7 DEF BatteriesInv

\* So does one that moves on with its battery in its hands.
LEMMA MoveKeeps ==
  ASSUME BatteriesInv, NEW w \in Workers, NEW a \in {"run", "write", "fail"},
         at[w] \in {"check", "run", "write"},
         at' = [at EXCEPT ![w] = a],
         \/ err' = err /\ a # "fail"
         \/ \E e \in Error : /\ err' = [err EXCEPT ![w] = e] /\ e.job = job[w]
                             /\ e.why = "cut off" => cancelled = TRUE,
         UNCHANGED <<cancelled, first, main, next, job, recorded>>
  PROVE  BatteriesInv'
  <1>1. TypeOK /\ Apart /\ Kept /\ Held(w)
    BY DEF BatteriesInv
  <1>2. TypeOK'
    <2>1. at' \in [Workers -> {"receive", "check", "run", "write", "fail", "cancel", "done"}]
      BY <1>1 DEF TypeOK
    <2>2. err' \in [Workers -> Error \cup {Nil}]
      BY <1>1 DEF TypeOK
    <2> QED
      BY <1>1, <2>1, <2>2 DEF TypeOK
  <1>3. /\ at'[w] = a
        /\ \A v \in Workers \ {w} : at'[v] = at[v] /\ err'[v] = err[v]
        /\ \/ err'[w] = err[w] /\ a # "fail"
           \/ /\ err'[w] \in Error /\ err'[w].job = job[w]
              /\ err'[w].why = "cut off" => cancelled = TRUE
    BY <1>1 DEF TypeOK
  <1>4. \A v \in Workers : Held(v)'
    <2> SUFFICES ASSUME NEW v \in Workers
                 PROVE  Held(v)'
      OBVIOUS
    <2>1. Held(v)
      BY DEF BatteriesInv
    <2>2. CASE v = w
      BY <1>1, <1>3, <2>1, <2>2 DEF Held, HasJob, HasError
    <2>3. CASE v # w
      BY <1>3, <2>1, <2>3 DEF Held, HasJob, HasError
    <2> QED
      BY <2>2, <2>3
  <1>5. Apart' /\ Kept'
    BY <1>1, <1>3 DEF Apart, Kept
  <1>6. \A j \in Jobs : Accounted(j)'
    BY DEF BatteriesInv, Accounted
  <1> QED
    BY <1>2, <1>4, <1>5, <1>6 DEF BatteriesInv

LEMMA SendKeeps ==
  ASSUME BatteriesInv, NEW w \in Workers, Send(w)
  PROVE  BatteriesInv'
  <1>1. TypeOK /\ Apart /\ Kept /\ Held(w)
    BY DEF BatteriesInv
  <1>2. next \in Jobs /\ main = "feed" /\ at[w] = "receive" /\ job[w] = 0
    <2>1. main = "feed" /\ at[w] = "receive" /\ next <= N
      BY DEF Send
    <2>2. next \in 1..N + 1
      BY <1>1 DEF TypeOK
    <2> QED
      BY <1>1, <2>1, <2>2 DEF Held, HasJob
  <1>3. TypeOK'
    BY <1>1, <1>2 DEF Send, TypeOK
  <1>4. /\ at'[w] = "check" /\ job'[w] = next /\ next' = next + 1
        /\ \A v \in Workers \ {w} : at'[v] = at[v] /\ job'[v] = job[v]
        /\ UNCHANGED <<cancelled, first, main, err, recorded>>
    BY <1>1 DEF Send, TypeOK
  <1>5. next \notin recorded /\ (first # Nil => first.job # next)
        /\ \A v \in Workers : job[v] # next
    <2>1. \A v \in Workers : job[v] \in 0..N /\ HasJob(v)
      BY <1>1 DEF BatteriesInv, Held, TypeOK
    <2>2. next \in Nat
      BY <1>2
    <2>3. \A v \in Workers : job[v] # next
      <3> SUFFICES ASSUME NEW v \in Workers, job[v] = next
                   PROVE  FALSE
        OBVIOUS
      <3>1. job[v] # 0 /\ job[v] \in Nat
        BY <1>2
      <3>2. job[v] < next
        BY <2>1, <3>1 DEF HasJob
      <3> QED
        BY <2>2, <3>2
    <2>4. next \notin recorded /\ (first # Nil => first.job # next)
      BY <1>1, <2>2 DEF Kept
    <2> QED
      BY <2>3, <2>4
  <1>6. \A v \in Workers : Held(v)'
    <2> SUFFICES ASSUME NEW v \in Workers
                 PROVE  Held(v)'
      OBVIOUS
    <2>1. Held(v) /\ job[v] \in 0..N
      BY <1>1 DEF BatteriesInv, TypeOK
    <2>2. CASE v = w
      <3>1. HasJob(v)'
        BY <1>2, <1>4, <1>5, <2>1, <2>2 DEF HasJob
      <3>2. HasError(v)' /\ main' # "returned"
        BY <1>2, <1>4, <2>1, <2>2 DEF Held, HasError
      <3> QED
        BY <3>1, <3>2 DEF Held
    <2>3. CASE v # w
      <3>1. HasJob(v)'
        BY <1>2, <1>4, <2>1, <2>3 DEF Held, HasJob
      <3>2. HasError(v)' /\ main' # "returned"
        BY <1>2, <1>4, <2>1, <2>3 DEF Held, HasError
      <3> QED
        BY <3>1, <3>2 DEF Held
    <2> QED
      BY <2>2, <2>3
  <1>7. Apart'
    BY <1>1, <1>2, <1>4, <1>5 DEF Apart
  <1>8. \A j \in Jobs : Accounted(j)'
    <2> SUFFICES ASSUME NEW j \in Jobs
                 PROVE  Accounted(j)'
      OBVIOUS
    <2>1. Accounted(j) /\ next \in Nat
      BY <1>1 DEF BatteriesInv, TypeOK
    <2>2. (\E v \in Workers : job[v] = j) => \E v \in Workers : job'[v] = j
      BY <1>2, <1>4
    <2>3. j < next' => j < next \/ job'[w] = j
      BY <1>4, <2>1
    <2> QED
      BY <1>4, <2>1, <2>2, <2>3 DEF Accounted
  <1>9. Kept'
    <2>1. first # Nil => first.job \in Jobs
      BY <1>1, Errors DEF TypeOK
    <2>2. recorded \subseteq Jobs /\ next \in Nat
      BY <1>1, <1>2 DEF TypeOK
    <2> QED
      BY <1>1, <1>4, <2>1, <2>2 DEF Kept
  <1> QED
    BY <1>2, <1>3, <1>4, <1>6, <1>7, <1>8, <1>9 DEF BatteriesInv

LEMMA MainStepKeeps ==
  ASSUME BatteriesInv, MainStep
  PROVE  BatteriesInv'
  <1>1. CASE \E w \in Workers : Send(w)
    BY <1>1, SendKeeps
  <1>2. CASE Close \/ Return
    <2>1. UNCHANGED <<cancelled, first, next, at, job, err, recorded>>
      BY <1>2 DEF Close, Return
    <2>2. /\ main' \in {"wait", "returned"} /\ next = N + 1
          /\ main' = "returned" => \A w \in Workers : at[w] = "done"
      <3>1. CASE Close
        BY <3>1 DEF Close, BatteriesInv, TypeOK
      <3>2. CASE Return
        BY <3>2 DEF Return, BatteriesInv
      <3> QED
        BY <1>2, <3>1, <3>2
    <2>3. TypeOK' /\ Apart' /\ Kept' /\ (\A j \in Jobs : Accounted(j)')
      BY <2>1, <2>2 DEF BatteriesInv, TypeOK, Apart, Kept, Accounted
    <2>4. \A w \in Workers : Held(w)'
      BY <2>1, <2>2 DEF BatteriesInv, Held, HasJob, HasError
    <2> QED
      BY <2>1, <2>2, <2>3, <2>4 DEF BatteriesInv
  <1> QED
    BY <1>1, <1>2 DEF MainStep

LEMMA FailKeeps ==
  ASSUME BatteriesInv, NEW w \in Workers, Fail(w)
  PROVE  BatteriesInv'
  <1>1. /\ TypeOK /\ Apart /\ Kept /\ HasJob(w) /\ HasError(w)
        /\ job[w] \in Jobs /\ at[w] = "fail"
    <2>1. TypeOK /\ Apart /\ Kept /\ HasJob(w) /\ HasError(w)
      BY DEF BatteriesInv, Held
    <2>2. at[w] = "fail" /\ job[w] \in 0..N
      BY <2>1 DEF Fail, TypeOK
    <2> QED
      BY <2>1, <2>2 DEF HasJob
  <1>2. CASE first # Nil
    <2>1. Receive(w) /\ UNCHANGED <<cancelled, first, main, next, recorded>>
      BY <1>2 DEF Fail
    <2> QED
      BY <1>1, <1>2, <2>1, ReceiveKeeps
  <1>3. CASE first = Nil
    <2>1. /\ first' = err[w] /\ at' = [at EXCEPT ![w] = "cancel"]
          /\ UNCHANGED <<cancelled, main, next, job, err, recorded>>
      BY <1>3 DEF Fail
    <2>2. err[w] \in Error /\ err[w].job = job[w]
      BY <1>1 DEF HasError
    <2>3. err[w] # Nil /\ err[w].why \in {"failed", "cut off"}
      BY <2>2, Errors
    <2>4. err[w].why = "failed" /\ cancelled # TRUE
      BY <1>1, <1>3, <2>3 DEF HasError, Kept
    <2>5. TypeOK'
      <3>1. at' \in [Workers -> {"receive", "check", "run", "write", "fail", "cancel", "done"}]
        BY <1>1, <2>1 DEF TypeOK
      <3> QED
        BY <1>1, <2>1, <2>2, <3>1 DEF TypeOK
    <2>6. at'[w] = "cancel" /\ \A v \in Workers \ {w} : at'[v] = at[v]
      BY <1>1, <2>1 DEF TypeOK
    <2>7. \A v \in Workers : Held(v)'
      <3> SUFFICES ASSUME NEW v \in Workers
                   PROVE  Held(v)'
        OBVIOUS
      <3>1. HasJob(v) /\ HasError(v) /\ (main = "returned" => at[v] = "done")
        BY DEF BatteriesInv, Held
      <3>2. HasJob(v)'
        BY <1>1, <2>1, <2>6, <3>1 DEF HasJob
      <3>3. HasError(v)'
        BY <1>1, <2>1, <2>2, <2>3, <2>6, <3>1 DEF HasError
      <3>4. main' = "returned" => at'[v] = "done"
        BY <1>1, <2>1, <2>6, <3>1 DEF BatteriesInv, Held
      <3> QED
        BY <3>2, <3>3, <3>4 DEF Held
    <2>8. Apart'
      BY <1>1, <2>1, <2>2, <2>6 DEF Apart
    <2>9. (\A j \in Jobs : Accounted(j)') /\ Kept'
      <3>1. job[w] < next /\ job[w] \notin recorded
        BY <1>1 DEF HasJob
      <3> QED
        BY <1>1, <2>1, <2>2, <2>3, <2>4, <3>1 DEF Accounted, Kept
    <2> QED
      BY <2>1, <2>5, <2>7, <2>8, <2>9 DEF BatteriesInv
  <1> QED
    BY <1>2, <1>3

LEMMA WorkerStepKeeps ==
  ASSUME BatteriesInv, NEW w \in Workers, WorkerStep(w)
  PROVE  BatteriesInv'
  <1>1. TypeOK /\ HasJob(w) /\ HasError(w) /\ Kept
    BY DEF BatteriesInv, Held
  <1>2. job[w] \in 0..N
    BY <1>1 DEF TypeOK
  <1>3. CASE Skip(w)
    <2>1. job[w] # 0 /\ first # Nil
      BY <1>1, <1>3 DEF Skip, HasJob, Kept, TypeOK
    <2> QED
      BY <1>3, <2>1, ReceiveKeeps DEF Skip
  <1>4. CASE Begin(w)
    BY <1>4, MoveKeeps DEF Begin
  <1>5. CASE RunBattery(w)
    <2>1. job[w] \in Jobs /\ at[w] = "run"
      BY <1>1, <1>2, <1>5 DEF RunBattery, HasJob
    <2>2. CASE at' = [at EXCEPT ![w] = "write"] /\ UNCHANGED <<job, err>>
      BY <1>5, <2>1, <2>2, MoveKeeps DEF RunBattery
    <2>3. CASE Hold(w, Failed(job[w]))
      BY <1>5, <2>1, <2>3, Errors, MoveKeeps DEF RunBattery, Hold
    <2>4. CASE cancelled /\ Hold(w, CutOff(job[w]))
      <3>1. cancelled = TRUE
        BY <1>1, <2>4 DEF TypeOK
      <3> QED
        BY <1>5, <2>1, <2>4, <3>1, Errors, MoveKeeps DEF RunBattery, Hold
    <2> QED
      BY <1>5, <2>2, <2>3, <2>4 DEF RunBattery
  <1>6. CASE Write(w)
    <2>1. job[w] \in Jobs /\ at[w] = "write"
      BY <1>1, <1>2, <1>6 DEF Write, HasJob
    <2>2. CASE recorded' = recorded \cup {job[w]} /\ Receive(w)
      BY <1>6, <2>1, <2>2, ReceiveKeeps DEF Write
    <2>3. CASE Hold(w, Failed(job[w])) /\ UNCHANGED recorded
      <3>1. Failed(job[w]) \in Error /\ Failed(job[w]).job = job[w]
            /\ Failed(job[w]).why # "cut off"
        BY <2>1, Errors
      <3>2. /\ at' = [at EXCEPT ![w] = "fail"]
            /\ err' = [err EXCEPT ![w] = Failed(job[w])]
            /\ UNCHANGED <<cancelled, first, main, next, job, recorded>>
        BY <1>6, <2>3 DEF Write, Hold
      <3> QED
        BY <2>1, <3>1, <3>2, MoveKeeps
    <2> QED
      BY <1>6, <2>2, <2>3 DEF Write
  <1>7. CASE CancelOthers(w)
    <2>1. job[w] # 0 /\ first # Nil
      BY <1>1, <1>7 DEF CancelOthers, HasJob, HasError
    <2> QED
      BY <1>7, <2>1, ReceiveKeeps DEF CancelOthers
  <1>8. CASE Leave(w)
    <2>1. /\ at[w] = "receive" /\ at' = [at EXCEPT ![w] = "done"]
          /\ UNCHANGED <<cancelled, first, main, next, job, err, recorded>>
      BY <1>8 DEF Leave
    <2>2. TypeOK'
      <3>1. at' \in [Workers -> {"receive", "check", "run", "write", "fail", "cancel", "done"}]
        BY <1>1, <2>1 DEF TypeOK
      <3> QED
        BY <1>1, <2>1, <3>1 DEF TypeOK
    <2>3. at'[w] = "done" /\ \A v \in Workers \ {w} : at'[v] = at[v]
      BY <1>1, <2>1 DEF TypeOK
    <2>4. \A v \in Workers : Held(v)'
      BY <2>1, <2>3 DEF BatteriesInv, Held, HasJob, HasError
    <2>5. Apart' /\ Kept' /\ (\A j \in Jobs : Accounted(j)')
      BY <2>1, <2>3 DEF BatteriesInv, Apart, Kept, Accounted
    <2> QED
      BY <2>1, <2>2, <2>4, <2>5 DEF BatteriesInv
  <1> QED
    BY <1>3, <1>4, <1>5, <1>6, <1>7, <1>8, FailKeeps DEF WorkerStep

\* The induction behind the two theorems.
LEMMA Inductive == Spec => []BatteriesInv
  <1>1. Init => BatteriesInv
    <2> SUFFICES ASSUME Init
                 PROVE  BatteriesInv
      OBVIOUS
    <2>1. TypeOK
      <3>1. next \in 1..N + 1 /\ job \in [Workers -> 0..N]
        BY DEF Init
      <3>2. at \in [Workers -> {"receive", "check", "run", "write", "fail", "cancel", "done"}]
        BY DEF Init
      <3>3. err \in [Workers -> Error \cup {Nil}]
        BY DEF Init
      <3> QED
        BY <3>1, <3>2, <3>3 DEF Init, TypeOK
    <2>2. Apart /\ Kept
      BY DEF Init, Apart, Kept
    <2>3. \A w \in Workers : Held(w)
      BY Errors DEF Init, Held, HasJob, HasError
    <2>4. \A j \in Jobs : Accounted(j)
      BY DEF Init, Accounted
    <2> QED
      BY <2>1, <2>2, <2>3, <2>4 DEF BatteriesInv, Init
  <1>2. BatteriesInv /\ [Next]_vars => BatteriesInv'
    <2> SUFFICES ASSUME BatteriesInv, [Next]_vars
                 PROVE  BatteriesInv'
      OBVIOUS
    <2>1. CASE UNCHANGED vars
      BY <2>1 DEF vars, BatteriesInv, TypeOK, Apart, Kept, Held, HasJob, HasError, Accounted
    <2> QED
      BY <2>1, MainStepKeeps, WorkerStepKeeps DEF Next
  <1> QED
    BY <1>1, <1>2, PTL DEF Spec

-----------------------------------------------------------------------------
\* For any pool and any number of batteries: runBatteries returns no error
\* only when the functions.json of every battery is on disk.
THEOREM NilIsAll == Spec => []NilMeansAll
  <1>1. BatteriesInv => NilMeansAll
    <2> SUFFICES ASSUME BatteriesInv, main = "returned", first = Nil
                 PROVE  recorded = Jobs
      BY DEF NilMeansAll
    <2>1. next = N + 1 /\ recorded \subseteq Jobs
      BY DEF BatteriesInv, TypeOK
    <2>2. \A w \in Workers : job[w] = 0
      BY DEF BatteriesInv, Held, HasJob
    <2>3. \A j \in Jobs : j < next /\ j # 0
      BY <2>1
    <2>4. \A j \in Jobs : j \in recorded
      BY <2>2, <2>3 DEF BatteriesInv, Accounted
    <2> QED
      BY <2>1, <2>4
  <1> QED
    BY <1>1, Inductive, PTL

\* And the error it returns is of a battery that failed by itself, with no
\* outcomes on disk: never one that the cancellation set off.
THEOREM ErrorIsCause == Spec => []FirstErrorIsCause
  <1>1. BatteriesInv => FirstErrorIsCause
    BY DEF BatteriesInv, FirstErrorIsCause, Kept
  <1> QED
    BY <1>1, Inductive, PTL

-----------------------------------------------------------------------------
(* The calls of a driver.                                                  *)

\* Induction, over a set.
LEMMA NatInduct ==
  ASSUME NEW S, 0 \in S, \A n \in Nat : n \in S => n + 1 \in S
  PROVE  \A n \in Nat : n \in S
  <1> DEFINE T == {n \in Nat : n \notin S}
             R == OpToRel(<, Nat)
  <1>1. SUFFICES ASSUME T # {}
                 PROVE  FALSE
    OBVIOUS
  <1>2. IsWellFoundedOn(R, Nat)
    BY NatLessThanWellFounded
  <1>3. T \subseteq Nat
    OBVIOUS
  <1> HIDE DEF T, R
  <1>4. PICK x \in T : \A y \in T : ~(<<y, x>> \in R)
    BY <1>1, <1>2, <1>3, WFMin
  <1>5. \A y \in T : ~(y < x)
    BY <1>3, <1>4 DEF R, OpToRel
  <1>6. x \in Nat /\ x \notin S
    BY <1>4 DEF T
  <1>7. x - 1 \in Nat /\ x - 1 \notin T
    BY <1>5, <1>6
  <1>8. x - 1 \in S
    BY <1>7 DEF T
  <1> QED
    BY <1>6, <1>7, <1>8

LEMMA SpecsShape ==
  /\ Len(Specs) \in Nat
  /\ \A f \in 1..Len(Specs) : /\ Specs[f].inputs \in Nat \ {0}
                              /\ Specs[f].results \in Seq(Types)
                              /\ Len(Specs[f].results) \in {1, 2}
  <1> DEFINE R == [inputs : Nat \ {0}, results : Seq(Types)]
  <1>1. Specs \in Seq(R)
    BY SpecsAssumption
  <1>2. \A f \in 1..Len(Specs) : Specs[f] \in R
    <2> HIDE DEF R
    <2> QED
      BY <1>1
  <1>3. Len(Specs) \in Nat
    BY <1>1
  <1>4. \A f \in 1..Len(Specs) : Len(Specs[f].results) \in {1, 2}
    <2> SUFFICES ASSUME NEW f \in 1..Len(Specs)
                 PROVE  Len(Specs[f].results) \in {1, 2}
      OBVIOUS
    <2>1. Len(Specs[f].results) \in 1..2
      BY SpecsAssumption, Zenon
    <2> QED
      BY <2>1
  <1> QED
    BY <1>2, <1>3, <1>4

\* The calls of the first functions, without the recursion.
Step(g, f) == IF f = 0 THEN <<>> ELSE g[f - 1] \o CallsOf(f)
Prefixes(m) == {g \in [0..m -> Seq(Nat \X Nat)] : \A f \in 0..m : g[f] = Step(g, f)}

LEMMA CallsOfShape ==
  ASSUME NEW f \in 1..Len(Specs)
  PROVE  /\ CallsOf(f) \in Seq(Nat \X Nat)
         /\ Len(CallsOf(f)) = Specs[f].inputs
         /\ \A i \in 1..Len(CallsOf(f)) : CallsOf(f)[i] = <<f, i>>
  <1>1. Specs[f].inputs \in Nat /\ f \in Nat
    BY SpecsShape
  <1> DEFINE n == Specs[f].inputs
  <1>2. CallsOf(f) = [i \in 1..n |-> <<f, i>>]
    BY DEF CallsOf
  <1> HIDE DEF n
  <1>3. n \in Nat
    BY <1>1 DEF n
  <1>4. \A i \in 1..n : <<f, i>> \in Nat \X Nat
    BY <1>1, <1>3
  <1>5. [i \in 1..n |-> <<f, i>>] \in Seq(Nat \X Nat)
    BY <1>3, <1>4
  <1> QED
    BY <1>2, <1>3, <1>5 DEF n

LEMMA PrefixesExist ==
  \A m \in Nat : m \in 0..Len(Specs) => Prefixes(m) # {}
  <1> DEFINE S == {m \in Nat : m \in 0..Len(Specs) => Prefixes(m) # {}}
  <1>1. 0 \in S
    <2> DEFINE g == [f \in 0..0 |-> <<>>]
    <2>1. g \in Prefixes(0)
      BY DEF Prefixes, Step
    <2> QED
      BY <2>1
  <1>2. ASSUME NEW m \in Nat, m \in S
        PROVE  m + 1 \in S
    <2> SUFFICES ASSUME m + 1 \in 0..Len(Specs)
                 PROVE  Prefixes(m + 1) # {}
      OBVIOUS
    <2>1. PICK g : g \in Prefixes(m)
      BY <1>2, SpecsShape
    <2> DEFINE h == [f \in 0..m + 1 |-> IF f \in 0..m THEN g[f] ELSE g[m] \o CallsOf(m + 1)]
    <2>2. /\ g \in [0..m -> Seq(Nat \X Nat)] /\ \A f \in 0..m : g[f] = Step(g, f)
      BY <2>1 DEF Prefixes
    <2>3. CallsOf(m + 1) \in Seq(Nat \X Nat) /\ g[m] \in Seq(Nat \X Nat)
      BY <2>2, CallsOfShape, SpecsShape
    <2>4. g[m] \o CallsOf(m + 1) \in Seq(Nat \X Nat)
      BY <2>3
    <2>5. h \in [0..m + 1 -> Seq(Nat \X Nat)]
      BY <2>2, <2>4
    <2>6. ASSUME NEW f \in 0..m + 1
          PROVE  h[f] = Step(h, f)
      <3>1. CASE f = 0
        BY <2>2, <3>1 DEF Step
      <3>2. CASE f \in 1..m
        <4>1. f - 1 \in 0..m /\ f \in 0..m
          BY <3>2
        <4>2. h[f] = g[f] /\ h[f - 1] = g[f - 1] /\ f # 0
          BY <3>2, <4>1
        <4> HIDE DEF h
        <4> QED
          BY <2>2, <4>1, <4>2 DEF Step
      <3>3. CASE f = m + 1
        <4>1. f # 0 /\ f \notin 0..m /\ f - 1 = m /\ m \in 0..m
          BY <3>3
        <4>2. h[f] = g[m] \o CallsOf(f) /\ h[m] = g[m]
          BY <3>3, <4>1
        <4> HIDE DEF h
        <4> QED
          BY <4>1, <4>2 DEF Step
      <3> QED
        BY <3>1, <3>2, <3>3
    <2> HIDE DEF h
    <2> QED
      BY <2>5, <2>6 DEF Prefixes
  <1> HIDE DEF S
  <1>3. \A m \in Nat : m \in S
    BY <1>1, <1>2, NatInduct
  <1> QED
    BY <1>3 DEF S

LEMMA CallsUpToShape == CallsUpTo \in Prefixes(Len(Specs))
  <1> DEFINE L == Len(Specs)
             Is(g) == g = [f \in 0..L |-> IF f = 0 THEN <<>> ELSE g[f - 1] \o CallsOf(f)]
  <1>1. CallsUpTo = CHOOSE g : Is(g)
    BY Zenon DEF CallsUpTo
  <1>2. PICK h : h \in Prefixes(L)
    BY PrefixesExist, SpecsShape
  <1>3. Is(h)
    BY <1>2 DEF Prefixes, Step
  <1> HIDE DEF Is
  <1>4. Is(CallsUpTo)
    BY <1>1, <1>3, Zenon
  <1> USE DEF Is
  <1>5. \A f \in 0..L : CallsUpTo[f] = h[f]
    <2> DEFINE S == {f \in Nat : f \in 0..L => CallsUpTo[f] = h[f]}
    <2>1. 0 \in S
      BY <1>3, <1>4, SpecsShape
    <2>2. ASSUME NEW f \in Nat, f \in S
          PROVE  f + 1 \in S
      <3> SUFFICES ASSUME f + 1 \in 0..L
                   PROVE  CallsUpTo[f + 1] = h[f + 1]
        OBVIOUS
      <3>1. f \in 0..L /\ f + 1 # 0 /\ (f + 1) - 1 = f
        BY SpecsShape
      <3>2. CallsUpTo[f] = h[f]
        BY <2>2, <3>1
      <3>3. h[f + 1] = h[f] \o CallsOf(f + 1)
        BY <1>3, <3>1
      <3>4. CallsUpTo[f + 1] = CallsUpTo[f] \o CallsOf(f + 1)
        BY <1>4, <3>1
      <3> QED
        BY <3>2, <3>3, <3>4
    <2> HIDE DEF S
    <2>3. \A f \in Nat : f \in S
      BY <2>1, <2>2, NatInduct
    <2> QED
      BY <2>3, SpecsShape DEF S
  <1> QED
    BY <1>2, <1>4, <1>5 DEF Prefixes, Step

\* A driver makes no call twice.
Distinct(c, m) ==
  /\ c \in Seq(Nat \X Nat)
  /\ \A k \in 1..Len(c) : c[k][1] \in 1..m
  /\ \A j, k \in 1..Len(c) : c[j] = c[k] => j = k

LEMMA CallsDistinct == Distinct(Calls, Len(Specs))
  <1> DEFINE S == {m \in Nat : m \in 0..Len(Specs) => Distinct(CallsUpTo[m], m)}
  <1>0. /\ CallsUpTo \in [0..Len(Specs) -> Seq(Nat \X Nat)]
        /\ \A f \in 0..Len(Specs) : CallsUpTo[f] = Step(CallsUpTo, f)
    BY CallsUpToShape DEF Prefixes
  <1>1. 0 \in S
    <2> SUFFICES ASSUME 0 \in 0..Len(Specs)
                 PROVE  Distinct(CallsUpTo[0], 0)
      OBVIOUS
    <2>1. CallsUpTo[0] = <<>>
      BY <1>0 DEF Step
    <2> QED
      BY <2>1 DEF Distinct
  <1>2. ASSUME NEW m \in Nat, m \in S
        PROVE  m + 1 \in S
    <2> SUFFICES ASSUME m + 1 \in 0..Len(Specs)
                 PROVE  Distinct(CallsUpTo[m + 1], m + 1)
      OBVIOUS
    <2> DEFINE s == CallsUpTo[m]
               t == CallsOf(m + 1)
    <2>1. m \in 0..Len(Specs) /\ m + 1 \in 1..Len(Specs)
      BY SpecsShape
    <2>2. CallsUpTo[m + 1] = s \o t
      <3>1. CallsUpTo[m + 1] = Step(CallsUpTo, m + 1) /\ m + 1 # 0 /\ (m + 1) - 1 = m
        BY <1>0
      <3> QED
        BY <3>1 DEF Step
    <2>3. /\ s \in Seq(Nat \X Nat)
          /\ \A k \in 1..Len(s) : s[k][1] \in 1..m
          /\ \A j, k \in 1..Len(s) : s[j] = s[k] => j = k
      BY <1>2, <2>1 DEF Distinct
    <2>4. /\ t \in Seq(Nat \X Nat)
          /\ \A i \in 1..Len(t) : t[i] = <<m + 1, i>>
      BY <2>1, CallsOfShape
    <2> HIDE DEF s, t
    <2> DEFINE c == s \o t
    <2>5. /\ c \in Seq(Nat \X Nat) /\ Len(s) \in Nat /\ Len(t) \in Nat
          /\ Len(c) = Len(s) + Len(t)
          /\ \A k \in 1..Len(s) : c[k] = s[k]
          /\ \A k \in 1..Len(c) : k \notin 1..Len(s) => c[k] = t[k - Len(s)] /\ k - Len(s) \in 1..Len(t)
      BY <2>3, <2>4
    <2> HIDE DEF c
    <2>6. \A k \in 1..Len(c) :
            \/ k \in 1..Len(s) /\ c[k] = s[k] /\ c[k][1] \in 1..m
            \/ k \notin 1..Len(s) /\ c[k] = <<m + 1, k - Len(s)>>
      BY <2>3, <2>4, <2>5
    <2>7. \A k \in 1..Len(c) : c[k][1] \in 1..m + 1
      BY <2>6
    <2>8. ASSUME NEW j \in 1..Len(c), NEW k \in 1..Len(c), c[j] = c[k]
          PROVE  j = k
      <3>1. CASE c[j][1] \in 1..m
        <4>1. j \in 1..Len(s) /\ k \in 1..Len(s) /\ s[j] = s[k]
          BY <2>6, <2>8, <3>1
        <4> QED
          BY <2>3, <4>1
      <3>2. CASE c[j][1] \notin 1..m
        <4>1. c[j] = <<m + 1, j - Len(s)>> /\ c[k] = <<m + 1, k - Len(s)>>
          BY <2>6, <2>8, <3>2
        <4>2. c[j][2] = j - Len(s) /\ c[k][2] = k - Len(s)
          BY <4>1
        <4> QED
          BY <2>5, <2>8, <4>2
      <3> QED
        BY <3>1, <3>2
    <2> QED
      BY <2>2, <2>5, <2>7, <2>8 DEF Distinct, c
  <1> HIDE DEF S
  <1>3. \A m \in Nat : m \in S
    BY <1>1, <1>2, NatInduct
  <1> QED
    BY <1>3, SpecsShape DEF S, Calls

-----------------------------------------------------------------------------
(* What is read from a driver's output.                                    *)

LEMMA TypesHaveLimits ==
  ASSUME NEW t \in Types
  PROVE  Least(t) \in Int /\ Most(t) \in Int
  <1>1. Span(t) \in Nat
    BY DEF Types, Span
  <1> QED
    BY <1>1 DEF Least, Most

LEMMA CallsShape ==
  /\ Len(Calls) \in Nat
  /\ \A k \in 1..Len(Calls) : /\ Specs[Calls[k][1]].results \in Seq(Types)
                              /\ Len(Specs[Calls[k][1]].results) \in {1, 2}
                              /\ Specs[Calls[k][1]].results[1] \in Types
  <1>1. Calls \in Seq(Nat \X Nat) /\ \A k \in 1..Len(Calls) : Calls[k][1] \in 1..Len(Specs)
    BY CallsDistinct DEF Distinct
  <1>2. Len(Calls) \in Nat
    BY <1>1
  <1>3. ASSUME NEW k \in 1..Len(Calls)
        PROVE  /\ Specs[Calls[k][1]].results \in Seq(Types)
               /\ Len(Specs[Calls[k][1]].results) \in {1, 2}
    BY <1>1, SpecsShape
  <1> QED
    BY <1>2, <1>3

\* The lines of a driver that nothing happened to.
Lines(t) == [k \in 1..Len(Calls) |-> Row(Calls[k], t[k])] \o <<EndLine(Len(Calls))>>

LEMMA LinesShape ==
  ASSUME NEW t
  PROVE  /\ Len(Lines(t)) = Len(Calls) + 1
         /\ DOMAIN Lines(t) = 1..Len(Calls) + 1
         /\ Lines(t) \in Seq({Lines(t)[k] : k \in DOMAIN Lines(t)})
         /\ \A k \in 1..Len(Calls) : Lines(t)[k] = Row(Calls[k], t[k])
         /\ Lines(t)[Len(Calls) + 1] = EndLine(Len(Calls))
  <1> DEFINE n == Len(Calls)
             r == [k \in 1..n |-> Row(Calls[k], t[k])]
             e == EndLine(n)
             X == {r[k] : k \in 1..n} \cup {e}
  <1>1. n \in Nat
    BY CallsShape
  <1> HIDE DEF n
  <1>2. r \in Seq(X) /\ Len(r) = n /\ <<e>> \in Seq(X)
    BY <1>1
  <1>3. Lines(t) = r \o <<e>>
    BY DEF Lines, n
  <1>4. \A k \in 1..n : r[k] = Row(Calls[k], t[k])
    OBVIOUS
  <1> HIDE DEF r, e, X
  <1> DEFINE s == r \o <<e>>
  <1>5. /\ s \in Seq(X) /\ Len(s) = n + 1 /\ DOMAIN s = 1..n + 1
        /\ \A k \in 1..n : s[k] = r[k]
        /\ s[n + 1] = e
    BY <1>1, <1>2
  <1> HIDE DEF s
  <1>6. s \in Seq({s[k] : k \in DOMAIN s})
    BY <1>1, <1>5
  <1> QED
    BY <1>3, <1>4, <1>5, <1>6 DEF s, e, n

\* An outcome read as it is, and those that are refused.
LEMMA ReadAsPrinted ==
  ASSUME NEW t \in Truths, NEW out, \A k \in 1..Len(Calls) : out.lines[k].e = t[k]
  PROVE  Expected(out) \subseteq {t}
  <1>1. [k \in 1..Len(Calls) |-> out.lines[k].e] = t
    <2>1. t = [k \in 1..Len(Calls) |-> t[k]]
      BY TruthsAssumption
    <2> QED
      BY <2>1
  <1> QED
    BY <1>1 DEF Expected, parseBattery

LEMMA RowRefused ==
  ASSUME NEW out, NEW k \in 1..Len(Calls), ~RowFits(out.lines[k], Calls[k])
  PROVE  Expected(out) = {}
  BY DEF Expected, parseBattery

LEMMA LengthRefused ==
  ASSUME NEW out, Len(out.lines) # Len(Calls) + 1
  PROVE  Expected(out) = {}
  BY DEF Expected, parseBattery

LEMMA PanicRefused ==
  ASSUME NEW out, NEW k \in 1..Len(Calls),
         out.lines[k].e.kind = "panic", out.lines[k].e.runtime = FALSE
  PROVE  Expected(out) = {}
  <1> DEFINE d == [j \in 1..Len(Calls) |-> out.lines[j].e]
  <1>1. Len(d) = Len(Calls) /\ d[k] = out.lines[k].e
    BY CallsShape
  <1>2. ~validate(d)
    BY <1>1 DEF validate
  <1> QED
    BY <1>2 DEF Expected, parseBattery

LEMMA RowFields ==
  \A c, e : Row(c, e).tag = "R" /\ Row(c, e).call = c /\ Row(c, e).e = e
  BY DEF Row

LEMMA EndFields ==
  \A n : EndLine(n).tag = "END" /\ EndLine(n).e.kind = "ok" /\ EndLine(n).e.vals = <<>>
  BY DEF EndLine, OK

LEMMA OutcomeFields ==
  /\ \A vals : OK(vals).kind = "ok" /\ OK(vals).vals = vals
  /\ Panics(TRUE).kind = "panic" /\ Panics(TRUE).vals = <<>>
  /\ Panics(TRUE).quoted /\ Panics(TRUE).runtime
  /\ \A n : Value(n).n = n /\ Value(n).canonical
  BY DEF OK, Panics, Value

\* The rows with values, and those with a panic.
LEMMA OutcomeRows ==
  ASSUME NEW t \in Truths, NEW k \in OKRows(Lines(t)) \cup PanicRows(Lines(t))
  PROVE  /\ k \in 1..Len(Calls) /\ k \in DOMAIN Lines(t)
         /\ Lines(t)[k] = Row(Calls[k], t[k])
         /\ k \in OKRows(Lines(t)) =>
              \E vals : /\ t[k] = OK(vals)
                       /\ vals = [j \in 1..Len(Specs[Calls[k][1]].results) |-> vals[j]]
         /\ k \in PanicRows(Lines(t)) => t[k] = Panics(TRUE)
  <1> DEFINE s == Lines(t)
             n == Len(Calls)
  <1>0. n \in Nat
    BY CallsShape
  <1>1. /\ Len(s) = n + 1 /\ DOMAIN s = 1..n + 1
        /\ \A i \in 1..n : s[i] = Row(Calls[i], t[i])
        /\ s[n + 1] = EndLine(n)
    BY LinesShape
  <1>2. k \in 1..n + 1 /\ (s[k].e.vals # <<>> \/ s[k].e.kind = "panic")
    BY <1>1 DEF OKRows, PanicRows
  <1> HIDE DEF s, n
  <1>3. k # n + 1
    BY <1>1, <1>2, EndFields
  <1>4. k \in 1..n
    BY <1>0, <1>2, <1>3
  <1>5. s[k] = Row(Calls[k], t[k]) /\ s[k].e = t[k]
    BY <1>1, <1>4, RowFields
  <1>6. \/ t[k] = Panics(TRUE)
        \/ \E vals : /\ t[k] = OK(vals)
                     /\ vals = [j \in 1..Len(Specs[Calls[k][1]].results) |-> vals[j]]
    <2>1. IsOutcome(t[k], Specs[Calls[k][1]].results)
      BY <1>4, TruthsAssumption DEF n
    <2>2. ASSUME t[k] = OK([j \in 1..Len(Specs[Calls[k][1]].results) |-> t[k].vals[j]])
          PROVE  \E vals : /\ t[k] = OK(vals)
                          /\ vals = [j \in 1..Len(Specs[Calls[k][1]].results) |-> vals[j]]
      <3> DEFINE vals == [j \in 1..Len(Specs[Calls[k][1]].results) |-> t[k].vals[j]]
      <3>1. vals = [j \in 1..Len(Specs[Calls[k][1]].results) |-> vals[j]]
        OBVIOUS
      <3> QED
        BY <2>2, <3>1
    <2> QED
      BY <2>1, <2>2, Zenon DEF IsOutcome
  <1>7. k \in OKRows(s) => t[k] # Panics(TRUE)
    BY <1>5, OutcomeFields DEF OKRows
  <1>8. k \in PanicRows(s) => \A vals : t[k] # OK(vals)
    BY <1>5, OutcomeFields DEF PanicRows
  <1>9. k \in OKRows(s) =>
          \E vals : /\ t[k] = OK(vals)
                   /\ vals = [j \in 1..Len(Specs[Calls[k][1]].results) |-> vals[j]]
    BY <1>6, <1>7, Zenon
  <1>10. k \in PanicRows(s) => t[k] = Panics(TRUE)
    BY <1>6, <1>8, Zenon
  <1>11. k \in DOMAIN s
    BY <1>1, <1>2
  <1> QED
    BY <1>4, <1>5, <1>9, <1>10, <1>11, Zenon DEF s, n

\* What nothing happened to is read, at the limits of a type, too.
LEMMA TruthIsRead ==
  ASSUME NEW t \in Truths
  PROVE  Expected(Driver(t)) = {t}
  <1> DEFINE s == Lines(t)
             n == Len(Calls)
  <1>1. Driver(t).lines = s /\ Driver(t).newline = TRUE
    BY DEF Driver, Output, Lines
  <1>2. Len(s) = n + 1 /\ (\A k \in 1..n : s[k] = Row(Calls[k], t[k])) /\ s[n + 1] = EndLine(n)
    BY LinesShape
  <1>3. /\ t = [k \in 1..n |-> t[k]]
        /\ \A k \in 1..n : IsOutcome(t[k], Specs[Calls[k][1]].results)
    BY TruthsAssumption
  <1>4. /\ \A k \in 1..n : s[k].tag = "R" /\ s[k].call = Calls[k] /\ s[k].e = t[k]
    BY <1>2, RowFields
  <1>5. ASSUME NEW k \in 1..n
        PROVE  /\ RowFits(s[k], Calls[k])
               /\ IF t[k].kind = "panic" THEN t[k].runtime
                  ELSE Len(t[k].vals) = Len(Specs[Calls[k][1]].results)
    <2> DEFINE e == t[k]
               results == Specs[Calls[k][1]].results
    <2>1. CASE e = Panics(TRUE)
      BY <1>4, <2>1, OutcomeFields DEF RowFits
    <2>2. ASSUME e = OK([j \in 1..Len(results) |-> e.vals[j]]),
                 \A j \in 1..Len(results) :
                   /\ e.vals[j] = Value(e.vals[j].n)
                   /\ e.vals[j].n \in Least(results[j])..Most(results[j])
          PROVE  /\ RowFits(s[k], Calls[k])
                 /\ e.kind # "panic" /\ Len(e.vals) = Len(results)
      <3>1. e.kind = "ok" /\ e.vals = [j \in 1..Len(results) |-> e.vals[j]]
        BY <2>2, OutcomeFields
      <3>2. Len(e.vals) = Len(results)
        <4>1. Len(results) \in Nat
          BY CallsShape
        <4> QED
          BY <3>1, <4>1
      <3>3. ASSUME NEW j \in 1..Len(results)
            PROVE  checkTypedValue(results[j], e.vals[j])
        <4>1. PICK x : e.vals[j] = Value(x)
          BY <2>2
        <4>2. e.vals[j].canonical
          BY <4>1, OutcomeFields
        <4> QED
          BY <2>2, <4>2 DEF checkTypedValue
      <3> QED
        BY <1>4, <3>1, <3>2, <3>3 DEF RowFits
    <2>3. IsOutcome(e, results)
      BY <1>3
    <2> HIDE DEF e, results
    <2>4. \/ e = Panics(TRUE)
          \/ /\ e = OK([j \in 1..Len(results) |-> e.vals[j]])
             /\ \A j \in 1..Len(results) :
                  /\ e.vals[j] = Value(e.vals[j].n)
                  /\ e.vals[j].n \in Least(results[j])..Most(results[j])
      BY <2>3, Zenon DEF IsOutcome
    <2> USE DEF e, results
    <2> QED
      BY <2>1, <2>2, <2>4, OutcomeFields, Zenon
  <1>6. [k \in 1..n |-> s[k].e] = t
    BY <1>3, <1>4
  <1>7. parseBattery(Driver(t)) = {t}
    BY <1>1, <1>2, <1>5, <1>6 DEF parseBattery
  <1>8. Len(t) = n
    BY <1>3, CallsShape
  <1>9. validate(t)
    BY <1>5, <1>8 DEF validate
  <1> QED
    BY <1>7, <1>9 DEF Expected

\* Lines that are lost, repeated or cut off.
LEMMA LostLines ==
  ASSUME NEW t \in Truths
  PROVE  /\ \A k \in 1..Len(Lines(t)) : Expected(Output(Without(Lines(t), k))) = {}
         /\ \A k \in 1..Len(Lines(t)) : Expected(Output(Twice(Lines(t), k))) = {}
         /\ \A k \in 0..Len(Lines(t)) : Expected(Output(SubSeq(Lines(t), 1, k))) \subseteq {t}
  <1> DEFINE s == Lines(t)
             n == Len(Calls)
  <1>0. n \in Nat
    BY CallsShape
  <1>1. /\ Len(s) = n + 1 /\ \A k \in 1..n : s[k] = Row(Calls[k], t[k])
    BY LinesShape
  <1>2. PICK X : s \in Seq(X)
    BY LinesShape
  <1> HIDE DEF s, n
  <1>3. ASSUME NEW k \in 1..n + 1
        PROVE  Len(Without(s, k)) = n
    <2>1. SubSeq(s, 1, k - 1) \in Seq(X) /\ Len(SubSeq(s, 1, k - 1)) = k - 1
      BY <1>0, <1>1, <1>2
    <2>2. SubSeq(s, k + 1, n + 1) \in Seq(X) /\ Len(SubSeq(s, k + 1, n + 1)) = n + 1 - k
      BY <1>0, <1>1, <1>2
    <2> QED
      BY <1>0, <1>1, <2>1, <2>2 DEF Without
  <1>4. ASSUME NEW k \in 1..n + 1
        PROVE  Len(Twice(s, k)) = n + 2
    <2>1. SubSeq(s, 1, k) \in Seq(X) /\ Len(SubSeq(s, 1, k)) = k
      BY <1>0, <1>1, <1>2
    <2>2. SubSeq(s, k, n + 1) \in Seq(X) /\ Len(SubSeq(s, k, n + 1)) = n + 2 - k
      BY <1>0, <1>1, <1>2
    <2> QED
      BY <1>0, <1>1, <2>1, <2>2 DEF Twice
  <1>5. ASSUME NEW k \in 0..n + 1
        PROVE  Expected(Output(SubSeq(s, 1, k))) \subseteq {t}
    <2> DEFINE c == SubSeq(s, 1, k)
    <2>1. Len(c) = k /\ \A i \in 1..k : c[i] = s[i]
      BY <1>0, <1>1, <1>2
    <2> HIDE DEF c
    <2>2. Output(c).lines = c
      BY DEF Output
    <2>3. k # n + 1 => Expected(Output(c)) = {}
      BY <2>1, <2>2, LengthRefused DEF n
    <2>4. ASSUME k = n + 1
          PROVE  Expected(Output(c)) \subseteq {t}
      <3>1. \A i \in 1..n : c[i].e = t[i]
        BY <1>0, <1>1, <2>1, <2>4, RowFields
      <3> QED
        BY <2>2, <3>1, ReadAsPrinted DEF n
    <2> QED
      BY <2>3, <2>4 DEF c
  <1>6. \A k \in 1..n + 1 : /\ Expected(Output(Without(s, k))) = {}
                            /\ Expected(Output(Twice(s, k))) = {}
    <2>1. \A c : Output(c).lines = c
      BY DEF Output
    <2> QED
      BY <1>0, <1>3, <1>4, <2>1, LengthRefused DEF n
  <1> QED
    BY <1>1, <1>5, <1>6 DEF s

\* A line in another's place: every row names its call.
LEMMA SwappedLines ==
  ASSUME NEW t \in Truths, NEW i \in 1..Len(Lines(t)), NEW j \in 1..Len(Lines(t))
  PROVE  Expected(Output(Swapped(Lines(t), i, j))) \subseteq {t}
  <1> DEFINE s == Lines(t)
             n == Len(Calls)
             c == Swapped(s, i, j)
             out == Output(c)
  <1>0. n \in Nat
    BY CallsShape
  <1>1. /\ Len(s) = n + 1 /\ DOMAIN s = 1..n + 1
        /\ \A k \in 1..n : s[k] = Row(Calls[k], t[k])
        /\ s[n + 1] = EndLine(n)
    BY LinesShape
  <1>2. i \in 1..n + 1 /\ j \in 1..n + 1
    BY <1>1
  <1>3. /\ c[j] = s[i] /\ c[i] = s[j]
        /\ \A k \in 1..n + 1 : k \notin {i, j} => c[k] = s[k]
    BY <1>1, <1>2 DEF Swapped
  <1>4. out.lines = c
    BY DEF Output
  <1>5. \A a, b \in 1..n : Calls[a] = Calls[b] => a = b
    BY CallsDistinct DEF Distinct
  <1> HIDE DEF s, n, c, out
  \* One of the two is on a row it does not fit.
  <1>6. ASSUME NEW a \in 1..n, NEW b \in 1..n + 1, a # b, c[a] = s[b]
        PROVE  Expected(out) = {}
    <2>1. ~RowFits(c[a], Calls[a])
      <3>1. CASE b \in 1..n
        BY <1>1, <1>5, <1>6, <3>1, RowFields DEF RowFits
      <3>2. CASE b = n + 1
        BY <1>1, <1>6, <3>2, EndFields DEF RowFits
      <3> QED
        BY <1>0, <3>1, <3>2
    <2> QED
      BY <1>4, <2>1, RowRefused DEF n
  <1>7. CASE i = j
    <2>1. \A k \in 1..n : c[k] = Row(Calls[k], t[k])
      BY <1>0, <1>1, <1>3, <1>7
    <2>2. \A k \in 1..n : out.lines[k].e = t[k]
      BY <1>4, <2>1, RowFields
    <2> QED
      BY <2>2, ReadAsPrinted DEF out, c, s, n
  <1>8. CASE i # j
    <2>1. i \in 1..n \/ j \in 1..n
      BY <1>0, <1>2, <1>8
    <2>2. Expected(out) = {}
      BY <1>2, <1>3, <1>6, <1>8, <2>1
    <2> QED
      BY <2>2 DEF out, c, s
  <1> QED
    BY <1>7, <1>8

\* A field that is no value of its type, or no message of a runtime error.
LEMMA GarbledValue ==
  ASSUME NEW t \in Truths, NEW k \in OKRows(Lines(t)), NEW v,
         ~checkTypedValue(Specs[Calls[k][1]].results[1], v)
  PROVE  Expected(Output(Garbled(Lines(t), k, v))) = {}
  <1> DEFINE s == Lines(t)
             c == Garbled(s, k, v)
             results == Specs[Calls[k][1]].results
  <1>1. k \in 1..Len(Calls) /\ k \in DOMAIN s /\ s[k] = Row(Calls[k], t[k])
    BY OutcomeRows
  <1>2. PICK vals : t[k] = OK(vals) /\ vals = [j \in 1..Len(results) |-> vals[j]]
    BY OutcomeRows
  <1>3. 1 \in 1..Len(results)
    BY <1>1, CallsShape
  <1>4. c[k] = [s[k] EXCEPT !.e.vals[1] = v]
    BY <1>1 DEF Garbled
  <1>5. c[k].e.kind = "ok" /\ c[k].e.vals = [vals EXCEPT ![1] = v]
    <2>1. s[k] = [tag |-> "R", call |-> Calls[k], e |-> OK(vals)]
      BY <1>1, <1>2 DEF Row
    <2>2. c[k].e = [OK(vals) EXCEPT !.vals[1] = v]
      BY <1>4, <2>1
    <2> QED
      BY <2>2 DEF OK
  <1>6. ~RowFits(c[k], Calls[k])
    <2> SUFFICES ASSUME \A j \in 1..Len(results) : checkTypedValue(results[j], c[k].e.vals[j])
                 PROVE  FALSE
      BY <1>5 DEF RowFits
    <2>1. checkTypedValue(results[1], c[k].e.vals[1])
      BY <1>3
    <2>2. c[k].e.vals[1] = v
      BY <1>2, <1>3, <1>5
    <2> QED
      BY <2>1, <2>2
  <1>7. Output(c).lines = c
    BY DEF Output
  <1> HIDE DEF c
  <1>8. Expected(Output(c)) = {}
    BY <1>1, <1>6, <1>7, RowRefused
  <1> QED
    BY <1>8 DEF c, s

LEMMA GarbledPanic ==
  ASSUME NEW t \in Truths, NEW k \in PanicRows(Lines(t))
  PROVE  /\ Expected(Output([Lines(t) EXCEPT ![k].e.runtime = FALSE])) = {}
         /\ Expected(Output([Lines(t) EXCEPT ![k].e.quoted = FALSE])) = {}
  <1> DEFINE s == Lines(t)
             c == [s EXCEPT ![k].e.runtime = FALSE]
             d == [s EXCEPT ![k].e.quoted = FALSE]
  <1>1. k \in 1..Len(Calls) /\ k \in DOMAIN s /\ s[k] = Row(Calls[k], t[k])
    BY OutcomeRows
  <1>2. t[k] = Panics(TRUE)
    BY OutcomeRows
  <1>3. c[k] = [s[k] EXCEPT !.e.runtime = FALSE] /\ d[k] = [s[k] EXCEPT !.e.quoted = FALSE]
    BY <1>1
  <1>4. /\ c[k].e.kind = "panic" /\ c[k].e.runtime = FALSE
        /\ d[k].e.kind = "panic" /\ d[k].e.quoted = FALSE
    BY <1>1, <1>2, <1>3 DEF Row, Panics
  <1>5. Output(c).lines = c /\ Output(d).lines = d
    BY DEF Output
  <1> HIDE DEF c, d
  <1>6. ~RowFits(d[k], Calls[k])
    BY <1>4 DEF RowFits
  <1>7. Expected(Output(c)) = {} /\ Expected(Output(d)) = {}
    BY <1>1, <1>4, <1>5, <1>6, RowRefused, PanicRefused
  <1> QED
    BY <1>7 DEF c, d, s

\* What may have happened to the lines s of an output d, case by case.
Happened(d, s, out) ==
  \/ \E k \in 1..Len(s) : out = Output(Without(s, k)) \/ out = Output(Twice(s, k))
  \/ \E j, k \in 1..Len(s) : out = Output(Swapped(s, j, k))
  \/ \E k \in 0..Len(s) : out = Output(SubSeq(s, 1, k))
  \/ out = [d EXCEPT !.newline = FALSE]
  \/ \E k \in OKRows(s) : \E v :
       /\ out = Output(Garbled(s, k, v))
       /\ \/ \E n \in {Least(Specs[s[k].call[1]].results[1]) - 1,
                      Most(Specs[s[k].call[1]].results[1]) + 1} : v = Value(n)
          \/ v = [Value(0) EXCEPT !.canonical = FALSE]
  \/ \E k \in PanicRows(s) : \/ out = Output([s EXCEPT ![k].e.runtime = FALSE])
                             \/ out = Output([s EXCEPT ![k].e.quoted = FALSE])

LEMMA FaultyCases ==
  ASSUME NEW d, NEW s, s = d.lines, NEW out \in Faulty(d)
  PROVE  Happened(d, s, out)
  <1> DEFINE lost     == {Output(Without(d.lines, k)) : k \in 1..Len(d.lines)}
             twice    == {Output(Twice(d.lines, k)) : k \in 1..Len(d.lines)}
             swapped  == {Output(c) : c \in Swaps(d.lines)}
             cut      == {Output(SubSeq(d.lines, 1, k)) : k \in 0..Len(d.lines)}
             open     == {[d EXCEPT !.newline = FALSE]}
             Large(k) == {Output(Garbled(d.lines, k, Value(n))) :
                            n \in {Least(Specs[d.lines[k].call[1]].results[1]) - 1,
                                  Most(Specs[d.lines[k].call[1]].results[1]) + 1}}
             large    == UNION {Large(k) : k \in OKRows(d.lines)}
             odd      == {Output(Garbled(d.lines, k, [Value(0) EXCEPT !.canonical = FALSE])) :
                            k \in OKRows(d.lines)}
             panic    == {Output([d.lines EXCEPT ![k].e.runtime = FALSE]) : k \in PanicRows(d.lines)}
             bare     == {Output([d.lines EXCEPT ![k].e.quoted = FALSE]) : k \in PanicRows(d.lines)}
  <1>1. out \in lost \cup twice \cup swapped \cup cut \cup open \cup large \cup odd
               \cup panic \cup bare
    BY Zenon DEF Faulty
  <1>2. out \in lost \cup twice =>
          \E k \in 1..Len(s) : out = Output(Without(s, k)) \/ out = Output(Twice(s, k))
    OBVIOUS
  <1>3. out \in swapped => \E j, k \in 1..Len(s) : out = Output(Swapped(s, j, k))
    BY DEF Swaps
  <1>4. out \in cut => \E k \in 0..Len(s) : out = Output(SubSeq(s, 1, k))
    OBVIOUS
  <1>5. out \in open => out = [d EXCEPT !.newline = FALSE]
    OBVIOUS
  <1>6. out \in large =>
          \E k \in OKRows(s) : \E v :
            /\ out = Output(Garbled(s, k, v))
            /\ \E n \in {Least(Specs[s[k].call[1]].results[1]) - 1,
                        Most(Specs[s[k].call[1]].results[1]) + 1} : v = Value(n)
    OBVIOUS
  <1>7. out \in odd =>
          \E k \in OKRows(s) : \E v : /\ out = Output(Garbled(s, k, v))
                                 /\ v = [Value(0) EXCEPT !.canonical = FALSE]
    OBVIOUS
  <1>8. out \in panic \cup bare =>
          \E k \in PanicRows(s) : \/ out = Output([s EXCEPT ![k].e.runtime = FALSE])
                                 \/ out = Output([s EXCEPT ![k].e.quoted = FALSE])
    OBVIOUS
  <1> HIDE DEF lost, twice, swapped, cut, open, large, odd, panic, bare
  <1> QED
    BY <1>1, <1>2, <1>3, <1>4, <1>5, <1>6, <1>7, <1>8, Zenon DEF Happened

\* "No expected outcomes rather than partial ones": of any output that this
\* model has, the truth is read or nothing.
LEMMA AllOrNothing ==
  ASSUME NEW t \in Truths, NEW out \in {Driver(t)} \cup Faulty(Driver(t))
  PROVE  Expected(out) \subseteq {t}
  <1> DEFINE d == Driver(t)
             s == d.lines
  <1>0. s = Lines(t) /\ [d EXCEPT !.newline = FALSE].newline = FALSE
    BY DEF Driver, Output, Lines
  <1>1. CASE out = Driver(t)
    BY <1>1, TruthIsRead
  <1> HIDE DEF d, s
  <1>2. CASE \E k \in 1..Len(s) : out = Output(Without(s, k)) \/ out = Output(Twice(s, k))
    BY <1>0, <1>2, LostLines
  <1>3. CASE \E j, k \in 1..Len(s) : out = Output(Swapped(s, j, k))
    BY <1>0, <1>3, SwappedLines
  <1>4. CASE \E k \in 0..Len(s) : out = Output(SubSeq(s, 1, k))
    BY <1>0, <1>4, LostLines
  <1>5. CASE out = [d EXCEPT !.newline = FALSE]
    BY <1>0, <1>5 DEF Expected, parseBattery
  <1>6. ASSUME NEW k \in OKRows(s), NEW v, out = Output(Garbled(s, k, v)),
               \/ \E n \in {Least(Specs[s[k].call[1]].results[1]) - 1,
                           Most(Specs[s[k].call[1]].results[1]) + 1} : v = Value(n)
               \/ v = [Value(0) EXCEPT !.canonical = FALSE]
        PROVE  Expected(out) = {}
    <2>1. k \in 1..Len(Calls) /\ s[k].call = Calls[k]
      <3>1. k \in OKRows(Lines(t)) \cup PanicRows(Lines(t))
        BY <1>0
      <3>2. k \in 1..Len(Calls) /\ Lines(t)[k] = Row(Calls[k], t[k])
        BY <3>1, OutcomeRows
      <3> QED
        BY <1>0, <3>2, RowFields
    <2> DEFINE u == Specs[Calls[k][1]].results[1]
    <2>2. Least(u) \in Int /\ Most(u) \in Int
      BY <2>1, CallsShape, TypesHaveLimits
    <2>3. v.canonical = FALSE \/ v.n \in {Least(u) - 1, Most(u) + 1}
      <3>1. [Value(0) EXCEPT !.canonical = FALSE].canonical = FALSE
        BY DEF Value
      <3> QED
        BY <1>6, <2>1, <3>1, OutcomeFields
    <2> HIDE DEF u
    <2>4. ~checkTypedValue(u, v)
      BY <2>2, <2>3 DEF checkTypedValue
    <2> QED
      BY <1>0, <1>6, <2>4, GarbledValue DEF u
  <1>7. CASE \E k \in PanicRows(s) : \/ out = Output([s EXCEPT ![k].e.runtime = FALSE])
                                     \/ out = Output([s EXCEPT ![k].e.quoted = FALSE])
    BY <1>0, <1>7, GarbledPanic
  <1>8. CASE out \in Faulty(d)
    <2>1. CASE \E k \in OKRows(s) : \E v :
                 /\ out = Output(Garbled(s, k, v))
                 /\ \/ \E n \in {Least(Specs[s[k].call[1]].results[1]) - 1,
                                Most(Specs[s[k].call[1]].results[1]) + 1} : v = Value(n)
                    \/ v = [Value(0) EXCEPT !.canonical = FALSE]
      BY <1>6, <2>1
    <2>2. s = d.lines
      BY DEF s
    <2>3. Happened(d, s, out)
      BY <1>8, <2>2, FaultyCases
    <2> QED
      BY <1>2, <1>3, <1>4, <1>5, <1>7, <2>1, <2>3, Zenon DEF Happened
  <1> QED
    BY <1>1, <1>8 DEF d

-----------------------------------------------------------------------------
(* Whatever a battery driver prints, the pool's promises hold.             *)

\* The output of a driver decides only which of the pool's steps is taken.
LEMMA CampaignImplementsPool == CampaignSpec => Spec
  <1>1. CampaignInit => Init
    BY DEF CampaignInit
  <1>2. [CampaignNext]_allVars => [Next]_vars
    <2> SUFFICES ASSUME [CampaignNext]_allVars
                 PROVE  [Next]_vars
      OBVIOUS
    <2>1. CASE CampaignMainStep
      BY <2>1 DEF CampaignMainStep, Next
    <2>2. ASSUME NEW w \in Workers, CampaignWorkerStep(w)
          PROVE  Next
      BY <2>2 DEF CampaignWorkerStep, RunsBattery, WritesDoc, WorkerStep, Next
    <2>3. CASE UNCHANGED allVars
      BY <2>3 DEF allVars
    <2> QED
      BY <2>1, <2>2, <2>3 DEF CampaignNext
  <1> QED
    BY <1>1, <1>2, PTL DEF CampaignSpec, Spec

\* What is on disk, and what a worker is about to write.
DocsInv ==
  /\ truth \in Truths
  /\ held = [w \in Workers |-> held[w]]
  /\ docs = [j \in Jobs |-> docs[j]]
  /\ \A w \in Workers : at[w] = "write" => held[w] = {truth}
  /\ \A j \in Jobs : docs[j] = IF j \in recorded THEN {truth} ELSE {}

\* A step that neither runs nor writes a battery.
LEMMA PoolStepKeepsDocs ==
  ASSUME DocsInv, UNCHANGED campaignVars, UNCHANGED recorded,
         \A w \in Workers : at'[w] = "write" => at[w] = "write"
  PROVE  DocsInv'
  BY DEF DocsInv, campaignVars

LEMMA RunsBatteryKeepsDocs ==
  ASSUME TypeOK, DocsInv, NEW w \in Workers, RunsBattery(w)
  PROVE  DocsInv'
  <1>1. /\ RunBattery(w) /\ UNCHANGED <<truth, docs, recorded>>
        /\ at' = [at EXCEPT ![w] = "write"] \/ at' = [at EXCEPT ![w] = "fail"]
    BY DEF RunsBattery, RunBattery, Hold
  <1>2. /\ \A v \in Workers \ {w} : at'[v] = at[v]
        /\ at'[w] \in {"write", "fail"}
    BY <1>1 DEF TypeOK
  <1>3. CASE at'[w] = "write"
    <2>1. PICK out \in {Driver(truth)} \cup Faulty(Driver(truth)) :
            \E d \in Expected(out) : held' = [held EXCEPT ![w] = {d}]
      BY <1>3 DEF RunsBattery
    <2>2. PICK d \in Expected(out) : held' = [held EXCEPT ![w] = {d}]
      BY <2>1
    <2>3. d = truth
      BY <2>1, <2>2, AllOrNothing DEF DocsInv
    <2> QED
      BY <1>1, <1>2, <2>2, <2>3 DEF DocsInv
  <1>4. CASE at'[w] # "write"
    <2>1. UNCHANGED held
      BY <1>4 DEF RunsBattery
    <2> QED
      BY <1>1, <1>2, <1>4, <2>1 DEF DocsInv
  <1> QED
    BY <1>3, <1>4

LEMMA WritesDocKeepsDocs ==
  ASSUME TypeOK, DocsInv, NEW w \in Workers, WritesDoc(w), job[w] # 0
  PROVE  DocsInv'
  <1>1. /\ at[w] = "write" /\ job[w] \in Jobs /\ UNCHANGED truth
        /\ held' = [held EXCEPT ![w] = {}]
    BY DEF WritesDoc, Write, TypeOK
  <1>2. \/ at' = [at EXCEPT ![w] = "receive"] /\ recorded' = recorded \cup {job[w]}
        \/ at' = [at EXCEPT ![w] = "fail"] /\ recorded' = recorded
    BY DEF WritesDoc, Write, Receive, Hold
  <1>3. /\ \A v \in Workers \ {w} : at'[v] = at[v]
        /\ at'[w] # "write"
        /\ docs' = IF at'[w] = "receive" THEN [docs EXCEPT ![job[w]] = held[w]] ELSE docs
    BY <1>2 DEF TypeOK, WritesDoc
  <1>4. /\ held' = [v \in Workers |-> held'[v]] /\ docs' = [j \in Jobs |-> docs'[j]]
        /\ \A v \in Workers \ {w} : held'[v] = held[v]
    BY <1>1, <1>3 DEF DocsInv
  <1>5. \A j \in Jobs : docs'[j] = IF j \in recorded' THEN {truth'} ELSE {}
    BY <1>1, <1>2, <1>3 DEF DocsInv, TypeOK
  <1> QED
    BY <1>1, <1>3, <1>4, <1>5 DEF DocsInv

LEMMA DocsInductive ==
  ASSUME BatteriesInv, DocsInv, [CampaignNext]_allVars
  PROVE  DocsInv'
  <1>1. TypeOK /\ \A w \in Workers : HasJob(w)
    BY DEF BatteriesInv, Held
  <1>2. CASE CampaignMainStep
    <2>1. /\ UNCHANGED campaignVars /\ UNCHANGED recorded
          /\ \/ UNCHANGED at
             \/ \E v \in Workers : at' = [at EXCEPT ![v] = "check"]
      BY <1>2 DEF CampaignMainStep, MainStep, Send, Close, Return
    <2>2. \A w \in Workers : at'[w] = "write" => at[w] = "write"
      BY <1>1, <2>1 DEF TypeOK
    <2> QED
      BY <2>1, <2>2, PoolStepKeepsDocs
  <1>3. ASSUME NEW w \in Workers, CampaignWorkerStep(w)
        PROVE  DocsInv'
    <2>1. CASE RunsBattery(w)
      BY <1>1, <2>1, RunsBatteryKeepsDocs
    <2>2. CASE WritesDoc(w)
      <3>1. job[w] # 0
        BY <1>1, <2>2 DEF WritesDoc, Write, HasJob
      <3> QED
        BY <1>1, <2>2, <3>1, WritesDocKeepsDocs
    <2>3. CASE (Skip(w) \/ Begin(w) \/ Fail(w) \/ CancelOthers(w) \/ Leave(w))
                 /\ UNCHANGED campaignVars
      <3>1. /\ UNCHANGED recorded
            /\ \E a \in {"receive", "run", "cancel", "done"} : at' = [at EXCEPT ![w] = a]
        BY <2>3 DEF Skip, Begin, Fail, CancelOthers, Leave, Receive
      <3>2. \A v \in Workers : at'[v] = "write" => at[v] = "write"
        BY <1>1, <3>1 DEF TypeOK
      <3> QED
        BY <2>3, <3>1, <3>2, PoolStepKeepsDocs
    <2> QED
      BY <1>3, <2>1, <2>2, <2>3 DEF CampaignWorkerStep
  <1>4. CASE UNCHANGED allVars
    BY <1>4, PoolStepKeepsDocs DEF allVars, vars, campaignVars
  <1> QED
    BY <1>2, <1>3, <1>4 DEF CampaignNext

-----------------------------------------------------------------------------
\* For any functions, inputs and outcomes, any pool and number of batteries:
\* an answer without an error means that all are on disk, and an error is
\* of a battery that failed by itself.
THEOREM CampaignAnswer == CampaignSpec => [](NilMeansAll /\ FirstErrorIsCause)
  BY CampaignImplementsPool, NilIsAll, ErrorIsCause, PTL

\* And whatever of these faults a driver's output has, what is recorded is
\* what the calls came to, each at its own call, or nothing ("no expected
\* outcomes rather than partial ones", RunBattery).
THEOREM RecordedTruth == CampaignSpec => []RecordedIsTrue
  <1>1. CampaignInit => DocsInv
    BY DEF CampaignInit, Init, DocsInv
  <1>2. BatteriesInv /\ DocsInv /\ [CampaignNext]_allVars => DocsInv'
    BY DocsInductive
  <1>3. DocsInv => RecordedIsTrue
    BY TruthIsRead DEF DocsInv, RecordedIsTrue
  <1>4. CampaignSpec => []BatteriesInv
    BY CampaignImplementsPool, Inductive, PTL
  <1> QED
    BY <1>1, <1>2, <1>3, <1>4, PTL DEF CampaignSpec
=============================================================================
