--------------------------- MODULE GcAdapterProofs ---------------------------
(***************************************************************************)
(* What an observation of GcAdapter is, whatever the compiler, the program *)
(* and its descendants do, and whenever the deadlines pass.                *)
(***************************************************************************)
EXTENDS GcAdapter, TLAPS

\* The child ended well and everything that was written was copied.
WholeRun == phase = "run" /\ child = "zero" /\ ~killed /\ pipe = "copied" /\ ~flooded

\* A child that is killed takes its group with it, and nothing is left that
\* could fork into it; a run is whole from when its error is looked at.
AdapterInv ==
  /\ TypeOK
  /\ step \in {"prepare", "start"} => child = "none" /\ ~killed
  /\ step \in {"draining", "waited", "parse", "done"} => child # "alive"
  /\ step = "waited" => child = "none" \/ pipe # "open"
  /\ killed => child # "alive" /\ kin \cap InGroup = {}
  /\ step = "parse" \/ outcome.status = "ran" => WholeRun

-----------------------------------------------------------------------------
\* Run ends with an outcome only when nobody is left to write.
LEMMA DoneKeeps ==
  ASSUME AdapterInv, NEW s \in {"ran", "build-failed", "run-failed", "timeout", "adapter-error"},
         NEW w, Done(Ends(s, w)), step \in {"waited", "parse", "prepare"},
         s = "ran" => step = "parse"
  PROVE  AdapterInv'
  <1>1. /\ step' = "done" /\ outcome'.status = s
        /\ UNCHANGED <<parent, phase, ended, child, kin, pipe, killed, flooded>>
    BY DEF Done, Ends, command
  <1>2. child # "alive"
    BY DEF AdapterInv
  <1>0. TypeOK
    BY DEF AdapterInv
  <1>6. /\ outcome'.status \in {"ran", "build-failed", "run-failed", "timeout", "adapter-error"}
        /\ outcome'.status # ""
    BY <1>1
  <1>3. TypeOK'
    <2>1. (killed \in BOOLEAN /\ flooded \in BOOLEAN)'
      BY <1>0, <1>1, <1>6 DEF TypeOK
    <2>2. /\ (parent \in {"live", "canceled", "expired"})'
          /\ (phase \in {"build", "run"})'
          /\ (ended \in {"nobody", "budget", "caller"})'
          /\ (child \in {"none", "alive", "zero", "nonzero", "killed"})'
          /\ kin' \subseteq Kin /\ (pipe \in {"open", "copied", "cut"})'
      BY <1>0, <1>1, <1>6 DEF TypeOK
    <2>3. (step \in {"prepare", "start", "running", "draining",
                    "waited", "parse", "done"})'
      BY <1>0, <1>1, <1>6 DEF TypeOK
    <2>4. (outcome.status \in {"", "ran", "build-failed", "run-failed", "timeout",
                              "adapter-error"})'
      BY <1>0, <1>1, <1>6 DEF TypeOK
    <2>5. (outcome.status = "" <=> step # "done")'
      BY <1>0, <1>1, <1>6 DEF TypeOK
    <2> QED
      BY <2>1, <2>2, <2>3, <2>4, <2>5 DEF TypeOK
  <1>4. (step = "parse" \/ outcome.status = "ran" => WholeRun)'
    BY <1>1, <1>2 DEF AdapterInv, WholeRun
  <1>5. (killed => child # "alive" /\ kin \cap InGroup = {})'
    BY <1>1, <1>2 DEF AdapterInv
  <1> QED
    BY <1>1, <1>2, <1>3, <1>4, <1>5 DEF AdapterInv

LEMMA AdapterStepKeeps ==
  ASSUME AdapterInv, AdapterStep
  PROVE  AdapterInv'
  <1>0. TypeOK
    BY DEF AdapterInv
  <1>1. ASSUME NEW s \in {"build-failed", "run-failed", "timeout", "adapter-error"}, NEW w,
               Done(Ends(s, w)), step \in {"waited", "parse", "prepare"}
        PROVE  AdapterInv'
    BY <1>1, DoneKeeps
  <1>2. CASE Prepare
    <2>1. CASE step' = "start"
      <3>1. UNCHANGED <<parent, phase, child, kin, pipe, killed, flooded, outcome>>
        BY <1>2, <2>1 DEF Prepare, Done, command
      <3>2. step = "prepare" /\ ended' \in {"nobody", "caller"}
        BY <1>2, <2>1 DEF Prepare, Done
      <3>3. TypeOK'
        BY <1>0, <2>1, <3>1, <3>2 DEF TypeOK
      <3> QED
        BY <2>1, <3>1, <3>2, <3>3 DEF AdapterInv, WholeRun
    <2> QED
      BY <1>1, <1>2, <2>1 DEF Prepare
  <1>3. CASE Start
    <2>1. /\ step = "start" /\ step' \in {"running", "waited"}
          /\ child' = IF step' = "running" THEN "alive" ELSE child
          /\ UNCHANGED <<parent, phase, ended, kin, pipe, killed, flooded, outcome>>
      BY <1>3 DEF Start, command
    <2>2. TypeOK'
      BY <1>0, <2>1 DEF TypeOK
    <2> QED
      BY <2>1, <2>2 DEF AdapterInv, TypeOK, WholeRun
  <1>4. CASE KillGroup
    <2>1. /\ step = "running" /\ killed' = TRUE /\ kin' = kin \ InGroup
          /\ child' = IF child = "alive" THEN "killed" ELSE child
          /\ UNCHANGED <<parent, phase, step, ended, pipe, flooded, outcome>>
      BY <1>4 DEF KillGroup
    <2>2. TypeOK'
      BY <1>0, <2>1 DEF TypeOK
    <2> QED
      BY <2>1, <2>2 DEF AdapterInv, TypeOK, WholeRun
  <1>5. CASE Reap
    <2>1. /\ step = "running" /\ child # "alive" /\ step' = "draining"
          /\ UNCHANGED <<parent, phase, ended, child, kin, pipe, killed, flooded, outcome>>
      BY <1>5 DEF Reap, command
    <2>2. TypeOK'
      BY <1>0, <2>1 DEF TypeOK
    <2> QED
      BY <2>1, <2>2 DEF AdapterInv, TypeOK, WholeRun
  <1>6. CASE Drain
    <2>1. /\ step = "draining" /\ step' = "waited" /\ pipe' \in {"copied", "cut"}
          /\ UNCHANGED <<parent, phase, ended, child, kin, killed, flooded, outcome>>
      BY <1>6 DEF Drain
    <2>2. TypeOK'
      BY <1>0, <2>1 DEF TypeOK
    <2> QED
      BY <2>1, <2>2 DEF AdapterInv, TypeOK, WholeRun
  <1>7. CASE ClassifyBuild
    <2>1. CASE \E w : Done(Ends("build-failed", w))
      BY <1>1, <1>7, <2>1 DEF ClassifyBuild
    <2>2. CASE /\ phase' = "run" /\ step' = "start"
               /\ ended' = IF parent = "live" THEN "nobody" ELSE "caller"
               /\ child' = "none" /\ kin' = {} /\ pipe' = "open"
               /\ killed' = FALSE /\ flooded' = FALSE
               /\ UNCHANGED <<parent, outcome>>
      <3>1. TypeOK' /\ step = "waited"
        BY <1>7, <2>2 DEF ClassifyBuild, AdapterInv, TypeOK
      <3> QED
        BY <2>2, <3>1 DEF AdapterInv, TypeOK, WholeRun
    <2> QED
      BY <1>7, <2>1, <2>2 DEF ClassifyBuild
  <1>8. CASE ClassifyRun
    <2>1. CASE \E s \in {"timeout", "run-failed"} : \E w : Done(Ends(s, w))
      BY <1>1, <1>8, <2>1 DEF ClassifyRun
    <2>2. CASE /\ ~Err /\ ~flooded /\ step' = "parse"
               /\ UNCHANGED <<parent, phase, ended, command, outcome>>
      <3>1. step = "waited" /\ phase = "run"
        BY <1>8 DEF ClassifyRun
      <3>2. child = "zero" /\ ~killed /\ pipe = "copied" /\ ~flooded
        BY <2>2, <3>1 DEF Err, AdapterInv, TypeOK
      <3>3. TypeOK' /\ UNCHANGED <<parent, phase, ended, child, kin, pipe, killed, flooded, outcome>>
        BY <2>2, <3>1 DEF AdapterInv, TypeOK, command
      <3> QED
        BY <2>2, <3>1, <3>2, <3>3 DEF AdapterInv, WholeRun
    <2> QED
      BY <1>8, <2>1, <2>2 DEF ClassifyRun
  <1>9. CASE Parse
    BY <1>1, <1>9, DoneKeeps DEF Parse
  <1> QED
    BY <1>2, <1>3, <1>4, <1>5, <1>6, <1>7, <1>8, <1>9 DEF AdapterStep

LEMMA WorldStepKeeps ==
  ASSUME AdapterInv, BudgetEnds \/ WorldStep
  PROVE  AdapterInv'
  <1>0. TypeOK
    BY DEF AdapterInv
  <1>1. CASE ChildExits
    <2>1. /\ child = "alive" /\ child' \in {"zero", "nonzero"}
          /\ UNCHANGED <<parent, phase, step, ended, kin, pipe, killed, flooded, outcome>>
      BY <1>1 DEF ChildExits
    <2>2. TypeOK'
      <3>1. (killed \in BOOLEAN /\ flooded \in BOOLEAN)'
        BY <1>0, <2>1 DEF TypeOK
      <3>2. /\ (parent \in {"live", "canceled", "expired"})'
            /\ (phase \in {"build", "run"})'
            /\ (ended \in {"nobody", "budget", "caller"})'
            /\ (child \in {"none", "alive", "zero", "nonzero", "killed"})'
            /\ kin' \subseteq Kin /\ (pipe \in {"open", "copied", "cut"})'
        BY <1>0, <2>1 DEF TypeOK
      <3>3. (step \in {"prepare", "start", "running", "draining",
                      "waited", "parse", "done"})'
        BY <1>0, <2>1 DEF TypeOK
      <3>4. (outcome.status \in {"", "ran", "build-failed", "run-failed", "timeout",
                                "adapter-error"})'
        BY <1>0, <2>1 DEF TypeOK
      <3>5. (outcome.status = "" <=> step # "done")'
        BY <1>0, <2>1 DEF TypeOK
      <3> QED
        BY <3>1, <3>2, <3>3, <3>4, <3>5 DEF TypeOK
    <2> QED
      BY <2>1, <2>2 DEF AdapterInv, WholeRun
  <1>2. CASE Fork \/ KinExits
    <2>1. /\ kin' \subseteq Kin
          /\ killed => kin' \cap InGroup = {}
      \* Who could fork into the group of a killed child is dead with it.
      BY <1>2 DEF Fork, KinExits, AdapterInv, TypeOK, Kin, InGroup
    <2>2. UNCHANGED <<parent, phase, step, ended, child, pipe, killed, flooded, outcome>>
      BY <1>2 DEF Fork, KinExits
    <2>3. TypeOK'
      <3>1. (outcome.status = "" <=> step # "done")'
        BY <1>0, <2>2 DEF TypeOK
      <3>2. (killed \in BOOLEAN /\ flooded \in BOOLEAN)' /\ kin' \subseteq Kin
        BY <1>0, <2>1, <2>2 DEF TypeOK
      <3>3. /\ (parent \in {"live", "canceled", "expired"})'
            /\ (phase \in {"build", "run"})'
            /\ (step \in {"prepare", "start", "running", "draining",
                         "waited", "parse", "done"})'
            /\ (ended \in {"nobody", "budget", "caller"})'
            /\ (child \in {"none", "alive", "zero", "nonzero", "killed"})'
            /\ (pipe \in {"open", "copied", "cut"})'
            /\ (outcome.status \in {"", "ran", "build-failed", "run-failed", "timeout",
                                   "adapter-error"})'
        BY <1>0, <2>2 DEF TypeOK
      <3> QED
        BY <3>1, <3>2, <3>3 DEF TypeOK
    <2> QED
      BY <2>1, <2>2, <2>3 DEF AdapterInv, WholeRun
  <1>3. CASE Flood
    <2>1. /\ step \in {"running", "draining"} /\ flooded' = TRUE
          /\ UNCHANGED <<parent, phase, step, ended, child, kin, pipe, killed, outcome>>
      BY <1>3 DEF Flood
    <2>2. TypeOK'
      BY <1>0, <2>1 DEF TypeOK
    <2> QED
      BY <2>1, <2>2 DEF AdapterInv, TypeOK, WholeRun
  <1>4. CASE ParentEnds \/ BudgetEnds
    <2>1. UNCHANGED <<phase, step, child, kin, pipe, killed, flooded, outcome>>
      BY <1>4 DEF ParentEnds, BudgetEnds, command
    <2>2. parent' \in {"live", "canceled", "expired"} /\ ended' \in {"nobody", "budget", "caller"}
      BY <1>4 DEF ParentEnds, BudgetEnds, AdapterInv, TypeOK
    <2>3. TypeOK'
      BY <1>0, <2>1, <2>2 DEF TypeOK
    <2> QED
      BY <2>1, <2>3 DEF AdapterInv, WholeRun
  <1> QED
    BY <1>1, <1>2, <1>3, <1>4 DEF WorldStep

LEMMA AdapterInductive == Spec => []AdapterInv
  <1>1. Init => AdapterInv
    <2> SUFFICES ASSUME Init
                 PROVE  AdapterInv
      OBVIOUS
    <2>1. outcome.status = ""
      BY DEF Init, Pending
    <2>2. TypeOK
      BY <2>1 DEF Init, TypeOK
    <2> QED
      BY <2>1, <2>2 DEF Init, AdapterInv
  <1>2. AdapterInv /\ [Next]_vars => AdapterInv'
    <2>1. TypeOK /\ UNCHANGED vars => TypeOK'
      BY ZenonT(30) DEF vars, TypeOK
    <2>2. AdapterInv /\ UNCHANGED vars => AdapterInv'
      BY <2>1 DEF vars, AdapterInv, WholeRun
    <2> QED
      BY <2>2, AdapterStepKeeps, WorldStepKeeps DEF Next
  <1> QED
    BY <1>1, <1>2, PTL DEF Spec

-----------------------------------------------------------------------------
\* No prefix of an output is ever an observation: a program counts as run
\* only if it ended by itself with status zero and nothing of what it or its
\* descendants wrote was cut off or dropped.
THEOREM ObservedIsComplete == Spec => []RanIsComplete
  <1>1. AdapterInv => RanIsComplete
    BY DEF AdapterInv, RanIsComplete, WholeRun
  <1> QED
    BY <1>1, AdapterInductive, PTL

\* A deadline that takes the child takes its group, and nothing that it
\* missed can fork into that group later.
THEOREM GroupDies == Spec => []GroupDiesWithChild
  <1>1. AdapterInv => GroupDiesWithChild
    BY DEF AdapterInv, GroupDiesWithChild
  <1> QED
    BY <1>1, AdapterInductive, PTL
=============================================================================
