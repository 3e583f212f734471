---------------------------- MODULE PublishProofs ----------------------------
(***************************************************************************)
(* Proofs about Publish, for any number of runs and any set of processes   *)
(* except where a theorem says otherwise: types, the claim of the checks   *)
(* and strangers' files, and then, with one process at a time on an -out,  *)
(* that a published batch is whole and the newest one is never lost.       *)
(***************************************************************************)
EXTENDS PublishSafety, TLAPS

USE DEF Path, Name, Entry

-----------------------------------------------------------------------------
(* The moves of a process are well typed.                                  *)

\* A directory of files is a node (the records the code's trees become).
LEMMA DirType == \A files \in SUBSET Entry : Dir(files) \in Node
  BY DEF Dir, Node

LEMMA ConstantNodes == /\ NoNode \in Node
                       /\ EmptyDir \in Node
                       /\ UserFile \in Node
                       /\ Dir({Foreign}) \in Node
  BY DEF NoNode, EmptyDir, UserFile, Foreign, Dir, Node

LEMMA GotoType ==
  ASSUME TypeOK, NEW p \in Procs, NEW step \in Step, Goto(p, step)
  PROVE  /\ pc' \in [Procs -> Step]
         /\ mode' \in [Procs -> {"generate", "check"}]
         /\ run' \in [Procs -> Nat]
         /\ runs' \in Nat
  BY DEF TypeOK, Goto

LEMMA RenameType ==
  ASSUME TypeOK, NEW src \in Path, NEW dst \in Path, Rename(src, dst)
  PROVE  fs' \in [Path -> Node]
  BY ConstantNodes DEF TypeOK, Rename

LEMMA PutType ==
  ASSUME TypeOK, NEW path \in Path, NEW node \in Node, Put(path, node)
  PROVE  TypeOK'
  BY DEF TypeOK, Put

LEMMA RefuseType ==
  ASSUME TypeOK, NEW p \in Procs, Refuse(p)
  PROVE  TypeOK'
  BY DEF TypeOK, Refuse, Goto, Step

LEMMA RemoveAllType ==
  ASSUME TypeOK, NEW p \in Procs, NEW path \in Path, NEW next \in Step,
         RemoveAll(p, path, next)
  PROVE  TypeOK'
  <1>1. pc[p] \in Step
    BY DEF TypeOK
  <1>2. \A e : Dir(fs[path].files \ {e}) \in Node
    BY DirType DEF TypeOK, Node
  <1>3. fs' \in [Path -> Node]
    <2>1. ASSUME NEW node \in Node, fs' = [fs EXCEPT ![path] = node]
          PROVE  fs' \in [Path -> Node]
      BY <2>1 DEF TypeOK
    <2>2. \/ \E e : fs' = [fs EXCEPT ![path] = Dir(fs[path].files \ {e})]
          \/ fs' = [fs EXCEPT ![path] = NoNode]
      BY DEF RemoveAll
    <2> QED
      BY <1>2, <2>1, <2>2, ConstantNodes
  <1>4. Goto(p, pc[p]) \/ Goto(p, next)
    BY DEF RemoveAll
  <1> QED
    BY <1>1, <1>3, <1>4, GotoType DEF TypeOK

LEMMA WriteStagedType ==
  ASSUME TypeOK, NEW p \in Procs, NEW name \in Name, NEW r \in Nat,
         NEW next \in Step, WriteStaged(p, name, r, next)
  PROVE  TypeOK'
  <1>1. {e \in fs["staging"].files : e[1] # name} \cup {<<name, r>>} \in SUBSET Entry
    BY DEF TypeOK, Node
  <1>2. fs' \in [Path -> Node]
    BY <1>1, DirType DEF WriteStaged, TypeOK
  <1> QED
    BY <1>2, GotoType DEF WriteStaged, TypeOK

-----------------------------------------------------------------------------
\* Every step of a run, of the user and of a crash keeps the state typed.
LEMMA RunStepType ==
  ASSUME TypeOK, NEW p \in Procs, RunStep(p)
  PROVE  TypeOK'
  <1> USE DEF Step
  <1>1. CASE Validate(p)
    BY <1>1, RefuseType, GotoType DEF Validate, TypeOK
  <1>2. CASE StatPrev(p)
    BY <1>2, GotoType DEF StatPrev, TypeOK
  <1>3. CASE RestorePrev(p)
    BY <1>3, RefuseType, GotoType, RenameType DEF RestorePrev, TypeOK
  <1>4. CASE DropPrev(p)
    BY <1>4, RemoveAllType DEF DropPrev
  <1>5. CASE StatStaging(p)
    BY <1>5, GotoType DEF StatStaging, TypeOK
  <1>6. CASE DropStaging(p)
    BY <1>6, RemoveAllType DEF DropStaging
  <1>7. CASE MakeStaging(p)
    BY <1>7, GotoType, ConstantNodes DEF MakeStaging, TypeOK
  <1>8. CASE ClaimStaging(p)
    BY <1>8, RefuseType, GotoType, ConstantNodes DEF ClaimStaging, TypeOK
  <1>9. CASE WriteMarker(p)
    BY <1>9, RefuseType, WriteStagedType DEF WriteMarker, TypeOK
  <1>10. CASE WriteGoMod(p)
    BY <1>10, RefuseType, WriteStagedType DEF WriteGoMod, TypeOK
  <1>11. CASE WriteCases(p)
    BY <1>11, RefuseType, WriteStagedType DEF WriteCases, TypeOK
  <1>12. CASE WriteManifest(p)
    BY <1>12, RefuseType, WriteStagedType DEF WriteManifest, TypeOK
  <1>13. CASE JudgeBatch(p)
    BY <1>13, RefuseType, GotoType DEF JudgeBatch, TypeOK
  <1>14. CASE WriteComplete(p)
    <2>1. \A e \in fs["staging"].files : e[2] \in Nat
      BY DEF TypeOK, Node
    <2> QED
      BY <1>14, <2>1, RefuseType, WriteStagedType DEF WriteComplete
  <1>15. CASE StatOut(p)
    BY <1>15, GotoType DEF StatOut, TypeOK
  <1>16. CASE MoveAside(p)
    BY <1>16, RefuseType, GotoType, RenameType DEF MoveAside, TypeOK
  <1>17. CASE Swap(p)
    BY <1>17, RefuseType, GotoType, RenameType DEF Swap, TypeOK
  <1>18. CASE Cleanup(p)
    BY <1>18, RemoveAllType DEF Cleanup
  <1>19. CASE StatCheckOut(p)
    BY <1>19, GotoType DEF StatCheckOut, TypeOK
  <1>20. CASE RemoveOut(p)
    BY <1>20, RefuseType, GotoType, ConstantNodes DEF RemoveOut, TypeOK
  <1>21. CASE CheckSwap(p)
    BY <1>21, RefuseType, GotoType, RenameType DEF CheckSwap, TypeOK
  <1> QED
    BY <1>1, <1>2, <1>3, <1>4, <1>5, <1>6, <1>7, <1>8, <1>9, <1>10, <1>11,
       <1>12, <1>13, <1>14, <1>15, <1>16, <1>17, <1>18, <1>19, <1>20, <1>21
       DEF RunStep

LEMMA UserStepType ==
  ASSUME TypeOK, UserStep
  PROVE  TypeOK'
  BY PutType, ConstantNodes
     DEF UserStep, MkdirOut, FillOut, TakeOut, ClearSibling

\* The state of the publication protocol is always well typed (the types of
\* the variables that stand for the three paths and the runs).
THEOREM TypeCorrect == Spec => []TypeOK
  <1>1. Init => TypeOK
    BY ConstantNodes DEF Init, TypeOK, Step
  <1>2. ASSUME TypeOK, [Next]_vars
        PROVE  TypeOK'
    <2>1. ASSUME NEW p \in Procs, Start(p)
          PROVE  TypeOK'
      BY <1>2, <2>1, PublishAssumption DEF Start, TypeOK, Step
    <2>2. ASSUME NEW p \in Procs, Crash(p)
          PROVE  TypeOK'
      BY <1>2, <2>2, RefuseType DEF Crash
    <2>3. CASE UNCHANGED vars
      BY <1>2, <2>3 DEF vars, TypeOK
    <2> QED
      BY <1>2, <2>1, <2>2, <2>3, RunStepType, UserStepType DEF Next
  <1> QED
    BY <1>1, <1>2, PTL DEF Spec

-----------------------------------------------------------------------------
(* What the moves of a process leave at the three paths.                   *)

LEMMA GotoAt ==
  ASSUME TypeOK, NEW p \in Procs, NEW step, Goto(p, step)
  PROVE  pc'[p] = step /\ mode'[p] = mode[p] /\ run'[p] = run[p] /\ runs' = runs
  BY DEF TypeOK, Goto

LEMMA RefuseAt ==
  ASSUME TypeOK, NEW p \in Procs, Refuse(p)
  PROVE  /\ pc'[p] = "idle" /\ mode'[p] = mode[p] /\ run'[p] = run[p]
         /\ runs' = runs /\ fs' = fs
  BY DEF TypeOK, Refuse, Goto

LEMMA RenameAt ==
  ASSUME TypeOK, NEW src \in Path, NEW dst \in Path, src # dst, Rename(src, dst)
  PROVE  /\ fs'[src] = NoNode
         /\ fs'[dst] = fs[src]
         /\ \A path \in Path \ {src, dst} : fs'[path] = fs[path]
  BY DEF TypeOK, Rename

LEMMA SetAt ==
  ASSUME TypeOK, NEW path \in Path, NEW node, fs' = [fs EXCEPT ![path] = node]
  PROVE  /\ fs'[path] = node
         /\ \A other \in Path \ {path} : fs'[other] = fs[other]
  BY DEF TypeOK

\* RemoveAll leaves less of the directory, or nothing at the path.
LEMMA RemoveAllAt ==
  ASSUME TypeOK, NEW p \in Procs, NEW path \in Path, NEW next,
         RemoveAll(p, path, next)
  PROVE  /\ \A other \in Path \ {path} : fs'[other] = fs[other]
         /\ mode'[p] = mode[p] /\ run'[p] = run[p] /\ runs' = runs
         /\ fs'[path].files \subseteq fs[path].files
         /\ \/ pc'[p] = pc[p] /\ fs'[path].kind = "dir"
            \/ pc'[p] = next /\ fs'[path] = NoNode
  <1>1. CASE /\ fs[path].kind = "dir"
             /\ \E e \in fs[path].files :
                  fs' = [fs EXCEPT ![path] = Dir(fs[path].files \ {e})]
             /\ Goto(p, pc[p])
    <2>1. PICK e : fs' = [fs EXCEPT ![path] = Dir(fs[path].files \ {e})]
      BY <1>1
    <2>2. fs'[path] = Dir(fs[path].files \ {e})
      BY <2>1, SetAt
    <2>3. /\ fs'[path].kind = "dir"
          /\ fs'[path].files \subseteq fs[path].files
      BY <2>2 DEF Dir
    <2>4. \A other \in Path \ {path} : fs'[other] = fs[other]
      BY <2>1, SetAt
    <2>5. pc'[p] = pc[p] /\ mode'[p] = mode[p] /\ run'[p] = run[p] /\ runs' = runs
      BY <1>1, GotoAt
    <2> QED
      BY <2>3, <2>4, <2>5
  <1>2. CASE fs' = [fs EXCEPT ![path] = NoNode] /\ Goto(p, next)
    <2>1. fs'[path] = NoNode /\ \A other \in Path \ {path} : fs'[other] = fs[other]
      BY <1>2, SetAt
    <2>2. pc'[p] = next /\ mode'[p] = mode[p] /\ run'[p] = run[p] /\ runs' = runs
      BY <1>2, GotoAt
    <2>3. fs'[path].files = {}
      BY <2>1 DEF NoNode
    <2> QED
      BY <2>1, <2>2, <2>3
  <1> QED
    BY <1>1, <1>2 DEF RemoveAll

\* A staged file stands beside everything of another name.
LEMMA WriteStagedAt ==
  ASSUME TypeOK, NEW p \in Procs, NEW name, NEW r, NEW next,
         WriteStaged(p, name, r, next)
  PROVE  /\ fs'["out"] = fs["out"] /\ fs'["prev"] = fs["prev"]
         /\ pc'[p] = next /\ mode'[p] = mode[p] /\ run'[p] = run[p] /\ runs' = runs
         /\ fs'["staging"].kind = "dir"
         /\ <<name, r>> \in fs'["staging"].files
         /\ \A e \in fs["staging"].files : e[1] # name => e \in fs'["staging"].files
         /\ \A e \in fs'["staging"].files :
              (e[1] = name /\ e[2] = r) \/ e \in fs["staging"].files
  <1>1. fs'["staging"] =
          Dir({e \in fs["staging"].files : e[1] # name} \cup {<<name, r>>})
    BY SetAt DEF WriteStaged
  <1>2. fs'["out"] = fs["out"] /\ fs'["prev"] = fs["prev"]
    BY SetAt DEF WriteStaged
  <1>3. pc'[p] = next /\ mode'[p] = mode[p] /\ run'[p] = run[p] /\ runs' = runs
    BY GotoAt DEF WriteStaged
  <1> QED
    BY <1>1, <1>2, <1>3 DEF Dir

\* Only the process that moves changes its step, and no step of a run its mode.
LEMMA OthersStay ==
  ASSUME TypeOK, NEW p \in Procs, RunStep(p)
  PROVE  mode' = mode /\ \A q \in Procs \ {p} : pc'[q] = pc[q]
  <1>1. \A step : Goto(p, step) => mode' = mode /\ \A q \in Procs \ {p} : pc'[q] = pc[q]
    BY DEF Goto, TypeOK
  <1>2. \E step : Goto(p, step)
    BY DEF RunStep, Validate, StatPrev, RestorePrev, DropPrev, StatStaging, DropStaging,
       MakeStaging, ClaimStaging, WriteMarker, WriteGoMod, WriteCases, WriteManifest,
       JudgeBatch, WriteComplete, StatOut, MoveAside, Swap, Cleanup, StatCheckOut,
       RemoveOut, CheckSwap, RemoveAll, WriteStaged, Refuse
  <1> QED
    BY <1>1, <1>2

-----------------------------------------------------------------------------
(* Any number of checks.                                                   *)

FilesStay == \A path \in Path :
               \/ fs[path].files \subseteq fs'[path].files
               \/ path = "staging" /\ fs'["out"] = fs["staging"]

\* One process moves; the staging tree is its own if it builds or claims it.
LEMMA CheckKeeps ==
  ASSUME CheckInv, TypeOK', NEW p \in Procs, mode' = mode,
         \A q \in Procs \ {p} : pc'[q] = pc[q],
         \A path \in Path : Bare(fs'[path]),
         pc'[p] = "idle" \/ (mode[p] = "check" /\ pc'[p] \notin GenerateOnly),
         Building(p) \/ ~Exists("staging") \/ fs'["staging"] = fs["staging"],
         Building(p)' => /\ Building(p) \/ ~Exists("staging")
                         /\ fs'["staging"].kind = "dir"
                         /\ Unwritten(fs'["staging"], pc'[p]),
         \A q \in Procs : pc'[q] = "rmdir" => fs'["out"].kind # "file"
  PROVE  CheckInv'
  <1>1. \A q \in Procs \ {p} : Building(q)' <=> Building(q)
    BY DEF Building
  <1>2. \A q \in Procs \ {p} : Building(q) =>
           ~Building(p) /\ fs["staging"].kind = "dir" /\ Unwritten(fs["staging"], pc[q])
    BY DEF CheckInv, ClaimExclusive
  <1>3. \A q \in Procs \ {p} : Building(q) => fs'["staging"] = fs["staging"] /\ ~Building(p)'
    BY <1>2 DEF Exists
  <1>4. ClaimExclusive'
    BY <1>1, <1>3 DEF CheckInv, ClaimExclusive
  <1>5. \A q \in Procs :
          Building(q)' => fs'["staging"].kind = "dir" /\ Unwritten(fs'["staging"], pc'[q])
    BY <1>1, <1>2, <1>3
  <1>6. \A q \in Procs : pc'[q] = "idle" \/ (mode'[q] = "check" /\ pc'[q] \notin GenerateOnly)
    BY DEF CheckInv, At
  <1> QED
    BY <1>4, <1>5, <1>6 DEF CheckInv, At

\* A run that is refused leaves everything where it is.
LEMMA CheckRefuses ==
  ASSUME CheckInv, NEW p \in Procs, Refuse(p)
  PROVE  CheckInv' /\ FilesStay
  <1>1. TypeOK /\ TypeOK'
    BY RefuseType DEF CheckInv
  <1>2. pc'[p] = "idle" /\ fs' = fs /\ mode' = mode /\ \A q \in Procs \ {p} : pc'[q] = pc[q]
    BY <1>1 DEF Refuse, Goto, TypeOK
  <1>3. ~Building(p)'
    BY <1>2 DEF Building
  <1>4. \A q \in Procs : pc'[q] = "rmdir" => fs'["out"].kind # "file"
    BY <1>2 DEF CheckInv, At
  <1>5. CheckInv'
    BY <1>1, <1>2, <1>3, <1>4, CheckKeeps DEF CheckInv
  <1> QED
    BY <1>2, <1>5 DEF FilesStay

\* A check writes a file that its staging tree does not have yet.
LEMMA CheckWrites ==
  ASSUME CheckInv, TypeOK', NEW p \in Procs, NEW name, NEW r, NEW next,
         WriteStaged(p, name, r, next), mode' = mode,
         \A q \in Procs \ {p} : pc'[q] = pc[q],
         Building(p), ~Has(fs["staging"], name),
         next \in {"gomod", "cases", "manifest", "judge", "complete", "checkpublish"},
         \A s : (Unwritten(fs["staging"], pc[p])
                  /\ \A e \in s.files : e[1] = name \/ e \in fs["staging"].files)
                => Unwritten(s, next)
  PROVE  CheckInv' /\ FilesStay
  <1>1. TypeOK
    BY DEF CheckInv
  <1>2. /\ fs'["out"] = fs["out"] /\ fs'["prev"] = fs["prev"]
        /\ pc'[p] = next /\ mode'[p] = mode[p] /\ run'[p] = run[p] /\ runs' = runs
        /\ fs'["staging"].kind = "dir"
        /\ <<name, r>> \in fs'["staging"].files
        /\ \A e \in fs["staging"].files : e[1] # name => e \in fs'["staging"].files
        /\ \A e \in fs'["staging"].files :
             (e[1] = name /\ e[2] = r) \/ e \in fs["staging"].files
    BY <1>1, WriteStagedAt
  <1>3. FilesStay
    BY <1>2 DEF FilesStay, Has
  <1>4. \A path \in Path : Bare(fs'[path])
    BY <1>2 DEF CheckInv, Bare
  <1>5. mode[p] = "check"
    BY DEF CheckInv, Building, At
  <1>6. Unwritten(fs'["staging"], pc'[p])
    BY <1>2 DEF CheckInv
  <1>7. pc'[p] \notin GenerateOnly /\ pc'[p] # "rmdir"
    BY <1>2 DEF GenerateOnly
  <1>8. \A q \in Procs : pc'[q] = "rmdir" => fs'["out"].kind # "file"
    BY <1>2, <1>7 DEF CheckInv, At
  <1> QED
    BY <1>2, <1>3, <1>4, <1>5, <1>6, <1>7, <1>8, CheckKeeps

\* The steps that write a file of the batch.
LEMMA CheckWriteSteps ==
  ASSUME CheckInv, NEW p \in Procs,
         WriteMarker(p) \/ WriteGoMod(p) \/ WriteCases(p) \/ WriteManifest(p) \/ WriteComplete(p)
  PROVE  CheckInv' /\ FilesStay
  <1>1. TypeOK /\ RunStep(p)
    BY DEF CheckInv, RunStep
  <1>2. TypeOK' /\ mode' = mode /\ \A q \in Procs \ {p} : pc'[q] = pc[q]
    BY <1>1, RunStepType, OthersStay
  <1>3. Building(p)
    BY DEF WriteMarker, WriteGoMod, WriteCases, WriteManifest, WriteComplete, At, Building
  <1>4. Unwritten(fs["staging"], pc[p]) /\ mode[p] = "check"
    BY <1>3 DEF CheckInv, Building, At
  <1>5. CASE Refuse(p)
    BY <1>5, CheckRefuses
  <1>6. ASSUME WriteMarker(p), ~Refuse(p)
        PROVE  CheckInv' /\ FilesStay
    <2>1. pc[p] = "mark" /\ WriteStaged(p, "marker", run[p], "gomod")
      BY <1>6 DEF WriteMarker, At
    <2>2. \A s : (Unwritten(fs["staging"], pc[p])
                  /\ \A e \in s.files : e[1] = "marker" \/ e \in fs["staging"].files)
                => Unwritten(s, "gomod")
      BY <2>1 DEF Unwritten, Has
    <2>3. ~Has(fs["staging"], "marker")
      BY <1>4, <2>1 DEF Unwritten
    <2> QED
      BY <1>2, <1>3, <2>1, <2>2, <2>3, CheckWrites
  <1>7. ASSUME WriteGoMod(p), ~Refuse(p)
        PROVE  CheckInv' /\ FilesStay
    <2>1. pc[p] = "gomod" /\ WriteStaged(p, "gomod", run[p], "cases")
      BY <1>7 DEF WriteGoMod, At
    <2>2. \A s : (Unwritten(fs["staging"], pc[p])
                  /\ \A e \in s.files : e[1] = "gomod" \/ e \in fs["staging"].files)
                => Unwritten(s, "cases")
      BY <2>1 DEF Unwritten, Has
    <2>3. ~Has(fs["staging"], "gomod")
      BY <1>4, <2>1 DEF Unwritten
    <2> QED
      BY <1>2, <1>3, <2>1, <2>2, <2>3, CheckWrites
  <1>8. ASSUME WriteCases(p), ~Refuse(p)
        PROVE  CheckInv' /\ FilesStay
    <2>1. pc[p] = "cases" /\ WriteStaged(p, "cases", run[p], "manifest")
      BY <1>8 DEF WriteCases, At
    <2>2. \A s : (Unwritten(fs["staging"], pc[p])
                  /\ \A e \in s.files : e[1] = "cases" \/ e \in fs["staging"].files)
                => Unwritten(s, "manifest")
      BY <2>1 DEF Unwritten, Has
    <2>3. ~Has(fs["staging"], "cases")
      BY <1>4, <2>1 DEF Unwritten
    <2> QED
      BY <1>2, <1>3, <2>1, <2>2, <2>3, CheckWrites
  <1>9. ASSUME WriteManifest(p), ~Refuse(p)
        PROVE  CheckInv' /\ FilesStay
    <2>1. pc[p] = "manifest" /\ WriteStaged(p, "manifest", run[p], "judge")
      BY <1>9 DEF WriteManifest, At
    <2>2. \A s : (Unwritten(fs["staging"], pc[p])
                  /\ \A e \in s.files : e[1] = "manifest" \/ e \in fs["staging"].files)
                => Unwritten(s, "judge")
      BY <2>1 DEF Unwritten, Has
    <2>3. ~Has(fs["staging"], "manifest")
      BY <1>4, <2>1 DEF Unwritten
    <2> QED
      BY <1>2, <1>3, <2>1, <2>2, <2>3, CheckWrites
  <1>10. ASSUME WriteComplete(p), ~Refuse(p)
        PROVE  CheckInv' /\ FilesStay
    <2>1. PICK r : pc[p] = "complete" /\ WriteStaged(p, "complete", r, "checkpublish")
      BY <1>4, <1>10 DEF WriteComplete, At
    <2>2. \A s : (Unwritten(fs["staging"], pc[p])
                  /\ \A e \in s.files : e[1] = "complete" \/ e \in fs["staging"].files)
                => Unwritten(s, "checkpublish")
      BY DEF Unwritten
    <2>3. ~Has(fs["staging"], "complete")
      BY <1>4, <2>1 DEF Unwritten
    <2> QED
      BY <1>2, <1>3, <2>1, <2>2, <2>3, CheckWrites
  <1> QED
    BY <1>5, <1>6, <1>7, <1>8, <1>9, <1>10

\* Every step of a check leaves the files where they are, or publishes them.
LEMMA CheckRunStep ==
  ASSUME CheckInv, NEW p \in Procs, RunStep(p)
  PROVE  CheckInv' /\ FilesStay
  <1>1. TypeOK
    BY DEF CheckInv
  <1>2. TypeOK' /\ mode' = mode /\ \A q \in Procs \ {p} : pc'[q] = pc[q]
    BY <1>1, RunStepType, OthersStay
  <1>3. pc[p] \notin GenerateOnly /\ (pc[p] # "idle" => mode[p] = "check")
    BY DEF CheckInv, At, GenerateOnly
  <1>4. CASE Refuse(p)
    BY <1>4, CheckRefuses
  \* A step that reads and decides.
  <1>5. ASSUME NEW step \in {"claim", "complete", "checkswap", "rmdir"},
               fs' = fs, Goto(p, step), pc[p] # "idle",
               step \in {"complete", "checkswap", "rmdir"} => Building(p),
               step = "complete" => Unwritten(fs["staging"], pc[p]) /\ pc[p] = "judge",
               step = "rmdir" => fs["out"].kind # "file"
        PROVE  CheckInv' /\ FilesStay
    <2>1. pc'[p] = step
      BY <1>1, <1>5, GotoAt
    <2>2. step \notin GenerateOnly
      BY <1>5 DEF GenerateOnly
    <2>3. Building(p)' => Building(p)
      BY <1>5, <2>1 DEF Building
    <2>4. Building(p) => fs["staging"].kind = "dir" /\ Unwritten(fs["staging"], pc[p])
      BY DEF CheckInv
    <2>5. Building(p)' => Unwritten(fs["staging"], step)
      BY <1>5, <2>1, <2>4 DEF Building, Unwritten
    <2>6. \A q \in Procs : pc'[q] = "rmdir" => fs'["out"].kind # "file"
      BY <1>2, <1>5, <2>1 DEF CheckInv, At
    <2>7. \A path \in Path : Bare(fs'[path])
      BY <1>5 DEF CheckInv
    <2>8. CheckInv'
      BY <1>2, <1>3, <1>5, <2>1, <2>2, <2>3, <2>4, <2>5, <2>6, <2>7, CheckKeeps
    <2> QED
      BY <1>5, <2>8 DEF FilesStay
  <1>6. CASE Validate(p)
    BY <1>3, <1>4, <1>5, <1>6 DEF Validate, At
  <1>7. CASE ClaimStaging(p) /\ ~Refuse(p)
    <2>1. ~Exists("staging") /\ fs' = [fs EXCEPT !["staging"] = EmptyDir] /\ Goto(p, "mark")
      BY <1>7 DEF ClaimStaging
    <2>2. /\ fs'["staging"] = EmptyDir /\ pc'[p] = "mark"
          /\ fs'["out"] = fs["out"] /\ fs'["prev"] = fs["prev"]
      BY <1>1, <2>1, SetAt, GotoAt
    <2>3. EmptyDir.kind = "dir" /\ EmptyDir.files = {}
      BY DEF EmptyDir, Dir
    <2>4. Unwritten(fs'["staging"], "mark")
      BY <2>2, <2>3 DEF Unwritten, Has
    <2>5. \A path \in Path : Bare(fs'[path])
      BY <2>2, <2>3 DEF CheckInv, Bare
    <2>6. \A q \in Procs : pc'[q] = "rmdir" => fs'["out"].kind # "file"
      BY <1>2, <2>2 DEF CheckInv, At
    <2>7. mode[p] = "check" /\ "mark" \notin GenerateOnly
      BY <1>3, <1>7 DEF ClaimStaging, At, GenerateOnly
    <2>8. CheckInv'
      BY <1>2, <2>1, <2>2, <2>3, <2>4, <2>5, <2>6, <2>7, CheckKeeps
    <2>9. fs["staging"].files = {}
      BY <2>1 DEF CheckInv, Bare, Exists
    <2> QED
      BY <2>2, <2>8, <2>9 DEF FilesStay
  <1>8. CASE JudgeBatch(p)
    <2>1. pc[p] = "judge" /\ Building(p)
      BY <1>8 DEF JudgeBatch, At, Building
    <2>2. Unwritten(fs["staging"], pc[p])
      BY <2>1 DEF CheckInv
    <2> QED
      BY <1>4, <1>5, <1>8, <2>1, <2>2 DEF JudgeBatch
  <1>9. CASE StatCheckOut(p)
    <2>1. pc[p] = "checkpublish" /\ Building(p) /\ fs' = fs
      BY <1>9 DEF StatCheckOut, At, Building
    <2>2. fs["out"] = EmptyDir => fs["out"].kind # "file"
      BY DEF EmptyDir, Dir
    <2>3. Goto(p, "idle") => Refuse(p)
      BY <2>1 DEF Refuse
    <2> QED
      BY <1>4, <1>5, <1>9, <2>1, <2>2, <2>3 DEF StatCheckOut
  <1>10. CASE RemoveOut(p) /\ ~Refuse(p)
    <2>1. pc[p] = "rmdir" /\ Building(p) /\ fs["out"].kind # "file"
      BY <1>10 DEF RemoveOut, At, Building, CheckInv
    <2>2. fs["out"] = EmptyDir /\ fs' = [fs EXCEPT !["out"] = NoNode] /\ Goto(p, "checkswap")
      BY <1>10, <2>1 DEF RemoveOut
    <2>3. /\ fs'["out"] = NoNode /\ pc'[p] = "checkswap"
          /\ fs'["staging"] = fs["staging"] /\ fs'["prev"] = fs["prev"]
      BY <1>1, <2>2, SetAt, GotoAt
    <2>4. NoNode.kind = "none" /\ NoNode.files = {} /\ EmptyDir.files = {}
      BY DEF NoNode, EmptyDir, Dir
    <2>5. \A path \in Path : Bare(fs'[path])
      BY <2>3, <2>4 DEF CheckInv, Bare
    <2>6. fs["staging"].kind = "dir" /\ Unwritten(fs'["staging"], "checkswap")
      BY <2>1 DEF CheckInv, Unwritten
    <2>7. "checkswap" \notin GenerateOnly
      BY DEF GenerateOnly
    <2>8. CheckInv'
      BY <1>2, <1>3, <2>1, <2>3, <2>4, <2>5, <2>6, <2>7, CheckKeeps
    <2> QED
      BY <2>2, <2>3, <2>4, <2>8 DEF FilesStay
  <1>11. CASE CheckSwap(p) /\ ~Refuse(p)
    <2>1. pc[p] = "checkswap" /\ Building(p) /\ fs["staging"].kind = "dir"
      BY <1>11 DEF CheckSwap, At, Building, CheckInv
    <2>2. ~Exists("out") /\ Rename("staging", "out") /\ Goto(p, "idle")
      BY <1>11 DEF CheckSwap, CanRename
    <2>3. /\ fs'["staging"] = NoNode /\ fs'["out"] = fs["staging"] /\ pc'[p] = "idle"
          /\ fs'["prev"] = fs["prev"]
      BY <1>1, <2>2, RenameAt, GotoAt
    <2>4. NoNode.kind = "none" /\ NoNode.files = {} /\ fs["out"].files = {}
      BY <2>2 DEF NoNode, CheckInv, Bare, Exists
    <2>5. \A path \in Path : Bare(fs'[path])
      BY <2>3, <2>4 DEF CheckInv, Bare
    <2>6. ~Building(p)'
      BY <2>3 DEF Building
    <2>7. CheckInv'
      BY <1>2, <2>1, <2>3, <2>5, <2>6, CheckKeeps
    <2> QED
      BY <2>3, <2>4, <2>7 DEF FilesStay
  <1>12. \/ Refuse(p) \/ Validate(p) \/ ClaimStaging(p) \/ JudgeBatch(p)
         \/ WriteMarker(p) \/ WriteGoMod(p) \/ WriteCases(p) \/ WriteManifest(p)
         \/ WriteComplete(p) \/ StatCheckOut(p) \/ RemoveOut(p) \/ CheckSwap(p)
    BY <1>3 DEF RunStep, StatPrev, RestorePrev, DropPrev, StatStaging, DropStaging,
       MakeStaging, StatOut, MoveAside, Swap, Cleanup, At, GenerateOnly
  <1> QED
    BY <1>4, <1>6, <1>7, <1>8, <1>9, <1>10, <1>11, <1>12, CheckWriteSteps

\* The user, who makes no plain file at -out, does not disturb a check.
LEMMA CheckUserStep ==
  ASSUME CheckInv, UserStep, "file" \notin User
  PROVE  CheckInv'
  <1>1. TypeOK /\ TypeOK'
    BY UserStepType DEF CheckInv
  <1>2. pc' = pc /\ mode' = mode
    BY DEF UserStep, MkdirOut, FillOut, TakeOut, ClearSibling, Put
  <1>3. (\A q \in Procs : Building(q)' <=> Building(q)) /\ ClaimExclusive'
    BY <1>2 DEF Building, CheckInv, ClaimExclusive
  <1>4. ASSUME NEW path \in Path, NEW node, Put(path, node), Bare(node), node.kind # "file",
               path = "staging" => \A q \in Procs : ~Building(q)
        PROVE  CheckInv'
    <2>1. fs'[path] = node /\ \A other \in Path \ {path} : fs'[other] = fs[other]
      BY <1>1, <1>4, SetAt DEF Put
    <2>2. \A other \in Path : Bare(fs'[other])
      BY <1>4, <2>1 DEF CheckInv
    <2>3. \A q \in Procs : Building(q)' =>
            fs'["staging"].kind = "dir" /\ Unwritten(fs'["staging"], pc'[q])
      BY <1>2, <1>3, <1>4, <2>1 DEF CheckInv
    <2>4. \A q \in Procs : pc'[q] = "rmdir" => fs'["out"].kind # "file"
      BY <1>2, <1>4, <2>1 DEF CheckInv, At
    <2> QED
      BY <1>1, <1>2, <1>3, <2>2, <2>3, <2>4 DEF CheckInv, At
  <1>5. \A node \in {NoNode, EmptyDir, Dir({Foreign})} : Bare(node) /\ node.kind # "file"
    BY DEF NoNode, EmptyDir, Dir, Bare
  <1>6. CASE \E node \in {NoNode, EmptyDir, Dir({Foreign})} : Put("out", node)
    BY <1>4, <1>5, <1>6
  <1>7. CASE ClearSibling
    <2>1. \A q \in Procs : ~Building(q)
      BY <1>7 DEF ClearSibling, At, Building
    <2> QED
      BY <1>4, <1>5, <1>7, <2>1 DEF ClearSibling
  <1> QED
    BY <1>6, <1>7 DEF UserStep, MkdirOut, FillOut, TakeOut

\* The invariant of a system in which every run is a check.
LEMMA ChecksInductive ==
  ASSUME Modes = {"check"}, "file" \notin User
  PROVE  /\ Init /\ TypeOK => CheckInv
         /\ CheckInv /\ [Next]_vars => CheckInv' /\ (UserStep \/ FilesStay)
  <1>1. ASSUME Init, TypeOK
        PROVE  CheckInv
    BY <1>1 DEF Init, CheckInv, ClaimExclusive, Building, At, Bare, NoNode,
       EmptyDir, UserFile, Dir
  <1>2. ASSUME CheckInv, NEW p \in Procs, Start(p)
        PROVE  CheckInv' /\ FilesStay
    <2>1. TypeOK /\ TypeOK'
      BY <1>2, PublishAssumption DEF CheckInv, Start, TypeOK, Step
    <2>2. /\ fs' = fs /\ pc'[p] = "validate" /\ mode'[p] = "check"
          /\ \A q \in Procs \ {p} : pc'[q] = pc[q] /\ mode'[q] = mode[q]
      BY <1>2, <2>1 DEF Start, TypeOK
    <2>3. ~Building(p)' /\ \A q \in Procs \ {p} : Building(q)' <=> Building(q)
      BY <2>2 DEF Building
    <2>4. ClaimExclusive'
      BY <1>2, <2>3 DEF CheckInv, ClaimExclusive
    <2>5. "validate" \notin GenerateOnly
      BY DEF GenerateOnly
    <2>6. CheckInv'
      BY <1>2, <2>1, <2>2, <2>3, <2>4, <2>5 DEF CheckInv, At
    <2> QED
      BY <2>2, <2>6 DEF FilesStay
  <1>3. ASSUME CheckInv, UNCHANGED vars
        PROVE  CheckInv' /\ FilesStay
    BY <1>3 DEF vars, CheckInv, TypeOK, ClaimExclusive, Building, At, Exists, FilesStay, Unwritten
  <1> QED
    BY <1>1, <1>2, <1>3, CheckRunStep, CheckUserStep, CheckRefuses DEF Next, Crash

\* Any number of checks race for one -out, killed or failing anywhere, while
\* the user makes, fills and takes what stands there: one of them at a time
\* has the staging tree (the Mkdir of stageBatchDir is the claim).
THEOREM OneClaim ==
  ASSUME Modes = {"check"}, "file" \notin User
  PROVE  Spec => []ClaimExclusive
  <1>1. CheckInv => ClaimExclusive
    BY DEF CheckInv
  <1> QED
    BY <1>1, ChecksInductive, TypeCorrect, PTL DEF Spec

\* And no step of theirs takes a file away from any of the three paths,
\* except the rename that publishes a staging tree as a whole.
THEOREM ChecksKeepFiles ==
  ASSUME Modes = {"check"}, "file" \notin User
  PROVE  Spec => CheckKeepsFiles
  <1>1. CheckInv /\ [Next]_vars => [UserStep \/ FilesStay]_fs
    BY ChecksInductive
  <1> QED
    BY <1>1, ChecksInductive, TypeCorrect, PTL DEF Spec, CheckKeepsFiles, FilesStay

-----------------------------------------------------------------------------
(* Any number of processes, in either mode, and what is not gengo's.       *)

StrangersStay == \A path \in Path : Foreign \in fs[path].files => Foreign \in fs'[path].files

\* A process changes what it has looked at, and has looked at what it will
\* change next.
LEMMA SparedKeeps ==
  ASSUME SparedInv, TypeOK', NEW p \in Procs,
         \A q \in Procs \ {p} : pc'[q] = pc[q],
         \A path \in Path :
           \/ fs'[path] = fs[path]
           \/ /\ Foreign \notin fs[path].files
              /\ Bare(fs'[path]) /\ Foreign \notin fs'[path].files,
         \A path \in Path : path \in Touchable(pc'[p]) => Foreign \notin fs[path].files
  PROVE  SparedInv' /\ StrangersStay
  <1>1. ASSUME NEW path \in Path
        PROVE  /\ Bare(fs'[path])
               /\ Foreign \in fs[path].files => Foreign \in fs'[path].files
               /\ Foreign \in fs'[path].files =>
                    /\ fs'[path].files = {Foreign}
                    /\ \A q \in Procs : path \notin Touchable(pc'[q])
    <2>1. \A q \in Procs : path \in Touchable(pc[q]) => Foreign \notin fs[path].files
      BY DEF SparedInv
    <2>2. CASE fs'[path] = fs[path]
      BY <2>1, <2>2 DEF SparedInv
    <2>3. CASE fs'[path] # fs[path]
      BY <2>1, <2>3
    <2> QED
      BY <2>2, <2>3
  <1> QED
    BY <1>1 DEF SparedInv, StrangersStay

LEMMA SparedRefuses ==
  ASSUME SparedInv, NEW p \in Procs, Refuse(p)
  PROVE  SparedInv' /\ StrangersStay
  <1>1. TypeOK /\ TypeOK'
    BY RefuseType DEF SparedInv
  <1>2. fs' = fs /\ pc'[p] = "idle" /\ \A q \in Procs \ {p} : pc'[q] = pc[q]
    BY <1>1 DEF Refuse, Goto, TypeOK
  <1>3. Touchable(pc'[p]) = {}
    BY <1>2 DEF Touchable
  <1> QED
    BY <1>1, <1>2, <1>3, SparedKeeps

\* A step that reads, and decides where to go on.
LEMMA SparedDecides ==
  ASSUME SparedInv, TypeOK', NEW p \in Procs, NEW step \in Step, fs' = fs, Goto(p, step),
         \A path \in Path : path \in Touchable(step) =>
           path \in Touchable(pc[p]) \/ Foreign \notin fs[path].files
  PROVE  SparedInv' /\ StrangersStay
  <1>1. TypeOK
    BY DEF SparedInv
  <1>2. pc'[p] = step /\ \A q \in Procs \ {p} : pc'[q] = pc[q]
    BY <1>1 DEF Goto, TypeOK
  <1>3. \A path \in Path : path \in Touchable(pc[p]) => Foreign \notin fs[path].files
    BY DEF SparedInv
  <1> QED
    BY <1>2, <1>3, SparedKeeps

\* What the three looks establish.
LEMMA LooksSeeStrangers ==
  ASSUME SparedInv
  PROVE  /\ OutAcceptable => Foreign \notin fs["out"].files
         /\ CheckAcceptable => Foreign \notin fs["out"].files /\ Foreign \notin fs["prev"].files
         /\ \A path \in Path : /\ ~Exists(path) => Foreign \notin fs[path].files
                               /\ ownedBatchDir(path) => Foreign \notin fs[path].files
                               /\ stagingIsOurs(path) => Foreign \notin fs[path].files
  <1>1. \A path \in Path : ~Exists(path) => Foreign \notin fs[path].files
    BY DEF SparedInv, Bare, Exists
  <1>2. Foreign[1] = "foreign"
    BY DEF Foreign
  <1>3. \A path \in Path : Foreign \in fs[path].files => \A e \in fs[path].files : e[1] = "foreign"
    BY <1>2 DEF SparedInv
  <1>4. \A path \in Path : /\ ownedBatchDir(path) => Foreign \notin fs[path].files
                           /\ stagingIsOurs(path) => Foreign \notin fs[path].files
    BY <1>3 DEF ownedBatchDir, stagingIsOurs, Has
  <1>5. \A path \in Path : fs[path] = EmptyDir => Foreign \notin fs[path].files
    BY DEF EmptyDir, Dir
  <1>6. /\ ~Exists("out") \/ fs["out"] = EmptyDir \/ ownedBatchDir("out")
             => Foreign \notin fs["out"].files
        /\ ~Exists("prev") => Foreign \notin fs["prev"].files
    BY <1>1, <1>4, <1>5
  <1>7. /\ OutAcceptable => Foreign \notin fs["out"].files
        /\ CheckAcceptable => Foreign \notin fs["out"].files /\ Foreign \notin fs["prev"].files
    BY <1>6 DEF OutAcceptable, CheckAcceptable
  <1> QED
    BY <1>1, <1>4, <1>7

\* A step of a run that is past validation and changes one of the paths.
LEMMA SparedTouches ==
  ASSUME SparedInv, NEW p \in Procs, RunStep(p),
         \A path \in Path :
           \/ fs'[path] = fs[path]
           \/ /\ Foreign \notin fs[path].files
              /\ Bare(fs'[path]) /\ Foreign \notin fs'[path].files,
         \A path \in Path : path \in Touchable(pc'[p]) => Foreign \notin fs[path].files
  PROVE  SparedInv' /\ StrangersStay
  <1>1. TypeOK' /\ \A q \in Procs \ {p} : pc'[q] = pc[q]
    BY RunStepType, OthersStay DEF SparedInv
  <1> QED
    BY <1>1, SparedKeeps

\* Only what it has looked at is renamed, and a rename takes nothing's place.
LEMMA SparedRenames ==
  ASSUME SparedInv, NEW p \in Procs, RunStep(p), NEW src \in Path, NEW dst \in Path,
         CanRename(src, dst), Rename(src, dst), {src, dst} \subseteq Touchable(pc[p]),
         Touchable(pc'[p]) \subseteq Touchable(pc[p])
  PROVE  SparedInv' /\ StrangersStay
  <1>1. src # dst /\ TypeOK
    BY DEF CanRename, SparedInv
  <1>2. /\ fs'[src] = NoNode
        /\ fs'[dst] = fs[src]
        /\ \A path \in Path \ {src, dst} : fs'[path] = fs[path]
    BY <1>1, RenameAt
  <1>3. Bare(NoNode) /\ Foreign \notin NoNode.files
    BY DEF Bare, NoNode
  <1>4. Bare(fs[src])
    BY DEF SparedInv
  <1>5. \A path \in Path : path \in Touchable(pc[p]) => Foreign \notin fs[path].files
    BY DEF SparedInv
  <1> QED
    BY <1>2, <1>3, <1>4, <1>5, SparedTouches

LEMMA SparedRemoves ==
  ASSUME SparedInv, NEW p \in Procs, RunStep(p), NEW path \in Path, NEW next,
         RemoveAll(p, path, next), path \in Touchable(pc[p]),
         Touchable(next) \subseteq Touchable(pc[p])
  PROVE  SparedInv' /\ StrangersStay
  <1>1. /\ \A other \in Path \ {path} : fs'[other] = fs[other]
        /\ fs'[path].files \subseteq fs[path].files
        /\ \/ pc'[p] = pc[p] /\ fs'[path].kind = "dir"
           \/ pc'[p] = next /\ fs'[path] = NoNode
    BY RemoveAllAt DEF SparedInv
  <1>2. \A other \in Path : other \in Touchable(pc[p]) => Foreign \notin fs[other].files
    BY DEF SparedInv
  <1>3. Bare(fs'[path]) /\ Foreign \notin fs'[path].files
    BY <1>1, <1>2 DEF Bare, NoNode
  <1> QED
    BY <1>1, <1>2, <1>3, SparedTouches

LEMMA SparedWrites ==
  ASSUME SparedInv, NEW p \in Procs, RunStep(p), NEW name \in Name \ {"foreign"},
         NEW r, NEW next, WriteStaged(p, name, r, next), Touchable(pc[p]) = Path
  PROVE  SparedInv' /\ StrangersStay
  <1>1. /\ fs'["out"] = fs["out"] /\ fs'["prev"] = fs["prev"]
        /\ pc'[p] = next /\ mode'[p] = mode[p] /\ run'[p] = run[p] /\ runs' = runs
        /\ fs'["staging"].kind = "dir"
        /\ <<name, r>> \in fs'["staging"].files
        /\ \A e \in fs["staging"].files : e[1] # name => e \in fs'["staging"].files
        /\ \A e \in fs'["staging"].files :
             (e[1] = name /\ e[2] = r) \/ e \in fs["staging"].files
    BY WriteStagedAt DEF SparedInv
  <1>2. \A path \in Path : Foreign \notin fs[path].files
    BY DEF SparedInv
  <1>3. Foreign \notin fs'["staging"].files
    BY <1>1, <1>2 DEF Foreign
  <1>4. Bare(fs'["staging"])
    BY <1>1 DEF Bare
  <1> QED
    BY <1>1, <1>2, <1>3, <1>4, SparedTouches

LEMMA SparedRunStep ==
  ASSUME SparedInv, NEW p \in Procs, RunStep(p)
  PROVE  SparedInv' /\ StrangersStay
  <1>1. TypeOK /\ TypeOK'
    BY RunStepType DEF SparedInv
  <1>2. CASE Refuse(p)
    BY <1>2, SparedRefuses
  <1>3. ASSUME fs' = fs, Goto(p, "idle")
        PROVE  SparedInv' /\ StrangersStay
    BY <1>3, <1>2 DEF Refuse
  <1>4. CASE Validate(p)
    <2>1. ASSUME Goto(p, "stage"), fs' = fs, OutAcceptable
          PROVE  SparedInv' /\ StrangersStay
      BY <1>1, <2>1, LooksSeeStrangers, SparedDecides DEF Touchable, Step
    <2>2. ASSUME Goto(p, "claim"), fs' = fs, CheckAcceptable
          PROVE  SparedInv' /\ StrangersStay
      BY <1>1, <2>2, LooksSeeStrangers, SparedDecides DEF Touchable, Step
    <2> QED
      BY <1>2, <1>4, <2>1, <2>2 DEF Validate
  <1>5. CASE StatPrev(p)
    <2>1. /\ pc[p] = "stage" /\ fs' = fs
          /\ \/ Goto(p, "idle")
             \/ Goto(p, "staging") /\ ~Exists("prev")
             \/ Goto(p, "restore") /\ ownedBatchDir("prev")
             \/ Goto(p, "dropprev") /\ ownedBatchDir("prev")
      BY <1>5 DEF StatPrev, At
    <2>2. \A step \in {"staging", "restore", "dropprev"} :
            step \in Step /\ Touchable(step) = Touchable("stage") \cup {"prev"}
      BY DEF Touchable, Step
    <2>3. (Exists("prev") /\ ~ownedBatchDir("prev")) \/ Foreign \notin fs["prev"].files
      BY LooksSeeStrangers
    <2> QED
      BY <1>1, <1>3, <2>1, <2>2, <2>3, SparedDecides
  <1>6. CASE RestorePrev(p) /\ ~Refuse(p)
    <2>1. /\ pc[p] = "restore" /\ pc'[p] = "staging"
          /\ CanRename("prev", "out") /\ Rename("prev", "out")
      BY <1>1, <1>6, GotoAt DEF RestorePrev, At
    <2> QED
      BY <2>1, SparedRenames DEF Touchable
  <1>7. CASE DropPrev(p)
    BY <1>7, SparedRemoves DEF DropPrev, At, Touchable
  <1>8. CASE StatStaging(p)
    <2>1. /\ pc[p] = "staging" /\ fs' = fs
          /\ \/ Goto(p, "idle")
             \/ Goto(p, "mkstaging") /\ ~Exists("staging")
             \/ Goto(p, "dropstaging") /\ stagingIsOurs("staging")
      BY <1>8 DEF StatStaging, At
    <2>2. \A step \in {"mkstaging", "dropstaging"} :
            step \in Step /\ Touchable(step) = Touchable("staging") \cup {"staging"}
      BY DEF Touchable, Step
    <2>3. (Exists("staging") /\ ~stagingIsOurs("staging")) \/ Foreign \notin fs["staging"].files
      BY LooksSeeStrangers
    <2> QED
      BY <1>1, <1>3, <2>1, <2>2, <2>3, SparedDecides
  <1>9. CASE DropStaging(p)
    BY <1>9, SparedRemoves DEF DropStaging, At, Touchable
  <1>10. CASE (MakeStaging(p) \/ ClaimStaging(p)) /\ ~Refuse(p)
    <2>1. /\ pc[p] \in {"mkstaging", "claim"} /\ pc'[p] = "mark"
          /\ \/ fs' = fs /\ pc[p] = "mkstaging"
             \/ ~Exists("staging") /\ fs' = [fs EXCEPT !["staging"] = EmptyDir]
      BY <1>1, <1>10, GotoAt DEF MakeStaging, ClaimStaging, At
    <2>2. \A path \in Path : path \in Touchable(pc[p]) => Foreign \notin fs[path].files
      BY DEF SparedInv
    <2>3. Touchable("mkstaging") = Path /\ Touchable("claim") = {"out", "prev"}
      BY DEF Touchable
    <2>4. ~Exists("staging") => Foreign \notin fs["staging"].files
      BY LooksSeeStrangers
    <2>5. \A path \in Path : Foreign \notin fs[path].files
      BY <2>1, <2>2, <2>3, <2>4
    <2>6. Bare(EmptyDir) /\ Foreign \notin EmptyDir.files
      BY DEF Bare, EmptyDir, Dir
    <2>7. \A path \in Path : fs'[path] = fs[path] \/ fs'[path] = EmptyDir
      BY <1>1, <2>1, SetAt
    <2> QED
      BY <2>5, <2>6, <2>7, SparedTouches
  <1>11. CASE (WriteMarker(p) \/ WriteGoMod(p) \/ WriteCases(p) \/ WriteManifest(p)
               \/ WriteComplete(p)) /\ ~Refuse(p)
    <2>1. Touchable(pc[p]) = Path
      BY <1>11 DEF WriteMarker, WriteGoMod, WriteCases, WriteManifest, WriteComplete, At, Touchable
    <2>2. PICK name \in Name \ {"foreign"} : \E r, next : WriteStaged(p, name, r, next)
      BY <1>11 DEF WriteMarker, WriteGoMod, WriteCases, WriteManifest, WriteComplete
    <2> QED
      BY <2>1, <2>2, SparedWrites
  <1>12. CASE JudgeBatch(p) \/ StatOut(p) \/ StatCheckOut(p)
    <2>1. /\ fs' = fs /\ Touchable(pc[p]) = Path
          /\ \E step \in {"idle", "complete", "aside", "swap", "checkswap", "rmdir"} : Goto(p, step)
      BY <1>12 DEF JudgeBatch, StatOut, StatCheckOut, At, Touchable, Refuse
    <2> QED
      BY <1>1, <2>1, SparedDecides DEF Step
  <1>13. CASE (MoveAside(p) \/ Swap(p) \/ CheckSwap(p)) /\ ~Refuse(p)
    <2>1. Touchable(pc[p]) = Path
      BY <1>13 DEF MoveAside, Swap, CheckSwap, At, Touchable
    <2>2. \/ CanRename("out", "prev") /\ Rename("out", "prev")
          \/ CanRename("staging", "out") /\ Rename("staging", "out")
      BY <1>13 DEF MoveAside, Swap, CheckSwap
    <2>3. Touchable(pc'[p]) \subseteq Path
      BY DEF Touchable
    <2> QED
      BY <2>1, <2>2, <2>3, SparedRenames
  <1>14. CASE Cleanup(p)
    BY <1>14, SparedRemoves DEF Cleanup, At, Touchable
  <1>15. CASE RemoveOut(p) /\ ~Refuse(p)
    <2>1. Touchable(pc[p]) = Path /\ Touchable(pc'[p]) \subseteq Path
      BY <1>15 DEF RemoveOut, At, Touchable
    <2>2. fs' = [fs EXCEPT !["out"] = NoNode]
      BY <1>15 DEF RemoveOut
    <2>3. \A path \in Path : fs'[path] = fs[path] \/ fs'[path] = NoNode
      BY <1>1, <2>2, SetAt
    <2>4. Bare(NoNode) /\ Foreign \notin NoNode.files
      BY DEF Bare, NoNode
    <2>5. \A path \in Path : Foreign \notin fs[path].files
      BY <2>1 DEF SparedInv
    <2> QED
      BY <2>3, <2>4, <2>5, SparedTouches
  <1> QED
    BY <1>2, <1>4, <1>5, <1>6, <1>7, <1>8, <1>9, <1>10, <1>11, <1>12, <1>13, <1>14, <1>15
       DEF RunStep

\* The user puts nothing of his own at -out, and may clear what a run refused.
LEMMA SparedUserStep ==
  ASSUME SparedInv, UserStep, User \intersect {"write", "file"} = {}
  PROVE  SparedInv'
  <1>1. TypeOK /\ TypeOK' /\ pc' = pc
    BY UserStepType DEF SparedInv, UserStep, MkdirOut, FillOut, TakeOut, ClearSibling, Put
  <1>2. PICK path \in Path, node \in {NoNode, EmptyDir} : fs' = [fs EXCEPT ![path] = node]
    BY DEF UserStep, MkdirOut, FillOut, TakeOut, ClearSibling, Put
  <1>3. fs'[path] = node /\ \A other \in Path \ {path} : fs'[other] = fs[other]
    BY <1>1, <1>2, SetAt
  <1>4. Bare(node) /\ node.files = {}
    BY DEF Bare, NoNode, EmptyDir, Dir
  <1> QED
    BY <1>1, <1>3, <1>4 DEF SparedInv

\* Any number of processes run in either mode on one -out, and are killed or
\* fail anywhere; the user has a tree or a file of his own at any of the three
\* paths from before they start, and may take or clear it away.  No step of
\* a run moves, replaces or removes it (validate and stageBatchDir refuse).
THEOREM StrangersAreSpared ==
  ASSUME User \intersect {"write", "file"} = {}
  PROVE  Spec => StrangersSpared
  <1>1. ASSUME Init, TypeOK
        PROVE  SparedInv
    <2>1. \A node \in {NoNode, EmptyDir, UserFile, Dir({Foreign})} :
            Bare(node) /\ (Foreign \in node.files => node.files = {Foreign})
      BY DEF Bare, NoNode, EmptyDir, UserFile, Dir
    <2>2. \A p \in Procs : Touchable(pc[p]) = {}
      BY <1>1 DEF Init, Touchable
    <2> QED
      BY <1>1, <2>1, <2>2 DEF Init, SparedInv
  <1>2. ASSUME SparedInv, [Next]_vars
        PROVE  SparedInv' /\ [UserStep \/ StrangersStay]_fs
    <2>1. ASSUME NEW p \in Procs, Start(p)
          PROVE  SparedInv' /\ UNCHANGED fs
      <3>1. TypeOK /\ TypeOK'
        BY <1>2, <2>1, PublishAssumption DEF SparedInv, Start, TypeOK, Step
      <3>2. fs' = fs /\ pc'[p] = "validate" /\ \A q \in Procs \ {p} : pc'[q] = pc[q]
        BY <2>1, <3>1 DEF Start, TypeOK
      <3>3. Touchable("validate") = {}
        BY DEF Touchable
      <3> QED
        BY <1>2, <3>1, <3>2, <3>3, SparedKeeps
    <2>2. ASSUME NEW p \in Procs, Crash(p)
          PROVE  SparedInv' /\ StrangersStay
      BY <1>2, <2>2, SparedRefuses DEF Crash
    <2>3. CASE UNCHANGED vars
      BY <1>2, <2>3 DEF vars, SparedInv, TypeOK
    <2> QED
      BY <1>2, <2>1, <2>2, <2>3, SparedRunStep, SparedUserStep DEF Next
  <1> QED
    BY <1>1, <1>2, TypeCorrect, PTL DEF Spec, StrangersSpared, StrangersStay
-----------------------------------------------------------------------------
(* One process at a time on an -out.                                       *)

HIDE DEF Name, Entry

LEMMA SoundParts ==
  ASSUME NEW p, Procs = {p}, TypeOK',
         SoundAt(fs'["out"], fs'["staging"], fs'["prev"], pc'[p], mode'[p], run'[p])
  PROVE  SoundInv'
  BY DEF SoundInv

LEMMA SoundRunStep ==
  ASSUME NEW p, Procs = {p}, SoundInv, RunStep(p)
  PROVE  SoundInv'
  <1> DEFINE o == fs["out"]   s == fs["staging"]   v == fs["prev"]
             After == SoundAt(fs'["out"], fs'["staging"], fs'["prev"],
                              pc'[p], mode'[p], run'[p])
  <1>1. p \in Procs /\ TypeOK /\ TypeOK'
    BY RunStepType DEF SoundInv
  <1>2. SoundAt(o, s, v, pc[p], mode[p], run[p])
    BY DEF SoundInv
  <1>3. SUFFICES After
    BY <1>1, SoundParts
  <1> USE <1>1, <1>2 DEF SoundAt, Siblings, Progress,
        AfterClaim, AfterGoMod, AfterCases, AfterManifest, AfterComplete, GenerateOnly
  <1>4. Refuse(p) => After
    BY RefuseAt
  <1>5. CASE Validate(p)
    BY <1>5, GotoAt, RefuseAt DEF Validate, At, CheckAcceptable, Exists
  <1>6. CASE StatPrev(p)
    BY <1>6, GotoAt, RefuseAt DEF StatPrev, At, Exists
  <1>7. CASE RestorePrev(p)
    BY <1>7, GotoAt, RefuseAt, RenameAt DEF RestorePrev, At, Exists, CanRename, NoNode, Bare, Sound
  <1>8. CASE DropPrev(p)
    BY <1>8, RemoveAllAt DEF DropPrev, At, Bare, NoNode
  <1>9. CASE StatStaging(p)
    BY <1>9, GotoAt, RefuseAt DEF StatStaging, At, Exists
  <1>10. CASE DropStaging(p)
    BY <1>10, RemoveAllAt DEF DropStaging, At, Bare, NoNode
  <1>11. CASE MakeStaging(p)
    <2>1. pc[p] = "mkstaging" /\ s.kind = "none" /\ s.files = {}
      BY <1>11 DEF MakeStaging, At, Bare
    <2>2. fs' = [fs EXCEPT !["staging"] = EmptyDir] /\ Goto(p, "mark")
      BY <1>11, <2>1 DEF MakeStaging, Exists
    <2>3. fs'["staging"] = EmptyDir /\ fs'["out"] = o /\ fs'["prev"] = v
      BY <2>2, SetAt
    <2>4. EmptyDir.kind = "dir" /\ EmptyDir.files = {}
      BY DEF EmptyDir, Dir
    <2>5. pc'[p] = "mark" /\ mode'[p] = mode[p] /\ run'[p] = run[p]
      BY <2>2, GotoAt
    <2>6. Siblings(o, v, "mark", mode[p])
      BY <2>1
    <2> QED
      BY <2>3, <2>4, <2>5, <2>6 DEF Bare
  <1>12. CASE ClaimStaging(p)
    BY <1>12, GotoAt, RefuseAt, SetAt DEF ClaimStaging, At, Exists, EmptyDir, Dir, Bare
  <1>13. CASE WriteMarker(p)
    <2>1. CASE Refuse(p)
      BY <2>1, <1>4
    <2>2. CASE WriteStaged(p, "marker", run[p], "gomod")
      <3>1. pc[p] = "mark"
        BY <1>13 DEF WriteMarker, At
      <3>2. \A e \in s.files : e[1] # "manifest"
        BY <3>1
      <3>3. \A e \in fs'["staging"].files : e[1] = "marker" \/ e \in s.files
        BY <2>2, WriteStagedAt
      <3>4. \A e \in fs'["staging"].files : e[1] # "manifest"
        BY <3>2, <3>3
      <3>5. Progress(fs'["staging"], "gomod", run[p])
        BY <3>4
      <3>6. Siblings(o, v, "gomod", mode[p])
        BY <3>1
      <3>7. fs'["out"] = o /\ fs'["prev"] = v /\ fs'["staging"].kind = "dir"
        BY <2>2, WriteStagedAt
      <3>8. pc'[p] = "gomod" /\ mode'[p] = mode[p] /\ run'[p] = run[p]
        BY <2>2, GotoAt DEF WriteStaged
      <3> QED
        BY <3>5, <3>6, <3>7, <3>8 DEF Bare
    <2> QED
      BY <1>13, <2>1, <2>2 DEF WriteMarker
  <1>14. CASE WriteGoMod(p)
    <2>1. CASE Refuse(p)
      BY <2>1, <1>4
    <2>2. CASE WriteStaged(p, "gomod", run[p], "cases")
      <3>1. pc[p] = "gomod"
        BY <1>14 DEF WriteGoMod, At
      <3>2. Progress(fs'["staging"], "cases", run[p])
        BY <2>2, <3>1, WriteStagedAt
      <3> QED
        BY <2>2, <3>1, <3>2, WriteStagedAt DEF Bare
    <2> QED
      BY <1>14, <2>1, <2>2 DEF WriteGoMod
  <1>15. CASE WriteCases(p)
    <2>1. CASE Refuse(p)
      BY <2>1, <1>4
    <2>2. CASE WriteStaged(p, "cases", run[p], "manifest")
      <3>1. pc[p] = "cases"
        BY <1>15 DEF WriteCases, At
      <3>2. Progress(fs'["staging"], "manifest", run[p])
        BY <2>2, <3>1, WriteStagedAt
      <3> QED
        BY <2>2, <3>1, <3>2, WriteStagedAt DEF Bare
    <2> QED
      BY <1>15, <2>1, <2>2 DEF WriteCases
  <1>16. CASE WriteManifest(p)
    <2>1. CASE Refuse(p)
      BY <2>1, <1>4
    <2>2. CASE WriteStaged(p, "manifest", run[p], "judge")
      <3>1. pc[p] = "manifest"
        BY <1>16 DEF WriteManifest, At
      <3>2. Progress(fs'["staging"], "judge", run[p])
        BY <2>2, <3>1, WriteStagedAt
      <3> QED
        BY <2>2, <3>1, <3>2, WriteStagedAt DEF Bare
    <2> QED
      BY <1>16, <2>1, <2>2 DEF WriteManifest
  <1>17. CASE JudgeBatch(p)
    BY <1>17, GotoAt, RefuseAt DEF JudgeBatch, At
  <1>18. CASE WriteComplete(p)
    <2> DEFINE next == IF mode[p] = "check" THEN "checkpublish" ELSE "publish"
    <2>1. CASE Refuse(p)
      BY <2>1, <1>4
    <2>2. CASE \E e \in s.files : e[1] = "manifest" /\ WriteStaged(p, "complete", e[2], next)
      <3>1. pc[p] = "complete"
        BY <1>18 DEF WriteComplete, At
      <3>2. PICK e \in s.files :
              e[1] = "manifest" /\ WriteStaged(p, "complete", e[2], next)
        BY <2>2
      <3>3. e[2] = run[p]
        BY <3>1, <3>2
      <3>4. WriteStaged(p, "complete", run[p], next)
        BY <3>2, <3>3
      <3> HIDE DEF next
      <3>5. Progress(fs'["staging"], next, run[p])
        BY <3>1, <3>4, WriteStagedAt DEF next
      <3>6. Siblings(o, v, next, mode[p])
        BY <3>1 DEF next
      <3> QED
        BY <3>4, <3>5, <3>6, WriteStagedAt DEF Bare
    <2> QED
      BY <1>18, <2>1, <2>2 DEF WriteComplete
  <1>19. CASE StatOut(p)
    BY <1>19, GotoAt DEF StatOut, At, Exists
  <1>20. CASE MoveAside(p)
    <2>1. CASE Refuse(p)
      BY <2>1, <1>4
    <2>2. CASE Rename("out", "prev") /\ Goto(p, "swap")
      <3>1. pc[p] = "aside"
        BY <1>20 DEF MoveAside, At
      <3>2. fs'["out"] = NoNode /\ fs'["prev"] = o /\ fs'["staging"] = s
        BY <2>2, RenameAt
      <3>3. pc'[p] = "swap" /\ mode'[p] = mode[p] /\ run'[p] = run[p]
        BY <2>2, GotoAt
      <3>4. NoNode.kind = "none" /\ NoNode.files = {}
        BY DEF NoNode
      <3>5. Progress(s, "swap", run[p])
        BY <3>1
      <3>6. mode[p] # "check"
        BY <3>1
      <3> QED
        BY <3>2, <3>3, <3>4, <3>5, <3>6 DEF Bare, Sound
    <2> QED
      BY <1>20, <2>1, <2>2 DEF MoveAside
  <1>21. CASE Swap(p)
    <2>1. CASE Refuse(p)
      BY <2>1, <1>4
    <2>2. CASE CanRename("staging", "out") /\ Rename("staging", "out") /\ Goto(p, "cleanup")
      <3>1. pc[p] = "swap"
        BY <1>21 DEF Swap, At
      <3>2. fs'["staging"] = NoNode /\ fs'["out"] = s /\ fs'["prev"] = v
        BY <2>2, RenameAt
      <3>3. pc'[p] = "cleanup" /\ mode'[p] = mode[p] /\ run'[p] = run[p]
        BY <2>2, GotoAt
      <3>4. NoNode.kind = "none" /\ NoNode.files = {}
        BY DEF NoNode
      <3>5. Sound(s)
        BY <3>1 DEF Sound, Whole
      <3>6. s.kind # "none"
        BY <2>2 DEF CanRename, Exists
      <3>7. Siblings(s, v, "cleanup", mode[p]) /\ Progress(NoNode, "cleanup", run[p])
        BY <3>1, <3>6
      <3> QED
        BY <3>2, <3>3, <3>4, <3>5, <3>6, <3>7 DEF Bare
    <2> QED
      BY <1>21, <2>1, <2>2 DEF Swap
  <1>22. CASE Cleanup(p)
    BY <1>22, RemoveAllAt DEF Cleanup, At, Bare, NoNode
  <1>23. CASE StatCheckOut(p)
    BY <1>23, GotoAt DEF StatCheckOut, At, Exists
  <1>24. CASE RemoveOut(p)
    BY <1>24, GotoAt, RefuseAt, SetAt DEF RemoveOut, At, Exists, NoNode, Bare, Sound
  <1>25. CASE CheckSwap(p)
    <2>1. CASE Refuse(p)
      BY <2>1, <1>4
    <2>2. CASE CanRename("staging", "out") /\ Rename("staging", "out") /\ Goto(p, "idle")
      <3>1. pc[p] = "checkswap"
        BY <1>25 DEF CheckSwap, At
      <3>2. fs'["staging"] = NoNode /\ fs'["out"] = s /\ fs'["prev"] = v
        BY <2>2, RenameAt
      <3>3. pc'[p] = "idle" /\ mode'[p] = mode[p] /\ run'[p] = run[p]
        BY <2>2, GotoAt
      <3>4. NoNode.kind = "none" /\ NoNode.files = {}
        BY DEF NoNode
      <3>5. Sound(s)
        BY <3>1 DEF Sound, Whole
      <3>6. s.kind # "none"
        BY <2>2 DEF CanRename, Exists
      <3> QED
        BY <3>2, <3>3, <3>4, <3>5, <3>6 DEF Bare
    <2> QED
      BY <1>25, <2>1, <2>2 DEF CheckSwap
  <1> QED
    BY <1>5, <1>6, <1>7, <1>8, <1>9, <1>10, <1>11, <1>12, <1>13, <1>14, <1>15,
       <1>16, <1>17, <1>18, <1>19, <1>20, <1>21, <1>22, <1>23, <1>24, <1>25
       DEF RunStep

\* A run begins: nothing is known of the staging tree it will find.
LEMMA SoundStart ==
  ASSUME NEW p, Procs = {p}, SoundInv, TypeOK', Start(p)
  PROVE  SoundInv'
  <1>1. p \in Procs /\ TypeOK
    BY DEF SoundInv
  <1>2. pc'[p] = "validate" /\ fs' = fs
    BY <1>1 DEF Start, TypeOK
  <1>3. SoundAt(fs["out"], fs["staging"], fs["prev"], pc[p], mode[p], run[p])
    BY DEF SoundInv
  <1>4. SoundAt(fs'["out"], fs'["staging"], fs'["prev"], pc'[p], mode'[p], run'[p])
    BY <1>2, <1>3 DEF SoundAt, Siblings, Progress, GenerateOnly,
         AfterClaim, AfterGoMod, AfterCases, AfterManifest, AfterComplete
  <1> QED
    BY <1>4, SoundParts

\* The user who takes nothing away from -out gives it no manifest either.
LEMMA SoundUserStep ==
  ASSUME NEW p, Procs = {p}, SoundInv, TypeOK', UserStep, "take" \notin User
  PROVE  SoundInv'
  <1> DEFINE o == fs["out"]   s == fs["staging"]   v == fs["prev"]
             After == SoundAt(fs'["out"], fs'["staging"], fs'["prev"],
                              pc'[p], mode'[p], run'[p])
  <1>1. p \in Procs /\ TypeOK
    BY DEF SoundInv
  <1>2. SoundAt(o, s, v, pc[p], mode[p], run[p])
    BY DEF SoundInv
  <1>3. SUFFICES After
    BY SoundParts
  <1>4. \A node : /\ node.kind # "none"
                  /\ \A e \in node.files : e[1] # "manifest"
                  /\ Put("out", node)
                  => After
    <2> SUFFICES ASSUME NEW node, node.kind # "none", Put("out", node),
                        \A e \in node.files : e[1] # "manifest"
                 PROVE  After
      OBVIOUS
    <2>1. fs'["out"] = node /\ fs'["staging"] = s /\ fs'["prev"] = v
      BY <1>1, SetAt DEF Put
    <2>2. pc' = pc /\ mode' = mode /\ run' = run
      BY DEF Put
    <2>3. Bare(node) /\ Sound(node) /\ Siblings(node, v, pc[p], mode[p])
      BY <1>2 DEF Bare, Sound, SoundAt, Siblings
    <2> QED
      BY <1>2, <2>1, <2>2, <2>3 DEF SoundAt
  <1>5. CASE MkdirOut
    BY <1>4, <1>5 DEF MkdirOut, EmptyDir, Dir
  <1>6. CASE FillOut
    <2>1. PICK node \in {UserFile, Dir({Foreign})} : Put("out", node)
      BY <1>6 DEF FillOut
    <2> QED
      BY <1>4, <2>1 DEF UserFile, Dir, Foreign
  <1>7. CASE ClearSibling
    <2>1. pc[p] = "idle" /\ pc' = pc /\ mode' = mode /\ run' = run
      BY <1>1, <1>7 DEF ClearSibling, At, Put
    <2>2. PICK path \in {"staging", "prev"} : Put(path, NoNode)
      BY <1>7 DEF ClearSibling
    <2>3. fs'[path] = NoNode /\ \A other \in Path \ {path} : fs'[other] = fs[other]
      BY <1>1, <2>2, SetAt DEF Put
    <2>4. Bare(NoNode) /\ Sound(NoNode)
      BY DEF Bare, Sound, NoNode
    <2> QED
      BY <1>2, <2>1, <2>3, <2>4 DEF SoundAt, Siblings, Progress, GenerateOnly,
         AfterClaim, AfterGoMod, AfterCases, AfterManifest, AfterComplete
  <1> QED
    BY <1>5, <1>6, <1>7 DEF UserStep, TakeOut

LEMMA SoundInit ==
  ASSUME NEW p, Procs = {p}, Init, TypeOK
  PROVE  SoundInv
  <1>1. pc[p] = "idle"
    BY DEF Init
  <1>2. \A path \in Path : Bare(fs[path]) /\ Sound(fs[path])
    BY DEF Init, NoNode, EmptyDir, UserFile, Dir, Foreign, Bare, Sound
  <1> QED
    BY <1>1, <1>2 DEF SoundInv, SoundAt, Siblings, Progress, GenerateOnly,
         AfterClaim, AfterGoMod, AfterCases, AfterManifest, AfterComplete

\* The invariant behind PublishedWhole is inductive.
LEMMA SoundInductive ==
  ASSUME NEW p, Procs = {p}, "take" \notin User, SoundInv, TypeOK', [Next]_vars
  PROVE  SoundInv'
  <1>1. CASE Start(p)
    BY <1>1, SoundStart
  <1>2. CASE RunStep(p)
    BY <1>2, SoundRunStep
  <1>3. CASE Crash(p)
    <2>1. pc'[p] = "idle" /\ fs' = fs
      BY <1>3, RefuseAt DEF Crash, SoundInv
    <2>2. SoundAt(fs'["out"], fs'["staging"], fs'["prev"], pc'[p], mode'[p], run'[p])
      BY <2>1 DEF SoundInv, SoundAt, Siblings, Progress, GenerateOnly,
           AfterClaim, AfterGoMod, AfterCases, AfterManifest, AfterComplete
    <2> QED
      BY <2>2, SoundParts
  <1>4. CASE UserStep
    BY <1>4, SoundUserStep
  <1>5. CASE UNCHANGED vars
    BY <1>5 DEF vars, SoundInv
  <1> QED
    BY <1>1, <1>2, <1>3, <1>4, <1>5 DEF Next

-----------------------------------------------------------------------------
\* One gengo at a time on an -out, any number of runs in either mode, killed
\* or failing at any system call, and a user who creates, fills or clears
\* what stands there but takes no published tree away: what parses as a
\* batch at -out is always one finished run's batch, with all its files.
THEOREM PublishedIsWhole ==
  ASSUME NEW p, Procs = {p}, "take" \notin User
  PROVE  Spec => []PublishedWhole
  <1>1. Init /\ TypeOK => SoundInv
    BY SoundInit
  <1>2. SoundInv /\ TypeOK' /\ [Next]_vars => SoundInv'
    BY SoundInductive
  <1>3. SoundInv => PublishedWhole
    BY DEF SoundInv, SoundAt, Sound, PublishedWhole
  <1> QED
    BY <1>1, <1>2, <1>3, TypeCorrect, PTL DEF Spec

-----------------------------------------------------------------------------
(* The batch of record.                                                    *)

Manifest(t) == CHOOSE r \in 0..MaxRuns : <<"manifest", r>> \in t.files
Newest(o, v) == IF Has(o, "manifest") THEN Manifest(o)
                ELSE IF Has(v, "manifest") THEN Manifest(v)
                ELSE 0

\* The one manifest of a tree is the one that is chosen.
LEMMA ManifestIs ==
  ASSUME NEW t \in Node, OneManifest(t), NEW r \in 0..MaxRuns, <<"manifest", r>> \in t.files
  PROVE  Has(t, "manifest") /\ Manifest(t) = r
  <1>1. \A q \in 0..MaxRuns : <<"manifest", q>> \in t.files => q = r
    BY DEF OneManifest
  <1> QED
    BY <1>1 DEF Manifest, Has

LEMMA NewestIsRecoverable ==
  /\ Recoverable = Newest(fs["out"], fs["prev"])
  /\ Recoverable' = Newest(fs'["out"], fs'["prev"])
  BY DEF Recoverable, ManifestOf, ownedBatchDir, Newest, Manifest

\* What the steps that publish nothing have in common.
LEMMA RecordKeeps ==
  ASSUME NEW p, Procs = {p}, RecordInv, SoundInv',
         runs' = runs, run'[p] = run[p],
         RecordAt(fs'["out"], fs'["prev"], pc'[p], run[p], runs),
         pc'[p] \in AfterGoMod => fs'["staging"].kind = "dir"
  PROVE  RecordInv'
  BY DEF RecordInv

\* What is at -out stays, and <out>.prev loses a file only beside a batch.
LEMMA RecordQuiet ==
  ASSUME NEW p, Procs = {p}, RecordInv, SoundInv',
         runs' = runs, run'[p] = run[p],
         fs'["out"] = fs["out"],
         fs'["prev"].files \subseteq fs["prev"].files,
         fs'["prev"] = fs["prev"] \/ fs'["prev"].kind # "file",
         fs'["prev"] = fs["prev"] \/ Has(fs["out"], "manifest") \/ ~Has(fs["prev"], "manifest"),
         pc'[p] \notin {"idle", "cleanup"} => pc[p] \notin {"idle", "cleanup"},
         pc'[p] \in {"dropprev", "cleanup"} => Has(fs["out"], "manifest"),
         pc'[p] # "idle" => pc[p] # "idle",
         pc'[p] \in AfterGoMod => fs'["staging"].kind = "dir"
  PROVE  RecordInv' /\ Recoverable' = Recoverable
  <1>1. RecordAt(fs["out"], fs["prev"], pc[p], run[p], runs)
    BY DEF RecordInv
  <1>2. RecordAt(fs'["out"], fs'["prev"], pc'[p], run[p], runs)
    BY <1>1 DEF RecordAt, OneManifest, Before, Has
  <1>3. Newest(fs'["out"], fs'["prev"]) = Newest(fs["out"], fs["prev"])
    BY DEF Newest, Has
  <1> QED
    BY <1>2, <1>3, RecordKeeps, NewestIsRecoverable

\* An entry is its name and the run that wrote it.
LEMMA EntryIs == \A t \in Node : \A e \in t.files : e = <<e[1], e[2]>> /\ e[2] \in Nat
  <1>1. \A e \in Entry : e = <<e[1], e[2]>> /\ e[2] \in Nat
    BY DEF Entry
  <1>2. \A t \in Node : t.files \subseteq Entry
    BY DEF Node
  <1> QED
    BY <1>1, <1>2

\* The renames that publish: the staging tree is the run's own batch, and
\* what a user could get back until now is older.
LEMMA RecordPublishes ==
  ASSUME NEW p, Procs = {p}, RecordInv, SoundInv', pc[p] \in {"swap", "checkswap"},
         CanRename("staging", "out"), Rename("staging", "out"),
         NEW next \in {"cleanup", "idle"}, Goto(p, next)
  PROVE  RecordInv' /\ Recoverable' \in Nat /\ Recoverable' > Recoverable
  <1> DEFINE o == fs["out"]   s == fs["staging"]   v == fs["prev"]   r == run[p]
  <1>1. p \in Procs /\ TypeOK /\ TypeOK'
    BY DEF RecordInv, SoundInv
  <1>2. /\ fs'["out"] = s /\ fs'["prev"] = v
        /\ pc'[p] = next /\ run'[p] = r /\ runs' = runs
    BY <1>1, RenameAt, GotoAt
  <1>3. /\ RecordAt(o, v, pc[p], r, runs) /\ r = runs /\ r > 0 /\ Before(v, runs)
        /\ OneManifest(v) /\ s.kind = "dir"
    BY DEF RecordInv, RecordAt, AfterGoMod, AfterCases, AfterManifest, AfterComplete
  <1>4. Progress(s, pc[p], r) /\ Bare(o)
    BY <1>1 DEF RecordInv, SoundInv, SoundAt
  <1>5. /\ <<"manifest", r>> \in s.files
        /\ \A e \in s.files : e[1] = "manifest" => e[2] = r
    BY <1>4 DEF Progress, AfterClaim, AfterGoMod, AfterCases, AfterManifest, AfterComplete
  <1>6. s \in Node /\ v \in Node /\ r \in Nat /\ runs \in Nat /\ runs <= MaxRuns
    BY <1>1 DEF TypeOK, RecordInv
  <1>7. \A e \in s.files : e[1] = "manifest" => e = <<"manifest", r>>
    BY <1>5, <1>6, EntryIs
  <1>8. Has(s, "manifest") /\ OneManifest(s) /\ Before(s, runs + 1)
    BY <1>3, <1>5, <1>6, <1>7 DEF Has, OneManifest, Before
  <1>9. RecordAt(s, v, next, r, runs)
    BY <1>3, <1>8 DEF RecordAt
  <1>10. RecordInv'
    BY <1>2, <1>9, RecordKeeps DEF AfterGoMod, AfterCases, AfterManifest, AfterComplete
  <1>11. r \in 0..MaxRuns
    BY <1>3, <1>6, PublishAssumption
  <1>12. Newest(s, v) = r
    BY <1>5, <1>6, <1>8, <1>11, ManifestIs DEF Newest
  <1>13. o.files = {} /\ ~Has(o, "manifest")
    BY <1>4 DEF CanRename, Exists, Bare, Has
  <1>14. Newest(o, v) < r
    <2>1. CASE Has(v, "manifest")
      <3>1. PICK e \in v.files : e[1] = "manifest"
        BY <2>1 DEF Has
      <3>2. e = <<"manifest", e[2]>> /\ e[2] \in Nat /\ e[2] < runs
        BY <1>3, <1>6, <3>1, EntryIs DEF Before
      <3>3. e[2] \in 0..MaxRuns
        BY <1>6, <3>2, PublishAssumption
      <3>4. Manifest(v) = e[2]
        BY <1>3, <1>6, <3>2, <3>3, ManifestIs
      <3> QED
        BY <1>3, <1>13, <2>1, <3>2, <3>4 DEF Newest
    <2>2. CASE ~Has(v, "manifest")
      BY <1>3, <1>13, <2>2 DEF Newest
    <2> QED
      BY <2>1, <2>2
  <1> QED
    BY <1>2, <1>6, <1>10, <1>12, <1>14, NewestIsRecoverable

\* Every step of a run keeps the batch of record, or replaces it by the
\* run's own.
LEMMA RecordRunStep ==
  ASSUME NEW p, Procs = {p}, RecordInv, SoundInv', RunStep(p)
  PROVE  /\ RecordInv'
         /\ Recoverable' = Recoverable \/ (Recoverable' \in Nat /\ Recoverable' > Recoverable)
  <1> DEFINE o == fs["out"]   s == fs["staging"]   v == fs["prev"]
             Good == /\ RecordInv'
                     /\ \/ Recoverable' = Recoverable
                        \/ Recoverable' \in Nat /\ Recoverable' > Recoverable
  <1>1. p \in Procs /\ TypeOK /\ TypeOK'
    BY DEF RecordInv, SoundInv
  <1>2. /\ RecordAt(o, v, pc[p], run[p], runs)
        /\ pc[p] \in AfterGoMod => s.kind = "dir"
        /\ Siblings(o, v, pc[p], mode[p])
        /\ Bare(o) /\ Bare(v)
    BY <1>1 DEF RecordInv, SoundInv, SoundAt
  <1>3. \A step \in {"idle", "cleanup"} : step \notin AfterGoMod
    BY DEF AfterGoMod, AfterCases, AfterManifest, AfterComplete
  <1>4. CASE Refuse(p)
    BY <1>1, <1>3, <1>4, RefuseAt, RecordQuiet
  \* A step that reads, and decides where to go on.
  <1>5. ASSUME fs' = fs, NEW step, Goto(p, step), pc[p] \notin {"idle", "cleanup"},
               step \in {"dropprev", "cleanup"} => Has(o, "manifest"),
               step \in AfterGoMod => pc[p] \in AfterGoMod
        PROVE  Good
    <2>1. pc'[p] = step /\ run'[p] = run[p] /\ runs' = runs
      BY <1>1, <1>5, GotoAt
    <2> QED
      BY <1>2, <1>5, <2>1, RecordQuiet
  \* A step that changes the staging tree only.
  <1>6. ASSUME fs'["out"] = o, fs'["prev"] = v, pc[p] \notin {"idle", "cleanup"},
               pc'[p] \notin {"idle", "dropprev", "cleanup"}, run'[p] = run[p], runs' = runs,
               pc'[p] \in AfterGoMod => fs'["staging"].kind = "dir"
        PROVE  Good
    BY <1>6, RecordQuiet
  <1>7. CASE (Validate(p) \/ StatPrev(p) \/ StatStaging(p)) /\ ~Refuse(p)
    <2>1. /\ fs' = fs /\ pc[p] \in {"validate", "stage", "staging"}
          /\ \E step \in {"stage", "claim", "staging", "restore", "dropprev", "mkstaging",
                          "dropstaging"} :
               /\ Goto(p, step)
               /\ step = "dropprev" => Has(v, "manifest") /\ Exists("out")
      BY <1>7 DEF Validate, StatPrev, StatStaging, At, Refuse, ownedBatchDir
    <2>2. Has(v, "manifest") /\ Exists("out") => Has(o, "manifest")
      BY <1>2 DEF RecordAt, Exists
    <2> QED
      BY <1>5, <2>1, <2>2 DEF AfterGoMod, AfterCases, AfterManifest, AfterComplete
  <1>8. CASE (JudgeBatch(p) \/ StatOut(p) \/ StatCheckOut(p)) /\ ~Refuse(p)
    <2>1. /\ fs' = fs /\ pc[p] \in {"judge", "publish", "checkpublish"}
          /\ \E step \in {"complete", "aside", "swap", "checkswap", "rmdir"} : Goto(p, step)
      BY <1>8 DEF JudgeBatch, StatOut, StatCheckOut, At, Refuse
    <2> QED
      BY <1>5, <2>1 DEF AfterGoMod, AfterCases, AfterManifest, AfterComplete
  <1>9. CASE RestorePrev(p) /\ ~Refuse(p)
    <2>1. /\ pc[p] = "restore" /\ ~Exists("out")
          /\ Rename("prev", "out") /\ Goto(p, "staging")
      BY <1>9 DEF RestorePrev, At, CanRename
    <2>2. /\ fs'["out"] = v /\ fs'["prev"] = NoNode
          /\ pc'[p] = "staging" /\ run'[p] = run[p] /\ runs' = runs
      BY <1>1, <2>1, RenameAt, GotoAt
    <2>3. o.files = {}
      BY <1>2, <2>1 DEF Exists, Bare
    <2>4. NoNode.kind = "none" /\ NoNode.files = {}
      BY DEF NoNode
    <2>5. RecordAt(v, NoNode, "staging", run[p], runs)
      BY <1>2, <2>1, <2>4 DEF RecordAt, OneManifest, Before, Has
    <2>6. Newest(v, NoNode) = Newest(o, v)
      BY <2>3, <2>4 DEF Newest, Has
    <2>7. "staging" \notin AfterGoMod
      BY DEF AfterGoMod, AfterCases, AfterManifest, AfterComplete
    <2> QED
      BY <2>2, <2>5, <2>6, <2>7, RecordKeeps, NewestIsRecoverable
  <1>10. CASE (DropPrev(p) \/ Cleanup(p))
    <2>1. /\ pc[p] \in {"dropprev", "cleanup"}
          /\ RemoveAll(p, "prev", IF pc[p] = "cleanup" THEN "idle" ELSE "staging")
      BY <1>10 DEF DropPrev, Cleanup, At
    <2>2. /\ fs'["out"] = o /\ fs'["prev"].files \subseteq v.files
          /\ fs'["prev"].kind = "dir" \/ fs'["prev"] = NoNode
          /\ pc'[p] \in {pc[p], IF pc[p] = "cleanup" THEN "idle" ELSE "staging"}
          /\ run'[p] = run[p] /\ runs' = runs
      BY <1>1, <2>1, RemoveAllAt
    <2>3. Has(o, "manifest") /\ fs'["prev"].kind # "file" /\ pc'[p] \notin AfterGoMod
      BY <1>2, <2>1, <2>2
         DEF RecordAt, NoNode, AfterGoMod, AfterCases, AfterManifest, AfterComplete
    <2> QED
      BY <2>1, <2>2, <2>3, RecordQuiet
  <1>11. CASE DropStaging(p)
    <2>1. pc[p] = "dropstaging" /\ RemoveAll(p, "staging", "mkstaging")
      BY <1>11 DEF DropStaging, At
    <2>2. /\ fs'["out"] = o /\ fs'["prev"] = v /\ pc'[p] \in {"dropstaging", "mkstaging"}
          /\ run'[p] = run[p] /\ runs' = runs
      BY <1>1, <2>1, RemoveAllAt
    <2> QED
      BY <1>6, <2>1, <2>2 DEF AfterGoMod, AfterCases, AfterManifest, AfterComplete
  <1>12. CASE (MakeStaging(p) \/ ClaimStaging(p)) /\ ~Refuse(p)
    <2>1. /\ pc[p] \in {"mkstaging", "claim"} /\ Goto(p, "mark")
          /\ fs' = fs \/ fs' = [fs EXCEPT !["staging"] = EmptyDir]
      BY <1>12 DEF MakeStaging, ClaimStaging, At
    <2>2. /\ fs'["out"] = o /\ fs'["prev"] = v /\ pc'[p] = "mark"
          /\ run'[p] = run[p] /\ runs' = runs
      BY <1>1, <2>1, GotoAt, SetAt
    <2> QED
      BY <1>6, <2>1, <2>2 DEF AfterGoMod, AfterCases, AfterManifest, AfterComplete
  <1>13. CASE (WriteMarker(p) \/ WriteGoMod(p) \/ WriteCases(p) \/ WriteManifest(p)
               \/ WriteComplete(p)) /\ ~Refuse(p)
    <2>1. /\ pc[p] \in {"mark", "gomod", "cases", "manifest", "complete"}
          /\ \E name, r : \E next \in {"gomod", "cases", "manifest", "judge", "checkpublish", "publish"} :
               WriteStaged(p, name, r, next)
      BY <1>13 DEF WriteMarker, WriteGoMod, WriteCases, WriteManifest, WriteComplete, At
    <2>2. PICK name, r, next : /\ WriteStaged(p, name, r, next)
                               /\ next \in {"gomod", "cases", "manifest", "judge", "checkpublish", "publish"}
      BY <2>1
    <2>3. /\ fs'["out"] = fs["out"] /\ fs'["prev"] = fs["prev"]
          /\ pc'[p] = next /\ run'[p] = run[p] /\ runs' = runs
          /\ fs'["staging"].kind = "dir"
      <3>1. TypeOK /\ p \in Procs
        BY <1>1
      <3>2. WriteStaged(p, name, r, next)
        BY <2>2
      <3> HIDE DEF o, s, v, Good, Path
      <3>3. fs'["out"] = fs["out"] /\ fs'["prev"] = fs["prev"]
        BY <3>1, <3>2, WriteStagedAt
      <3>4. pc'[p] = next /\ run'[p] = run[p] /\ runs' = runs
        BY <3>1, <3>2, WriteStagedAt
      <3>5. fs'["staging"].kind = "dir"
        BY <3>1, <3>2, WriteStagedAt
      <3> QED
        BY <3>3, <3>4, <3>5
    <2> QED
      BY <1>6, <2>1, <2>2, <2>3
  <1>14. CASE MoveAside(p) /\ ~Refuse(p)
    <2>1. /\ pc[p] = "aside" /\ ~Exists("prev")
          /\ Rename("out", "prev") /\ Goto(p, "swap")
      BY <1>14 DEF MoveAside, At, CanRename
    <2>2. /\ fs'["out"] = NoNode /\ fs'["prev"] = o /\ fs'["staging"] = s
          /\ pc'[p] = "swap" /\ run'[p] = run[p] /\ runs' = runs
      BY <1>1, <2>1, RenameAt, GotoAt
    <2>3. v.files = {}
      BY <1>2, <2>1 DEF Exists, Bare
    <2>4. NoNode.kind = "none" /\ NoNode.files = {}
      BY DEF NoNode
    <2>5. RecordAt(NoNode, o, "swap", run[p], runs)
      BY <1>2, <2>1, <2>4 DEF RecordAt, OneManifest, Before, Has
    <2>6. Newest(NoNode, o) = Newest(o, v)
      BY <2>3, <2>4 DEF Newest, Has
    <2>7. s.kind = "dir"
      BY <1>2, <2>1 DEF AfterGoMod, AfterCases, AfterManifest, AfterComplete
    <2> QED
      BY <2>2, <2>5, <2>6, <2>7, RecordKeeps, NewestIsRecoverable
  <1>15. CASE (Swap(p) \/ CheckSwap(p)) /\ ~Refuse(p)
    <2>1. /\ pc[p] \in {"swap", "checkswap"}
          /\ CanRename("staging", "out") /\ Rename("staging", "out")
          /\ \E next \in {"cleanup", "idle"} : Goto(p, next)
      BY <1>15 DEF Swap, CheckSwap, At
    <2> QED
      BY <2>1, RecordPublishes
  <1>16. CASE RemoveOut(p) /\ ~Refuse(p)
    <2>1. /\ pc[p] = "rmdir" /\ (o = EmptyDir \/ o.kind = "file")
          /\ fs' = [fs EXCEPT !["out"] = NoNode] /\ Goto(p, "checkswap")
      BY <1>16 DEF RemoveOut, At
    <2>2. /\ fs'["out"] = NoNode /\ fs'["prev"] = v /\ fs'["staging"] = s
          /\ pc'[p] = "checkswap" /\ run'[p] = run[p] /\ runs' = runs
      BY <1>1, <2>1, SetAt, GotoAt
    <2>3. NoNode.kind = "none" /\ NoNode.files = {} /\ EmptyDir.files = {}
      BY DEF NoNode, EmptyDir, Dir
    <2>4. ~Has(o, "manifest")
      BY <1>2, <2>1, <2>3 DEF RecordAt, Has
    <2>5. RecordAt(NoNode, v, "checkswap", run[p], runs)
      BY <1>2, <2>1, <2>3 DEF RecordAt, OneManifest, Before, Has
    <2>6. Newest(NoNode, v) = Newest(o, v)
      BY <2>3, <2>4 DEF Newest, Has
    <2>7. s.kind = "dir"
      BY <1>2, <2>1 DEF AfterGoMod, AfterCases, AfterManifest, AfterComplete
    <2> QED
      BY <2>2, <2>5, <2>6, <2>7, RecordKeeps, NewestIsRecoverable
  <1> QED
    BY <1>4, <1>7, <1>8, <1>9, <1>10, <1>11, <1>12, <1>13, <1>14, <1>15, <1>16 DEF RunStep

\* Where there is no gengo batch yet, there is none of record.
LEMMA RecordInit ==
  ASSUME NEW p, Procs = {p}, Init, SoundInv
  PROVE  RecordInv /\ Recoverable = 0
  <1>1. pc[p] = "idle" /\ runs = 0
    BY DEF Init
  <1>2. \A path \in Path : \A e \in fs[path].files : e[1] = "foreign"
    BY DEF Init, NoNode, EmptyDir, UserFile, Dir, Foreign
  <1>3. RecordAt(fs["out"], fs["prev"], pc[p], run[p], runs)
    BY <1>1, <1>2 DEF RecordAt, OneManifest, Before, Has
  <1>4. "idle" \notin AfterGoMod
    BY DEF AfterGoMod, AfterCases, AfterManifest, AfterComplete
  <1>5. Newest(fs["out"], fs["prev"]) = 0
    BY <1>2 DEF Newest, Has
  <1> QED
    BY <1>1, <1>3, <1>4, <1>5, NewestIsRecoverable, PublishAssumption DEF RecordInv

LEMMA RecordStart ==
  ASSUME NEW p, Procs = {p}, RecordInv, SoundInv', Start(p)
  PROVE  RecordInv' /\ Recoverable' = Recoverable
  <1>1. p \in Procs /\ TypeOK /\ RecordAt(fs["out"], fs["prev"], pc[p], run[p], runs)
    BY DEF RecordInv, SoundInv
  <1>2. /\ fs' = fs /\ pc'[p] = "validate" /\ runs' = runs + 1 /\ run'[p] = runs + 1
        /\ runs < MaxRuns /\ runs \in Nat
    BY <1>1 DEF Start, TypeOK
  <1>3. \A t \in {fs["out"], fs["prev"]} : Before(t, runs + 1) /\ Before(t, runs + 2)
    <2>1. \A t \in {fs["out"], fs["prev"]} : t \in Node /\ Before(t, runs + 1)
      BY <1>1 DEF TypeOK, RecordAt
    <2>2. \A t \in {fs["out"], fs["prev"]} : \A e \in t.files : e[2] \in Nat
      BY <2>1, EntryIs
    <2> QED
      BY <1>2, <2>1, <2>2 DEF Before
  <1>4. RecordAt(fs'["out"], fs'["prev"], "validate", runs + 1, runs + 1)
    <2>1. runs + 1 > 0 /\ (runs + 1) + 1 = runs + 2
      BY <1>2
    <2> QED
      BY <1>1, <1>2, <1>3, <2>1 DEF RecordAt
  <1>5. "validate" \notin AfterGoMod
    BY DEF AfterGoMod, AfterCases, AfterManifest, AfterComplete
  <1>6. runs' <= MaxRuns
    BY <1>2, PublishAssumption
  <1> QED
    BY <1>2, <1>4, <1>5, <1>6, NewestIsRecoverable DEF RecordInv

\* With no run alive the user clears what is not the batch of record.
LEMMA RecordUserStep ==
  ASSUME NEW p, Procs = {p}, RecordInv, SoundInv', UserStep, User \subseteq {"clear"}
  PROVE  RecordInv' /\ Recoverable' = Recoverable
  <1>1. p \in Procs /\ TypeOK
    BY DEF RecordInv, SoundInv
  <1>2. ClearSibling
    BY DEF UserStep, MkdirOut, FillOut, TakeOut
  <1>3. pc[p] = "idle" /\ pc' = pc /\ run' = run /\ runs' = runs
    BY <1>1, <1>2 DEF ClearSibling, At, Put
  <1>4. PICK path \in {"staging", "prev"} :
          /\ fs' = [fs EXCEPT ![path] = NoNode]
          /\ path = "prev" => ~Has(fs["prev"], "manifest")
    BY <1>2 DEF ClearSibling, Put, ownedBatchDir
  <1>5. fs'[path] = NoNode /\ \A other \in Path \ {path} : fs'[other] = fs[other]
    BY <1>1, <1>4, SetAt
  <1>6. NoNode.files = {} /\ NoNode.kind # "file"
    BY DEF NoNode
  <1>7. "idle" \notin AfterGoMod
    BY DEF AfterGoMod, AfterCases, AfterManifest, AfterComplete
  <1> QED
    BY <1>3, <1>4, <1>5, <1>6, <1>7, RecordQuiet

\* One gengo at a time on an -out, any number of runs in either mode, killed
\* or failing at any system call, and a user who clears away what a run has
\* refused to touch.  Publication implements the batch of record: what -out and
\* <out>.prev hold between them is the newest batch that was published, at
\* every moment and after every crash, and only a newer one takes its place.
THEOREM RecordIsKept ==
  ASSUME NEW p, Procs = {p}, User \subseteq {"clear"}
  PROVE  Spec => RecordKept
  <1>1. ASSUME Init, TypeOK
        PROVE  RecordInv /\ Abstract!Init
    BY <1>1, SoundInit, RecordInit DEF Abstract!Init
  <1>2. ASSUME RecordInv, TypeOK', [Next]_vars
        PROVE  RecordInv' /\ [Abstract!Replace]_Recoverable
    <2>1. SoundInv'
      BY <1>2, SoundInductive DEF RecordInv
    <2>2. CASE Start(p)
      BY <1>2, <2>1, <2>2, RecordStart
    <2>3. CASE RunStep(p)
      BY <1>2, <2>1, <2>3, RecordRunStep DEF Abstract!Replace
    <2>4. CASE Crash(p)
      <3>1. /\ pc'[p] = "idle" /\ run'[p] = run[p] /\ runs' = runs /\ fs' = fs
        BY <1>2, <2>4, RefuseAt DEF Crash, RecordInv, SoundInv
      <3>2. "idle" \notin AfterGoMod
        BY DEF AfterGoMod, AfterCases, AfterManifest, AfterComplete
      <3> QED
        BY <1>2, <2>1, <3>1, <3>2, RecordQuiet
    <2>5. CASE UserStep
      BY <1>2, <2>1, <2>5, RecordUserStep
    <2>6. CASE UNCHANGED vars
      <3>1. RecordInv'
        BY <1>2, <2>1, <2>6 DEF vars, RecordInv
      <3> QED
        BY <2>6, <3>1, NewestIsRecoverable DEF vars
    <2> QED
      BY <1>2, <2>2, <2>3, <2>4, <2>5, <2>6 DEF Next
  <1> QED
    BY <1>1, <1>2, TypeCorrect, PTL DEF Spec, RecordKept, Abstract!Spec
=============================================================================
