------------------------------- MODULE Growth -------------------------------
(***************************************************************************)
(* The static bounds the generator keeps of what its program grows         *)
(* (gen/gen.go writeBound, stmt.go setStrLen, swapStrLen, appendStmt,      *)
(* rangeStmt): byte lengths of strings, lengths of slices, magnitudes of   *)
(* ints; 0 is unknown.  They decide which container may drive a loop, how  *)
(* many trips of it are charged, and whether the program gets the tag      *)
(* width_dependent.                                                        *)
(*                                                                         *)
(* A short program is written first (phase "emit") by the arms that move   *)
(* a bound, and is then run (phase "run") on real lengths and magnitudes,  *)
(* so that every bound is held against every path of the program that was  *)
(* written under it.                                                       *)
(***************************************************************************)
EXTENDS Naturals, Sequences, FiniteSets

CONSTANTS
  Strings, Slices, Ints,   \* names of variables
  Scopes,                  \* the sets of variables a program is written on
  LitLen,                  \* the bytes of a literal, the value of an int one
  InitLen,                 \* elements a slice is declared with
  LoopCap, TripCap,        \* iterations of a for loop, of a range or fold
  Window,                  \* magnitudes that differ between widths (2^31)
  MaxOps, MaxNest,         \* bounds: statements on a scope, open bodies
  MaxLen,                  \* bound: a length of a string nothing is known of
  MaxVal,                  \* bound: a value that is told from greater ones
  AssignInLoops            \* ints are assigned inside loops, too

ASSUME GrowthAssumption ==
  /\ {LitLen, InitLen, LoopCap, TripCap, Window, MaxNest, MaxLen, MaxVal} \subseteq Nat \ {0}
  /\ Strings \intersect Slices = {} /\ (Strings \union Slices) \intersect Ints = {}
  /\ "none" \notin Strings \union Slices \union Ints
  /\ \A on \in Scopes : on \subseteq Strings \union Slices \union Ints
  /\ \A on \in Scopes : MaxOps[on] \in Nat \ {0}
  /\ LitLen < Window /\ Window < MaxVal /\ AssignInLoops \in BOOLEAN

VARIABLES
  phase,    \* "emit", "run", "done"
  prog,     \* the statements written
  bound,    \* the bound of each variable, 0 when unknown
  open,     \* the bodies open around the next statement, innermost first
  frozen,   \* slices ranged over in the open loop nest (loopFrozenSlices)
  tagged,   \* the program is tagged width_dependent
  pc, val,  \* the run: the next statement, the lengths and magnitudes,
  frames,   \* the trips left of the loops that are running,
  runs      \* how often each statement was executed

emitting == <<prog, bound, open, frozen, tagged>>
running  == <<pc, val, frames, runs>>
vars     == <<phase, emitting, running>>

scope == DOMAIN bound

-----------------------------------------------------------------------------
(* The algebra of bounds: unknown absorbs.                                 *)

boundAdd(a, b) == IF a = 0 \/ b = 0 THEN 0 ELSE a + b
boundMul(a, b) == a * b
boundMax(a, b) == IF a = 0 \/ b = 0 THEN 0 ELSE IF a > b THEN a ELSE b

widthDivergent(b) == b = 0 \/ b >= Window

\* Where the next statement stands.
loopDepth == Cardinality({i \in 1..Len(open) : open[i].loop})
condDepth == Cardinality({i \in 1..Len(open) : ~open[i].loop})
execMul   == IF open = <<>> THEN 1 ELSE Head(open).mul

\* Slips a change to this code could make; no step uses them.
setStrLenNoJoin(new, prev) == IF loopDepth > 0 THEN 0 ELSE new

plusInLoops(b, n) == boundAdd(b, n)

appendableWhenClosed ==
  {s \in Slices \intersect scope : \A i \in 1..Len(open) : open[i].over # s}

\* A string's new byte length: stale inside a loop, one of two under a
\* condition.
setStrLen(new, prev) ==
  IF loopDepth > 0 THEN 0 ELSE IF condDepth > 0 THEN boundMax(prev, new) ELSE new

\* The effect on an int's bound of a write: a replacement, an accumulation,
\* and one whose contribution does not depend on what the loop changes.
replaced(b, new) ==
  IF loopDepth > 0 THEN 0 ELSE IF condDepth > 0 THEN boundMax(b, new) ELSE new
plus(b, n)      == IF loopDepth > 0 THEN 0 ELSE boundAdd(b, n)
plusFixed(b, n) == boundAdd(b, boundMul(n, execMul))

-----------------------------------------------------------------------------
(* Writing the program.                                                    *)

Op(op, to, from, n) == [op |-> op, to |-> to, from |-> from, n |-> n, end |-> 0, mul |-> execMul]

none == "none"

statements == Len(SelectSeq(prog, LAMBDA s : s.op # "close"))

Emit(s) ==
  /\ phase = "emit" /\ statements < MaxOps[scope]
  /\ prog' = Append(prog, s)
  /\ UNCHANGED <<phase, running>>

Bound(v, b) == bound' = [bound EXCEPT ![v] = b]

Simple == UNCHANGED <<open, frozen, tagged>>

\* s = "lit", s = t and s = t + "lit"; an s = s is written with a literal.
AssignString ==
  \E s \in Strings \intersect scope :
    /\ \/ Emit(Op("set", s, none, LitLen)) /\ Bound(s, setStrLen(LitLen, bound[s]))
       \/ \E t \in (Strings \intersect scope) \ {s} :
            Emit(Op("set", s, t, 0)) /\ Bound(s, setStrLen(bound[t], bound[s]))
       \/ \E t \in Strings \intersect scope :
            /\ Emit(Op("set", s, t, LitLen))
            /\ Bound(s, setStrLen(boundAdd(boundAdd(1, bound[t]), LitLen), bound[s]))
    /\ Simple

\* s += "lit"
CompoundAssignString ==
  \E s \in Strings \intersect scope :
    /\ Emit(Op("grow", s, none, LitLen))
    /\ Bound(s, boundAdd(bound[s], boundMul(LitLen, execMul)))
    /\ Simple

\* s, t = t, s (swapStrLen)
SwapStrings ==
  \E s, t \in Strings \intersect scope :
    /\ s # t
    /\ Emit(Op("swap", s, t, 0))
    /\ bound' = [bound EXCEPT
         ![s] = IF loopDepth > 0 THEN 0
                ELSE IF condDepth > 0 THEN boundMax(@, bound[t]) ELSE bound[t],
         ![t] = IF loopDepth > 0 THEN 0
                ELSE IF condDepth > 0 THEN boundMax(@, bound[s]) ELSE bound[s]]
    /\ Simple

\* Any other write of a string, the result of a call for one (writeBound).
WriteUntracked ==
  \E s \in Strings \intersect scope :
    Emit(Op("untracked", s, none, 0)) /\ Bound(s, 0) /\ Simple

\* A fold of a variable's bytes, outside loops, charged by its bound.
stringRangeableVars == {s \in Strings \intersect scope : bound[s] \in 1..TripCap}

StringRangeFold ==
  \E s \in stringRangeableVars :
    /\ loopDepth = 0
    /\ Emit(Op("fold", s, none, bound[s]))
    /\ UNCHANGED bound /\ Simple

\* No slice may grow while one is ranged over, nor one the nest ranges over
\* again on its next pass.
appendableSlices ==
  {s \in Slices \intersect scope : /\ \A i \in 1..Len(open) : open[i].over = none
                                   /\ s \notin frozen}

AppendStmt ==
  \E s \in appendableSlices :
    /\ Emit(Op("append", s, none, 1))
    /\ Bound(s, boundAdd(bound[s], execMul))
    /\ Simple

\* v = w, v = w + x and v = w * x; only the expression may set the tag.
AssignInt ==
  \E v, w \in Ints \intersect scope :
    /\ loopDepth > 0 => AssignInLoops
    /\ \/ /\ v # w /\ Emit(Op("set", v, w, 0))
          /\ Bound(v, replaced(bound[v], bound[w])) /\ UNCHANGED tagged
       \/ /\ Emit(Op("square", v, w, 0))
          /\ LET b == boundMul(bound[w], bound[w])
             IN Bound(v, replaced(bound[v], b)) /\ tagged' = (tagged \/ widthDivergent(b))
    /\ UNCHANGED <<open, frozen>>

\* v += w is tagged by what v is bound to afterwards.
CompoundAssignInt ==
  \E v, w \in Ints \intersect scope :
    /\ v # w /\ Emit(Op("add", v, w, 0))
    /\ Bound(v, plus(bound[v], bound[w]))
    /\ tagged' = (tagged \/ widthDivergent(bound'[v]))
    /\ UNCHANGED <<open, frozen>>

IncDec ==
  \E v \in Ints \intersect scope :
    /\ Emit(Op("grow", v, none, 1))
    /\ Bound(v, plusFixed(bound[v], 1))
    /\ tagged' = (tagged \/ widthDivergent(bound'[v]))
    /\ UNCHANGED <<open, frozen>>

\* A slip: the loops outside do not multiply.
OpenForgetsOuter(s, loop, over, n) ==
  /\ Len(open) < MaxNest
  /\ Emit(s)
  /\ open' = <<[loop |-> loop, over |-> over, mul |-> n, at |-> Len(prog) + 1]>> \o open

\* A body opens: a loop runs its statements trips times as often.
Open(s, loop, over, n) ==
  /\ Len(open) < MaxNest
  /\ Emit(s)
  /\ open' = <<[loop |-> loop, over |-> over, mul |-> execMul * n, at |-> Len(prog) + 1]>> \o open

IfStmt ==
  /\ Open(Op("if", none, none, 0), FALSE, none, 1)
  /\ UNCHANGED <<bound, frozen, tagged>>

\* The index of a loop is added to an int first thing in its body.
consumeIndex(v, n) ==
  IF v = none THEN UNCHANGED <<bound, tagged>>
  ELSE /\ Bound(v, boundAdd(bound[v], boundMul(n, execMul * n)))
       /\ tagged' = (tagged \/ widthDivergent(bound'[v]))

accumulators == IF Ints \intersect scope = {} THEN {none} ELSE Ints \intersect scope

ForStmt ==
  \E n \in 1..LoopCap, v \in accumulators :
    /\ Open(Op("for", none, v, n), TRUE, none, n)
    /\ consumeIndex(v, n)
    /\ UNCHANGED frozen

\* The trips of a range are the bound of its slice when it is written.
trips(s) == bound[s]

rangeableVars == {s \in Slices \intersect scope : bound[s] <= TripCap}

RangeStmt ==
  \E s \in rangeableVars, v \in accumulators :
    /\ Open(Op("range", s, v, trips(s)), TRUE, s, trips(s))
    /\ consumeIndex(v, trips(s))
    /\ frozen' = IF loopDepth > 0 THEN frozen \union {s} ELSE frozen

\* It ends or goes on with the innermost loop that is open.
Terminal ==
  \E kw \in {"break", "continue"}, i \in 1..Len(open) :
    /\ open[i].loop /\ \A k \in 1..(i - 1) : ~open[k].loop
    /\ Emit(Op(kw, none, none, open[i].at))
    /\ UNCHANGED bound /\ Simple

\* The closing of the outermost loop releases the slices (releaseFrozenSlices).
Close ==
  /\ phase = "emit" /\ open # <<>>
  /\ prog' = Append([prog EXCEPT ![Head(open).at].end = Len(prog) + 1],
                    [Op("close", none, none, Head(open).at) EXCEPT !.mul = Head(open).mul])
  /\ open' = Tail(open)
  /\ frozen' = IF loopDepth' = 0 THEN {} ELSE frozen
  /\ UNCHANGED <<phase, bound, tagged, running>>

-----------------------------------------------------------------------------
(* Running it.                                                             *)

Start ==
  /\ phase = "emit" /\ open = <<>> /\ prog # <<>>
  /\ phase' = "run"
  /\ runs' = [i \in 1..Len(prog) |-> 0]
  /\ UNCHANGED <<emitting, pc, val, frames>>

It      == prog[pc]
At(ops) == phase = "run" /\ pc <= Len(prog) /\ It.op \in ops

\* Values are told apart up to a bound above the window.
Capped(n) == IF n > MaxVal THEN MaxVal ELSE n

Executed(next) ==
  /\ pc' = next
  /\ runs' = [runs EXCEPT ![pc] = @ + 1]
  /\ UNCHANGED <<phase, emitting>>

Write(v, n) == /\ val' = [val EXCEPT ![v] = Capped(n)]
               /\ UNCHANGED frames
               /\ Executed(pc + 1)

from == IF It.from = none THEN 0 ELSE val[It.from]

RunWrite ==
  \/ At({"set"})            /\ Write(It.to, from + It.n)
  \/ At({"grow", "append"}) /\ Write(It.to, val[It.to] + It.n)
  \/ At({"add"})            /\ Write(It.to, val[It.to] + from)
  \/ At({"square"})         /\ Write(It.to, from * from)
  \/ At({"untracked"})      /\ \E n \in {0, MaxLen} : Write(It.to, n)

RunSwap ==
  /\ At({"swap"})
  /\ val' = [val EXCEPT ![It.to] = val[It.from], ![It.from] = val[It.to]]
  /\ UNCHANGED frames /\ Executed(pc + 1)

RunFold == At({"fold"}) /\ UNCHANGED <<val, frames>> /\ Executed(pc + 1)

RunIf == At({"if"}) /\ UNCHANGED <<val, frames>> /\ (Executed(pc + 1) \/ Executed(It.end + 1))

\* What is ranged over is evaluated once, on entry; frames count the passes.
RunLoop ==
  /\ At({"for", "range"})
  /\ LET n == IF It.op = "range" THEN val[It.to] ELSE It.n
     IN IF n = 0 THEN UNCHANGED frames /\ Executed(It.end + 1)
        ELSE frames' = <<[at |-> pc, pass |-> 0, of |-> n]>> \o frames /\ Executed(pc + 1)
  /\ UNCHANGED val

\* The next pass of the innermost loop, whose index is folded, or its end.
NextPass ==
  LET f    == Head(frames)
      acc  == prog[f.at].from
      pass == f.pass + 1
  IN IF pass < f.of
     THEN /\ frames' = <<[f EXCEPT !.pass = pass]>> \o Tail(frames)
          /\ val' = IF acc = none THEN val ELSE [val EXCEPT ![acc] = Capped(@ + pass)]
          /\ Executed(f.at + 1)
     ELSE frames' = Tail(frames) /\ UNCHANGED val /\ Executed(prog[f.at].end + 1)

RunClose ==
  \/ At({"close"}) /\ prog[It.n].op = "if" /\ UNCHANGED <<val, frames>> /\ Executed(pc + 1)
  \/ At({"close"}) /\ prog[It.n].op # "if" /\ NextPass

RunTerminal ==
  \/ At({"continue"}) /\ NextPass
  \/ At({"break"}) /\ frames' = Tail(frames) /\ UNCHANGED val /\ Executed(prog[It.n].end + 1)

Finish ==
  /\ phase = "run" /\ pc > Len(prog)
  /\ phase' = "done"
  /\ UNCHANGED <<emitting, running>>

Init ==
  /\ phase = "emit" /\ prog = <<>> /\ open = <<>> /\ frozen = {} /\ tagged = FALSE
  /\ \E s \in Scopes : bound = [v \in s |-> IF v \in Slices THEN InitLen ELSE LitLen]
  /\ val = bound /\ pc = 1 /\ frames = <<>> /\ runs = <<>>

Write_ == \/ AssignString \/ CompoundAssignString \/ SwapStrings \/ WriteUntracked
          \/ AppendStmt \/ AssignInt \/ CompoundAssignInt \/ IncDec

Next ==
  \/ Write_ \/ StringRangeFold \/ IfStmt \/ ForStmt \/ RangeStmt \/ Terminal \/ Close
  \/ Start \/ RunWrite \/ RunSwap \/ RunFold \/ RunIf \/ RunLoop \/ RunClose \/ RunTerminal \/ Finish

Spec == Init /\ [][Next]_vars

-----------------------------------------------------------------------------
(* Properties.                                                             *)

\* The shapes of the bounds; outside loops no slice stays frozen.
TypeOK ==
  /\ phase \in {"emit", "run", "done"}
  /\ bound \in [scope -> Nat] /\ val \in [scope -> Nat]
  /\ frozen \subseteq Slices \intersect scope /\ (loopDepth = 0 => frozen = {})

\* A range or a fold never takes more trips than were charged for it when it
\* was written, however often its loops run it again (rangeStmt: the bound
\* "the gate capped and the freeze holds still").
TripsPriced ==
  At({"fold", "range"}) => val[It.to] <= It.n

\* execMul is the worst-case execution count of the site it is charged at.
RunsWithinMul ==
  phase = "run" => \A i \in 1..Len(prog) : runs[i] <= prog[i].mul

\* What the generator holds of a variable at the end of the program is true
\* of it on every path.
BoundsHold ==
  phase = "done" => \A v \in scope : bound[v] = 0 \/ val[v] <= bound[v]

\* A program without the tag never computes a value that differs between
\* widths (widthdep_test.go).
WidthTagged ==
  \A v \in Ints \intersect scope : val[v] >= Window => tagged
=============================================================================
