----------------------------- MODULE Generator -----------------------------
(***************************************************************************)
(* The work budget of a generated program (gen/budget.go) and what the     *)
(* emitters do with it (gen/gen.go, stmt.go, expr.go, functions.go,        *)
(* forward.go).                                                            *)
(*                                                                         *)
(* The generator writes one subject from a tape of draws.  Every statement *)
(* is charged its executions in the worst case when it is written; an arm  *)
(* is open to the draw only if the pool can carry it and everything the    *)
(* generator is already committed to.  The emitters call each other; here  *)
(* todo is what they still have to do, the innermost call first, and each  *)
(* step does the first item of it.                                         *)
(*                                                                         *)
(* The program's text, its variables, types and constructs are left out:   *)
(* any arm some environment allows may be drawn.  What the subject and the *)
(* bodies it calls would really execute is counted beside it (real).       *)
(***************************************************************************)
EXTENDS Naturals, Sequences

CONSTANTS
  ExecBudget,    \* executed statements a subject may cost
  FixedReserve,  \* taken for scaffolding, and for the recover wrapper,
  VarReserve,    \* and for the declaration and observation of a variable
  Vars,          \* the variables that are declared
  Stmts,         \* Config: statements of the subject,
  Depth,         \* nesting of control flow,
  LoopCap,       \* iterations of a for loop,
  ExprFuel,      \* nesting of expressions
  TripCap,       \* iterations of a range (8 * LoopCap in the code)
  PerCall,       \* executed statements a battery function may cost
  MaxBody,       \* statements of a body that is not the subject
  ArrayLen,      \* length of an array (at most 4 in the code)
  Cases,         \* what is drawn for a case: battery functions or none, the
                 \* order corner, the mix of constructs, how many callees
  Forms,         \* the forms of tuple forwarding
  FunctionPanics,\* Config: battery functions may have a panic site
  CountBool      \* what calls of bool helpers execute is counted

ASSUME GeneratorAssumption ==
  /\ {ExecBudget, FixedReserve, VarReserve, Vars, Depth, PerCall} \subseteq Nat
  /\ {Stmts, LoopCap, ExprFuel, TripCap, ArrayLen, MaxBody} \subseteq Nat \ {0}
  /\ {FunctionPanics, CountBool} \subseteq BOOLEAN
  /\ Forms \intersect {"int", "bool", "method", "function"} = {}
  \* Validate keeps the mandatory part of any configuration far below it.
  /\ ExecBudget >= 2 * FixedReserve + Vars * VarReserve + 2 * Stmts
  /\ PerCall >= MaxBody + 1

VARIABLES
  pool,      \* the accounts: charge, afford, commitFloor
  todo,      \* what the emitters still have to do
  risk,      \* the statement's panic site and order witnesses
  mode,      \* the body being written: "subject", "pure", "function"
  callees,   \* the helpers and methods there are
  pairs,     \* the forward pair of each form
  config,    \* draws that hold for the whole case
  line,      \* what the line being written has of both
  real       \* executions: the factor of the open loops, the body's sum

vars == <<pool, todo, risk, mode, callees, pairs, config, line, real>>

Max2(a, b) == IF a > b THEN a ELSE b

-----------------------------------------------------------------------------
(* The accounts.                                                           *)

\* cost collects the charges while a body is priced (costSink).
Charge(p, n) ==
  IF p.priced THEN [p EXCEPT !.cost = @ + n]
  ELSE IF n > p.left THEN [p EXCEPT !.left = 0, !.breached = TRUE]
  ELSE [p EXCEPT !.left = @ - n]

\* A slip: the floors of what the generator is committed to are not kept free.
AffordAllThatIsLeft(p, n) == p.priced \/ p.left >= n

Afford(p, n) == p.priced \/ p.left >= p.liability + n

CommitFloor(p, n) == IF p.priced THEN p ELSE [p EXCEPT !.liability = @ + n]
Release(p, n)     == IF p.priced THEN p ELSE [p EXCEPT !.liability = @ - n]

Pool(left) == [left |-> left, liability |-> 0, mul |-> 1,
               breached |-> FALSE, priced |-> FALSE, cost |-> 0]
Pricing(p) == [p EXCEPT !.priced = TRUE, !.cost = 0, !.mul = 1, !.liability = 0]

\* n statements are executed at every pass of the open loops.
Runs(n) == [real EXCEPT !.sum = @ + n * real.times]

blockFloorStmts == 5
loopBodyFloor   == blockFloorStmts + 1

-----------------------------------------------------------------------------
(* What there is to do.                                                    *)

Stmt(d, inLoop, last)  == [do |-> "stmt", depth |-> d, inLoop |-> inLoop, last |-> last]
Block(d, max, inLoop)  == [do |-> "block", depth |-> d, max |-> max, inLoop |-> inLoop]
Else(d, inLoop)        == [do |-> "else", depth |-> d, inLoop |-> inLoop]
Expr(fuel)             == [do |-> "expr", fuel |-> fuel]
Witness                == [do |-> "witness"]
Hot                    == [do |-> "hot"]
Reset                  == [do |-> "reset"]
Spend                  == [do |-> "spend"]
Project                == [do |-> "project"]
ReleaseFloor(n)        == [do |-> "release", floor |-> n]
\* The factors outside the loop, and what was kept free for it.
EndLoop(floor)         == [do |-> "endloop", mul |-> pool.mul, times |-> real.times,
                           floor |-> floor]
Callees(n)             == [do |-> "callees", left |-> n]
Declare(n)             == [do |-> "declare", left |-> n]
Top(n)                 == [do |-> "top", left |-> n]
Functions              == [do |-> "functions"]
Return(n)              == [do |-> "return", floor |-> n]
Forward(f)             == [do |-> "forward", form |-> f]

\* The end of a body: what it was for, and what the emitters go back to.
EndBody(for) == [do |-> "endbody", for |-> for, pool |-> pool, risk |-> risk,
                 mode |-> mode, line |-> line, real |-> real]

At(what)    == todo # <<>> /\ Head(todo).do = what
It          == Head(todo)
Then(items) == todo' = items \o Tail(todo)

Slots(n, d, inLoop, inner) ==
  [i \in 1..n |-> Stmt(d, inLoop, i = n /\ ~inner)]

NoRisk  == [spent |-> FALSE, wit |-> FALSE, clash |-> FALSE]
NewLine == [hot |-> 0, wit |-> FALSE]

resetRisk == /\ risk' = [NoRisk EXCEPT !.clash = risk.clash]
             /\ line' = NewLine

pureMode == mode # "subject"

\* What the swarm drew for this case (constructs.go has the names).
enabled(tags) == tags \subseteq config.mix

\* A call is only drawn where the pool carries its body at every pass.
Affordable(p, c) == Afford(p, callees[c].cost * p.mul)

Kinds == {"int", "bool", "method"}

\* One operand of a call, a comparison, min or max, or a multi-assign.
Operand(fuel) == <<Expr(fuel), Witness>>
Index         == <<Hot, Witness>>

-----------------------------------------------------------------------------
(* Slips a change to this code could make; no step uses them.              *)

\* A witness wraps beside a hot site, whatever order they run in.
riskOKBesideWitness ==
  ~risk.spent /\ (pureMode => mode = "function" /\ FunctionPanics)

\* The multiplier of a loop outlives it.
EndLoopKeepsMul ==
  /\ At("endloop")
  /\ pool' = Release(pool, It.floor)
  /\ real' = [real EXCEPT !.times = It.times]
  /\ Then(<<>>)
  /\ UNCHANGED <<risk, mode, callees, pairs, config, line>>

\* The cost of a forward pair is a hand count of its source body.
EndPairHandCount ==
  /\ At("endbody") /\ It.for \in Forms
  /\ \E slots \in 2..3 :
       pairs' = [pairs EXCEPT ![It.for] =
                   [built |-> TRUE, cost |-> 8 + slots + 4, runs |-> real.sum + 2 + slots + 4]]
  /\ pool' = It.pool /\ risk' = It.risk /\ mode' = It.mode
  /\ line' = It.line /\ real' = It.real
  /\ Then(<<>>)
  /\ UNCHANGED <<callees, config>>

\* A call is charged once, whatever loops are open around it.
IntCallOncePerSite ==
  \E c \in 1..Len(callees) :
    /\ At("expr") /\ It.fuel > 0 /\ callees[c].kind # "bool"
    /\ Afford(pool, callees[c].cost)
    /\ pool' = Charge(pool, callees[c].cost)
    /\ real' = Runs(callees[c].runs)
    /\ Then(Operand(It.fuel - 1))
    /\ UNCHANGED <<risk, mode, callees, pairs, config, line>>

-----------------------------------------------------------------------------
(* Statements without a body: stmtIn charges the slot and draws an arm.    *)

\* An arm that costs k statements beside its slot; k = 0 has no gate.
Slot(k, items) ==
  /\ At("stmt")
  /\ LET p == Charge(pool, pool.mul)
     IN /\ k > 0 => Afford(p, k * pool.mul)
        /\ pool' = Charge(p, k * pool.mul)
  /\ real' = Runs(1 + k)
  /\ Then(items)
  /\ UNCHANGED <<mode, callees, pairs, config>>

\* It opens a fresh context for the panic risk; a few arms write a line
\* without expressions and leave the context as it is.
Arm(k, items)   == Slot(k, items) /\ resetRisk
Plain(k)        == Slot(k, <<>>) /\ line' = NewLine /\ UNCHANGED risk

CommaOkElem    == enabled({"index", "multi_assign"}) /\ Arm(0, Index)
Assign         == Arm(0, <<Expr(ExprFuel)>>)
CompoundAssign == Arm(0, <<Expr(ExprFuel - 1)>>)
IncDec         == Plain(0)
ElemAssign     == enabled({"index"}) /\ Arm(0, Index \o <<Expr(ExprFuel)>>)
AppendStmt     == enabled({"append"}) /\ Arm(3, <<Expr(ExprFuel)>>)
MapWrite       == enabled({"maps"}) /\ Arm(0, <<Expr(ExprFuel)>>)
MapDelete      == enabled({"maps", "delete"}) /\ Arm(0, <<>>)
CommaOk        == enabled({"maps", "comma_ok"}) /\ (Arm(0, <<>>) \/ CommaOkElem)
AssertOk       == enabled({"assertion"}) /\ Arm(0, <<>>)
IfaceAssign    == enabled({"interfaces"}) /\ Arm(0, <<>>)
FieldAssign    == enabled({"field"}) /\ Arm(0, <<Expr(ExprFuel)>>)
ObservePoint   == enabled({"observe_point"}) /\ ~pureMode /\ Plain(0)
DeferPrint     == enabled({"defer"}) /\ ~pureMode /\ Plain(1)
TypeSwitch     == enabled({"type_switch"}) /\ Arm(1, <<>>)
MapRangeFold   == enabled({"maps", "range"}) /\ Plain(4)
SliceTriple    == enabled({"slice_triple"}) /\ Arm(7, <<Reset, Expr(ExprFuel - 1), Reset>>)

\* Two hot operands, each on a line of its own.
LinearizedRisk ==
  enabled({"linearize"}) /\ ~pureMode /\ Arm(2, <<Reset, Spend, Expr(1), Reset, Spend, Expr(1), Reset>>)

\* The gate affords every operand the fold may range over.
StringRangeFold ==
  \E trips \in 0..TripCap :
    /\ enabled({"string_range"})
    /\ At("stmt") /\ Afford(Charge(pool, pool.mul), TripCap * pool.mul)
    /\ pool' = Charge(Charge(pool, pool.mul), trips * pool.mul)
    /\ real' = Runs(1 + trips)
    /\ resetRisk /\ Then(<<>>)
    /\ UNCHANGED <<mode, callees, pairs, config>>

MultiAssign ==
  /\ enabled({"multi_assign"})
  /\ \/ Arm(0, <<>>)
     \/ Arm(0, <<Hot>> \o Operand(ExprFuel - 1) \o Operand(ExprFuel - 1) \o <<Witness>>)
     \/ Arm(0, Operand(ExprFuel - 1) \o Index \o Operand(ExprFuel - 1))

Terminal    == enabled({"break"}) /\ At("stmt") /\ It.inLoop /\ Plain(0)
EarlyReturn == enabled({"early_return"}) /\ At("stmt") /\ ~It.last /\ ~pureMode /\ ~config.order /\ Plain(0)

\* A helper as a statement; its targets may be indexed elements.
CallStmt ==
  \E c \in 1..Len(callees) :
    /\ At("stmt") /\ callees[c].kind # "method"
    /\ LET p == Charge(pool, pool.mul)
       IN /\ Affordable(p, c)
          /\ pool' = Charge(p, callees[c].cost * pool.mul)
    /\ real' = Runs(1 + callees[c].runs)
    /\ resetRisk
    /\ Then(Operand(ExprFuel - 1)) \/ Then(Index \o Operand(ExprFuel - 1))
    /\ UNCHANGED <<mode, callees, pairs, config>>

-----------------------------------------------------------------------------
(* Statements with a body.                                                 *)

\* A statement whose mandatory part is reserved while it is written: it
\* needs gate statements, keeps floor free and charges lines at once.
Construct(gate, floor, lines, items) ==
  /\ At("stmt") /\ It.depth > 0
  /\ LET p == Charge(pool, pool.mul)
     IN /\ Afford(p, gate * pool.mul)
        /\ pool' = Charge(CommitFloor(p, floor * pool.mul), lines * pool.mul)
  /\ real' = Runs(1 + lines)
  /\ Then(items \o <<ReleaseFloor(floor * pool.mul)>>)
  /\ UNCHANGED <<mode, callees, pairs, config>>

IfStmt ==
  /\ enabled({"if"})
  /\ Construct(2 * blockFloorStmts + 2, 2 * blockFloorStmts, 0,
               <<Expr(ExprFuel), Block(It.depth, 2, It.inLoop), Else(It.depth, It.inLoop)>>)
  /\ resetRisk

\* Case labels that were drawn before are left out; the default never is.
SwitchStmt ==
  enabled({"switch"}) /\ \E cases \in 1..3 : \E bodies \in 1..cases :
    /\ Construct(4 * (blockFloorStmts - 2) + 1, (cases + 1) * (blockFloorStmts - 2), 0,
                 [i \in 1..bodies + 1 |-> Block(It.depth, 1, It.inLoop)])
    /\ line' = NewLine /\ UNCHANGED risk

\* One statement under defer and recover, closed off from the loop outside.
GuardedStmt ==
  /\ enabled({"recover"}) /\ ~pureMode
  /\ Construct(6, 5, 4, <<Stmt(0, FALSE, TRUE)>>)
  /\ line' = NewLine /\ UNCHANGED risk

\* A loop: the floor of its trips is reserved at the factor outside, its
\* index is folded first thing in its body (consumeIndex).
Loop(gate, trips) ==
  /\ At("stmt") /\ It.depth > 0
  /\ LET p     == Charge(pool, pool.mul)
         floor == trips * loopBodyFloor * pool.mul
     IN /\ Afford(p, gate * loopBodyFloor * pool.mul)
        /\ pool' = Charge([CommitFloor(p, floor) EXCEPT !.mul = @ * trips], p.mul * trips)
        /\ Then(<<Block(It.depth, 2, TRUE), EndLoop(floor)>>)
  /\ real' = [times |-> real.times * trips,
              sum |-> real.sum + real.times + real.times * trips]
  /\ line' = NewLine
  /\ UNCHANGED <<risk, mode, callees, pairs, config>>

ForStmt   == enabled({"loops"}) /\ \E trips \in 1..LoopCap : Loop(LoopCap, trips)
RangeStmt == enabled({"range"}) /\ \E trips \in 1..Max2(TripCap, ArrayLen) : Loop(Max2(TripCap, ArrayLen), trips)

EndLoopOf ==
  /\ At("endloop")
  /\ pool' = [Release(pool, It.floor) EXCEPT !.mul = It.mul]
  /\ real' = [real EXCEPT !.times = It.times]
  /\ Then(<<>>)
  /\ UNCHANGED <<risk, mode, callees, pairs, config, line>>

EndConstruct ==
  /\ At("release")
  /\ pool' = Release(pool, It.floor)
  /\ Then(<<>>)
  /\ UNCHANGED <<risk, mode, callees, pairs, config, line, real>>

ElseBranch ==
  /\ At("else")
  /\ Then(<<>>) \/ Then(<<Block(It.depth, 2, It.inLoop)>>)
  /\ UNCHANGED <<pool, risk, mode, callees, pairs, config, line, real>>

\* A block has one or max statements, and in the subject it may declare a
\* variable, which is projected onto an outer one at its end.
BlockBody ==
  /\ At("block")
  /\ \E n \in 1..It.max : Then(Slots(n, It.depth - 1, It.inLoop, FALSE))
  /\ UNCHANGED <<pool, risk, mode, callees, pairs, config, line, real>>

BlockWithDeclaration ==
  /\ enabled({"block_decl"}) /\ At("block") /\ ~pureMode
  /\ resetRisk
  /\ pool' = Charge(pool, pool.mul)
  /\ real' = Runs(1)
  /\ \E n \in 1..It.max :
       Then(<<Expr(ExprFuel)>> \o Slots(n, It.depth - 1, It.inLoop, TRUE) \o <<Project>>)
  /\ UNCHANGED <<mode, callees, pairs, config>>

ProjectInner ==
  /\ At("project")
  /\ pool' = Charge(pool, pool.mul)
  /\ real' = Runs(1)
  /\ line' = NewLine
  /\ Then(<<>>)
  /\ UNCHANGED <<risk, mode, callees, pairs, config>>
-----------------------------------------------------------------------------
(* Expressions.                                                            *)

Leaf == At("expr") /\ Then(<<>>)
        /\ UNCHANGED <<pool, risk, mode, callees, pairs, config, line, real>>

\* The operands in the order they are written, with the places that may
\* carry a witness or the statement's one hot site.
Written(items) ==
  /\ At("expr") /\ It.fuel > 0
  /\ Then(items)
  /\ UNCHANGED <<pool, risk, mode, callees, pairs, config, line, real>>

Inner == Expr(It.fuel - 1)

IntOperands ==
  \/ Written(<<Inner>>)                              \* unary, conversion
  \/ Written(<<Inner, Inner>>)                       \* arith, bitwise, shift
  \/ enabled({"division"}) /\ Written(<<Inner, Hot>>) \* or modulo
  \/ enabled({"index"}) /\ Written(Index)            \* of an array or a slice

BuiltinOperands ==
  \/ enabled({"min"}) /\ Written(<<Inner, Witness, Inner, Witness>>)  \* or max
  \/ enabled({"string_index"}) /\ Written(<<Hot>>)   \* string[i]

StringOperands == enabled({"string_index"}) /\ Written(<<Hot>>)  \* string[i:]

BoolOperands ==
  \/ enabled({"comparisons"}) /\ Written(<<Inner, Inner, Witness, Witness>>)  \* or equality
  \/ Written(<<Inner, Inner>>)                       \* logic

\* The calls of an int-typed expression: helper, dispatch and method.
IntCall ==
  \E c \in 1..Len(callees) :
    /\ At("expr") /\ It.fuel > 0 /\ callees[c].kind # "bool"
    /\ Affordable(pool, c)
    /\ pool' = Charge(pool, callees[c].cost * pool.mul)
    /\ real' = Runs(callees[c].runs)
    /\ Then(Operand(It.fuel - 1))
    /\ UNCHANGED <<risk, mode, callees, pairs, config, line>>

\* The call of a bool-typed expression is neither gated nor charged.
BoolCall ==
  \E c \in 1..Len(callees) :
    /\ At("expr") /\ It.fuel > 0 /\ callees[c].kind = "bool"
    /\ real' = IF CountBool THEN Runs(callees[c].runs) ELSE real
    /\ Then(Operand(It.fuel - 1))
    /\ UNCHANGED <<pool, risk, mode, callees, pairs, config, line>>

\* Only the order corner of a subject has witnesses, and no statement whose
\* panic site is drawn; wit runs two statements.
witness ==
  /\ At("witness") /\ config.order /\ enabled({"order_witness"}) /\ ~pureMode /\ ~risk.spent
  /\ Afford(pool, 2 * pool.mul)
  /\ pool' = Charge(pool, 2 * pool.mul)
  /\ real' = Runs(2)
  /\ risk' = [risk EXCEPT !.wit = TRUE]
  /\ line' = [line EXCEPT !.wit = TRUE]
  /\ Then(<<>>)
  /\ UNCHANGED <<mode, callees, pairs, config>>

\* Bodies that are called stay panic-free; a battery function may panic.
riskOK == ~risk.spent /\ ~risk.wit /\ (pureMode => mode = "function" /\ FunctionPanics)

\* The site is written whether the slot was given or refused.
spendRisk ==
  /\ risk' = IF risk.spent THEN risk
             ELSE IF risk.wit THEN [risk EXCEPT !.clash = TRUE]
             ELSE [risk EXCEPT !.spent = TRUE]
  /\ line' = [line EXCEPT !.hot = IF @ < 2 THEN @ + 1 ELSE @]

HotSite ==
  /\ At("hot") /\ riskOK /\ spendRisk
  /\ Then(<<>>)
  /\ UNCHANGED <<pool, mode, callees, pairs, config, real>>

HoistedSite ==
  /\ At("spend") /\ spendRisk
  /\ Then(<<>>)
  /\ UNCHANGED <<pool, mode, callees, pairs, config, real>>

NotDrawn ==
  /\ At("hot") \/ At("witness")
  /\ Then(<<>>)
  /\ UNCHANGED <<pool, risk, mode, callees, pairs, config, line, real>>

NextStatement ==
  /\ At("reset") /\ resetRisk
  /\ Then(<<>>)
  /\ UNCHANGED <<pool, mode, callees, pairs, config, real>>

-----------------------------------------------------------------------------
(* Bodies.                                                                 *)

\* A body of n statements at depth 1, and what it returns.
Body(n, return, for) ==
  [i \in 1..n |-> Stmt(1, FALSE, FALSE)] \o return \o <<Expr(ExprFuel), EndBody(for)>>

\* A body that is called is priced on its own: what it costs per call.
OpenPriced(n, for, back) ==
  /\ Then(Body(n, <<>>, for) \o back)
  /\ pool' = Pricing(pool)
  /\ mode' = "pure" /\ line' = NewLine /\ real' = [times |-> 1, sum |-> 0]
  /\ UNCHANGED <<risk, callees, pairs, config>>

CloseBody ==
  /\ pool' = It.pool /\ risk' = It.risk /\ mode' = It.mode
  /\ line' = It.line /\ real' = It.real
  /\ Then(<<>>)

\* All the callees are written before the subject, helpers before methods.
GenerateCallee ==
  \E kind \in Kinds : \E n \in 1..MaxBody :
    /\ At("callees") /\ It.left > 0
    /\ enabled({IF kind = "method" THEN "methods" ELSE "helpers"})
    /\ kind # "method" => \A c \in 1..Len(callees) : callees[c].kind # "method"
    /\ OpenPriced(n, kind, <<Callees(It.left - 1)>>)

\* The call and the return line come on top.
EndCallee ==
  /\ At("endbody") /\ It.for \in Kinds
  /\ callees' = Append(callees, [kind |-> It.for, cost |-> pool.cost + 2, runs |-> real.sum + 2])
  /\ CloseBody
  /\ UNCHANGED <<pairs, config>>

EndCallees ==
  /\ At("callees") /\ Then(<<>>)
  /\ UNCHANGED <<pool, risk, mode, callees, pairs, config, line, real>>

\* Two functions of a forward pair are written when its form is first drawn.
TupleForward ==
  \E f \in Forms : enabled({"helpers", "tuple_forward"}) /\ ~pureMode /\ Arm(0, <<Forward(f)>>)

BuildPair ==
  \E n \in 1..MaxBody :
    /\ At("forward") /\ ~pairs[It.form].built
    /\ OpenPriced(n, It.form, <<It>>)

\* The source is priced; the sink folds its slots in as many lines and 4.
EndPair ==
  /\ At("endbody") /\ It.for \in Forms
  /\ \E slots \in 2..3 :
       pairs' = [pairs EXCEPT ![It.for] =
                   [built |-> TRUE, cost |-> pool.cost + 2 + slots + 4,
                    runs |-> real.sum + 2 + slots + 4]]
  /\ CloseBody
  /\ UNCHANGED <<callees, config>>

ForwardCall ==
  /\ At("forward") /\ pairs[It.form].built
  /\ Afford(pool, pairs[It.form].cost * pool.mul)
  /\ pool' = Charge(pool, pairs[It.form].cost * pool.mul)
  /\ real' = Runs(pairs[It.form].runs)
  /\ Then(Operand(ExprFuel - 1))
  /\ UNCHANGED <<risk, mode, callees, pairs, config, line>>

ForwardUnaffordable ==
  /\ At("forward") /\ pairs[It.form].built
  /\ ~Afford(pool, pairs[It.form].cost * pool.mul)
  /\ resetRisk
  /\ Then(<<Expr(ExprFuel)>>)
  /\ UNCHANGED <<pool, mode, callees, pairs, config, real>>

\* A battery function has a budget of its own, so its arms close like the
\* subject's; its return is one statement.
GenerateFunction ==
  \E n \in 1..MaxBody :
    /\ At("functions")
    /\ Then(Body(n, <<Return(n + 1)>>, "function"))
    /\ pool' = CommitFloor(Pool(PerCall), n + 1)
    /\ mode' = "function" /\ line' = NewLine /\ real' = [times |-> 1, sum |-> 0]
    /\ UNCHANGED <<risk, callees, pairs, config>>

ReturnLine ==
  /\ At("return") /\ resetRisk
  /\ pool' = Charge(Release(pool, It.floor), pool.mul)
  /\ real' = Runs(1)
  /\ Then(<<>>)
  /\ UNCHANGED <<mode, callees, pairs, config>>

EndFunction ==
  /\ At("endbody") /\ It.for = "function" /\ ~pool.breached
  /\ CloseBody
  /\ UNCHANGED <<callees, pairs, config>>

-----------------------------------------------------------------------------
(* Generate.                                                               *)

perStmt == IF config.wrapped THEN 2 ELSE 1

DeclareOne ==
  /\ At("declare")
  /\ IF It.left = 0
     THEN /\ pool' = CommitFloor(pool, Stmts * perStmt)
          /\ Then(<<Top(Stmts)>>)
     ELSE /\ pool' = Charge(pool, VarReserve)
          /\ Then(<<Declare(It.left - 1)>>)
  /\ UNCHANGED <<risk, mode, callees, pairs, config, line, real>>

\* The recover wrapper notes before each statement which one runs.
TopStatement ==
  /\ At("top") /\ It.left > 0
  /\ pool' = IF config.wrapped THEN Charge(pool, 1) ELSE pool
  /\ real' = IF config.wrapped THEN Runs(1) ELSE real
  /\ Then(<<Stmt(Depth, FALSE, FALSE), Top(It.left - 1)>>)
  /\ UNCHANGED <<risk, mode, callees, pairs, config, line>>

EndSubject ==
  /\ At("top") /\ It.left = 0
  /\ pool' = Release(pool, Stmts * perStmt)
  /\ ~pool.breached /\ ~risk.clash
  /\ Then(IF config.functions THEN <<Functions>> ELSE <<>>)
  /\ UNCHANGED <<risk, mode, callees, pairs, config, line, real>>

Init ==
  /\ \E case \in Cases, wrapper \in BOOLEAN :
     /\ todo = <<Callees(case.callees), Declare(Vars)>>
     /\ config = [mix |-> case.mix, functions |-> case.functions, order |-> case.order,
                 wrapped |-> wrapper /\ "recover_wrapper" \in case.mix]
  /\ pool = Pool(ExecBudget - (IF config.wrapped THEN 2 ELSE 1) * FixedReserve)
  /\ risk = NoRisk /\ line = NewLine /\ mode = "subject"
  /\ callees = <<>>
  /\ pairs = [f \in Forms |-> [built |-> FALSE, cost |-> 0, runs |-> 0]]
  /\ real = [times |-> 1, sum |-> 0]

SimpleStatement ==
  \/ Assign \/ CompoundAssign \/ IncDec \/ ElemAssign \/ AppendStmt \/ MapWrite
  \/ MapDelete \/ CommaOk \/ AssertOk \/ IfaceAssign \/ FieldAssign \/ ObservePoint
  \/ DeferPrint \/ TypeSwitch \/ MapRangeFold \/ SliceTriple \/ LinearizedRisk
  \/ StringRangeFold \/ MultiAssign \/ Terminal \/ EarlyReturn \/ CallStmt
  \/ TupleForward

ControlFlow ==
  \/ IfStmt \/ SwitchStmt \/ GuardedStmt \/ ForStmt \/ RangeStmt
  \/ EndLoopOf \/ EndConstruct \/ ElseBranch \/ BlockBody \/ BlockWithDeclaration
  \/ ProjectInner

Expression ==
  \/ Leaf \/ IntOperands \/ BuiltinOperands \/ StringOperands \/ BoolOperands \/ IntCall \/ BoolCall \/ witness \/ HotSite \/ HoistedSite
  \/ NotDrawn \/ NextStatement

Bodies ==
  \/ GenerateCallee \/ EndCallee \/ EndCallees
  \/ BuildPair \/ EndPair \/ ForwardCall \/ ForwardUnaffordable
  \/ GenerateFunction \/ ReturnLine \/ EndFunction

Generate == DeclareOne \/ TopStatement \/ EndSubject

Next == SimpleStatement \/ ControlFlow \/ Expression \/ Bodies \/ Generate

Spec == Init /\ [][Next]_vars

-----------------------------------------------------------------------------
(* Properties.                                                             *)

\* The variables have the shapes the emitters give them.
TypeOK ==
  /\ pool \in [left : Nat, liability : Nat, mul : Nat \ {0}, breached : BOOLEAN,
               priced : BOOLEAN, cost : Nat]
  /\ mode \in {"subject", "pure", "function"}
  /\ risk \in [spent : BOOLEAN, wit : BOOLEAN, clash : BOOLEAN]
  /\ line \in [hot : 0..2, wit : BOOLEAN]
  /\ real \in [times : Nat \ {0}, sum : Nat]
  /\ pool.priced <=> mode = "pure"
  /\ \A c \in 1..Len(callees) : callees[c].kind \in Kinds

\* Whatever the tape, what the generator is committed to stays payable: no
\* mandatory line ever finds the pool too small, so a case never fails as
\* a breach of the accounting (Generate, generateFunction).
NoBreach == ~pool.breached

\* Total executed statements <= ExecBudget holds for every tape, and a
\* battery function runs within what it has per call.
WithinBudget ==
  /\ mode = "subject" => real.sum <= ExecBudget - (FixedReserve + Vars * VarReserve)
  /\ mode = "function" => real.sum <= PerCall

\* A recorded per-call cost covers all that a call executes.
PricesCoverRuns ==
  /\ \A c \in 1..Len(callees) : callees[c].runs <= callees[c].cost
  /\ \A f \in Forms : pairs[f].runs <= pairs[f].cost

\* No line of the subject has two panic sites, or one beside a witness call:
\* which panic comes first, or how much was witnessed before it, would not
\* be specified.  Callees have none at all.
PanicOrdered ==
  /\ line.hot <= 1 /\ ~(line.hot > 0 /\ line.wit) /\ ~risk.clash
  /\ mode = "pure" => line.hot = 0

\* The multiplier is the product of the loops that are open around the line
\* being written, in every body, and nothing stays reserved at the end.
NestBalanced ==
  /\ pool.mul = real.times
  /\ todo = <<>> => pool.mul = 1 /\ pool.liability = 0
=============================================================================
