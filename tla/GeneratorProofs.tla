-------------------------- MODULE GeneratorProofs --------------------------
(***************************************************************************)
(* The budget of a generated program, for every budget, tape and mix.      *)
(*                                                                         *)
(* todo is a stack of unfinished calls of the emitters.  The argument is a *)
(* ledger beside it: for every item, what the accounts must come to when   *)
(* the item is reached (its entry).  Two neighbouring entries differ by    *)
(* what the item between them will charge and release (Follows), so that a *)
(* step has to be looked at only where it replaces the first item.         *)
(***************************************************************************)
EXTENDS Generator, SequenceTheorems, TLAPS

-----------------------------------------------------------------------------
(* The ledger.                                                             *)

\* Before an item: the body it is in, the multiplier of the open loops, the
\* liability, what the pool still has to pay without a gate, what of it is
\* for variables, and whether a panic site follows that nobody asks for.
Entry == [mode : {"subject", "pure", "function"}, mul : Nat \ {0}, kept : Nat,
          owed : Nat, vars : Nat, risk : {"any", "none"}]

\* All is written.
End == [mode |-> "subject", mul |-> 1, kept |-> 0, owed |-> 0, vars |-> 0, risk |-> "any"]

\* Before n declarations, and before n statements of the subject, which are
\* kept free together from the first one on.
Declaring(w, n) ==
  [mode |-> "subject", mul |-> 1, kept |-> 0, owed |-> n * VarReserve + Stmts * w,
   vars |-> n * VarReserve, risk |-> "any"]
Topping(w, n) ==
  [mode |-> "subject", mul |-> 1, kept |-> Stmts * w, owed |-> n * w, vars |-> 0,
   risk |-> "any"]

\* The statements an item charges without a gate (a block has its declaration
\* and the projection beside its slots), and what it releases.
Due(it) == IF it.do = "block" THEN it.max + 2
           ELSE IF it.do = "else" THEN 4
           ELSE IF it.do \in {"stmt", "project", "return"} THEN 1 ELSE 0
Kept(it) == IF it.do \in {"release", "endloop", "return"} THEN it.floor ELSE 0

\* What a body may execute in all.
Cap(w, m) == IF m = "function" THEN PerCall
             ELSE ExecBudget - w * FixedReserve - Vars * VarReserve

\* The accounts are those of the entry: a body that is priced charges what it
\* executes; any other can pay what it owes, and has not spent its cap.
Accounts(w, p, re, m, e) ==
  /\ p = [left |-> p.left, liability |-> p.liability, mul |-> p.mul,
          breached |-> p.breached, priced |-> p.priced, cost |-> p.cost]
  /\ p.left \in Nat /\ p.liability \in Nat /\ p.cost \in Nat
  /\ re = [times |-> re.times, sum |-> re.sum] /\ re.sum \in Nat
  /\ m = e.mode /\ p.mul = e.mul /\ re.times = e.mul
  /\ ~p.breached /\ (p.priced <=> m = "pure")
  /\ m = "pure" => re.sum <= p.cost
  /\ m # "pure" => /\ p.left >= e.owed /\ p.liability = e.kept /\ e.vars <= e.owed
                   /\ re.sum + p.left <= Cap(w, m) + e.vars

\* The line being written and what the statement knows of its risk.
Quiet(ri, li, m) ==
  /\ ri = [spent |-> ri.spent, wit |-> ri.wit, clash |-> ri.clash]
  /\ li = [hot |-> li.hot, wit |-> li.wit]
  /\ ~ri.clash /\ li.hot \in {0, 1}
  /\ li.hot = 1 => ri.spent /\ ~li.wit
  /\ li.wit => ri.wit
  /\ m = "pure" => li.hot = 0
Order(ri, li, m, e) ==
  /\ Quiet(ri, li, m)
  /\ e.risk = "none" => ~ri.spent /\ ~ri.wit /\ li = NewLine

\* Items of a body whose first entry is a and whose next one is b.
Inside == {"stmt", "block", "else", "expr", "witness", "hot", "reset", "spend", "project",
           "release", "return", "forward"}
Pays(it, a, b) ==
  /\ a.mode = b.mode /\ a.vars = 0 /\ b.vars = 0
  /\ a.mode # "pure" => /\ a.owed >= b.owed + Due(it) * a.mul
                        /\ a.kept = b.kept + Kept(it)
                        /\ a.owed <= a.kept
  /\ it.do = "block" => it.max \in {1, 2}
  /\ it.do \in {"release", "endloop", "return"} => it.floor \in Nat
  /\ it.do = "forward" => it.form \in Forms

Follows(w, it, a, b) ==
  /\ b.risk = "any" \/ it.do = "reset"
  /\ a.risk = "any" \/ it.do = "spend"
  /\ it.do = "spend" => a.mode = "subject" /\ a.risk = "none"
  /\ \/ it.do \in Inside /\ Pays(it, a, b) /\ b.mul = a.mul
     \/ it.do = "endloop" /\ Pays(it, a, b) /\ b.mul = it.mul /\ b.mul = it.times
     \/ /\ it.do = "endbody" /\ a.vars = 0 /\ a.mul = 1
        /\ it.for \in Forms \cup Kinds \cup {"function"}
        /\ a.mode = IF it.for = "function" THEN "function" ELSE "pure"
        /\ Accounts(w, it.pool, it.real, it.mode, b) /\ Order(it.risk, it.line, it.mode, b)
     \/ it.do = "callees" /\ a.mode = "subject" /\ a = b
     \/ /\ it.do = "declare" /\ it.left \in Nat /\ b = End
        /\ a = Declaring(w, it.left)
     \/ /\ it.do = "top" /\ it.left \in 0..Stmts /\ b = End
        /\ a = Topping(w, it.left)
     \/ it.do = "functions" /\ a = End /\ b = End

IsSeq(s) == \E S : s \in Seq(S)

\* There is a ledger for s whose first entry is e.
Covered(w, s, e) ==
  /\ IsSeq(s)
  /\ \E L : /\ L[1] = e /\ L[Len(s) + 1] = End
            /\ \A i \in 1..Len(s) + 1 : L[i] \in Entry
            /\ \A i \in 1..Len(s) : Follows(w, s[i], L[i], L[i + 1])

\* The entry before due statements more, each charged at every pass.
Later(r, due) == [r EXCEPT !.owed = @ + due * r.mul]

\* Written before anything in a body of mode m, the items charge due
\* statements more without a gate.
Owes(w, m, items, due) ==
  \A rest, r :
    /\ r \in Entry /\ r.mode = m /\ r.vars = 0 /\ r.risk = "any"
    /\ m # "pure" => r.owed + due * r.mul <= r.kept
    /\ Covered(w, rest, r)
    => Covered(w, items \o rest, Later(r, due))

PricesKept ==
  /\ callees \in Seq([kind : Kinds, cost : Nat, runs : Nat])
  /\ \A c \in 1..Len(callees) : callees[c].runs <= callees[c].cost
  /\ pairs = [f \in Forms |-> pairs[f]]
  /\ \A f \in Forms : /\ pairs[f].cost \in Nat /\ pairs[f].runs \in Nat
                      /\ pairs[f].runs <= pairs[f].cost

\* The invariant.
Ledger ==
  \E e \in Entry : /\ Covered(perStmt, todo, e)
                   /\ Accounts(perStmt, pool, real, mode, e)
                   /\ Order(risk, line, mode, e)
GeneratorInv == PricesKept /\ Ledger

-----------------------------------------------------------------------------
(* Sequences of items.                                                     *)

LEMMA SeqOfConcat ==
  ASSUME NEW s, NEW t, IsSeq(s), IsSeq(t)
  PROVE  \E S : s \in Seq(S) /\ t \in Seq(S)
  <1>1. PICK S : s \in Seq(S)
    BY DEF IsSeq
  <1>2. PICK T : t \in Seq(T)
    BY DEF IsSeq
  <1>3. s \in Seq(S \cup T) /\ t \in Seq(S \cup T)
    BY <1>1, <1>2, SeqMonotonic
  <1> QED
    BY <1>3

LEMMA ConcatIsSeq ==
  ASSUME NEW s, NEW t, IsSeq(s), IsSeq(t)
  PROVE  /\ IsSeq(s \o t)
         /\ Len(s) \in Nat /\ Len(t) \in Nat /\ Len(s \o t) = Len(s) + Len(t)
         /\ \A i \in 1..Len(s) : (s \o t)[i] = s[i]
         /\ \A i \in 1..Len(t) : (s \o t)[Len(s) + i] = t[i]
  <1>1. PICK S : s \in Seq(S) /\ t \in Seq(S)
    BY SeqOfConcat
  <1>2. /\ s \o t \in Seq(S) /\ Len(s \o t) = Len(s) + Len(t)
        /\ \A i \in 1..Len(s) + Len(t) :
             (s \o t)[i] = IF i <= Len(s) THEN s[i] ELSE t[i - Len(s)]
    BY <1>1, ConcatProperties
  <1>3. Len(s) \in Nat /\ Len(t) \in Nat
    BY <1>1, LenProperties
  <1> QED
    BY <1>2, <1>3 DEF IsSeq

LEMMA Associative ==
  ASSUME NEW s, NEW t, NEW u, IsSeq(s), IsSeq(t), IsSeq(u)
  PROVE  (s \o t) \o u = s \o (t \o u)
  <1>1. PICK S : s \in Seq(S) /\ t \in Seq(S)
    BY SeqOfConcat
  <1>2. PICK T : u \in Seq(T)
    BY DEF IsSeq
  <1>3. s \in Seq(S \cup T) /\ t \in Seq(S \cup T) /\ u \in Seq(S \cup T)
    BY <1>1, <1>2, SeqMonotonic
  <1> QED
    BY <1>3, ConcatAssociative

LEMMA FirstAndRest ==
  ASSUME NEW s, IsSeq(s), s # <<>>
  PROVE  /\ IsSeq(Tail(s)) /\ Len(s) \in Nat \ {0} /\ Len(Tail(s)) = Len(s) - 1
         /\ Head(s) = s[1] /\ \A i \in 1..Len(s) - 1 : Tail(s)[i] = s[i + 1]
  <1>1. PICK S : s \in Seq(S)
    BY DEF IsSeq
  <1>2. /\ Tail(s) \in Seq(S) /\ Len(Tail(s)) = Len(s) - 1
        /\ \A i \in 1..Len(Tail(s)) : Tail(s)[i] = s[i + 1]
    BY <1>1, HeadTailProperties
  <1>3. Len(s) \in Nat \ {0}
    BY <1>1, EmptySeq
  <1>4. Head(s) = s[1]
    BY <1>1
  <1> QED
    BY <1>2, <1>3, <1>4 DEF IsSeq

-----------------------------------------------------------------------------
(* Ledgers.                                                                *)

\* What an entry says of the first item, and the ledger of the rest.
LEMMA Popped ==
  ASSUME NEW w, NEW s, NEW a, Covered(w, s, a), s # <<>>
  PROVE  /\ a \in Entry
         /\ \E b \in Entry : Follows(w, Head(s), a, b) /\ Covered(w, Tail(s), b)
  <1>1. IsSeq(s)
    BY DEF Covered
  <1>2. PICK L : /\ L[1] = a /\ L[Len(s) + 1] = End
                 /\ \A i \in 1..Len(s) + 1 : L[i] \in Entry
                 /\ \A i \in 1..Len(s) : Follows(w, s[i], L[i], L[i + 1])
    BY DEF Covered
  <1>3. /\ IsSeq(Tail(s)) /\ Len(s) \in Nat \ {0} /\ Len(Tail(s)) = Len(s) - 1
        /\ Head(s) = s[1] /\ \A i \in 1..Len(s) - 1 : Tail(s)[i] = s[i + 1]
    BY <1>1, FirstAndRest
  <1> DEFINE M == [i \in 1..Len(s) |-> L[i + 1]]
  <1>4. /\ M[1] = L[2] /\ M[Len(Tail(s)) + 1] = End
        /\ \A i \in 1..Len(Tail(s)) + 1 : M[i] = L[i + 1] /\ M[i] \in Entry
    BY <1>2, <1>3
  <1>5. ASSUME NEW i \in 1..Len(Tail(s))
        PROVE  Follows(w, Tail(s)[i], M[i], M[i + 1])
    <2>1. i + 1 \in 1..Len(s) /\ i \in 1..Len(s) /\ i \in 1..Len(s) - 1
      BY <1>3
    <2>2. Follows(w, s[i + 1], L[i + 1], L[i + 1 + 1])
      BY <1>2, <2>1
    <2> QED
      BY <1>3, <2>1, <2>2
  <1>6. Covered(w, Tail(s), L[2])
    BY <1>3, <1>4, <1>5 DEF Covered
  <1>7. 1 \in 1..Len(s) /\ 2 \in 1..Len(s) + 1 /\ 1 \in 1..Len(s) + 1 /\ 1 + 1 = 2
    BY <1>3
  <1> QED
    BY <1>2, <1>3, <1>6, <1>7

\* Items are written before the rest, with a ledger of their own.
LEMMA Pushed ==
  ASSUME NEW w, NEW items, NEW rest, NEW M, IsSeq(items),
         \A i \in 1..Len(items) + 1 : M[i] \in Entry,
         \A i \in 1..Len(items) : Follows(w, items[i], M[i], M[i + 1]),
         Covered(w, rest, M[Len(items) + 1])
  PROVE  Covered(w, items \o rest, M[1])
  <1>1. PICK L : /\ L[1] = M[Len(items) + 1] /\ L[Len(rest) + 1] = End
                 /\ \A i \in 1..Len(rest) + 1 : L[i] \in Entry
                 /\ \A i \in 1..Len(rest) : Follows(w, rest[i], L[i], L[i + 1])
    BY DEF Covered
  <1>2. /\ IsSeq(items \o rest) /\ Len(items) \in Nat /\ Len(rest) \in Nat
        /\ Len(items \o rest) = Len(items) + Len(rest)
        /\ \A i \in 1..Len(items) : (items \o rest)[i] = items[i]
        /\ \A i \in 1..Len(rest) : (items \o rest)[Len(items) + i] = rest[i]
    BY ConcatIsSeq DEF Covered
  <1> DEFINE n == Len(items)
             s == items \o rest
             K == [i \in 1..n + Len(rest) + 1 |-> IF i <= n THEN M[i] ELSE L[i - n]]
  <1>3. /\ \A i \in 1..n + 1 : K[i] = M[i]
        /\ \A i \in 1..Len(rest) + 1 : K[n + i] = L[i]
    BY <1>1, <1>2
  <1>4. \A i \in 1..Len(s) + 1 : K[i] \in Entry
    BY <1>1, <1>2
  <1>5. ASSUME NEW i \in 1..Len(s)
        PROVE  Follows(w, s[i], K[i], K[i + 1])
    <2>1. CASE i <= n
      <3>1. i \in 1..n /\ i \in 1..n + 1 /\ i + 1 \in 1..n + 1
        BY <1>2, <2>1
      <3>2. K[i] = M[i] /\ K[i + 1] = M[i + 1] /\ s[i] = items[i]
        BY <1>2, <1>3, <3>1
      <3> HIDE DEF K, s
      <3> QED
        BY <3>1, <3>2
    <2>2. CASE i > n
      <3>1. PICK j \in 1..Len(rest) : i = n + j
        <4>1. i - n \in 1..Len(rest) /\ i = n + (i - n)
          BY <1>2, <2>2
        <4> QED
          BY <4>1
      <3>2. j \in 1..Len(rest) + 1 /\ j + 1 \in 1..Len(rest) + 1 /\ i + 1 = n + (j + 1)
        BY <1>2, <3>1
      <3>3. K[i] = L[j] /\ K[i + 1] = L[j + 1] /\ s[i] = rest[j]
        <4> HIDE DEF K
        <4> QED
          BY <1>2, <1>3, <3>1, <3>2
      <3> HIDE DEF K, s
      <3> QED
        BY <1>1, <3>1, <3>3
    <2> QED
      BY <1>2, <2>1, <2>2
  <1>6. K[1] = M[1] /\ K[Len(s) + 1] = End
    <2>1. 1 \in 1..n + 1 /\ Len(rest) + 1 \in 1..Len(rest) + 1 /\ Len(s) + 1 = n + (Len(rest) + 1)
      BY <1>2
    <2> HIDE DEF K, s
    <2>2. K[n + (Len(rest) + 1)] = L[Len(rest) + 1] /\ K[1] = M[1]
      BY <1>3, <2>1
    <2> QED
      BY <1>1, <2>1, <2>2
  <1> HIDE DEF K, s
  <1>7. Covered(w, s, M[1])
    BY <1>2, <1>4, <1>5, <1>6 DEF Covered, s
  <1> QED
    BY <1>7 DEF s

-----------------------------------------------------------------------------
(* What items owe.                                                         *)

LEMMA Times ==
  ASSUME NEW i \in Nat, NEW j \in Nat, NEW m \in Nat
  PROVE  /\ i * m \in Nat
         /\ i <= j => i * m <= j * m
         /\ (i + j) * m = i * m + j * m
         /\ (i + 1) * m = i * m + m
         /\ 0 * m = 0 /\ 1 * m = m
  <1>1. ASSUME i <= j
        PROVE  i * m <= j * m
    <2>1. PICK k \in Nat : j = i + k
      <3>1. j - i \in Nat /\ j = i + (j - i)
        BY <1>1
      <3> QED
        BY <3>1
    <2>2. k * m \in Nat /\ i * m \in Nat /\ (i + k) * m = i * m + k * m
      OBVIOUS
    <2> QED
      BY <2>1, <2>2
  <1> QED
    BY <1>1

\* The same products by name, for steps that should not multiply.
Multiplied(i, j, m, x, n) ==
  /\ x = i * m /\ n = j * m /\ x <= n
  /\ (1 + i) * m = m + x /\ (1 + j) * m = m + n
  /\ m + x \in Nat /\ m + n \in Nat /\ m + x <= m + n

LEMMA Products ==
  ASSUME NEW i \in Nat, NEW j \in Nat, i <= j, NEW m \in Nat
  PROVE  \E x \in Nat, n \in Nat : Multiplied(i, j, m, x, n)
  <1>1. i * m \in Nat /\ j * m \in Nat /\ i * m <= j * m
    BY Times
  <1>2. (1 + i) * m = m + i * m /\ (1 + j) * m = m + j * m
    OBVIOUS
  <1>3. \A x \in Nat, n \in Nat : x <= n => m + x \in Nat /\ m + n \in Nat /\ m + x <= m + n
    OBVIOUS
  <1> QED
    BY <1>1, <1>2, <1>3 DEF Multiplied

LEMMA LaterEntry ==
  ASSUME NEW r \in Entry, NEW due \in Nat
  PROVE  /\ Later(r, due) \in Entry
         /\ Later(r, due).owed = r.owed + due * r.mul /\ due * r.mul \in Nat
         /\ Later(r, due).mode = r.mode /\ Later(r, due).mul = r.mul
         /\ Later(r, due).kept = r.kept /\ Later(r, due).vars = r.vars
         /\ Later(r, due).risk = r.risk
  <1>1. r.mul \in Nat /\ due * r.mul \in Nat
    BY Times DEF Entry
  <1> QED
    BY <1>1 DEF Later, Entry

LEMMA EntryEqual ==
  ASSUME NEW a \in Entry, NEW b \in Entry, a.mode = b.mode, a.mul = b.mul, a.kept = b.kept,
         a.owed = b.owed, a.vars = b.vars, a.risk = b.risk
  PROVE  a = b
  BY DEF Entry

LEMMA LaterSum ==
  ASSUME NEW r \in Entry, NEW x \in Nat, NEW y \in Nat
  PROVE  Later(r, 0) = r /\ Later(Later(r, y), x) = Later(r, x + y)
  <1>1. r.mul \in Nat /\ r.owed \in Nat
    BY DEF Entry
  <1>2. 0 * r.mul = 0 /\ (x + y) * r.mul = x * r.mul + y * r.mul
        /\ x * r.mul \in Nat /\ y * r.mul \in Nat
    BY <1>1, Times
  <1>3. Later(r, 0) = r
    <2>1. Later(r, 0).owed = r.owed
      BY <1>1, <1>2 DEF Later, Entry
    <2> QED
      BY <2>1 DEF Later, Entry
  <1>4. Later(Later(r, y), x) = [r EXCEPT !.owed = r.owed + y * r.mul + x * r.mul]
    BY DEF Later, Entry
  <1>5. Later(r, x + y) = [r EXCEPT !.owed = r.owed + (x + y) * r.mul]
    BY DEF Later
  <1>6. r.owed + (x + y) * r.mul = r.owed + y * r.mul + x * r.mul
    BY <1>1, <1>2
  <1> QED
    BY <1>3, <1>4, <1>5, <1>6

\* The places of an expression and of a line charge nothing by themselves.
Light(it) == \/ it.do \in {"expr", "witness", "hot", "reset"}
             \/ it.do = "forward" /\ it.form \in Forms

LEMMA OwesNothing ==
  ASSUME NEW w, NEW m, NEW items, IsSeq(items), \A i \in 1..Len(items) : Light(items[i])
  PROVE  Owes(w, m, items, 0)
  <1> SUFFICES ASSUME NEW rest, NEW r \in Entry, r.mode = m, r.vars = 0, r.risk = "any",
                      m # "pure" => r.owed + 0 * r.mul <= r.kept,
                      Covered(w, rest, r)
               PROVE  Covered(w, items \o rest, Later(r, 0))
    BY DEF Owes
  <1>1. Len(items) \in Nat
    BY LenProperties DEF IsSeq
  <1>2. r.mul \in Nat /\ r.owed \in Nat /\ r.kept \in Nat /\ 0 * r.mul = 0
    BY Times DEF Entry
  <1> DEFINE M == [i \in 1..Len(items) + 1 |-> r]
  <1>3. ASSUME NEW i \in 1..Len(items)
        PROVE  Follows(w, items[i], M[i], M[i + 1])
    <2>1. M[i] = r /\ M[i + 1] = r
      BY <1>1
    <2>2. Light(items[i]) /\ Due(items[i]) = 0 /\ Kept(items[i]) = 0
      BY DEF Light, Due, Kept
    <2>3. Pays(items[i], r, r)
      BY <1>2, <2>2 DEF Pays, Light
    <2> HIDE DEF M
    <2> QED
      BY <2>1, <2>2, <2>3 DEF Follows, Light, Inside
  <1>4. M[Len(items) + 1] = r /\ M[1] = r /\ \A i \in 1..Len(items) + 1 : M[i] \in Entry
    BY <1>1
  <1> HIDE DEF M
  <1>5. Covered(w, items \o rest, M[1])
    BY <1>3, <1>4, Pushed
  <1> QED
    BY <1>4, <1>5, LaterSum

\* Statements and blocks charge d statements each, or less.
Heavy(it, d) == /\ it.do \in {"stmt", "project", "block", "else"}
                /\ it.do = "block" => it.max \in {1, 2}
                /\ Due(it) <= d

LEMMA OwesEach ==
  ASSUME NEW w, NEW m, NEW items, IsSeq(items), NEW d \in Nat, NEW n \in Nat, Len(items) = n,
         \A i \in 1..n : Heavy(items[i], d)
  PROVE  Owes(w, m, items, n * d)
  <1> SUFFICES ASSUME NEW rest, NEW r \in Entry, r.mode = m, r.vars = 0, r.risk = "any",
                      m # "pure" => r.owed + (n * d) * r.mul <= r.kept,
                      Covered(w, rest, r)
               PROVE  Covered(w, items \o rest, Later(r, n * d))
    BY DEF Owes
  <1>1. r.mul \in Nat /\ r.owed \in Nat /\ r.kept \in Nat
    BY DEF Entry
  <1>2. PICK c \in Nat : c = d * r.mul
    BY <1>1, Times
  <1>3. (n * d) * r.mul = n * c
    BY <1>1, <1>2
  <1> DEFINE due(i) == (n + 1 - i) * c
             M == [i \in 1..n + 1 |-> [r EXCEPT !.owed = @ + due(i)]]
  <1>4. ASSUME NEW i \in 1..n + 1
        PROVE  due(i) \in Nat /\ due(i) <= n * c /\ n * c \in Nat
    <2>1. PICK k \in Nat : k = n + 1 - i /\ k <= n
      OBVIOUS
    <2>2. k * c \in Nat /\ k * c <= n * c /\ n * c \in Nat
      BY <2>1, Times
    <2> QED
      BY <2>1, <2>2
  <1>5. ASSUME NEW i \in 1..n + 1
        PROVE  /\ M[i] \in Entry /\ M[i].owed = r.owed + due(i)
               /\ M[i].mode = r.mode /\ M[i].mul = r.mul /\ M[i].kept = r.kept
               /\ M[i].vars = 0 /\ M[i].risk = "any"
    <2>1. PICK k \in Nat : k = due(i)
      BY <1>4
    <2>2. M[i] = [r EXCEPT !.owed = @ + k]
      BY <2>1
    <2> HIDE DEF M, due
    <2>3. M[i] \in Entry
      BY <2>2 DEF Entry
    <2>4. /\ M[i].owed = r.owed + k /\ M[i].mode = r.mode /\ M[i].mul = r.mul
          /\ M[i].kept = r.kept /\ M[i].vars = 0 /\ M[i].risk = "any"
      BY <2>2 DEF Entry
    <2> QED
      BY <2>1, <2>3, <2>4
  <1>6. ASSUME NEW i \in 1..n
        PROVE  Follows(w, items[i], M[i], M[i + 1])
    <2>1. i \in 1..n + 1 /\ i + 1 \in 1..n + 1
      OBVIOUS
    <2>2. due(i) = due(i + 1) + c
      <3>1. n + 1 - (i + 1) \in Nat /\ n + 1 - i = (n + 1 - (i + 1)) + 1
        OBVIOUS
      <3> QED
        BY <3>1, Times
    <2>3. Due(items[i]) * r.mul \in Nat /\ Due(items[i]) * r.mul <= c
      <3>1. Heavy(items[i], d)
        OBVIOUS
      <3>2. Due(items[i]) \in Nat /\ Due(items[i]) <= d
        BY <3>1 DEF Heavy, Due
      <3>3. PICK k \in Nat : k = Due(items[i]) /\ k <= d
        BY <3>2
      <3>4. k * r.mul \in Nat /\ k * r.mul <= d * r.mul
        BY <1>1, <3>3, Times
      <3> QED
        BY <1>2, <3>3, <3>4
    <2>4. due(i) \in Nat /\ due(i + 1) \in Nat /\ n * c \in Nat /\ due(i) <= n * c
      BY <1>4, <2>1
    <2> HIDE DEF due
    <2>5. PICK p \in Nat, q \in Nat, g \in Nat, z \in Nat :
            p = due(i) /\ q = due(i + 1) /\ g = Due(items[i]) * r.mul /\ z = n * c
      BY <2>3, <2>4
    <2>6. /\ M[i].owed = r.owed + due(i)
          /\ M[i].mode = r.mode /\ M[i].mul = r.mul /\ M[i].kept = r.kept
          /\ M[i].vars = 0 /\ M[i].risk = "any"
      BY <1>5, <2>1
    <2>7. /\ M[i + 1].owed = r.owed + due(i + 1)
          /\ M[i + 1].mode = r.mode /\ M[i + 1].mul = r.mul /\ M[i + 1].kept = r.kept
          /\ M[i + 1].vars = 0 /\ M[i + 1].risk = "any"
      BY <1>5, <2>1
    <2> HIDE DEF M
    <2>8. Kept(items[i]) = 0 /\ items[i].do \in {"stmt", "project", "block", "else"}
          /\ (items[i].do = "block" => items[i].max \in {1, 2})
      BY DEF Heavy, Kept
    <2>9. m # "pure" => r.owed + n * c <= r.kept
      BY <1>3
    <2>10. /\ M[i].mode # "pure" => /\ M[i].owed >= M[i + 1].owed + Due(items[i]) * M[i].mul
                                   /\ M[i].kept = M[i + 1].kept + Kept(items[i])
                                   /\ M[i].owed <= M[i].kept
      <3>1. p = q + c /\ g <= c /\ p <= z
        BY <2>2, <2>3, <2>4, <2>5
      <3>2. r.owed + p >= (r.owed + q) + g
        BY ONLY <1>1, <3>1, p \in Nat, q \in Nat, g \in Nat, c \in Nat
      <3>3. m # "pure" => r.owed + z <= r.kept
        BY <2>9, <2>5
      <3>4. m # "pure" => r.owed + p <= r.kept
        BY ONLY <1>1, <3>1, <3>3, p \in Nat, z \in Nat
      <3>5. /\ M[i].mode = m /\ M[i].kept = r.kept /\ M[i].kept = M[i + 1].kept + Kept(items[i])
            /\ M[i].owed = r.owed + p /\ M[i + 1].owed = r.owed + q
            /\ Due(items[i]) * M[i].mul = g
        BY <1>1, <2>6, <2>7, <2>8, <2>5
      <3> HIDE <2>5
      <3> QED
        BY <3>2, <3>4, <3>5
    <2>11. Pays(items[i], M[i], M[i + 1])
      BY <2>6, <2>7, <2>8, <2>10 DEF Pays
    <2> QED
      BY <2>6, <2>7, <2>8, <2>11 DEF Follows, Inside
  <1>7. M[n + 1] = r
    <2>1. due(n + 1) = 0
      BY Times
    <2>2. M[n + 1] = [r EXCEPT !.owed = r.owed + 0]
      BY <2>1
    <2>3. r.owed + 0 = r.owed
      BY <1>1
    <2> HIDE DEF M, due
    <2> QED
      BY <2>2, <2>3 DEF Entry
  <1>8. M[1] = Later(r, n * d)
    <2>1. due(1) = n * c
      OBVIOUS
    <2>2. M[1] = [r EXCEPT !.owed = @ + n * c]
      BY <2>1
    <2> HIDE DEF M, due
    <2> QED
      BY <1>3, <2>2 DEF Later
  <1>9. \A i \in 1..n + 1 : M[i] \in Entry
    BY <1>5
  <1> HIDE DEF M, due
  <1>10. Covered(w, items \o rest, M[1])
    BY <1>6, <1>7, <1>9, Pushed
  <1> QED
    BY <1>8, <1>10

LEMMA OwesBoth ==
  ASSUME NEW w, NEW m, NEW s, NEW t, IsSeq(s), IsSeq(t), NEW x \in Nat, NEW y \in Nat,
         Owes(w, m, s, x), Owes(w, m, t, y)
  PROVE  Owes(w, m, s \o t, x + y) /\ IsSeq(s \o t)
  <1> SUFFICES ASSUME NEW rest, NEW r \in Entry, r.mode = m, r.vars = 0, r.risk = "any",
                      m # "pure" => r.owed + (x + y) * r.mul <= r.kept,
                      Covered(w, rest, r)
               PROVE  Covered(w, (s \o t) \o rest, Later(r, x + y))
    BY ConcatIsSeq DEF Owes
  <1>1. r.mul \in Nat /\ r.owed \in Nat /\ r.kept \in Nat
    BY DEF Entry
  <1>2. (x + y) * r.mul = x * r.mul + y * r.mul /\ x * r.mul \in Nat /\ y * r.mul \in Nat
    BY <1>1, Times
  <1>3. m # "pure" => r.owed + y * r.mul <= r.kept
    BY <1>1, <1>2
  <1>4. Covered(w, t \o rest, Later(r, y))
    BY <1>3 DEF Owes
  <1> DEFINE q == Later(r, y)
  <1>5. /\ q \in Entry /\ q.mode = m /\ q.vars = 0 /\ q.risk = "any" /\ q.mul = r.mul
        /\ q.kept = r.kept /\ q.owed = r.owed + y * r.mul
    BY LaterEntry
  <1> HIDE DEF q
  <1>6. m # "pure" => q.owed + x * q.mul <= q.kept
    BY <1>1, <1>2, <1>5
  <1>7. Covered(w, s \o (t \o rest), Later(q, x))
    BY <1>4, <1>5, <1>6 DEF Owes, q
  <1>8. s \o (t \o rest) = (s \o t) \o rest
    <2>1. IsSeq(rest)
      BY DEF Covered
    <2> QED
      BY ONLY IsSeq(s), IsSeq(t), <2>1, Associative
  <1>9. Later(q, x) = Later(r, x + y)
    BY LaterSum DEF q
  <1> QED
    BY <1>7, <1>8, <1>9

-----------------------------------------------------------------------------
(* Charges.                                                                *)

\* n is charged and no breach of the accounting noted.
Pay(p, n) == IF p.priced THEN [p EXCEPT !.cost = @ + n] ELSE [p EXCEPT !.left = @ - n]

\* A body that is priced pays anything, another what it has left.
Carries(p, n) == p.priced \/ p.left >= n

LEMMA ChargeIsPay ==
  ASSUME NEW p, NEW n, p.left \in Nat, n \in Nat, Carries(p, n)
  PROVE  Charge(p, n) = Pay(p, n)
  BY DEF Charge, Pay, Carries

\* The accounts have their shape.
Shape(p) ==
  /\ p = [left |-> p.left, liability |-> p.liability, mul |-> p.mul,
          breached |-> p.breached, priced |-> p.priced, cost |-> p.cost]
  /\ p.left \in Nat /\ p.liability \in Nat /\ p.cost \in Nat

LEMMA PayFields ==
  ASSUME NEW p, Shape(p), NEW n \in Nat, Carries(p, n)
  PROVE  /\ Shape(Pay(p, n))
         /\ Pay(p, n).mul = p.mul /\ Pay(p, n).liability = p.liability
         /\ Pay(p, n).breached = p.breached /\ Pay(p, n).priced = p.priced
         /\ p.priced => Pay(p, n).cost = p.cost + n
         /\ ~p.priced => Pay(p, n).left = p.left - n
  <1>1. CASE p.priced
    <2>1. Pay(p, n) = [left |-> p.left, liability |-> p.liability, mul |-> p.mul,
                       breached |-> p.breached, priced |-> p.priced, cost |-> p.cost + n]
      BY <1>1 DEF Pay, Shape
    <2>2. p.cost + n \in Nat /\ p.left \in Nat /\ p.liability \in Nat
      BY DEF Shape
    <2> QED
      BY <1>1, <2>1, <2>2 DEF Shape
  <1>2. CASE ~p.priced
    <2>1. Pay(p, n) = [left |-> p.left - n, liability |-> p.liability, mul |-> p.mul,
                       breached |-> p.breached, priced |-> p.priced, cost |-> p.cost]
      BY <1>2 DEF Pay, Shape
    <2>2. p.left - n \in Nat /\ p.cost \in Nat /\ p.liability \in Nat
      BY <1>2 DEF Shape, Carries
    <2> QED
      BY <1>2, <2>1, <2>2 DEF Shape
  <1> QED
    BY <1>1, <1>2

LEMMA PayTwice ==
  ASSUME NEW p, Shape(p), NEW x \in Nat, NEW y \in Nat, Carries(p, x)
  PROVE  Pay(Pay(p, x), y) = Pay(p, x + y) /\ Pay(p, 0) = p
  <1>1. CASE p.priced
    <2>1. Pay(p, x) = [p EXCEPT !.cost = @ + x] /\ Pay(p, x + y) = [p EXCEPT !.cost = @ + (x + y)]
          /\ Pay(p, 0) = [p EXCEPT !.cost = @ + 0]
      BY <1>1 DEF Pay
    <2>2. Pay(Pay(p, x), y) = [p EXCEPT !.cost = (p.cost + x) + y]
      BY <1>1, <2>1 DEF Pay, Shape
    <2>3. (p.cost + x) + y = p.cost + (x + y) /\ p.cost + 0 = p.cost
      BY DEF Shape
    <2> QED
      BY <2>1, <2>2, <2>3 DEF Shape
  <1>2. CASE ~p.priced
    <2>1. Pay(p, x) = [p EXCEPT !.left = @ - x] /\ Pay(p, x + y) = [p EXCEPT !.left = @ - (x + y)]
          /\ Pay(p, 0) = [p EXCEPT !.left = @ - 0]
      BY <1>2 DEF Pay
    <2>2. Pay(Pay(p, x), y) = [p EXCEPT !.left = (p.left - x) - y]
      BY <1>2, <2>1 DEF Pay, Shape
    <2>3. (p.left - x) - y = p.left - (x + y) /\ p.left - 0 = p.left
      BY DEF Shape
    <2> QED
      BY <2>1, <2>2, <2>3 DEF Shape
  <1> QED
    BY <1>1, <1>2

LEMMA CapIsInt ==
  ASSUME NEW w \in Nat, NEW m
  PROVE  Cap(w, m) \in Int
  <1>1. w * FixedReserve \in Nat /\ Vars * VarReserve \in Nat
    BY GeneratorAssumption
  <1> QED
    BY <1>1, GeneratorAssumption DEF Cap

\* n is paid, no more than n is executed, and what is owed next is left.
LEMMA Costs ==
  ASSUME NEW w \in Nat, NEW p, NEW re, NEW m, NEW a \in Entry, NEW b \in Entry,
         Accounts(w, p, re, m, a), NEW n \in Nat, NEW x \in Nat, x <= n,
         b.mode = a.mode, b.mul = a.mul, a.vars = 0, b.vars = 0,
         m # "pure" => b.kept = a.kept /\ p.left >= n + b.owed
  PROVE  Accounts(w, Pay(p, n), [re EXCEPT !.sum = @ + x], m, b) /\ Carries(p, n) /\ Shape(p)
  <1>1. Shape(p)
    BY DEF Accounts, Shape
  <1>2. p.priced <=> m = "pure"
    BY DEF Accounts
  <1>3. b.owed \in Nat
    BY DEF Entry
  <1>4. Carries(p, n)
    BY <1>1, <1>2, <1>3 DEF Carries, Shape
  <1> DEFINE q == Pay(p, n)
             sum == re.sum + x
  <1>5. /\ Shape(q) /\ q.mul = p.mul /\ q.liability = p.liability
        /\ q.breached = p.breached /\ q.priced = p.priced
        /\ p.priced => q.cost = p.cost + n
        /\ ~p.priced => q.left = p.left - n
    BY <1>1, <1>4, PayFields
  <1> HIDE DEF q
  <1>6. re.sum \in Nat /\ sum \in Nat
    BY DEF Accounts
  <1>7. m = "pure" => sum <= q.cost
    BY <1>1, <1>2, <1>5, <1>6 DEF Accounts, Shape
  <1>8. m # "pure" => q.left >= b.owed /\ q.liability = b.kept /\ b.vars <= b.owed
    BY <1>1, <1>2, <1>3, <1>5 DEF Accounts, Shape
  <1>9. ASSUME m # "pure"
        PROVE  sum + q.left <= Cap(w, m) + b.vars
    <2>1. re.sum + p.left <= Cap(w, m) + 0 /\ Cap(w, m) \in Int
      BY <1>9, CapIsInt DEF Accounts
    <2>2. q.left = p.left - n /\ p.left \in Nat
      BY <1>1, <1>2, <1>5, <1>9 DEF Shape
    <2> QED
      BY <1>6, <2>1, <2>2
  <1>10. [re EXCEPT !.sum = @ + x] = [times |-> re.times, sum |-> sum]
    BY DEF Accounts
  <1>11. ~q.breached /\ (q.priced <=> m = "pure")
    BY <1>2, <1>5 DEF Accounts
  <1>12. m = b.mode /\ q.mul = b.mul /\ re.times = b.mul
    BY <1>5 DEF Accounts
  <1> HIDE DEF sum
  <1>13. Accounts(w, q, [times |-> re.times, sum |-> sum], m, b)
    BY <1>5, <1>6, <1>7, <1>8, <1>9, <1>11, <1>12 DEF Accounts, Shape
  <1> QED
    BY <1>1, <1>4, <1>10, <1>13 DEF q, sum

-----------------------------------------------------------------------------
(* A step and the first item of the ledger.                                *)

LEMMA Unfold ==
  ASSUME GeneratorInv, todo # <<>>
  PROVE  /\ PricesKept /\ perStmt \in {1, 2}
         /\ \E a \in Entry, b \in Entry :
              /\ Follows(perStmt, It, a, b) /\ Covered(perStmt, Tail(todo), b)
              /\ Accounts(perStmt, pool, real, mode, a) /\ Order(risk, line, mode, a)
  <1>1. perStmt \in {1, 2} /\ PricesKept
    BY DEF perStmt, GeneratorInv
  <1>2. PICK a \in Entry : /\ Covered(perStmt, todo, a)
                           /\ Accounts(perStmt, pool, real, mode, a)
                           /\ Order(risk, line, mode, a)
    BY DEF GeneratorInv, Ledger
  <1>3. PICK b \in Entry : Follows(perStmt, It, a, b) /\ Covered(perStmt, Tail(todo), b)
    BY <1>2, Popped DEF It
  <1> QED
    BY <1>1, <1>2, <1>3

LEMMA Refold ==
  ASSUME config' = config, PricesKept', NEW e \in Entry,
         Covered(perStmt, todo', e), Accounts(perStmt, pool', real', mode', e),
         Order(risk', line', mode', e)
  PROVE  GeneratorInv'
  <1>1. perStmt' = perStmt
    BY DEF perStmt
  <1> QED
    BY <1>1 DEF GeneratorInv, Ledger

LEMMA PricesStay ==
  ASSUME PricesKept, callees' = callees, pairs' = pairs
  PROVE  PricesKept'
  BY DEF PricesKept

\* The items that are done by charging and writing others in their place.
Placed == {"stmt", "block", "else", "expr", "witness", "hot", "project", "forward", "spend"}

\* The item before b owed what its successors will.
LEMMA Successor ==
  ASSUME NEW w, NEW it, NEW a \in Entry, NEW b \in Entry, Follows(w, it, a, b),
         it.do \in Placed
  PROVE  /\ b.risk = "any" /\ b.mode = a.mode /\ b.mul = a.mul /\ a.vars = 0 /\ b.vars = 0
         /\ Due(it) \in Nat /\ b.mul \in Nat /\ b.owed \in Nat /\ b.kept \in Nat
         /\ Due(it) * b.mul \in Nat
         /\ a.mode # "pure" => /\ a.owed >= b.owed + Due(it) * b.mul
                               /\ a.kept = b.kept /\ b.owed + Due(it) * b.mul <= b.kept
  <1>1. /\ Pays(it, a, b) /\ b.mul = a.mul /\ b.risk = "any"
    BY DEF Follows, Placed
  <1>2. Due(it) \in Nat /\ Kept(it) = 0
    BY <1>1 DEF Due, Kept, Pays, Placed
  <1>3. /\ a.mul \in Nat /\ b.mul \in Nat /\ b.owed \in Nat /\ b.kept \in Nat
        /\ a.owed \in Nat /\ a.kept \in Nat
    BY DEF Entry
  <1>4. PICK g \in Nat : g = Due(it) * b.mul
    BY <1>2, <1>3, Times
  <1>5. ASSUME a.mode # "pure"
        PROVE  a.owed >= b.owed + g /\ a.kept = b.kept /\ b.owed + g <= b.kept
    <2>1. a.owed >= b.owed + g /\ a.kept = b.kept + 0 /\ a.owed <= a.kept
      BY <1>1, <1>2, <1>4, <1>5 DEF Pays
    <2> QED
      BY <1>3, <2>1
  <1> QED
    BY <1>1, <1>2, <1>3, <1>4, <1>5 DEF Pays

\* A charge of n is covered by what the first item owed more than its
\* successors will, or by a gate that kept the liability free.
Covers(n, due) ==
  mode # "pure" => \/ n + due * pool.mul <= Due(It) * pool.mul
                   \/ pool.left >= pool.liability + n

\* The first item is replaced by others that owe no more than it did.
LEMMA Replaced ==
  ASSUME GeneratorInv, todo # <<>>, It.do \in Placed,
         NEW items, NEW due \in Nat, due <= Due(It), Owes(perStmt, mode, items, due), Then(items),
         NEW n \in Nat, NEW x \in Nat, x <= n,
         pool' = Pay(pool, n), real' = [real EXCEPT !.sum = @ + x], Covers(n, due),
         UNCHANGED <<mode, callees, pairs, config>>,
         Quiet(risk', line', mode)
  PROVE  GeneratorInv'
  <1> DEFINE w == perStmt
  <1>1. PICK a \in Entry, b \in Entry :
          /\ Follows(w, It, a, b) /\ Covered(w, Tail(todo), b)
          /\ Accounts(w, pool, real, mode, a) /\ Order(risk, line, mode, a)
    BY Unfold
  <1>2. PricesKept /\ w \in Nat
    BY Unfold
  <1> HIDE DEF w
  <1>3. /\ b.risk = "any" /\ b.mode = a.mode /\ b.mul = a.mul /\ a.vars = 0 /\ b.vars = 0
        /\ Due(It) \in Nat /\ b.mul \in Nat /\ b.owed \in Nat /\ b.kept \in Nat
        /\ Due(It) * b.mul \in Nat
        /\ a.mode # "pure" => /\ a.owed >= b.owed + Due(It) * b.mul
                              /\ a.kept = b.kept /\ b.owed + Due(It) * b.mul <= b.kept
    BY <1>1, Successor
  <1>4. mode = a.mode /\ pool.mul = b.mul
    BY <1>1, <1>3 DEF Accounts
  <1>5. PICK g \in Nat, h \in Nat : g = Due(It) * b.mul /\ h = due * b.mul /\ h <= g
    BY <1>3, Times
  <1>6. mode # "pure" => b.owed + due * b.mul <= b.kept
    <2>1. mode # "pure" => b.owed + g <= b.kept
      BY <1>3, <1>4, <1>5
    <2>2. mode # "pure" => b.owed + h <= b.kept
      BY ONLY <1>3, <1>5, <2>1, g \in Nat, h \in Nat
    <2> QED
      BY <1>5, <2>2
  <1> DEFINE e == Later(b, due)
  <1>7. Covered(w, todo', e)
    <2>1. b.mode = mode
      BY <1>3, <1>4
    <2> QED
      BY <1>1, <1>3, <1>6, <2>1 DEF Owes, Then, w
  <1>8. /\ e \in Entry /\ e.owed = b.owed + h /\ e.mode = b.mode /\ e.mul = b.mul
        /\ e.kept = b.kept /\ e.vars = 0 /\ e.risk = "any"
    <2>1. /\ Later(b, due) \in Entry
          /\ Later(b, due).owed = b.owed + due * b.mul
          /\ Later(b, due).mode = b.mode /\ Later(b, due).mul = b.mul
          /\ Later(b, due).kept = b.kept /\ Later(b, due).vars = b.vars
          /\ Later(b, due).risk = b.risk
      BY LaterEntry
    <2> QED
      BY <1>3, <1>5, <2>1
  <1> HIDE DEF e
  <1>9. mode # "pure" => pool.left >= n + e.owed
    <2>1. pool.left \in Nat
      BY <1>1 DEF Accounts
    <2>2. mode # "pure" => pool.left >= b.owed + g /\ pool.liability = b.kept
      <3>1. a.owed \in Nat
        BY DEF Entry
      <3>2. mode # "pure" => pool.left >= a.owed /\ pool.liability = a.kept
        BY <1>1 DEF Accounts
      <3>3. mode # "pure" => a.owed >= b.owed + g /\ a.kept = b.kept
        BY <1>3, <1>4, <1>5
      <3> QED
        BY ONLY <1>3, <2>1, <3>1, <3>2, <3>3, g \in Nat
    <2>3. mode # "pure" => b.owed + h <= b.kept
      BY <1>5, <1>6
    <2>4. mode # "pure" => n + h <= g \/ pool.left >= pool.liability + n
      BY <1>4, <1>5 DEF Covers
    <2>5. mode # "pure" => pool.left >= n + (b.owed + h)
      BY ONLY <1>3, <2>1, <2>2, <2>3, <2>4, g \in Nat, h \in Nat, n \in Nat
    <2> QED
      BY <1>8, <2>5
  <1>10. Accounts(w, pool', real', mode, e)
    <2>1. Accounts(w, Pay(pool, n), [real EXCEPT !.sum = @ + x], mode, e)
      <3>1. e.mode = a.mode /\ e.mul = a.mul /\ a.vars = 0 /\ e.vars = 0
        BY <1>3, <1>8
      <3>2. CASE mode # "pure"
        <4>1. e.kept = a.kept
          BY <1>3, <1>4, <1>8, <3>2
        <4> QED
          BY <1>1, <1>2, <1>8, <1>9, <3>1, <4>1, Costs
      <3>3. CASE mode = "pure"
        BY <1>1, <1>2, <1>8, <3>1, <3>3, Costs
      <3> QED
        BY <3>2, <3>3
    <2> QED
      BY <2>1
  <1>11. Order(risk', line', mode, e)
    BY <1>8 DEF Order
  <1>12. PricesKept'
    BY <1>2, PricesStay
  <1> QED
    BY <1>7, <1>8, <1>10, <1>11, <1>12, Refold DEF w

-----------------------------------------------------------------------------
(* Items that charge nothing.                                              *)

Lights(s) == \E S : s \in Seq(S) /\ \A x \in S : Light(x)

LEMMA LightsOwe ==
  ASSUME NEW w, NEW m, NEW s, Lights(s)
  PROVE  Owes(w, m, s, 0)
  <1>1. PICK S : s \in Seq(S) /\ \A x \in S : Light(x)
    BY DEF Lights
  <1>2. \A i \in 1..Len(s) : s[i] \in S
    BY <1>1, ElementOfSeq
  <1>3. IsSeq(s) /\ \A i \in 1..Len(s) : Light(s[i])
    BY <1>1, <1>2 DEF IsSeq
  <1> QED
    BY <1>3, OwesNothing

LEMMA LightConcat ==
  ASSUME NEW s, NEW t, Lights(s), Lights(t)
  PROVE  Lights(s \o t)
  <1>1. PICK S : s \in Seq(S) /\ \A x \in S : Light(x)
    BY DEF Lights
  <1>2. PICK T : t \in Seq(T) /\ \A x \in T : Light(x)
    BY DEF Lights
  <1>3. s \in Seq(S \cup T) /\ t \in Seq(S \cup T)
    BY <1>1, <1>2, SeqMonotonic
  <1>4. s \o t \in Seq(S \cup T)
    BY <1>3, ConcatProperties
  <1>5. \A x \in S \cup T : Light(x)
    BY <1>1, <1>2
  <1> QED
    BY <1>4, <1>5 DEF Lights

LEMMA LightsIn ==
  ASSUME NEW S, NEW s \in Seq(S), \A x \in S : Light(x)
  PROVE  Lights(s)
  BY DEF Lights

LEMMA LightTuples ==
  /\ Lights(<<>>)
  /\ \A a : Light(a) => Lights(<<a>>)
  /\ \A a, b : Light(a) /\ Light(b) => Lights(<<a, b>>)
  /\ \A a, b, c : Light(a) /\ Light(b) /\ Light(c) => Lights(<<a, b, c>>)
  /\ \A a, b, c, d :
       Light(a) /\ Light(b) /\ Light(c) /\ Light(d) => Lights(<<a, b, c, d>>)
  <1>1. Lights(<<>>)
    <2> DEFINE s == <<>>
               S == {}
    <2>1. s \in Seq(S) /\ \A x \in S : Light(x)
      OBVIOUS
    <2> HIDE DEF s, S
    <2>2. Lights(s)
      BY <2>1, LightsIn
    <2> QED
      BY <2>2 DEF s
  <1>2. ASSUME NEW a, Light(a)
        PROVE  Lights(<<a>>)
    <2> DEFINE s == <<a>>
               S == {a}
    <2>1. s \in Seq(S) /\ \A x \in S : Light(x)
      BY <1>2
    <2> HIDE DEF s, S
    <2>2. Lights(s)
      BY <2>1, LightsIn
    <2> QED
      BY <2>2 DEF s
  <1>3. ASSUME NEW a, NEW b, Light(a), Light(b)
        PROVE  Lights(<<a, b>>)
    <2> DEFINE s == <<a, b>>
               S == {a, b}
    <2>1. s \in Seq(S) /\ \A x \in S : Light(x)
      BY <1>3
    <2> HIDE DEF s, S
    <2>2. Lights(s)
      BY <2>1, LightsIn
    <2> QED
      BY <2>2 DEF s
  <1>4. ASSUME NEW a, NEW b, NEW c, Light(a), Light(b), Light(c)
        PROVE  Lights(<<a, b, c>>)
    <2> DEFINE s == <<a, b, c>>
               S == {a, b, c}
    <2>1. s \in Seq(S) /\ \A x \in S : Light(x)
      BY <1>4
    <2> HIDE DEF s, S
    <2>2. Lights(s)
      BY <2>1, LightsIn
    <2> QED
      BY <2>2 DEF s
  <1>5. ASSUME NEW a, NEW b, NEW c, NEW d, Light(a), Light(b), Light(c), Light(d)
        PROVE  Lights(<<a, b, c, d>>)
    <2> DEFINE s == <<a, b, c, d>>
               S == {a, b, c, d}
    <2>1. s \in Seq(S) /\ \A x \in S : Light(x)
      BY <1>5
    <2> HIDE DEF s, S
    <2>2. Lights(s)
      BY <2>1, LightsIn
    <2> QED
      BY <2>2 DEF s
  <1> QED
    BY <1>1, <1>2, <1>3, <1>4, <1>5

LEMMA LightItems ==
  /\ \A f : Light(Expr(f)) /\ Lights(<<Expr(f)>>) /\ Lights(Operand(f))
  /\ Light(Witness) /\ Light(Hot) /\ Light(Reset)
  /\ Lights(<<>>) /\ Lights(Index) /\ Lights(<<Hot>>) /\ Lights(<<Witness>>)
  /\ \A f \in Forms : Lights(<<Forward(f)>>)
  <1>1. /\ \A f : Light(Expr(f))
        /\ \A form \in Forms : Light(Forward(form))
        /\ Light(Witness) /\ Light(Hot) /\ Light(Reset)
    BY DEF Light, Expr, Witness, Hot, Reset, Forward
  <1> QED
    BY <1>1, LightTuples DEF Operand, Index

-----------------------------------------------------------------------------
(* Statements without a body.                                              *)

\* What a body has when it comes to an item.
LEMMA AtHand ==
  ASSUME GeneratorInv, todo # <<>>
  PROVE  /\ Shape(pool) /\ ~pool.breached /\ (pool.priced <=> mode = "pure")
         /\ pool.mul \in Nat \ {0} /\ real.times = pool.mul /\ real.sum \in Nat
         /\ real = [times |-> real.times, sum |-> real.sum]
         /\ It.do \in Placed /\ mode # "pure" => pool.left >= Due(It) * pool.mul
         /\ Quiet(risk, line, mode) /\ PricesKept
  <1>1. PICK a \in Entry, b \in Entry :
          /\ Follows(perStmt, It, a, b) /\ Covered(perStmt, Tail(todo), b)
          /\ Accounts(perStmt, pool, real, mode, a) /\ Order(risk, line, mode, a)
    BY Unfold
  <1>2. /\ Shape(pool) /\ ~pool.breached /\ (pool.priced <=> mode = "pure")
        /\ real.times = pool.mul /\ real.sum \in Nat
        /\ real = [times |-> real.times, sum |-> real.sum]
        /\ mode = a.mode /\ pool.mul = a.mul
    BY <1>1 DEF Accounts, Shape
  <1>3. pool.mul \in Nat \ {0}
    BY <1>2 DEF Entry
  <1>4. ASSUME It.do \in Placed, mode # "pure"
        PROVE  pool.left >= Due(It) * pool.mul
    <2>1. /\ b.mul = a.mul /\ b.owed \in Nat /\ Due(It) * b.mul \in Nat
          /\ a.owed >= b.owed + Due(It) * b.mul
      BY <1>1, <1>2, <1>4, Successor
    <2>2. PICK g \in Nat : g = Due(It) * b.mul /\ g = Due(It) * pool.mul
      BY <1>2, <2>1
    <2>3. pool.left >= a.owed /\ pool.left \in Nat /\ a.owed \in Nat
      BY <1>1, <1>4 DEF Accounts, Entry
    <2>4. a.owed >= b.owed + g
      BY <2>1, <2>2
    <2>5. pool.left >= g
      BY ONLY <2>1, <2>3, <2>4, g \in Nat
    <2> QED
      BY <2>2, <2>5
  <1>5. Quiet(risk, line, mode) /\ PricesKept
    BY <1>1, Unfold DEF Order
  <1> QED
    BY <1>2, <1>3, <1>4, <1>5

LEMMA SlotKeeps ==
  ASSUME GeneratorInv, NEW k \in Nat, NEW items, Slot(k, items), UNCHANGED mode,
         Owes(perStmt, mode, items, 0), Quiet(risk', line', mode)
  PROVE  GeneratorInv'
  <1>1. todo # <<>> /\ It.do = "stmt" /\ Due(It) = 1 /\ It.do \in Placed
    BY DEF Slot, At, It, Due, Placed
  <1>2. /\ Shape(pool) /\ (pool.priced <=> mode = "pure")
        /\ pool.mul \in Nat \ {0} /\ real.times = pool.mul /\ real.sum \in Nat
        /\ mode # "pure" => pool.left >= 1 * pool.mul
    BY <1>1, AtHand
  <1>3. PICK mul \in Nat, km \in Nat :
          /\ mul = pool.mul /\ km = k * pool.mul /\ (1 + k) * pool.mul = mul + km
          /\ 1 * pool.mul = mul /\ 0 * pool.mul = 0 /\ (k = 0 => km = 0)
    BY <1>2, Times
  <1>4. Carries(pool, mul)
    BY <1>2, <1>3 DEF Carries
  <1> DEFINE p == Pay(pool, mul)
  <1>5. /\ Shape(p) /\ p.liability = pool.liability /\ p.priced = pool.priced
        /\ ~p.priced => p.left = pool.left - mul
    BY <1>2, <1>4, PayFields
  <1>6. /\ Charge(pool, mul) = p
        /\ k > 0 => Afford(p, km)
        /\ pool' = Charge(p, km)
    <2>1. Charge(pool, mul) = p
      BY <1>2, <1>4, ChargeIsPay DEF Shape
    <2>2. /\ k > 0 => Afford(Charge(pool, mul), km)
          /\ pool' = Charge(Charge(pool, mul), km)
      BY <1>3 DEF Slot
    <2> QED
      BY <2>1, <2>2
  <1> HIDE DEF p
  <1>7. k > 0 /\ mode # "pure" => pool.left >= pool.liability + (mul + km)
    <2>1. k > 0 /\ mode # "pure" => p.left >= p.liability + km /\ p.left = pool.left - mul
      BY <1>2, <1>5, <1>6 DEF Afford
    <2> QED
      BY <1>2, <1>5, <2>1 DEF Shape
  <1>8. Carries(p, km)
    <2>1. CASE p.priced
      BY <2>1 DEF Carries
    <2>2. CASE ~p.priced
      <3>1. k > 0 => p.left >= p.liability + km
        BY <1>6, <2>2 DEF Afford
      <3>2. p.left \in Nat /\ p.liability \in Nat
        BY <1>5 DEF Shape
      <3>3. km = 0 \/ k > 0
        BY <1>3
      <3>4. p.left >= km
        BY ONLY <3>1, <3>2, <3>3, km \in Nat, k \in Nat
      <3> QED
        BY <3>4 DEF Carries
    <2> QED
      BY <2>1, <2>2
  <1>9. pool' = Pay(pool, mul + km)
    <2>1. Charge(p, km) = Pay(p, km)
      BY <1>5, <1>8, ChargeIsPay DEF Shape
    <2>2. Pay(Pay(pool, mul), km) = Pay(pool, mul + km)
      BY <1>2, <1>4, PayTwice
    <2> QED
      BY <1>6, <2>1, <2>2 DEF p
  <1>10. /\ real' = [real EXCEPT !.sum = @ + (mul + km)]
         /\ Then(items) /\ UNCHANGED <<callees, pairs, config>>
    BY <1>2, <1>3 DEF Slot, Runs
  <1>11. Covers(mul + km, 0)
    <2>1. k = 0 => (mul + km) + 0 * pool.mul <= Due(It) * pool.mul
      BY <1>1, <1>3
    <2> QED
      BY <1>7, <2>1 DEF Covers
  <1>12. mul + km \in Nat
    BY <1>3
  <1> QED
    BY <1>1, <1>9, <1>10, <1>11, <1>12, Replaced

LEMMA ResetQuiet ==
  ASSUME NEW m, Quiet(risk, line, m), resetRisk
  PROVE  Quiet(risk', line', m) /\ ~risk'.spent /\ ~risk'.wit /\ line' = NewLine
  <1>1. risk' = [spent |-> FALSE, wit |-> FALSE, clash |-> risk.clash]
    BY DEF resetRisk, NoRisk
  <1>2. line' = [hot |-> 0, wit |-> FALSE] /\ line' = NewLine
    BY DEF resetRisk, NewLine
  <1>3. /\ risk' = [spent |-> risk'.spent, wit |-> risk'.wit, clash |-> risk'.clash]
        /\ risk'.clash = risk.clash
    BY <1>1
  <1>4. ~risk'.spent /\ ~risk'.wit
    BY <1>1
  <1>5. /\ line' = [hot |-> line'.hot, wit |-> line'.wit]
        /\ line'.hot = 0
    BY <1>2
  <1>6. ~line'.wit
    BY <1>2
  <1>7. ~risk.clash
    BY DEF Quiet
  <1> QED
    BY <1>2, <1>3, <1>4, <1>5, <1>6, <1>7 DEF Quiet

LEMMA PlainQuiet ==
  ASSUME NEW m, Quiet(risk, line, m), line' = NewLine, risk' = risk
  PROVE  Quiet(risk', line', m)
  BY DEF Quiet, NewLine

LEMMA ArmKeeps ==
  ASSUME GeneratorInv, NEW k \in Nat, NEW items, Arm(k, items), Owes(perStmt, mode, items, 0)
  PROVE  GeneratorInv'
  <1>1. todo # <<>> /\ Slot(k, items) /\ UNCHANGED mode /\ resetRisk
    BY DEF Arm, Slot, At
  <1>2. Quiet(risk', line', mode)
    BY <1>1, AtHand, ResetQuiet
  <1> QED
    BY <1>1, <1>2, SlotKeeps

LEMMA LightArmKeeps ==
  ASSUME GeneratorInv, NEW k \in Nat, NEW items, Arm(k, items), Lights(items)
  PROVE  GeneratorInv'
  BY ArmKeeps, LightsOwe

LEMMA PlainKeeps ==
  ASSUME GeneratorInv, NEW k \in Nat, Plain(k)
  PROVE  GeneratorInv'
  <1>1. todo # <<>> /\ Slot(k, <<>>) /\ UNCHANGED mode /\ line' = NewLine /\ risk' = risk
    BY DEF Plain, Slot, At
  <1>2. Quiet(risk', line', mode)
    BY <1>1, AtHand, PlainQuiet
  <1>3. Owes(perStmt, mode, <<>>, 0)
    BY LightItems, LightsOwe
  <1> QED
    BY <1>1, <1>2, <1>3, SlotKeeps

\* Each of the two hot operands is written in a context of its own.
LEMMA OwesLinearized ==
  ASSUME NEW w
  PROVE  Owes(w, "subject",
              <<Reset, Spend, Expr(1), Reset, Spend, Expr(1), Reset>>, 0)
  <1> DEFINE items == <<Reset, Spend, Expr(1), Reset, Spend, Expr(1), Reset>>
  <1> SUFFICES ASSUME NEW rest, NEW r \in Entry, r.mode = "subject", r.vars = 0, r.risk = "any",
                      r.owed + 0 * r.mul <= r.kept,
                      Covered(w, rest, r)
               PROVE  Covered(w, items \o rest, Later(r, 0))
    BY DEF Owes
  <1> DEFINE q == [r EXCEPT !.risk = "none"]
             M == <<r, q, r, r, q, r, r, r>>
  <1>1. /\ q \in Entry /\ q.mode = r.mode /\ q.mul = r.mul /\ q.kept = r.kept
        /\ q.owed = r.owed /\ q.vars = r.vars /\ q.risk = "none"
    BY DEF Entry
  <1>2. r.mul \in Nat /\ r.owed \in Nat /\ r.kept \in Nat /\ 0 * r.mul = 0
    BY Times DEF Entry
  <1> HIDE DEF q
  <1>3. Follows(w, Reset, r, q) /\ Follows(w, Reset, r, r)
    <2>1. Reset.do = "reset"
      BY DEF Reset
    <2>2. Due(Reset) = 0 /\ Kept(Reset) = 0
      BY <2>1 DEF Due, Kept
    <2>3. Pays(Reset, r, q) /\ Pays(Reset, r, r)
      BY <1>1, <1>2, <2>1, <2>2 DEF Pays
    <2> QED
      BY <1>1, <2>1, <2>3 DEF Follows, Inside
  <1>4. Follows(w, Spend, q, r)
    <2>1. Spend.do = "spend"
      BY DEF Spend
    <2>2. Due(Spend) = 0 /\ Kept(Spend) = 0
      BY <2>1 DEF Due, Kept
    <2>3. Pays(Spend, q, r)
      BY <1>1, <1>2, <2>1, <2>2 DEF Pays
    <2> QED
      BY <1>1, <2>1, <2>3 DEF Follows, Inside
  <1>5. Follows(w, Expr(1), r, r)
    <2>1. Expr(1).do = "expr"
      BY DEF Expr
    <2>2. Due(Expr(1)) = 0 /\ Kept(Expr(1)) = 0
      BY <2>1 DEF Due, Kept
    <2>3. Pays(Expr(1), r, r)
      BY <1>1, <1>2, <2>1, <2>2 DEF Pays
    <2> QED
      BY <1>1, <2>1, <2>3 DEF Follows, Inside
  <1>6. /\ items[1] = Reset /\ items[2] = Spend /\ items[3] = Expr(1) /\ items[4] = Reset
        /\ items[5] = Spend /\ items[6] = Expr(1) /\ items[7] = Reset /\ Len(items) = 7
    OBVIOUS
  <1>7. /\ M[1] = r /\ M[2] = q /\ M[3] = r /\ M[4] = r /\ M[5] = q /\ M[6] = r
        /\ M[7] = r /\ M[8] = r
    OBVIOUS
  <1>8. IsSeq(items)
    <2> DEFINE S == {Reset, Spend, Expr(1)}
    <2>1. items \in Seq(S)
      OBVIOUS
    <2> HIDE DEF items, S
    <2> QED
      BY <2>1 DEF IsSeq
  <1> HIDE DEF items, M
  <1>9. \A i \in 1..Len(items) + 1 : M[i] \in Entry
    <2>1. \A i \in 1..Len(items) + 1 : i \in {1, 2, 3, 4, 5, 6, 7, 8}
      BY <1>6
    <2> QED
      BY <1>1, <1>7, <2>1
  <1>10. ASSUME NEW i \in 1..Len(items)
         PROVE  Follows(w, items[i], M[i], M[i + 1])
    <2>1. i \in {1, 2, 3, 4, 5, 6, 7}
      BY <1>6
    <2> QED
      BY <1>3, <1>4, <1>5, <1>6, <1>7, <2>1
  <1>11. Covered(w, items \o rest, M[1])
    <2>1. Covered(w, rest, M[Len(items) + 1])
      BY <1>6, <1>7
    <2> QED
      BY <1>8, <1>9, <1>10, <2>1, Pushed
  <1> QED
    BY <1>7, <1>11, LaterSum

LEMMA StringRangeFoldKeeps ==
  ASSUME GeneratorInv, StringRangeFold
  PROVE  GeneratorInv'
  <1>1. PICK trips \in 0..TripCap :
          /\ At("stmt") /\ Afford(Charge(pool, pool.mul), TripCap * pool.mul)
          /\ pool' = Charge(Charge(pool, pool.mul), trips * pool.mul)
          /\ real' = Runs(1 + trips)
          /\ resetRisk /\ Then(<<>>)
          /\ UNCHANGED <<mode, callees, pairs, config>>
    BY DEF StringRangeFold
  <1>2. TripCap \in Nat /\ trips \in Nat /\ trips <= TripCap
    BY GeneratorAssumption
  <1>3. trips > 0 => Afford(Charge(pool, pool.mul), trips * pool.mul)
    <2>1. todo # <<>> /\ It.do = "stmt" /\ Due(It) = 1 /\ It.do \in Placed
      BY <1>1 DEF At, It, Due, Placed
    <2>2. /\ Shape(pool) /\ (pool.priced <=> mode = "pure") /\ pool.mul \in Nat \ {0}
          /\ mode # "pure" => pool.left >= 1 * pool.mul
      BY <2>1, AtHand
    <2>3. 1 * pool.mul = pool.mul
      BY <2>2, Times
    <2>4. Carries(pool, pool.mul)
      BY <2>2, <2>3 DEF Carries
    <2>5. Charge(pool, pool.mul) = Pay(pool, pool.mul) /\ Shape(Pay(pool, pool.mul))
      BY <2>2, <2>4, ChargeIsPay, PayFields DEF Shape
    <2>6. PICK p : p = Charge(pool, pool.mul) /\ p.left \in Nat /\ p.liability \in Nat
      BY <2>5 DEF Shape
    <2>7. PICK t \in Nat, c \in Nat : t = trips * pool.mul /\ c = TripCap * pool.mul /\ t <= c
      BY <1>2, <2>2, Times
    <2>8. p.priced \/ p.left >= p.liability + c
      BY <1>1, <2>6, <2>7 DEF Afford
    <2>9. p.priced \/ p.left >= p.liability + t
      BY ONLY <2>6, <2>7, <2>8, t \in Nat, c \in Nat
    <2> QED
      BY <2>6, <2>7, <2>9 DEF Afford
  <1>4. Slot(trips, <<>>)
    BY <1>1, <1>3 DEF Slot
  <1>5. Arm(trips, <<>>)
    BY <1>1, <1>4 DEF Arm
  <1> QED
    BY <1>2, <1>5, LightArmKeeps, LightItems

\* What is known of the cost of a call.
LEMMA PriceOf ==
  ASSUME PricesKept, NEW c \in 1..Len(callees)
  PROVE  /\ callees[c].cost \in Nat /\ callees[c].runs \in Nat
         /\ callees[c].runs <= callees[c].cost
  <1>1. callees[c] \in [kind : Kinds, cost : Nat, runs : Nat]
    BY ElementOfSeq DEF PricesKept
  <1> QED
    BY <1>1 DEF PricesKept

LEMMA CallStmtKeeps ==
  ASSUME GeneratorInv, CallStmt
  PROVE  GeneratorInv'
  <1>1. PICK c \in 1..Len(callees) :
          /\ At("stmt")
          /\ Affordable(Charge(pool, pool.mul), c)
          /\ pool' = Charge(Charge(pool, pool.mul), callees[c].cost * pool.mul)
          /\ real' = Runs(1 + callees[c].runs)
          /\ resetRisk
          /\ Then(Operand(ExprFuel - 1)) \/ Then(Index \o Operand(ExprFuel - 1))
          /\ UNCHANGED <<mode, callees, pairs, config>>
    BY DEF CallStmt
  <1>2. todo # <<>> /\ It.do = "stmt" /\ Due(It) = 1 /\ It.do \in Placed
    BY <1>1 DEF At, It, Due, Placed
  <1>3. /\ Shape(pool) /\ (pool.priced <=> mode = "pure") /\ pool.mul \in Nat \ {0}
        /\ real.times = pool.mul /\ real.sum \in Nat
        /\ mode # "pure" => pool.left >= 1 * pool.mul
        /\ PricesKept /\ Quiet(risk, line, mode)
    BY <1>2, AtHand
  <1>4. PICK cost \in Nat, runs \in Nat :
          cost = callees[c].cost /\ runs = callees[c].runs /\ runs <= cost
    BY <1>3, PriceOf
  <1>5. PICK mul \in Nat : mul = pool.mul /\ 1 * pool.mul = mul
    BY <1>3
  <1>6. PICK x \in Nat, n \in Nat : Multiplied(runs, cost, mul, x, n)
    BY <1>4, Products
  <1>7. /\ mul = pool.mul /\ n = cost * pool.mul /\ x = runs * pool.mul
        /\ (1 + runs) * pool.mul = mul + x /\ 1 * pool.mul = mul
    BY <1>5, <1>6 DEF Multiplied
  <1>8. Carries(pool, mul)
    BY <1>3, <1>7 DEF Carries
  <1> DEFINE p == Pay(pool, mul)
  <1>9. /\ Shape(p) /\ p.liability = pool.liability /\ p.priced = pool.priced
        /\ p.mul = pool.mul /\ (~p.priced => p.left = pool.left - mul)
    BY <1>3, <1>8, PayFields
  <1>10. Charge(pool, mul) = p /\ Afford(p, n) /\ pool' = Charge(p, n)
    <2>1. Charge(pool, mul) = p
      BY <1>3, <1>8, ChargeIsPay DEF Shape
    <2>2. Affordable(p, c) /\ pool' = Charge(p, n)
      BY <1>1, <1>4, <1>7, <2>1
    <2> HIDE DEF p
    <2> QED
      BY <1>4, <1>7, <1>9, <2>1, <2>2 DEF Affordable
  <1> HIDE DEF p
  <1>11. p.priced \/ p.left >= p.liability + n
    BY <1>10 DEF Afford
  <1>12. Carries(p, n)
    <2>1. p.left \in Nat /\ p.liability \in Nat
      BY <1>9 DEF Shape
    <2>2. p.priced \/ p.left >= n
      BY ONLY <1>11, <2>1, n \in Nat
    <2> QED
      BY <2>2 DEF Carries
  <1>13. pool' = Pay(pool, mul + n)
    <2>1. Charge(p, n) = Pay(p, n)
      BY <1>9, <1>12, ChargeIsPay DEF Shape
    <2>2. Pay(Pay(pool, mul), n) = Pay(pool, mul + n)
      BY <1>3, <1>8, PayTwice
    <2> QED
      BY <1>10, <2>1, <2>2 DEF p
  <1>14. real' = [real EXCEPT !.sum = @ + (mul + x)]
    BY <1>1, <1>3, <1>4, <1>7 DEF Runs
  <1>15. mode # "pure" => pool.left >= pool.liability + (mul + n)
    <2>1. mode # "pure" => p.left >= p.liability + n /\ p.left = pool.left - mul
      BY <1>3, <1>9, <1>11
    <2>2. pool.left \in Nat /\ pool.liability \in Nat /\ p.liability = pool.liability
      BY <1>3, <1>9 DEF Shape
    <2> QED
      BY ONLY <2>1, <2>2, mul \in Nat, n \in Nat
  <1>16. Quiet(risk', line', mode)
    BY <1>1, <1>3, ResetQuiet
  <1>17. PICK items : Then(items) /\ Owes(perStmt, mode, items, 0)
    <2>1. Lights(Operand(ExprFuel - 1)) /\ Lights(Index \o Operand(ExprFuel - 1))
      BY LightItems, LightConcat
    <2> QED
      BY <1>1, <2>1, LightsOwe
  <1>18. mul + n \in Nat /\ mul + x \in Nat /\ mul + x <= mul + n
    BY <1>6 DEF Multiplied
  <1>19. 0 <= Due(It) /\ UNCHANGED <<mode, callees, pairs, config>>
    BY <1>1, <1>2
  <1>20. Covers(mul + n, 0)
    BY <1>15 DEF Covers
  <1> QED
    BY <1>2, <1>13, <1>14, <1>16, <1>17, <1>18, <1>19, <1>20, Replaced

LEMMA SimpleStatementKeeps ==
  ASSUME GeneratorInv, SimpleStatement
  PROVE  GeneratorInv'
  <1>1. ASSUME NEW k \in {0, 1, 2, 3, 7}, NEW items, Arm(k, items), Lights(items)
        PROVE  GeneratorInv'
    BY <1>1, LightArmKeeps
  <1>2. ASSUME NEW k \in {0, 1, 4}, Plain(k)
        PROVE  GeneratorInv'
    BY <1>2, PlainKeeps
  <1>3. CASE \/ IncDec \/ ObservePoint \/ DeferPrint \/ MapRangeFold \/ Terminal \/ EarlyReturn
    <2>1. \E k \in {0, 1, 4} : Plain(k)
      BY <1>3 DEF IncDec, ObservePoint, DeferPrint, MapRangeFold, Terminal, EarlyReturn
    <2> QED
      BY <1>2, <2>1
  <1>4. CASE Assign \/ CompoundAssign \/ MapWrite \/ FieldAssign \/ AppendStmt
    <2>1. \E k \in {0, 1, 2, 3, 7}, f \in {ExprFuel, ExprFuel - 1} : Arm(k, <<Expr(f)>>)
      BY <1>4 DEF Assign, CompoundAssign, MapWrite, FieldAssign, AppendStmt
    <2> QED
      BY <1>1, <2>1, LightItems
  <1>5. CASE MapDelete \/ AssertOk \/ IfaceAssign \/ TypeSwitch
    <2>1. \E k \in {0, 1, 2, 3, 7} : Arm(k, <<>>)
      BY <1>5 DEF MapDelete, AssertOk, IfaceAssign, TypeSwitch
    <2> QED
      BY <1>1, <2>1, LightItems
  <1>6. CASE CommaOk \/ ElemAssign
    <2>1. Arm(0, <<>>) \/ Arm(0, Index) \/ Arm(0, Index \o <<Expr(ExprFuel)>>)
      BY <1>6 DEF CommaOk, CommaOkElem, ElemAssign
    <2>2. Lights(Index \o <<Expr(ExprFuel)>>)
      BY LightItems, LightConcat
    <2> QED
      BY <1>1, <2>1, <2>2, LightItems
  <1>7. CASE SliceTriple
    <2>1. Arm(7, <<Reset, Expr(ExprFuel - 1), Reset>>)
      BY <1>7 DEF SliceTriple
    <2>2. Lights(<<Reset, Expr(ExprFuel - 1), Reset>>)
      BY LightItems, LightTuples
    <2> QED
      BY <1>1, <2>1, <2>2
  <1>8. CASE MultiAssign
    <2> DEFINE X == Operand(ExprFuel - 1)
    <2>1. \/ Arm(0, <<>>)
          \/ Arm(0, ((<<Hot>> \o X) \o X) \o <<Witness>>)
          \/ Arm(0, (X \o Index) \o X)
      BY <1>8 DEF MultiAssign
    <2>2. Lights(X)
      BY LightItems
    <2> HIDE DEF X
    <2>3. Lights(((<<Hot>> \o X) \o X) \o <<Witness>>)
      BY <2>2, LightItems, LightConcat
    <2>4. Lights((X \o Index) \o X)
      BY <2>2, LightItems, LightConcat
    <2> QED
      BY <1>1, <2>1, <2>3, <2>4, LightItems
  <1>9. CASE TupleForward
    <2>1. PICK f \in Forms : Arm(0, <<Forward(f)>>)
      BY <1>9 DEF TupleForward
    <2>2. Lights(<<Forward(f)>>)
      BY LightItems
    <2> QED
      BY <1>1, <2>1, <2>2
  <1>10. CASE LinearizedRisk
    <2>1. /\ Arm(2, <<Reset, Spend, Expr(1), Reset, Spend, Expr(1), Reset>>)
          /\ mode = "subject"
      BY <1>10 DEF LinearizedRisk, pureMode
    <2> QED
      BY <2>1, OwesLinearized, ArmKeeps
  <1>11. CASE StringRangeFold \/ CallStmt
    BY <1>11, StringRangeFoldKeeps, CallStmtKeeps
  <1> QED
    BY <1>3, <1>4, <1>5, <1>6, <1>7, <1>8, <1>9, <1>10, <1>11 DEF SimpleStatement

-----------------------------------------------------------------------------
(* Expressions.                                                            *)

LEMMA DueIsNat ==
  ASSUME GeneratorInv, todo # <<>>, It.do \in Placed
  PROVE  Due(It) \in Nat /\ 0 <= Due(It)
  <1>1. Due(It) \in Nat
    BY Unfold, Successor
  <1> QED
    BY <1>1

\* Nothing is charged.
LEMMA FreeKeeps ==
  ASSUME GeneratorInv, todo # <<>>, It.do \in Placed,
         NEW items, NEW due \in Nat, due <= Due(It), Owes(perStmt, mode, items, due), Then(items),
         UNCHANGED <<pool, mode, callees, pairs, config, real>>,
         Quiet(risk', line', mode)
  PROVE  GeneratorInv'
  <1>1. Shape(pool) /\ pool.mul \in Nat \ {0}
        /\ real = [times |-> real.times, sum |-> real.sum] /\ real.sum \in Nat
    BY AtHand
  <1>2. pool' = Pay(pool, 0)
    <2>1. 0 \in Nat /\ Carries(pool, 0)
      BY <1>1 DEF Carries, Shape
    <2>2. Pay(pool, 0) = pool
      BY <1>1, <2>1, PayTwice
    <2> QED
      BY <2>2
  <1>3. real' = [real EXCEPT !.sum = @ + 0]
    BY <1>1
  <1>4. Due(It) \in Nat
    BY DueIsNat
  <1>5. PICK x \in Nat, n \in Nat : Multiplied(due, Due(It), pool.mul, x, n)
    BY <1>1, <1>4, Products
  <1>6. Covers(0, due)
    <2>1. due * pool.mul \in Nat /\ due * pool.mul <= Due(It) * pool.mul
      BY <1>5 DEF Multiplied
    <2>2. 0 + due * pool.mul = due * pool.mul
      BY <2>1
    <2> QED
      BY <2>1, <2>2 DEF Covers
  <1>7. PICK z \in Nat : /\ z <= z /\ pool' = Pay(pool, z) /\ real' = [real EXCEPT !.sum = @ + z]
                         /\ Covers(z, due)
    <2>1. 0 \in Nat /\ 0 <= 0
      OBVIOUS
    <2> QED
      BY <1>2, <1>3, <1>6, <2>1
  <1> QED
    BY <1>7, Replaced

\* What is called is paid at every pass of the open loops.
LEMMA PaidKeeps ==
  ASSUME GeneratorInv, todo # <<>>, It.do \in Placed,
         NEW items, Lights(items), Then(items),
         NEW cost \in Nat, NEW runs \in Nat, runs <= cost,
         Afford(pool, cost * pool.mul), pool' = Charge(pool, cost * pool.mul),
         real' = Runs(runs),
         UNCHANGED <<mode, callees, pairs, config>>, Quiet(risk', line', mode)
  PROVE  GeneratorInv'
  <1>1. /\ Shape(pool) /\ (pool.priced <=> mode = "pure") /\ pool.mul \in Nat \ {0}
        /\ real.times = pool.mul
    BY AtHand
  <1>2. PICK x \in Nat, n \in Nat : Multiplied(runs, cost, pool.mul, x, n)
    BY <1>1, Products
  <1>3. x = runs * pool.mul /\ n = cost * pool.mul /\ x <= n
    BY <1>2 DEF Multiplied
  <1>4. pool.priced \/ pool.left >= pool.liability + n
    BY <1>3 DEF Afford
  <1>5. Carries(pool, n)
    <2>1. pool.left \in Nat /\ pool.liability \in Nat
      BY <1>1 DEF Shape
    <2>2. pool.priced \/ pool.left >= n
      BY ONLY <1>4, <2>1, n \in Nat
    <2> QED
      BY <2>2 DEF Carries
  <1>6. pool' = Pay(pool, n)
    <2>1. pool.left \in Nat
      BY <1>1 DEF Shape
    <2> QED
      BY <1>3, <1>5, <2>1, ChargeIsPay
  <1>7. real' = [real EXCEPT !.sum = @ + x]
    BY <1>1, <1>3 DEF Runs
  <1>8. Owes(perStmt, mode, items, 0)
    BY LightsOwe
  <1>9. Due(It) \in Nat
    BY DueIsNat
  <1>10. Covers(n, 0)
    BY <1>1, <1>4 DEF Covers
  <1>11. 0 <= Due(It)
    BY <1>9
  <1> QED
    BY <1>3, <1>6, <1>7, <1>8, <1>10, <1>11, Replaced

LEMMA WrittenKeeps ==
  ASSUME GeneratorInv, NEW items, Written(items), Lights(items)
  PROVE  GeneratorInv'
  <1>1. /\ todo # <<>> /\ It.do \in Placed /\ Then(items)
        /\ UNCHANGED <<pool, risk, mode, callees, pairs, config, line, real>>
    BY DEF Written, At, It, Placed
  <1>2. Quiet(risk', line', mode)
    BY <1>1, AtHand
  <1>3. Owes(perStmt, mode, items, 0) /\ 0 <= Due(It)
    BY <1>1, LightsOwe, DueIsNat
  <1> QED
    BY <1>1, <1>2, <1>3, FreeKeeps

\* A panic site is written where no site and no witness is.
LEMMA SpendQuiet ==
  ASSUME NEW m, Quiet(risk, line, m), ~risk.spent, ~risk.wit, m # "pure", spendRisk
  PROVE  Quiet(risk', line', m)
  <1>1. line.hot = 0 /\ ~line.wit /\ ~risk.clash
    BY DEF Quiet
  <1>2. risk' = [risk EXCEPT !.spent = TRUE] /\ line' = [line EXCEPT !.hot = 1]
    BY <1>1 DEF spendRisk
  <1>3. /\ risk' = [spent |-> TRUE, wit |-> risk.wit, clash |-> risk.clash]
        /\ line' = [hot |-> 1, wit |-> line.wit]
    BY <1>2 DEF Quiet
  <1>4. /\ risk' = [spent |-> risk'.spent, wit |-> risk'.wit, clash |-> risk'.clash]
        /\ risk'.clash = risk.clash
    BY <1>3
  <1>5. risk'.spent
    BY <1>3
  <1>6. line' = [hot |-> line'.hot, wit |-> line'.wit] /\ line'.hot = 1 /\ line'.wit = line.wit
    BY <1>3
  <1> QED
    BY <1>1, <1>4, <1>5, <1>6 DEF Quiet

LEMMA WitnessQuiet ==
  ASSUME NEW m, Quiet(risk, line, m), ~risk.spent,
         risk' = [risk EXCEPT !.wit = TRUE], line' = [line EXCEPT !.wit = TRUE]
  PROVE  Quiet(risk', line', m)
  <1>1. line.hot = 0 /\ ~risk.clash
    BY DEF Quiet
  <1>2. /\ risk' = [spent |-> risk.spent, wit |-> TRUE, clash |-> risk.clash]
        /\ line' = [hot |-> line.hot, wit |-> TRUE]
    BY DEF Quiet
  <1>3. /\ risk' = [spent |-> risk'.spent, wit |-> risk'.wit, clash |-> risk'.clash]
        /\ risk'.clash = risk.clash
    BY <1>2
  <1>4. risk'.wit
    BY <1>2
  <1>5. line' = [hot |-> line'.hot, wit |-> line'.wit] /\ line'.hot = 0
    BY <1>1, <1>2
  <1> QED
    BY <1>1, <1>3, <1>4, <1>5 DEF Quiet

\* What a hoisted site and the next line of a statement find.
LEMMA ResetKeeps ==
  ASSUME GeneratorInv, NextStatement
  PROVE  GeneratorInv'
  <1>1. /\ todo # <<>> /\ It.do = "reset" /\ resetRisk /\ todo' = <<>> \o Tail(todo)
        /\ UNCHANGED <<pool, mode, callees, pairs, config, real>>
    BY DEF NextStatement, At, It, Then
  <1>2. PICK a \in Entry, b \in Entry :
          /\ Follows(perStmt, It, a, b) /\ Covered(perStmt, Tail(todo), b)
          /\ Accounts(perStmt, pool, real, mode, a) /\ Order(risk, line, mode, a)
    BY <1>1, Unfold
  <1>3. Quiet(risk', line', mode) /\ ~risk'.spent /\ ~risk'.wit /\ line' = NewLine
    BY <1>1, <1>2, ResetQuiet DEF Order
  <1>4. Order(risk', line', mode, b)
    BY <1>3 DEF Order
  <1>5. Pays(It, a, b) /\ b.mul = a.mul /\ Kept(It) = 0 /\ Due(It) = 0
    BY <1>1, <1>2 DEF Follows, Kept, Due
  <1>6. /\ b.mode = a.mode /\ b.vars = 0 /\ a.vars = 0
        /\ b.kept \in Nat /\ b.owed \in Nat /\ a.mul \in Nat
        /\ a.mode # "pure" => a.owed >= b.owed + 0 * a.mul /\ a.kept = b.kept + 0
    BY <1>5 DEF Pays, Entry
  <1>7. a.mode # "pure" => a.owed >= b.owed /\ a.kept = b.kept
    BY <1>6, Times
  <1>8. Accounts(perStmt, pool, real, mode, b)
    <2>1. /\ mode # "pure" => pool.left >= a.owed /\ pool.liability = a.kept
          /\ pool.left \in Nat /\ a.owed \in Nat
      BY <1>2 DEF Accounts, Entry
    <2>2. mode = a.mode
      BY <1>2 DEF Accounts
    <2>3. mode # "pure" => /\ pool.left >= b.owed /\ pool.liability = b.kept
                          /\ b.vars <= b.owed /\ a.vars = b.vars
      BY <1>6, <1>7, <2>1, <2>2
    <2> QED
      BY <1>2, <1>5, <1>6, <2>3 DEF Accounts
  <1>9. todo' = Tail(todo)
    <2>1. PICK S : Tail(todo) \in Seq(S)
      BY <1>2 DEF Covered, IsSeq
    <2> QED
      BY <1>1, <2>1
  <1>10. PricesKept'
    BY <1>1, Unfold, PricesStay
  <1> QED
    BY <1>1, <1>2, <1>4, <1>8, <1>9, <1>10, Refold

LEMMA ExpressionKeeps ==
  ASSUME GeneratorInv, CountBool = FALSE, Expression
  PROVE  GeneratorInv'
  <1>1. CASE IntOperands \/ BuiltinOperands \/ StringOperands \/ BoolOperands
    <2>1. \/ Written(<<Inner>>) \/ Written(<<Inner, Inner>>) \/ Written(<<Inner, Hot>>)
          \/ Written(Index) \/ Written(<<Inner, Witness, Inner, Witness>>) \/ Written(<<Hot>>)
          \/ Written(<<Inner, Inner, Witness, Witness>>)
      BY <1>1 DEF IntOperands, BuiltinOperands, StringOperands, BoolOperands
    <2>2. Light(Inner) /\ Light(Hot) /\ Light(Witness)
      BY LightItems DEF Inner
    <2>3. /\ Lights(<<Inner>>) /\ Lights(<<Inner, Inner>>) /\ Lights(<<Inner, Hot>>)
          /\ Lights(Index) /\ Lights(<<Inner, Witness, Inner, Witness>>) /\ Lights(<<Hot>>)
          /\ Lights(<<Inner, Inner, Witness, Witness>>)
      BY <2>2, LightItems, LightTuples
    <2> QED
      BY <2>1, <2>3, WrittenKeeps
  <1>2. CASE Leaf \/ NotDrawn
    <2>1. /\ todo # <<>> /\ It.do \in Placed /\ Then(<<>>)
          /\ UNCHANGED <<pool, risk, mode, callees, pairs, config, line, real>>
      BY <1>2 DEF Leaf, NotDrawn, At, It, Placed
    <2>2. Quiet(risk', line', mode)
      BY <2>1, AtHand
    <2>3. Owes(perStmt, mode, <<>>, 0) /\ 0 <= Due(It)
      BY <2>1, LightItems, LightsOwe, DueIsNat
    <2> QED
      BY <2>1, <2>2, <2>3, FreeKeeps
  <1>3. CASE IntCall
    <2>1. PICK c \in 1..Len(callees) :
            /\ At("expr") /\ Afford(pool, callees[c].cost * pool.mul)
            /\ pool' = Charge(pool, callees[c].cost * pool.mul)
            /\ real' = Runs(callees[c].runs)
            /\ Then(Operand(It.fuel - 1))
            /\ UNCHANGED <<risk, mode, callees, pairs, config, line>>
      BY <1>3 DEF IntCall, Affordable
    <2>2. todo # <<>> /\ It.do \in Placed
      BY <2>1 DEF At, It, Placed
    <2>3. /\ callees[c].cost \in Nat /\ callees[c].runs \in Nat
          /\ callees[c].runs <= callees[c].cost
      BY <2>2, AtHand, PriceOf
    <2>4. Quiet(risk', line', mode)
      BY <2>1, <2>2, AtHand
    <2>5. Lights(Operand(It.fuel - 1))
      BY LightItems
    <2> QED
      BY <2>1, <2>2, <2>3, <2>4, <2>5, PaidKeeps
  <1>4. CASE BoolCall
    <2>1. /\ At("expr") /\ Then(Operand(It.fuel - 1))
          /\ UNCHANGED <<pool, risk, mode, callees, pairs, config, line, real>>
      BY <1>4 DEF BoolCall
    <2>2. todo # <<>> /\ It.do \in Placed
      BY <2>1 DEF At, It, Placed
    <2>3. Quiet(risk', line', mode)
      BY <2>1, <2>2, AtHand
    <2>4. Owes(perStmt, mode, Operand(It.fuel - 1), 0) /\ 0 <= Due(It)
      BY <2>2, LightItems, LightsOwe, DueIsNat
    <2> QED
      BY <2>1, <2>2, <2>3, <2>4, FreeKeeps
  <1>5. CASE witness
    <2>1. /\ At("witness") /\ ~risk.spent
          /\ Afford(pool, 2 * pool.mul) /\ pool' = Charge(pool, 2 * pool.mul)
          /\ real' = Runs(2) /\ Then(<<>>)
          /\ risk' = [risk EXCEPT !.wit = TRUE] /\ line' = [line EXCEPT !.wit = TRUE]
          /\ UNCHANGED <<mode, callees, pairs, config>>
      BY <1>5 DEF witness
    <2>2. todo # <<>> /\ It.do \in Placed
      BY <2>1 DEF At, It, Placed
    <2>3. Quiet(risk', line', mode)
      BY <2>1, <2>2, AtHand, WitnessQuiet
    <2>4. 2 \in Nat /\ 2 <= 2
      OBVIOUS
    <2> QED
      BY <2>1, <2>2, <2>3, <2>4, LightItems, PaidKeeps
  <1>6. CASE HotSite \/ HoistedSite
    <2>1. /\ todo # <<>> /\ It.do \in Placed /\ Then(<<>>) /\ spendRisk
          /\ UNCHANGED <<pool, mode, callees, pairs, config, real>>
      BY <1>6 DEF HotSite, HoistedSite, At, It, Placed
    <2>2. ~risk.spent /\ ~risk.wit /\ mode # "pure"
      <3>1. CASE HotSite
        BY <3>1 DEF HotSite, riskOK, pureMode
      <3>2. CASE HoistedSite
        <4>1. It.do = "spend"
          BY <3>2 DEF HoistedSite, At, It
        <4>2. PICK a \in Entry, b \in Entry :
                /\ Follows(perStmt, It, a, b)
                /\ Accounts(perStmt, pool, real, mode, a) /\ Order(risk, line, mode, a)
          BY <2>1, Unfold
        <4>3. a.mode = "subject" /\ a.risk = "none"
          BY <4>1, <4>2 DEF Follows
        <4> QED
          BY <4>2, <4>3 DEF Order, Accounts
      <3> QED
        BY <1>6, <3>1, <3>2
    <2>3. Quiet(risk', line', mode)
      BY <2>1, <2>2, AtHand, SpendQuiet
    <2>4. Owes(perStmt, mode, <<>>, 0) /\ 0 <= Due(It)
      BY <2>1, LightItems, LightsOwe, DueIsNat
    <2> QED
      BY <2>1, <2>3, <2>4, FreeKeeps
  <1>7. CASE NextStatement
    BY <1>7, ResetKeeps
  <1> QED
    BY <1>1, <1>2, <1>3, <1>4, <1>5, <1>6, <1>7 DEF Expression

-----------------------------------------------------------------------------
(* Blocks.                                                                 *)

\* One statement is charged where the first item owed it.
LEMMA LineKeeps ==
  ASSUME GeneratorInv, todo # <<>>, It.do \in Placed,
         NEW items, NEW due \in Nat, due + 1 <= Due(It),
         Owes(perStmt, mode, items, due), Then(items),
         pool' = Charge(pool, pool.mul), real' = Runs(1),
         UNCHANGED <<mode, callees, pairs, config>>, Quiet(risk', line', mode)
  PROVE  GeneratorInv'
  <1>1. /\ Shape(pool) /\ (pool.priced <=> mode = "pure") /\ pool.mul \in Nat \ {0}
        /\ real.times = pool.mul
    BY AtHand
  <1>2. PICK g : g = Due(It) * pool.mul /\ (mode # "pure" => pool.left >= g)
    BY AtHand
  <1>3. PICK j \in Nat : Due(It) = 1 + j /\ due <= j
    <2>1. Due(It) \in Nat
      BY DueIsNat
    <2>2. Due(It) - 1 \in Nat /\ Due(It) = 1 + (Due(It) - 1) /\ due <= Due(It) - 1
      BY <2>1
    <2> QED
      BY <2>2
  <1>4. PICK mul \in Nat : mul = pool.mul
    BY <1>1
  <1>5. PICK x \in Nat, n \in Nat : Multiplied(due, j, mul, x, n)
    BY <1>3, Products
  <1>6. /\ x = due * pool.mul /\ mul + x <= mul + n /\ mul + n = Due(It) * pool.mul /\ mul + n = g
    BY <1>3, <1>4, <1>5, <1>2 DEF Multiplied
  <1>7. Carries(pool, mul)
    <2>1. mode # "pure" => pool.left >= mul + n
      BY ONLY <1>6, <1>2
    <2>2. pool.left \in Nat
      BY <1>1 DEF Shape
    <2>3. mode # "pure" => pool.left >= mul
      BY ONLY <2>1, <2>2, mul \in Nat, n \in Nat
    <2> QED
      BY <1>1, <2>3 DEF Carries
  <1>8. pool' = Pay(pool, mul)
    BY <1>1, <1>4, <1>7, ChargeIsPay DEF Shape
  <1>9. real' = [real EXCEPT !.sum = @ + mul]
    <2>1. 1 * mul = mul /\ real.times = mul
      BY <1>1, <1>4
    <2>2. real' = [real EXCEPT !.sum = @ + 1 * real.times]
      BY DEF Runs
    <2> QED
      BY ONLY <2>1, <2>2
  <1>10. Covers(mul, due)
    BY <1>6 DEF Covers
  <1>11. mul <= mul /\ due <= Due(It)
    BY <1>3
  <1> QED
    BY <1>8, <1>9, <1>10, <1>11, Replaced

LEMMA OwesOne ==
  ASSUME NEW w, NEW m, NEW it, NEW d \in Nat, Heavy(it, d)
  PROVE  Owes(w, m, <<it>>, d) /\ IsSeq(<<it>>)
  <1> DEFINE s == <<it>>
             S == {it}
  <1>1. Len(s) = 1 /\ s[1] = it /\ s \in Seq(S)
    OBVIOUS
  <1> HIDE DEF s, S
  <1>2. IsSeq(s)
    BY <1>1 DEF IsSeq
  <1>3. \A i \in 1..1 : Heavy(s[i], d)
    BY <1>1
  <1>4. Owes(w, m, s, 1 * d)
    BY <1>1, <1>2, <1>3, OwesEach
  <1>5. 1 * d = d
    OBVIOUS
  <1> QED
    BY <1>2, <1>4, <1>5 DEF s

LEMMA OwesStatements ==
  ASSUME NEW w, NEW m, NEW n \in Nat, NEW s, s = [i \in 1..n |-> s[i]],
         \A i \in 1..n : s[i].do = "stmt"
  PROVE  Owes(w, m, s, n) /\ IsSeq(s)
  <1> DEFINE S == {s[i] : i \in 1..n}
  <1>1. s \in [1..n -> S]
    BY Zenon
  <1> HIDE DEF S
  <1>2. s \in Seq(S) /\ Len(s) = n
    BY <1>1
  <1>3. \A i \in 1..n : Heavy(s[i], 1)
    BY DEF Heavy, Due
  <1>4. IsSeq(s)
    BY <1>2 DEF IsSeq
  <1>5. Owes(w, m, s, n * 1)
    BY <1>2, <1>3, <1>4, OwesEach
  <1>6. n * 1 = n
    OBVIOUS
  <1> QED
    BY <1>4, <1>5, <1>6

LEMMA SlotsOwe ==
  ASSUME NEW w, NEW m, NEW n \in Nat, NEW d, NEW inLoop, NEW inner
  PROVE  Owes(w, m, Slots(n, d, inLoop, inner), n) /\ IsSeq(Slots(n, d, inLoop, inner))
  <1> DEFINE s == Slots(n, d, inLoop, inner)
  <1>1. s = [i \in 1..n |-> s[i]] /\ \A i \in 1..n : s[i].do = "stmt"
    BY DEF Slots, Stmt
  <1> HIDE DEF s
  <1>2. Owes(w, m, s, n) /\ IsSeq(s)
    BY <1>1, OwesStatements
  <1> QED
    BY <1>2 DEF s

\* A block has one slot or two.
LEMMA BlockMax ==
  ASSUME GeneratorInv, At("block")
  PROVE  todo # <<>> /\ It.do \in Placed /\ It.max \in {1, 2} /\ Due(It) = It.max + 2
  <1>1. todo # <<>> /\ It.do = "block" /\ It.do \in Placed
    BY DEF At, It, Placed
  <1>2. PICK a \in Entry, b \in Entry : Follows(perStmt, It, a, b)
    BY <1>1, Unfold
  <1> QED
    BY <1>1, <1>2 DEF Follows, Pays, Inside, Due

LEMMA BlockBodyKeeps ==
  ASSUME GeneratorInv, BlockBody
  PROVE  GeneratorInv'
  <1>1. PICK n \in 1..It.max : /\ At("block") /\ Then(Slots(n, It.depth - 1, It.inLoop, FALSE))
                               /\ UNCHANGED <<pool, risk, mode, callees, pairs, config, line, real>>
    BY DEF BlockBody
  <1>2. todo # <<>> /\ It.do \in Placed /\ It.max \in {1, 2} /\ Due(It) = It.max + 2
    BY <1>1, BlockMax
  <1>3. n \in Nat /\ n <= Due(It)
    BY <1>2
  <1>4. PICK items : Then(items) /\ Owes(perStmt, mode, items, n)
    BY <1>1, <1>3, SlotsOwe
  <1>5. Quiet(risk', line', mode)
    BY <1>1, <1>2, AtHand
  <1> QED
    BY <1>1, <1>2, <1>3, <1>4, <1>5, FreeKeeps

LEMMA BlockWithDeclarationKeeps ==
  ASSUME GeneratorInv, BlockWithDeclaration
  PROVE  GeneratorInv'
  <1>1. PICK n \in 1..It.max :
          /\ At("block") /\ resetRisk /\ pool' = Charge(pool, pool.mul) /\ real' = Runs(1)
          /\ Then((<<Expr(ExprFuel)>> \o Slots(n, It.depth - 1, It.inLoop, TRUE)) \o <<Project>>)
          /\ UNCHANGED <<mode, callees, pairs, config>>
    BY DEF BlockWithDeclaration
  <1>2. todo # <<>> /\ It.do \in Placed /\ It.max \in {1, 2} /\ Due(It) = It.max + 2
    BY <1>1, BlockMax
  <1>3. n \in Nat /\ n + 1 \in Nat /\ (n + 1) + 1 <= Due(It) /\ 0 \in Nat /\ 1 \in Nat
    BY <1>2
  <1> DEFINE a == <<Expr(ExprFuel)>>
             b == Slots(n, It.depth - 1, It.inLoop, TRUE)
             c == <<Project>>
  <1>4. Owes(perStmt, mode, a, 0) /\ IsSeq(a)
    <2>1. Lights(a)
      BY LightItems
    <2> HIDE DEF a
    <2> QED
      BY <2>1, LightsOwe DEF Lights, IsSeq
  <1>5. Owes(perStmt, mode, b, n) /\ IsSeq(b)
    BY <1>3, SlotsOwe
  <1>6. Owes(perStmt, mode, c, 1) /\ IsSeq(c)
    <2>1. Heavy(Project, 1)
      BY DEF Heavy, Project, Due
    <2> QED
      BY <1>3, <2>1, OwesOne
  <1>7. Then((a \o b) \o c)
    BY <1>1
  <1> HIDE DEF a, b, c
  <1>8. Owes(perStmt, mode, a \o b, 0 + n) /\ IsSeq(a \o b)
    BY <1>3, <1>4, <1>5, OwesBoth
  <1>9. 0 + n = n
    BY <1>3
  <1>10. Owes(perStmt, mode, (a \o b) \o c, n + 1)
    BY <1>3, <1>6, <1>8, <1>9, OwesBoth
  <1>11. Quiet(risk', line', mode)
    BY <1>1, <1>2, AtHand, ResetQuiet
  <1> QED
    BY <1>1, <1>2, <1>3, <1>7, <1>10, <1>11, LineKeeps

LEMMA ProjectInnerKeeps ==
  ASSUME GeneratorInv, ProjectInner
  PROVE  GeneratorInv'
  <1>1. /\ todo # <<>> /\ It.do \in Placed /\ Due(It) = 1 /\ line' = NewLine /\ Then(<<>>)
        /\ pool' = Charge(pool, pool.mul) /\ real' = Runs(1)
        /\ UNCHANGED <<risk, mode, callees, pairs, config>>
    BY DEF ProjectInner, At, It, Placed, Due
  <1>2. Quiet(risk', line', mode)
    BY <1>1, AtHand, PlainQuiet
  <1>3. Owes(perStmt, mode, <<>>, 0) /\ 0 + 1 <= Due(It) /\ 0 \in Nat
    BY <1>1, LightItems, LightsOwe
  <1> QED
    BY <1>1, <1>2, <1>3, LineKeeps

LEMMA HeavyBlock ==
  ASSUME NEW d, NEW max \in {1, 2}, NEW inLoop
  PROVE  Heavy(Block(d, max, inLoop), max + 2)
  BY DEF Heavy, Block, Due

LEMMA ElseKeeps ==
  ASSUME GeneratorInv, ElseBranch
  PROVE  GeneratorInv'
  <1>1. /\ todo # <<>> /\ It.do \in Placed /\ Due(It) = 4
        /\ UNCHANGED <<pool, risk, mode, callees, pairs, config, line, real>>
        /\ Then(<<>>) \/ Then(<<Block(It.depth, 2, It.inLoop)>>)
    BY DEF ElseBranch, At, It, Placed, Due
  <1>2. Quiet(risk', line', mode)
    BY <1>1, AtHand
  <1>3. CASE Then(<<>>)
    <2>1. Owes(perStmt, mode, <<>>, 0) /\ 0 <= Due(It) /\ 0 \in Nat
      BY <1>1, LightItems, LightsOwe
    <2> QED
      BY <1>1, <1>2, <1>3, <2>1, FreeKeeps
  <1>4. CASE Then(<<Block(It.depth, 2, It.inLoop)>>)
    <2>1. Heavy(Block(It.depth, 2, It.inLoop), 4)
      BY HeavyBlock
    <2>2. Owes(perStmt, mode, <<Block(It.depth, 2, It.inLoop)>>, 4) /\ 4 <= Due(It) /\ 4 \in Nat
      BY <1>1, <2>1, OwesOne
    <2> QED
      BY <1>1, <1>2, <1>4, <2>2, FreeKeeps
  <1> QED
    BY <1>1, <1>3, <1>4

-----------------------------------------------------------------------------
(* Statements with a body.                                                 *)

\* f is kept free, and the multiplier becomes k.
Opened(p, f, k) == [CommitFloor(p, f) EXCEPT !.mul = k]

LEMMA OpenedFields ==
  ASSUME NEW p, Shape(p), NEW f \in Nat, NEW k
  PROVE  /\ Shape(Opened(p, f, k)) /\ Opened(p, f, k).mul = k
         /\ Opened(p, f, k).breached = p.breached /\ Opened(p, f, k).priced = p.priced
         /\ Opened(p, f, k).cost = p.cost /\ Opened(p, f, k).left = p.left
         /\ p.priced => Opened(p, f, k).liability = p.liability
         /\ ~p.priced => Opened(p, f, k).liability = p.liability + f
  <1>1. p.left \in Nat /\ p.liability \in Nat /\ p.cost \in Nat /\ p.liability + f \in Nat
    BY DEF Shape
  <1>2. CASE p.priced
    <2>1. Opened(p, f, k) = [p EXCEPT !.mul = k]
      BY <1>2 DEF CommitFloor, Opened
    <2>2. Opened(p, f, k) =
            [left |-> p.left, liability |-> p.liability, mul |-> k,
             breached |-> p.breached, priced |-> p.priced, cost |-> p.cost]
      BY <2>1 DEF Shape
    <2> QED
      BY <1>1, <1>2, <2>2 DEF Shape
  <1>3. CASE ~p.priced
    <2>1. Opened(p, f, k) = [[p EXCEPT !.liability = @ + f] EXCEPT !.mul = k]
      BY <1>3 DEF CommitFloor, Opened
    <2>2. Opened(p, f, k) =
            [left |-> p.left, liability |-> p.liability + f, mul |-> k,
             breached |-> p.breached, priced |-> p.priced, cost |-> p.cost]
      BY <2>1 DEF Shape
    <2> QED
      BY <1>1, <1>3, <2>2 DEF Shape
  <1> QED
    BY <1>2, <1>3

\* The slot is charged, f is kept free and n charged under a gate of g, and
\* the multiplier becomes k.
LEMMA OpenFields ==
  ASSUME Shape(pool), pool.mul \in Nat, Carries(pool, pool.mul), NEW f \in Nat, NEW n \in Nat,
         NEW g \in Nat, n <= g, NEW k, Afford(Charge(pool, pool.mul), g), NEW q,
         q = Charge(Opened(Charge(pool, pool.mul), f, k), n)
  PROVE  /\ Shape(q) /\ q.mul = k /\ q.breached = pool.breached /\ q.priced = pool.priced
         /\ pool.priced => q.cost = pool.cost + pool.mul + n
         /\ ~pool.priced => /\ q.left = (pool.left - pool.mul) - n
                            /\ q.liability = pool.liability + f
                            /\ pool.left - pool.mul >= pool.liability + g
  <1> DEFINE p == Pay(pool, pool.mul)
  <1>1. /\ Charge(pool, pool.mul) = p /\ Shape(p) /\ p.liability = pool.liability
        /\ p.breached = pool.breached /\ p.priced = pool.priced
        /\ pool.priced => p.cost = pool.cost + pool.mul
        /\ ~pool.priced => p.left = pool.left - pool.mul
    <2>1. Charge(pool, pool.mul) = p
      BY ChargeIsPay DEF Shape
    <2> QED
      BY <2>1, PayFields
  <1> HIDE DEF p
  <1>2. p.priced \/ p.left >= p.liability + g
    BY <1>1 DEF Afford
  <1> DEFINE c == Opened(p, f, k)
  <1>3. /\ Shape(c) /\ c.mul = k /\ c.breached = p.breached /\ c.priced = p.priced
        /\ c.cost = p.cost /\ c.left = p.left
        /\ p.priced => c.liability = p.liability
        /\ ~p.priced => c.liability = p.liability + f
    BY <1>1, OpenedFields
  <1>4. q = Charge(c, n)
    BY <1>1
  <1> HIDE DEF c
  <1>5. /\ p.left \in Nat /\ p.liability \in Nat /\ p.cost \in Nat
        /\ pool.left \in Nat /\ pool.liability \in Nat
    BY <1>1 DEF Shape
  <1>6. p.priced \/ p.left >= n
    BY ONLY <1>2, <1>5, n \in Nat, g \in Nat, n <= g
  <1>7. Carries(c, n)
    BY <1>3, <1>6 DEF Carries
  <1>8. q = Pay(c, n)
    <2>1. c.left \in Nat
      BY <1>3, <1>5
    <2> QED
      BY <1>4, <1>7, <2>1, ChargeIsPay
  <1>9. /\ Shape(q) /\ q.mul = c.mul /\ q.breached = c.breached /\ q.priced = c.priced
        /\ q.liability = c.liability
        /\ c.priced => q.cost = c.cost + n
        /\ ~c.priced => q.left = c.left - n
    <2>1. /\ Shape(Pay(c, n))
          /\ Pay(c, n).mul = c.mul /\ Pay(c, n).liability = c.liability
          /\ Pay(c, n).breached = c.breached /\ Pay(c, n).priced = c.priced
          /\ c.priced => Pay(c, n).cost = c.cost + n
          /\ ~c.priced => Pay(c, n).left = c.left - n
      BY <1>3, <1>7, PayFields
    <2> QED
      BY <1>8, <2>1
  <1>10. q.mul = k /\ q.breached = pool.breached /\ q.priced = pool.priced
    BY <1>1, <1>3, <1>9
  <1>11. pool.priced => q.cost = pool.cost + pool.mul + n
    BY <1>1, <1>3, <1>9
  <1>12. ~pool.priced => q.left = (pool.left - pool.mul) - n /\ q.liability = pool.liability + f
    BY <1>1, <1>3, <1>9
  <1>13. ~pool.priced => pool.left - pool.mul >= pool.liability + g
    BY <1>1, <1>2
  <1> QED
    BY <1>9, <1>10, <1>11, <1>12, <1>13

LEMMA PushOne ==
  ASSUME NEW w, NEW it, NEW rest, NEW a \in Entry, NEW b \in Entry, Follows(w, it, a, b),
         Covered(w, rest, b)
  PROVE  Covered(w, <<it>> \o rest, a)
  <1> DEFINE s == <<it>>
             M == <<a, b>>
             S == {it}
  <1>1. Len(s) = 1 /\ s[1] = it /\ s \in Seq(S) /\ M[1] = a /\ M[2] = b
    OBVIOUS
  <1> HIDE DEF s, M, S
  <1>2. IsSeq(s)
    BY <1>1 DEF IsSeq
  <1>3. \A i \in 1..Len(s) + 1 : M[i] \in Entry
    <2>1. \A i \in 1..Len(s) + 1 : i = 1 \/ i = 2
      BY <1>1
    <2> QED
      BY <1>1, <2>1
  <1>4. \A i \in 1..Len(s) : Follows(w, s[i], M[i], M[i + 1])
    <2>1. \A i \in 1..Len(s) : i = 1 /\ i + 1 = 2
      BY <1>1
    <2> QED
      BY <1>1, <2>1
  <1>5. Covered(w, rest, M[Len(s) + 1])
    <2>1. Len(s) + 1 = 2
      BY <1>1
    <2> QED
      BY <1>1, <2>1
  <1>6. Covered(w, s \o rest, M[1])
    BY <1>2, <1>3, <1>4, <1>5, Pushed
  <1> QED
    BY <1>1, <1>6 DEF s

LEMMA CommitIsOpened ==
  ASSUME NEW p, Shape(p), NEW f \in Nat
  PROVE  /\ CommitFloor(p, f) = Opened(p, f, p.mul)
         /\ \A t : [CommitFloor(p, f) EXCEPT !.mul = @ * t] = Opened(p, f, p.mul * t)
  <1>1. CommitFloor(p, f).mul = p.mul
    BY DEF CommitFloor, Shape
  <1>2. CommitFloor(p, f) = [CommitFloor(p, f) EXCEPT !.mul = p.mul]
    <2>1. CASE p.priced
      BY <2>1 DEF CommitFloor, Shape
    <2>2. CASE ~p.priced
      <3>1. CommitFloor(p, f) =
              [left |-> p.left, liability |-> p.liability + f, mul |-> p.mul,
               breached |-> p.breached, priced |-> p.priced, cost |-> p.cost]
        BY <2>2 DEF CommitFloor, Shape
      <3> QED
        BY <3>1
    <2> QED
      BY <2>1, <2>2
  <1> QED
    BY <1>1, <1>2 DEF Opened

\* The entry before the end of such a statement.
Held(r, f, k) == [mode |-> r.mode, mul |-> k, kept |-> r.kept + f, owed |-> r.owed,
                  vars |-> r.vars, risk |-> r.risk]

LEMMA HeldEntry ==
  ASSUME NEW r \in Entry, NEW f \in Nat, NEW k \in Nat \ {0}
  PROVE  /\ Held(r, f, k) \in Entry /\ Held(r, f, k).mode = r.mode
         /\ Held(r, f, k).mul = k /\ Held(r, f, k).kept = r.kept + f
         /\ Held(r, f, k).owed = r.owed /\ Held(r, f, k).vars = r.vars
         /\ Held(r, f, k).risk = r.risk
  <1>1. /\ r.mode \in {"subject", "pure", "function"} /\ r.kept + f \in Nat
        /\ r.owed \in Nat /\ r.vars \in Nat /\ r.risk \in {"any", "none"}
    BY DEF Entry
  <1> QED
    BY <1>1 DEF Held, Entry

\* The end of the statement: what was kept free is released.
Ends(last, f, k) ==
  /\ last.floor = f
  /\ \/ last.do = "release" /\ k = pool.mul
     \/ last.do = "endloop" /\ last.mul = pool.mul /\ last.times = pool.mul

\* What the bodies owe was kept free.
LEMMA Opens ==
  ASSUME GeneratorInv, At("stmt"), NEW f \in Nat, NEW g \in Nat, NEW n \in Nat, n <= g,
         NEW k \in Nat \ {0},
         Afford(Charge(pool, pool.mul), g),
         pool' = Charge(Opened(Charge(pool, pool.mul), f, k), n),
         real' = [times |-> k, sum |-> real.sum + (pool.mul + n)],
         NEW last, Ends(last, f, k),
         NEW items, NEW due \in Nat, NEW h \in Nat, h = due * k, h <= f, h + n <= g,
         Owes(perStmt, mode, items, due), todo' = items \o (<<last>> \o Tail(todo)),
         UNCHANGED <<mode, callees, pairs, config>>, Quiet(risk', line', mode)
  PROVE  GeneratorInv'
  <1> DEFINE w == perStmt
  <1>1. todo # <<>> /\ It.do = "stmt" /\ It.do \in Placed /\ Due(It) = 1
    BY DEF At, It, Placed, Due
  <1>2. PICK a \in Entry, b \in Entry :
          /\ Follows(w, It, a, b) /\ Covered(w, Tail(todo), b)
          /\ Accounts(w, pool, real, mode, a) /\ Order(risk, line, mode, a)
    BY <1>1, Unfold
  <1>3. PricesKept /\ w \in Nat
    BY <1>1, Unfold
  <1> HIDE DEF w
  <1>4. /\ b.risk = "any" /\ b.mode = a.mode /\ b.mul = a.mul /\ a.vars = 0 /\ b.vars = 0
        /\ b.mul \in Nat /\ b.owed \in Nat /\ b.kept \in Nat
    BY <1>1, <1>2, Successor
  <1>5. /\ Shape(pool) /\ ~pool.breached /\ (pool.priced <=> mode = "pure")
        /\ pool.mul \in Nat \ {0} /\ real.times = pool.mul /\ real.sum \in Nat
    BY <1>1, AtHand
  <1>6. mode = a.mode /\ pool.mul = a.mul
    BY <1>2 DEF Accounts
  <1>7. mode # "pure" => /\ pool.liability = b.kept /\ b.owed <= b.kept
                        /\ pool.left >= pool.mul
    <2>1. a.mode # "pure" => /\ a.kept = b.kept /\ a.owed >= b.owed + 1 * b.mul
                            /\ b.owed + 1 * b.mul <= b.kept
      BY <1>1, <1>2, Successor
    <2>2. mode # "pure" => pool.left >= a.owed /\ pool.liability = a.kept
      BY <1>2 DEF Accounts
    <2>3. a.owed \in Nat /\ 1 * b.mul = b.mul /\ pool.left \in Nat
      BY <1>4, <1>5 DEF Entry, Shape
    <2>4. mode # "pure" => /\ a.kept = b.kept /\ a.owed >= b.owed + b.mul
                          /\ b.owed + b.mul <= b.kept
      BY <1>6, <2>1, <2>3
    <2> QED
      BY <1>4, <1>6, <2>2, <2>3, <2>4
  <1> DEFINE r == Held(b, f, k)
  <1>8. /\ r \in Entry /\ r.mode = b.mode /\ r.mul = k /\ r.kept = b.kept + f
        /\ r.owed = b.owed /\ r.vars = b.vars /\ r.risk = b.risk
    BY HeldEntry
  <1> HIDE DEF r
  <1>9. Follows(w, last, r, b)
    <2>1. Due(last) = 0 /\ Kept(last) = f /\ last.do \in {"release", "endloop"}
          /\ last.floor \in Nat
      BY DEF Ends, Due, Kept
    <2>2. r.mode # "pure" => r.owed >= b.owed + 0 * r.mul /\ r.kept = b.kept + f /\ r.owed <= r.kept
      <3>1. 0 * r.mul = 0
        BY <1>8
      <3>2. r.mode # "pure" => b.owed <= b.kept
        BY <1>4, <1>6, <1>7, <1>8
      <3> QED
        BY <1>4, <1>8, <3>1, <3>2
    <2>3. Pays(last, r, b)
      BY <1>4, <1>8, <2>1, <2>2 DEF Pays
    <2> QED
      BY <1>4, <1>6, <1>8, <2>1, <2>3 DEF Follows, Ends, Inside
  <1>10. Covered(w, <<last>> \o Tail(todo), r)
    BY <1>2, <1>8, <1>9, PushOne
  <1>11. mode # "pure" => r.owed + due * r.mul <= r.kept
    <2>1. mode # "pure" => b.owed + h <= b.kept + f
      BY <1>4, <1>7
    <2> QED
      BY <1>8, <2>1
  <1> DEFINE e == Later(r, due)
  <1>12. Covered(w, todo', e)
    BY <1>4, <1>6, <1>8, <1>10, <1>11 DEF Owes, w
  <1>13. /\ e \in Entry /\ e.owed = b.owed + h /\ e.mode = mode /\ e.mul = k
         /\ e.kept = b.kept + f /\ e.vars = 0 /\ e.risk = "any"
    <2>1. /\ Later(r, due) \in Entry
          /\ Later(r, due).owed = r.owed + due * r.mul
          /\ Later(r, due).mode = r.mode /\ Later(r, due).mul = r.mul
          /\ Later(r, due).kept = r.kept /\ Later(r, due).vars = r.vars
          /\ Later(r, due).risk = r.risk
      BY <1>8, LaterEntry
    <2> QED
      BY <1>4, <1>6, <1>8, <2>1
  <1> HIDE DEF e
  <1> DEFINE q == Charge(Opened(Charge(pool, pool.mul), f, k), n)
             sum == real.sum + (pool.mul + n)
  <1>14. /\ Shape(q) /\ q.mul = k /\ q.breached = pool.breached /\ q.priced = pool.priced
         /\ pool.priced => q.cost = pool.cost + pool.mul + n
         /\ ~pool.priced => /\ q.left = (pool.left - pool.mul) - n
                            /\ q.liability = pool.liability + f
                            /\ pool.left - pool.mul >= pool.liability + g
    <2>1. Carries(pool, pool.mul)
      BY <1>5, <1>7 DEF Carries
    <2> QED
      BY <1>5, <2>1, OpenFields
  <1>15. pool' = q /\ real' = [times |-> k, sum |-> sum] /\ sum \in Nat
    BY <1>5
  <1> HIDE DEF q
  <1>16. mode = "pure" => sum <= q.cost
    <2>1. mode = "pure" => real.sum <= pool.cost /\ pool.cost \in Nat
      BY <1>2 DEF Accounts
    <2>2. mode = "pure" => q.cost = pool.cost + pool.mul + n
      BY <1>5, <1>14
    <2> QED
      BY <1>5, <2>1, <2>2
  <1>17. mode # "pure" => q.left >= e.owed /\ q.liability = e.kept /\ e.vars <= e.owed
    <2>1. pool.left \in Nat /\ pool.liability \in Nat
      BY <1>5 DEF Shape
    <2>2. mode # "pure" => /\ q.left = (pool.left - pool.mul) - n
                          /\ q.liability = b.kept + f
                          /\ pool.left - pool.mul >= b.kept + g /\ b.owed <= b.kept
      BY <1>5, <1>7, <1>14
    <2>3. mode # "pure" => q.left >= b.owed + h
      BY ONLY <1>4, <1>5, <2>1, <2>2, n \in Nat, g \in Nat, h \in Nat, h + n <= g
    <2>4. mode # "pure" => q.left >= e.owed
      BY <1>13, <2>3
    <2>5. mode # "pure" => q.liability = e.kept
      BY <1>13, <2>2
    <2>6. e.vars <= e.owed
      <3>1. e.owed \in Nat
        BY <1>13 DEF Entry
      <3> QED
        BY <1>13, <3>1
    <2> QED
      BY <2>4, <2>5, <2>6
  <1>18. mode # "pure" => sum + q.left <= Cap(w, mode) + e.vars
    <2>1. mode # "pure" => real.sum + pool.left <= Cap(w, mode) + 0
      BY <1>2, <1>4 DEF Accounts
    <2>2. pool.left \in Nat /\ Cap(w, mode) \in Int
      BY <1>3, <1>5, CapIsInt DEF Shape
    <2>3. mode # "pure" => q.left = (pool.left - pool.mul) - n
      BY <1>5, <1>14
    <2>4. mode # "pure" => sum + q.left <= Cap(w, mode) + 0
      BY <1>5, <2>1, <2>2, <2>3
    <2> QED
      BY <1>13, <2>4
  <1>19. ~q.breached /\ (q.priced <=> mode = "pure")
    BY <1>5, <1>14
  <1> HIDE DEF sum
  <1>20. Accounts(w, q, [times |-> k, sum |-> sum], mode, e)
    BY <1>13, <1>14, <1>15, <1>16, <1>17, <1>18, <1>19 DEF Accounts, Shape
  <1>21. Accounts(w, pool', real', mode', e)
    BY <1>15, <1>20
  <1>22. Order(risk', line', mode', e)
    BY <1>13 DEF Order
  <1>23. PricesKept'
    BY <1>3, PricesStay
  <1> QED
    BY <1>12, <1>13, <1>21, <1>22, <1>23, Refold DEF w

\* A statement with bodies that owe d: they are kept free by its floor, and
\* the gate leaves that beside the lines it charges at once.
LEMMA ConstructKeeps ==
  ASSUME GeneratorInv, NEW gate \in Nat, NEW floor \in Nat, NEW lines \in Nat, NEW d \in Nat,
         d <= floor, d + lines <= gate,
         NEW items, IsSeq(items), Owes(perStmt, mode, items, d),
         Construct(gate, floor, lines, items), Quiet(risk', line', mode)
  PROVE  GeneratorInv'
  <1> DEFINE p == Charge(pool, pool.mul)
             last == ReleaseFloor(floor * pool.mul)
  <1>1. /\ At("stmt") /\ Afford(p, gate * pool.mul)
        /\ pool' = Charge(CommitFloor(p, floor * pool.mul), lines * pool.mul)
        /\ real' = Runs(1 + lines)
        /\ todo' = (items \o <<last>>) \o Tail(todo)
        /\ UNCHANGED <<mode, callees, pairs, config>>
    BY DEF Construct, Then
  <1>2. todo # <<>>
    BY <1>1 DEF At
  <1>3. /\ Shape(pool) /\ (pool.priced <=> mode = "pure") /\ pool.mul \in Nat \ {0}
        /\ real.times = pool.mul /\ real.sum \in Nat
        /\ real = [times |-> real.times, sum |-> real.sum]
        /\ mode # "pure" => pool.left >= 1 * pool.mul
    <2>1. It.do \in Placed /\ Due(It) = 1
      BY <1>1 DEF At, It, Placed, Due
    <2> QED
      BY <1>2, <2>1, AtHand
  <1>4. PICK mul \in Nat \ {0}, f \in Nat, g \in Nat, n \in Nat, h \in Nat :
          /\ mul = pool.mul /\ f = floor * mul /\ g = gate * mul /\ n = lines * mul /\ h = d * mul
          /\ h <= f /\ h + n <= g /\ n <= g
    <2>1. PICK mul \in Nat \ {0} : mul = pool.mul
      BY <1>3
    <2>2. /\ floor * mul \in Nat /\ gate * mul \in Nat /\ lines * mul \in Nat /\ d * mul \in Nat
          /\ d * mul <= floor * mul /\ (d + lines) * mul = d * mul + lines * mul
          /\ (d + lines) * mul <= gate * mul
      <3>1. d + lines \in Nat
        OBVIOUS
      <3> QED
        BY <3>1, Times
    <2>3. PICK f \in Nat, g \in Nat, n \in Nat, h \in Nat :
            /\ f = floor * mul /\ g = gate * mul /\ n = lines * mul /\ h = d * mul
            /\ h <= f /\ h + n <= g
      BY <2>2
    <2>4. n <= g
      BY ONLY <2>3, g \in Nat, n \in Nat, h \in Nat
    <2> QED
      BY <2>1, <2>3, <2>4
  <1>5. Shape(p) /\ p.mul = mul
    <2>1. Carries(pool, pool.mul)
      BY <1>3 DEF Carries
    <2>2. p = Pay(pool, pool.mul)
      BY <1>3, <2>1, ChargeIsPay DEF Shape
    <2> HIDE DEF p
    <2> QED
      BY <1>3, <1>4, <2>1, <2>2, PayFields
  <1>6. pool' = Charge(Opened(p, f, mul), n)
    <2> HIDE DEF p
    <2>1. CommitFloor(p, f) = Opened(p, f, mul)
      BY <1>5, CommitIsOpened
    <2> QED
      BY <1>1, <1>4, <2>1
  <1>7. real' = [times |-> mul, sum |-> real.sum + (mul + n)]
    <2>1. (1 + lines) * mul = mul + n
      <3>1. 1 \in Nat /\ (1 + lines) * mul = 1 * mul + lines * mul /\ 1 * mul = mul
        BY Times
      <3> QED
        BY <1>4, <3>1
    <2>2. real' = [real EXCEPT !.sum = @ + (1 + lines) * mul]
      BY <1>1, <1>3, <1>4 DEF Runs
    <2> QED
      BY <1>3, <1>4, <2>1, <2>2
  <1>8. Ends(last, f, mul)
    BY <1>4 DEF Ends, ReleaseFloor
  <1>9. todo' = items \o (<<last>> \o Tail(todo))
    <2> DEFINE s == <<last>>
               u == Tail(todo)
    <2>1. IsSeq(u)
      BY <1>2, Unfold DEF Covered
    <2>2. s \in Seq({last})
      OBVIOUS
    <2>3. todo' = (items \o s) \o u
      BY <1>1
    <2> HIDE DEF s, u
    <2>4. (items \o s) \o u = items \o (s \o u)
      BY <2>1, <2>2, Associative DEF IsSeq
    <2>5. todo' = items \o (s \o u)
      BY <2>3, <2>4
    <2> QED
      BY <2>5 DEF s, u
  <1>10. Afford(p, g)
    BY <1>1, <1>4
  <1> HIDE DEF last
  <1> QED
    BY <1>1, <1>4, <1>6, <1>7, <1>8, <1>9, <1>10, Opens

LEMMA FirstOfThree ==
  ASSUME NEW a, NEW b, NEW c
  PROVE  <<a>> \o <<b, c>> = <<a, b, c>>
  <1> DEFINE s == <<a>>
             u == <<b, c>>
             t == <<a, b, c>>
             S == {a, b, c}
  <1>1. /\ s \in Seq(S) /\ u \in Seq(S) /\ t \in Seq(S)
        /\ Len(s) = 1 /\ Len(u) = 2 /\ Len(t) = 3
        /\ s[1] = a /\ u[1] = b /\ u[2] = c /\ t[1] = a /\ t[2] = b /\ t[3] = c
    OBVIOUS
  <1> HIDE DEF s, u, t, S
  <1>2. /\ s \o u \in Seq(S) /\ Len(s \o u) = 3
        /\ (s \o u)[1] = a /\ (s \o u)[2] = b /\ (s \o u)[3] = c
    <2>1. IsSeq(s) /\ IsSeq(u) /\ s \o u \in Seq(S)
      BY <1>1, ConcatProperties DEF IsSeq
    <2>2. /\ Len(s \o u) = Len(s) + Len(u)
          /\ \A i \in 1..Len(s) : (s \o u)[i] = s[i]
          /\ \A i \in 1..Len(u) : (s \o u)[Len(s) + i] = u[i]
      BY <2>1, ConcatIsSeq
    <2>3. (s \o u)[1] = s[1] /\ (s \o u)[1 + 1] = u[1] /\ (s \o u)[1 + 2] = u[2]
      BY <1>1, <2>2
    <2> QED
      BY <1>1, <2>1, <2>2, <2>3
  <1>3. ASSUME NEW i \in 1..3
        PROVE  (s \o u)[i] = t[i]
    <2>1. i = 1 \/ i = 2 \/ i = 3
      OBVIOUS
    <2> QED
      BY <1>1, <1>2, <2>1
  <1>4. s \o u = t
    BY <1>1, <1>2, <1>3, SeqEqual
  <1> QED
    BY <1>4 DEF s, u, t

LEMMA IfStmtKeeps ==
  ASSUME GeneratorInv, IfStmt
  PROVE  GeneratorInv'
  <1> DEFINE e == Expr(ExprFuel)
             b == Block(It.depth, 2, It.inLoop)
             l == Else(It.depth, It.inLoop)
  <1>1. Construct(12, 10, 0, <<e, b, l>>) /\ resetRisk
    <2>1. 2 * blockFloorStmts + 2 = 12 /\ 2 * blockFloorStmts = 10
      BY DEF blockFloorStmts
    <2> QED
      BY <2>1 DEF IfStmt
  <1>2. Heavy(b, 4) /\ Heavy(l, 4)
    <2>1. Heavy(b, 2 + 2)
      BY HeavyBlock
    <2>2. Heavy(l, 4)
      BY DEF Heavy, Else, Due
    <2> QED
      BY <2>1, <2>2
  <1>3. Lights(<<e>>)
    BY LightItems
  <1>4. todo # <<>>
    BY <1>1 DEF Construct, At
  <1> HIDE DEF e, b, l
  <1> DEFINE s == <<e>>
             u == <<b, l>>
             S == {b, l}
  <1>5. IsSeq(s) /\ Owes(perStmt, mode, s, 0)
    <2>1. Lights(s)
      BY <1>3
    <2> HIDE DEF s
    <2> QED
      BY <2>1, LightsOwe DEF Lights, IsSeq
  <1>6. u \in Seq(S) /\ Len(u) = 2 /\ u[1] = b /\ u[2] = l
    OBVIOUS
  <1>7. Construct(12, 10, 0, s \o u)
    <2>1. s \o u = <<e, b, l>>
      BY FirstOfThree
    <2> QED
      BY <1>1, <2>1
  <1> HIDE DEF s, u, S
  <1>8. \A i \in 1..2 : Heavy(u[i], 4)
    <2>1. \A i \in 1..2 : i = 1 \/ i = 2
      OBVIOUS
    <2> QED
      BY <1>2, <1>6, <2>1
  <1>9. 0 \in Nat /\ 2 \in Nat /\ 4 \in Nat /\ 8 \in Nat /\ 10 \in Nat /\ 12 \in Nat
        /\ 2 * 4 = 8 /\ 0 + 8 = 8 /\ 8 <= 10 /\ 8 + 0 <= 12
    OBVIOUS
  <1>10. IsSeq(u)
    BY <1>6 DEF IsSeq
  <1>11. Owes(perStmt, mode, u, 8)
    BY <1>6, <1>8, <1>9, <1>10, OwesEach
  <1>12. Owes(perStmt, mode, s \o u, 8) /\ IsSeq(s \o u)
    BY <1>5, <1>9, <1>10, <1>11, OwesBoth
  <1>13. Quiet(risk', line', mode)
    BY <1>1, <1>4, AtHand, ResetQuiet
  <1> QED
    BY <1>7, <1>9, <1>12, <1>13, ConstructKeeps

LEMMA SwitchStmtKeeps ==
  ASSUME GeneratorInv, SwitchStmt
  PROVE  GeneratorInv'
  <1>1. PICK cases \in 1..3, bodies \in 1..3 :
          /\ bodies <= cases
          /\ Construct(4 * (blockFloorStmts - 2) + 1, (cases + 1) * (blockFloorStmts - 2), 0,
                       [i \in 1..bodies + 1 |-> Block(It.depth, 1, It.inLoop)])
          /\ line' = NewLine /\ UNCHANGED risk
    BY DEF SwitchStmt
  <1> DEFINE items == [i \in 1..bodies + 1 |-> Block(It.depth, 1, It.inLoop)]
  <1>2. Construct(13, (cases + 1) * 3, 0, items)
    <2>1. 4 * (blockFloorStmts - 2) + 1 = 13 /\ blockFloorStmts - 2 = 3
      BY DEF blockFloorStmts
    <2> QED
      BY <1>1, <2>1
  <1>3. todo # <<>>
    BY <1>2 DEF Construct, At
  <1>4. PICK n \in Nat, d \in Nat, floor \in Nat :
          /\ n = bodies + 1 /\ d = n * 3 /\ floor = (cases + 1) * 3 /\ d <= floor /\ d + 0 <= 13
    <2>1. /\ bodies + 1 \in Nat /\ (bodies + 1) * 3 \in Nat /\ (cases + 1) * 3 \in Nat
          /\ (bodies + 1) * 3 <= (cases + 1) * 3 /\ (bodies + 1) * 3 + 0 <= 13
      BY <1>1
    <2> QED
      BY <2>1
  <1>5. \A i \in 1..n : items[i] = Block(It.depth, 1, It.inLoop)
    BY <1>4
  <1>6. Heavy(Block(It.depth, 1, It.inLoop), 3)
    <2>1. Heavy(Block(It.depth, 1, It.inLoop), 1 + 2)
      BY HeavyBlock
    <2> QED
      BY <2>1
  <1>7. IsSeq(items) /\ Len(items) = n
    <2> DEFINE S == {Block(It.depth, 1, It.inLoop)}
    <2>1. items \in [1..n -> S]
      BY <1>4
    <2> HIDE DEF items, S
    <2>2. items \in Seq(S) /\ Len(items) = n
      BY <2>1
    <2> QED
      BY <2>2 DEF IsSeq
  <1> HIDE DEF items
  <1>8. 0 \in Nat /\ 3 \in Nat /\ 13 \in Nat
    OBVIOUS
  <1>9. \A i \in 1..n : Heavy(items[i], 3)
    BY <1>5, <1>6
  <1>10. Owes(perStmt, mode, items, d)
    BY <1>4, <1>7, <1>8, <1>9, OwesEach
  <1>11. Quiet(risk', line', mode)
    BY <1>1, <1>3, AtHand, PlainQuiet
  <1>12. Construct(13, floor, 0, items)
    BY <1>2, <1>4
  <1> QED
    BY <1>4, <1>7, <1>8, <1>10, <1>11, <1>12, ConstructKeeps

LEMMA GuardedStmtKeeps ==
  ASSUME GeneratorInv, GuardedStmt
  PROVE  GeneratorInv'
  <1> DEFINE it == Stmt(0, FALSE, TRUE)
  <1>1. Construct(6, 5, 4, <<it>>) /\ line' = NewLine /\ risk' = risk
    BY DEF GuardedStmt
  <1>2. todo # <<>>
    BY <1>1 DEF Construct, At
  <1>3. Heavy(it, 1)
    BY DEF Heavy, Stmt, Due
  <1> HIDE DEF it
  <1>4. 1 \in Nat /\ 4 \in Nat /\ 5 \in Nat /\ 6 \in Nat /\ 1 <= 5 /\ 1 + 4 <= 6
    OBVIOUS
  <1>5. Owes(perStmt, mode, <<it>>, 1) /\ IsSeq(<<it>>)
    BY <1>3, <1>4, OwesOne
  <1>6. Quiet(risk', line', mode)
    BY <1>1, <1>2, AtHand, PlainQuiet
  <1> QED
    BY <1>1, <1>4, <1>5, <1>6, ConstructKeeps

LEMMA FirstOfTwo ==
  ASSUME NEW a, NEW b
  PROVE  <<a, b>> = <<a>> \o <<b>>
  <1> DEFINE s == <<a>>
             u == <<b>>
             t == <<a, b>>
             S == {a, b}
  <1>1. /\ s \in Seq(S) /\ u \in Seq(S) /\ t \in Seq(S)
        /\ Len(s) = 1 /\ Len(u) = 1 /\ Len(t) = 2
        /\ s[1] = a /\ u[1] = b /\ t[1] = a /\ t[2] = b
    OBVIOUS
  <1> HIDE DEF s, u, t, S
  <1>2. /\ s \o u \in Seq(S) /\ Len(s \o u) = 2
        /\ (s \o u)[1] = a /\ (s \o u)[2] = b
    <2>1. IsSeq(s) /\ IsSeq(u) /\ s \o u \in Seq(S)
      BY <1>1, ConcatProperties DEF IsSeq
    <2>2. /\ Len(s \o u) = Len(s) + Len(u)
          /\ \A i \in 1..Len(s) : (s \o u)[i] = s[i]
          /\ \A i \in 1..Len(u) : (s \o u)[Len(s) + i] = u[i]
      BY <2>1, ConcatIsSeq
    <2>3. (s \o u)[1] = s[1] /\ (s \o u)[1 + 1] = u[1]
      BY <1>1, <2>2
    <2> QED
      BY <1>1, <2>1, <2>2, <2>3
  <1>3. \A i \in 1..2 : i = 1 \/ i = 2
    OBVIOUS
  <1>4. s \o u = t
    BY <1>1, <1>2, <1>3, SeqEqual
  <1> QED
    BY <1>4 DEF s, u, t

\* A loop of at most gate trips: at every pass its line and its body.
LEMMA LoopKeeps ==
  ASSUME GeneratorInv, NEW gate \in Nat, NEW trips \in 1..gate, Loop(gate, trips)
  PROVE  GeneratorInv'
  <1> DEFINE p == Charge(pool, pool.mul)
  <1>1. /\ At("stmt") /\ Afford(p, gate * loopBodyFloor * pool.mul)
        /\ pool' = Charge([CommitFloor(p, trips * loopBodyFloor * pool.mul) EXCEPT !.mul = @ * trips],
                          p.mul * trips)
        /\ todo' = <<Block(It.depth, 2, TRUE), EndLoop(trips * loopBodyFloor * pool.mul)>> \o Tail(todo)
        /\ real' = [times |-> real.times * trips,
                    sum |-> real.sum + real.times + real.times * trips]
        /\ line' = NewLine
        /\ UNCHANGED <<risk, mode, callees, pairs, config>>
    BY DEF Loop, Then
  <1>2. todo # <<>>
    BY <1>1 DEF At
  <1>3. /\ Shape(pool) /\ (pool.priced <=> mode = "pure") /\ pool.mul \in Nat \ {0}
        /\ real.times = pool.mul /\ real.sum \in Nat
        /\ mode # "pure" => pool.left >= 1 * pool.mul
    <2>1. It.do \in Placed /\ Due(It) = 1
      BY <1>1 DEF At, It, Placed, Due
    <2> QED
      BY <1>2, <2>1, AtHand
  <1>4. PICK mul \in Nat \ {0}, k \in Nat \ {0}, f \in Nat, g \in Nat, h \in Nat :
          /\ mul = pool.mul /\ k = mul * trips
          /\ f = trips * loopBodyFloor * mul /\ g = gate * loopBodyFloor * mul
          /\ h = 4 * k /\ h <= f /\ h + k <= g /\ k <= g
    <2>1. PICK mul \in Nat \ {0} : mul = pool.mul
      BY <1>3
    <2>2. trips \in Nat \ {0} /\ trips <= gate /\ loopBodyFloor = 6
      BY DEF loopBodyFloor, blockFloorStmts
    <2>3. PICK k \in Nat, j \in Nat : k = trips * mul /\ j = gate * mul /\ k <= j
      BY <2>2, Times
    <2>4. mul * trips = trips * mul /\ trips * mul # 0
      BY <2>2
    <2>5. trips * 6 * mul = 6 * (trips * mul) /\ gate * 6 * mul = 6 * (gate * mul)
      BY <2>2
    <2>6. /\ 6 * k \in Nat /\ 6 * j \in Nat /\ 4 * k \in Nat /\ 4 * k <= 6 * k
          /\ 4 * k + k <= 6 * j /\ k <= 6 * j
      BY <2>3
    <2> QED
      BY <2>1, <2>2, <2>3, <2>4, <2>5, <2>6
  <1>5. Shape(p) /\ p.mul = mul
    <2>1. Carries(pool, pool.mul)
      BY <1>3 DEF Carries
    <2>2. p = Pay(pool, pool.mul)
      BY <1>3, <2>1, ChargeIsPay DEF Shape
    <2> HIDE DEF p
    <2> QED
      BY <1>3, <1>4, <2>1, <2>2, PayFields
  <1>6. pool' = Charge(Opened(p, f, k), k)
    <2> HIDE DEF p
    <2>1. [CommitFloor(p, f) EXCEPT !.mul = @ * trips] = Opened(p, f, mul * trips)
      BY <1>5, CommitIsOpened
    <2>2. pool' = Charge([CommitFloor(p, f) EXCEPT !.mul = @ * trips], k)
      BY <1>1, <1>4, <1>5
    <2> QED
      BY <1>4, <2>1, <2>2
  <1>7. real' = [times |-> k, sum |-> real.sum + (mul + k)]
    <2>1. (real.sum + mul) + k = real.sum + (mul + k)
      BY <1>3
    <2> QED
      BY <1>1, <1>3, <1>4, <2>1
  <1> DEFINE b == Block(It.depth, 2, TRUE)
             last == EndLoop(f)
  <1>8. Ends(last, f, k)
    BY <1>3 DEF Ends, EndLoop
  <1>9. Owes(perStmt, mode, <<b>>, 4)
    <2>1. Heavy(b, 2 + 2)
      BY HeavyBlock
    <2>2. 4 \in Nat /\ 2 + 2 = 4
      OBVIOUS
    <2> QED
      BY <2>1, <2>2, OwesOne
  <1>10. todo' = <<b, last>> \o Tail(todo)
    BY <1>1, <1>4
  <1> HIDE DEF b, last
  <1>11. todo' = <<b>> \o (<<last>> \o Tail(todo))
    <2> DEFINE s == <<b>>
               u == <<last>>
               v == Tail(todo)
    <2>1. IsSeq(v)
      BY <1>2, Unfold DEF Covered
    <2>2. s \in Seq({b}) /\ u \in Seq({last})
      OBVIOUS
    <2>3. <<b, last>> = s \o u
      BY FirstOfTwo
    <2>4. todo' = (s \o u) \o v
      BY <1>10, <2>3
    <2> HIDE DEF s, u, v
    <2>5. (s \o u) \o v = s \o (u \o v)
      BY <2>1, <2>2, Associative DEF IsSeq
    <2>6. todo' = s \o (u \o v)
      BY <2>4, <2>5
    <2> QED
      BY <2>6 DEF s, u, v
  <1>12. Quiet(risk', line', mode)
    BY <1>1, <1>2, AtHand, PlainQuiet
  <1>13. Afford(p, g) /\ 4 \in Nat /\ k \in Nat
    BY <1>1, <1>4
  <1> QED
    BY <1>1, <1>4, <1>6, <1>7, <1>8, <1>9, <1>11, <1>12, <1>13, Opens

LEMMA ForAndRangeKeep ==
  ASSUME GeneratorInv, ForStmt \/ RangeStmt
  PROVE  GeneratorInv'
  <1>1. PICK gate \in Nat : \E trips \in 1..gate : Loop(gate, trips)
    <2>1. LoopCap \in Nat /\ Max2(TripCap, ArrayLen) \in Nat
      BY GeneratorAssumption DEF Max2
    <2> QED
      BY <2>1 DEF ForStmt, RangeStmt
  <1> QED
    BY <1>1, LoopKeeps

-----------------------------------------------------------------------------
(* Ends.                                                                   *)

\* f is no longer kept free, and the multiplier becomes k.
Released(p, f, k) == [Release(p, f) EXCEPT !.mul = k]

LEMMA ReleasedFields ==
  ASSUME NEW p, Shape(p), NEW f \in Nat, ~p.priced => f <= p.liability, NEW k
  PROVE  /\ Shape(Released(p, f, k)) /\ Released(p, f, k).mul = k
         /\ Released(p, f, k).breached = p.breached /\ Released(p, f, k).priced = p.priced
         /\ Released(p, f, k).cost = p.cost /\ Released(p, f, k).left = p.left
         /\ ~p.priced => Released(p, f, k).liability = p.liability - f
         /\ Release(p, f) = Released(p, f, p.mul)
  <1>1. p.left \in Nat /\ p.liability \in Nat /\ p.cost \in Nat
    BY DEF Shape
  <1>2. CASE p.priced
    <2>1. Released(p, f, k) = [p EXCEPT !.mul = k]
      BY <1>2 DEF Release, Released
    <2>2. Released(p, f, k) =
            [left |-> p.left, liability |-> p.liability, mul |-> k,
             breached |-> p.breached, priced |-> p.priced, cost |-> p.cost]
      BY <2>1 DEF Shape
    <2>3. Release(p, f) = Released(p, f, p.mul)
      BY <1>2 DEF Release, Released, Shape
    <2> QED
      BY <1>1, <1>2, <2>2, <2>3 DEF Shape
  <1>3. CASE ~p.priced
    <2>1. p.liability - f \in Nat
      BY <1>1, <1>3
    <2>2. Release(p, f) =
            [left |-> p.left, liability |-> p.liability - f, mul |-> p.mul,
             breached |-> p.breached, priced |-> p.priced, cost |-> p.cost]
      BY <1>3 DEF Release, Shape
    <2>3. Released(p, f, k) =
            [left |-> p.left, liability |-> p.liability - f, mul |-> k,
             breached |-> p.breached, priced |-> p.priced, cost |-> p.cost]
      BY <2>2 DEF Released
    <2>4. Release(p, f) = Released(p, f, p.mul)
      BY <2>2 DEF Released
    <2> QED
      BY <1>1, <1>3, <2>1, <2>3, <2>4 DEF Shape
  <1> QED
    BY <1>2, <1>3

\* The accounts of what follows the end of a statement.
LEMMA ReleaseAccounts ==
  ASSUME NEW w \in Nat, NEW p, NEW re, NEW m, NEW a \in Entry, NEW b \in Entry, NEW f \in Nat,
         Accounts(w, p, re, m, a), b.mode = a.mode, a.vars = 0, b.vars = 0,
         m # "pure" => a.owed >= b.owed /\ a.kept = b.kept + f
  PROVE  /\ Accounts(w, Released(p, f, b.mul), [re EXCEPT !.times = b.mul], m, b)
         /\ Shape(p)
         /\ ~p.priced => f <= p.liability
  <1>1. Shape(p) /\ (p.priced <=> m = "pure")
    BY DEF Accounts, Shape
  <1>2. b.kept \in Nat /\ b.owed \in Nat /\ a.owed \in Nat
    BY DEF Entry
  <1>3. ~p.priced => f <= p.liability /\ p.liability - f = b.kept
    <2>1. m # "pure" => p.liability = b.kept + f
      BY DEF Accounts
    <2> QED
      BY <1>1, <1>2, <2>1
  <1> DEFINE q == Released(p, f, b.mul)
  <1>4. /\ Shape(q) /\ q.mul = b.mul /\ q.breached = p.breached /\ q.priced = p.priced
        /\ q.cost = p.cost /\ q.left = p.left
        /\ ~p.priced => q.liability = p.liability - f
    BY <1>1, <1>3, ReleasedFields
  <1> HIDE DEF q
  <1>5. [re EXCEPT !.times = b.mul] = [times |-> b.mul, sum |-> re.sum] /\ re.sum \in Nat
    BY DEF Accounts
  <1>6. m = "pure" => re.sum <= q.cost
    BY <1>4 DEF Accounts
  <1>7. m # "pure" => q.left >= b.owed
    <2>1. m # "pure" => p.left >= a.owed
      BY DEF Accounts
    <2>2. p.left \in Nat
      BY <1>1 DEF Shape
    <2> QED
      BY <1>2, <1>4, <2>1, <2>2
  <1>8. m # "pure" => q.liability = b.kept
    BY <1>1, <1>3, <1>4
  <1>9. b.vars <= b.owed
    BY <1>2
  <1>10. m # "pure" => re.sum + q.left <= Cap(w, m) + b.vars
    <2>1. m # "pure" => re.sum + p.left <= Cap(w, m) + a.vars
      BY DEF Accounts
    <2> QED
      BY <1>4, <2>1
  <1>11. m = b.mode /\ ~q.breached /\ (q.priced <=> m = "pure")
    BY <1>1, <1>4 DEF Accounts
  <1>12. Accounts(w, q, [times |-> b.mul, sum |-> re.sum], m, b)
    BY <1>4, <1>5, <1>6, <1>7, <1>8, <1>9, <1>10, <1>11 DEF Accounts, Shape
  <1> QED
    BY <1>1, <1>3, <1>5, <1>12 DEF q

LEMMA EndsKeep ==
  ASSUME GeneratorInv, EndLoopOf \/ EndConstruct
  PROVE  GeneratorInv'
  <1>1. /\ todo # <<>> /\ It.do \in {"release", "endloop"} /\ todo' = <<>> \o Tail(todo)
        /\ UNCHANGED <<risk, mode, callees, pairs, config, line>>
        /\ \/ /\ It.do = "endloop" /\ pool' = Released(pool, It.floor, It.mul)
              /\ real' = [real EXCEPT !.times = It.times]
           \/ It.do = "release" /\ pool' = Release(pool, It.floor) /\ real' = real
    BY DEF EndLoopOf, EndConstruct, At, It, Then, Released
  <1>2. PICK a \in Entry, b \in Entry :
          /\ Follows(perStmt, It, a, b) /\ Covered(perStmt, Tail(todo), b)
          /\ Accounts(perStmt, pool, real, mode, a) /\ Order(risk, line, mode, a)
    BY <1>1, Unfold
  <1>3. PricesKept /\ perStmt \in Nat
    BY <1>1, Unfold
  <1>4. /\ Pays(It, a, b) /\ Kept(It) = It.floor /\ Due(It) = 0 /\ It.floor \in Nat
        /\ b.risk = "any"
        /\ It.do = "release" => b.mul = a.mul
        /\ It.do = "endloop" => b.mul = It.mul /\ b.mul = It.times
    BY <1>1, <1>2 DEF Follows, Pays, Inside, Kept, Due
  <1>5. /\ b.mode = a.mode /\ a.vars = 0 /\ b.vars = 0 /\ b.owed \in Nat /\ a.mul \in Nat
        /\ a.mode # "pure" => a.owed >= b.owed + 0 * a.mul /\ a.kept = b.kept + It.floor
    BY <1>4 DEF Pays, Entry
  <1>6. mode = a.mode /\ pool.mul = a.mul /\ real.times = a.mul
        /\ real = [times |-> real.times, sum |-> real.sum]
    BY <1>2 DEF Accounts
  <1>7. mode # "pure" => a.owed >= b.owed /\ a.kept = b.kept + It.floor
    BY <1>5, <1>6, Times
  <1>8. /\ Accounts(perStmt, Released(pool, It.floor, b.mul), [real EXCEPT !.times = b.mul], mode, b)
        /\ Shape(pool)
        /\ ~pool.priced => It.floor <= pool.liability
    BY <1>2, <1>3, <1>4, <1>5, <1>7, ReleaseAccounts
  <1>9. pool' = Released(pool, It.floor, b.mul)
    <2>1. Release(pool, It.floor) = Released(pool, It.floor, pool.mul)
      BY <1>4, <1>8, ReleasedFields
    <2> QED
      BY <1>1, <1>4, <1>6, <2>1
  <1>10. real' = [real EXCEPT !.times = b.mul]
    <2>1. CASE It.do = "endloop"
      BY <1>1, <1>4, <2>1
    <2>2. CASE It.do = "release"
      <3>1. real' = real /\ real.times = b.mul
        BY <1>1, <1>4, <1>6, <2>2
      <3>2. [real EXCEPT !.times = b.mul] = [times |-> b.mul, sum |-> real.sum]
        BY <1>6
      <3> QED
        BY <1>6, <3>1, <3>2
    <2> QED
      BY <1>1, <2>1, <2>2
  <1>11. Accounts(perStmt, pool', real', mode', b)
    BY <1>1, <1>8, <1>9, <1>10
  <1>12. Order(risk', line', mode', b)
    BY <1>1, <1>2, <1>4 DEF Order
  <1>13. todo' = Tail(todo)
    <2>1. PICK S : Tail(todo) \in Seq(S)
      BY <1>2 DEF Covered, IsSeq
    <2> QED
      BY <1>1, <2>1
  <1>14. PricesKept'
    BY <1>1, <1>3, PricesStay
  <1> QED
    BY <1>1, <1>2, <1>11, <1>12, <1>13, <1>14, Refold

LEMMA ControlFlowKeeps ==
  ASSUME GeneratorInv, ControlFlow
  PROVE  GeneratorInv'
  BY IfStmtKeeps, SwitchStmtKeeps, GuardedStmtKeeps, ForAndRangeKeep, EndsKeep, ElseKeeps,
     BlockBodyKeeps, BlockWithDeclarationKeeps, ProjectInnerKeeps DEF ControlFlow

\* The return of a battery function was kept free with its statements.
LEMMA ReturnLineKeeps ==
  ASSUME GeneratorInv, ReturnLine
  PROVE  GeneratorInv'
  <1>1. /\ todo # <<>> /\ It.do = "return" /\ resetRisk /\ todo' = <<>> \o Tail(todo)
        /\ pool' = Charge(Release(pool, It.floor), pool.mul) /\ real' = Runs(1)
        /\ UNCHANGED <<mode, callees, pairs, config>>
    BY DEF ReturnLine, At, It, Then
  <1>2. PICK a \in Entry, b \in Entry :
          /\ Follows(perStmt, It, a, b) /\ Covered(perStmt, Tail(todo), b)
          /\ Accounts(perStmt, pool, real, mode, a) /\ Order(risk, line, mode, a)
    BY <1>1, Unfold
  <1>3. PricesKept /\ perStmt \in Nat
    BY <1>1, Unfold
  <1>4. /\ Pays(It, a, b) /\ Kept(It) = It.floor /\ Due(It) = 1 /\ It.floor \in Nat
        /\ b.risk = "any" /\ b.mul = a.mul
    BY <1>1, <1>2 DEF Follows, Pays, Inside, Kept, Due
  <1> DEFINE c == Later(b, 1)
  <1>5. /\ c \in Entry /\ c.owed = b.owed + 1 * b.mul /\ c.mode = b.mode /\ c.mul = b.mul
        /\ c.kept = b.kept /\ c.vars = b.vars
    BY LaterEntry
  <1>6. /\ b.mode = a.mode /\ a.vars = 0 /\ b.vars = 0
        /\ a.mode # "pure" => a.owed >= b.owed + 1 * a.mul /\ a.kept = b.kept + It.floor
    BY <1>4 DEF Pays
  <1>7. /\ mode = a.mode /\ pool.mul = a.mul /\ real.times = a.mul
        /\ real = [times |-> real.times, sum |-> real.sum]
    BY <1>2 DEF Accounts
  <1> HIDE DEF c
  <1>8. mode # "pure" => a.owed >= c.owed /\ a.kept = c.kept + It.floor
    BY <1>4, <1>5, <1>6, <1>7
  <1>9. /\ Accounts(perStmt, Released(pool, It.floor, c.mul), [real EXCEPT !.times = c.mul], mode, c)
        /\ Shape(pool)
        /\ ~pool.priced => It.floor <= pool.liability
    BY <1>2, <1>3, <1>4, <1>5, <1>6, <1>8, ReleaseAccounts
  <1> DEFINE p == Release(pool, It.floor)
  <1>10. p = Released(pool, It.floor, c.mul) /\ p.mul = pool.mul
    <2>1. p = Released(pool, It.floor, pool.mul) /\ Released(pool, It.floor, pool.mul).mul = pool.mul
      BY <1>4, <1>9, ReleasedFields
    <2> QED
      BY <1>4, <1>5, <1>7, <2>1
  <1>11. [real EXCEPT !.times = c.mul] = real
    <2>1. [real EXCEPT !.times = c.mul] = [times |-> c.mul, sum |-> real.sum]
      BY <1>7
    <2> QED
      BY <1>4, <1>5, <1>7, <2>1
  <1>12. Accounts(perStmt, p, real, mode, c)
    BY <1>9, <1>10, <1>11
  <1> HIDE DEF p
  <1>13. PICK mul \in Nat : mul = pool.mul /\ mul = b.mul /\ 1 * b.mul = mul /\ mul <= mul
    <2>1. b.mul \in Nat
      BY DEF Entry
    <2> QED
      BY <1>4, <1>7, <2>1
  <1>14. mode # "pure" => b.kept = c.kept /\ p.left >= mul + b.owed
    <2>1. mode # "pure" => p.left >= c.owed
      BY <1>12 DEF Accounts
    <2>2. c.owed = b.owed + mul /\ b.owed \in Nat
      BY <1>5, <1>13 DEF Entry
    <2>3. c.owed = mul + b.owed
      BY ONLY <2>2, mul \in Nat
    <2> QED
      BY <1>5, <2>1, <2>3
  <1>15. /\ Accounts(perStmt, Pay(p, mul), [real EXCEPT !.sum = @ + mul], mode, b)
         /\ Carries(p, mul) /\ Shape(p)
    BY <1>3, <1>5, <1>6, <1>12, <1>13, <1>14, Costs
  <1>16. pool' = Pay(p, mul)
    <2>1. Charge(p, mul) = Pay(p, mul)
      BY <1>15, ChargeIsPay DEF Shape
    <2> QED
      BY <1>1, <1>13, <2>1 DEF p
  <1>17. real' = [real EXCEPT !.sum = @ + mul]
    <2>1. 1 * real.times = mul
      BY <1>4, <1>7, <1>13
    <2> QED
      BY <1>1, <2>1 DEF Runs
  <1>18. Accounts(perStmt, pool', real', mode', b)
    BY <1>1, <1>15, <1>16, <1>17
  <1>19. Quiet(risk', line', mode)
    BY <1>1, AtHand, ResetQuiet
  <1>20. Order(risk', line', mode', b)
    BY <1>1, <1>4, <1>19 DEF Order
  <1>21. todo' = Tail(todo)
    <2>1. PICK S : Tail(todo) \in Seq(S)
      BY <1>2 DEF Covered, IsSeq
    <2> QED
      BY <1>1, <2>1
  <1>22. PricesKept'
    BY <1>1, <1>3, PricesStay
  <1> QED
    BY <1>1, <1>2, <1>18, <1>20, <1>21, <1>22, Refold

-----------------------------------------------------------------------------
(* The subject.                                                            *)

LEMMA SubjectEntries ==
  ASSUME NEW w \in {1, 2}, NEW n \in Nat
  PROVE  /\ n * VarReserve \in Nat /\ n * w \in Nat /\ Stmts * w \in Nat
         /\ End \in Entry /\ Declaring(w, n) \in Entry /\ Topping(w, n) \in Entry
  <1>1. VarReserve \in Nat /\ Stmts \in Nat /\ w \in Nat
    BY GeneratorAssumption
  <1>2. n * VarReserve \in Nat /\ n * w \in Nat /\ Stmts * w \in Nat
    BY <1>1, Times
  <1>3. n * VarReserve + Stmts * w \in Nat
    BY <1>2
  <1> QED
    BY <1>2, <1>3 DEF End, Declaring, Topping, Entry

LEMMA DeclareOneKeeps ==
  ASSUME GeneratorInv, DeclareOne
  PROVE  GeneratorInv'
  <1> DEFINE w == perStmt
  <1>1. /\ todo # <<>> /\ It.do = "declare"
        /\ \/ /\ It.left = 0 /\ pool' = CommitFloor(pool, Stmts * perStmt)
              /\ todo' = <<Top(Stmts)>> \o Tail(todo)
           \/ /\ It.left # 0 /\ pool' = Charge(pool, VarReserve)
              /\ todo' = <<Declare(It.left - 1)>> \o Tail(todo)
        /\ UNCHANGED <<risk, mode, callees, pairs, config, line, real>>
    BY DEF DeclareOne, At, It, Then
  <1>2. PICK a \in Entry, b \in Entry :
          /\ Follows(w, It, a, b) /\ Covered(w, Tail(todo), b)
          /\ Accounts(w, pool, real, mode, a) /\ Order(risk, line, mode, a)
    BY <1>1, Unfold
  <1>3. PricesKept /\ w \in {1, 2} /\ w \in Nat
    BY <1>1, Unfold
  <1> HIDE DEF w
  <1>4. It.left \in Nat /\ b = End /\ a = Declaring(w, It.left)
    BY <1>1, <1>2 DEF Follows, Inside
  <1>5. /\ a.mode = "subject" /\ a.mul = 1 /\ a.kept = 0 /\ a.risk = "any"
        /\ a.owed = It.left * VarReserve + Stmts * w /\ a.vars = It.left * VarReserve
    BY <1>4 DEF Declaring
  <1>6. /\ Shape(pool) /\ mode = "subject" /\ pool.mul = 1 /\ real.times = 1
        /\ ~pool.breached /\ ~pool.priced /\ pool.liability = 0 /\ pool.left >= a.owed
        /\ real = [times |-> real.times, sum |-> real.sum] /\ real.sum \in Nat
        /\ real.sum + pool.left <= Cap(w, mode) + a.vars
    BY <1>2, <1>5 DEF Accounts, Shape
  <1>7. PICK s \in Nat : s = Stmts * w
    BY <1>3, <1>4, SubjectEntries
  <1>8. Cap(w, mode) \in Int
    BY <1>3, CapIsInt
  <1>9. CASE It.left = 0
    <2> DEFINE e == Topping(w, Stmts)
    <2>1. Stmts \in Nat /\ Stmts \in 0..Stmts
      BY GeneratorAssumption
    <2>2. e \in Entry /\ Follows(w, Top(Stmts), e, b)
      BY <1>3, <1>4, <2>1, SubjectEntries DEF Follows, Top, End, Topping
    <2>3. Covered(w, todo', e)
      BY <1>1, <1>2, <1>9, <2>2, PushOne
    <2>4. /\ e.mode = "subject" /\ e.mul = 1 /\ e.kept = s /\ e.risk = "any"
          /\ e.owed = s /\ e.vars = 0
      BY <1>7 DEF Topping
    <2> HIDE DEF e
    <2> DEFINE q == Opened(pool, s, 1)
    <2>5. pool' = q
      BY <1>1, <1>6, <1>7, <1>9, CommitIsOpened DEF w
    <2>6. /\ Shape(q) /\ q.mul = 1 /\ q.breached = pool.breached /\ q.priced = pool.priced
          /\ q.left = pool.left /\ q.liability = pool.liability + s
      BY <1>6, OpenedFields
    <2> HIDE DEF q
    <2>7. a.owed = 0 + s /\ a.vars = 0
      BY <1>5, <1>7, <1>9, GeneratorAssumption
    <2>8. q.left >= e.owed /\ q.liability = e.kept /\ e.vars <= e.owed
          /\ real.sum + q.left <= Cap(w, mode) + e.vars
      BY <1>6, <2>4, <2>6, <2>7
    <2>9. Accounts(w, q, real, mode, e)
      BY <1>6, <2>4, <2>6, <2>8 DEF Accounts, Shape
    <2>10. Accounts(w, pool', real', mode', e) /\ Order(risk', line', mode', e)
      BY <1>1, <1>2, <2>4, <2>5, <2>9 DEF Order
    <2>11. PricesKept'
      BY <1>1, <1>3, PricesStay
    <2> QED
      BY <1>1, <2>2, <2>3, <2>10, <2>11, Refold DEF w
  <1>10. CASE It.left # 0
    <2>1. PICK j \in Nat : It.left = j + 1 /\ It.left - 1 = j
      BY <1>4, <1>10
    <2> DEFINE e == Declaring(w, j)
    <2>2. e \in Entry /\ Follows(w, Declare(j), e, b)
      <3>1. e \in Entry /\ End \in Entry
        BY <1>3, SubjectEntries
      <3>2. Declare(j).do = "declare" /\ Declare(j).left = j /\ e.risk = "any"
        BY DEF Declare, Declaring
      <3>3. b.risk = "any"
        BY <1>4 DEF End
      <3> HIDE DEF e
      <3>4. e = Declaring(w, Declare(j).left)
        BY <3>2 DEF e
      <3> QED
        BY <1>4, <3>1, <3>2, <3>3, <3>4 DEF Follows
    <2>3. Covered(w, todo', e)
      BY <1>1, <1>2, <1>10, <2>1, <2>2, PushOne
    <2>4. PICK v \in Nat, x \in Nat : v = VarReserve /\ x = j * VarReserve
      BY <1>3, SubjectEntries, GeneratorAssumption
    <2>5. /\ e.mode = "subject" /\ e.mul = 1 /\ e.kept = 0 /\ e.risk = "any"
          /\ e.owed = x + s /\ e.vars = x
      BY <1>7, <2>4 DEF Declaring
    <2> HIDE DEF e
    <2>6. a.owed = (x + v) + s /\ a.vars = x + v
      BY <1>5, <1>7, <2>1, <2>4, Times
    <2>7. pool.left \in Nat /\ pool.left >= (x + v) + s
      BY <1>6, <2>6 DEF Shape
    <2>8. Carries(pool, v)
      <3>1. pool.left >= v
        BY ONLY <2>7, x \in Nat, v \in Nat, s \in Nat
      <3> QED
        BY <3>1 DEF Carries
    <2> DEFINE q == Pay(pool, v)
    <2>9. pool' = q
      BY <1>1, <1>10, <2>4, <2>7, <2>8, ChargeIsPay
    <2>10. /\ Shape(q) /\ q.mul = 1 /\ q.breached = pool.breached /\ q.priced = pool.priced
           /\ q.left = pool.left - v /\ q.liability = 0
      BY <1>6, <2>8, PayFields
    <2> HIDE DEF q
    <2>11. q.left >= x + s
      BY ONLY <2>7, <2>10, x \in Nat, v \in Nat, s \in Nat
    <2>12. real.sum + q.left <= Cap(w, mode) + x
      <3>1. real.sum + pool.left <= Cap(w, mode) + (x + v)
        BY <1>6, <2>6
      <3> QED
        BY ONLY <1>6, <1>8, <2>7, <2>10, <3>1, x \in Nat, v \in Nat
    <2>13. q.left >= e.owed /\ q.liability = e.kept /\ e.vars <= e.owed
           /\ real.sum + q.left <= Cap(w, mode) + e.vars
      BY <2>5, <2>10, <2>11, <2>12
    <2>14. Accounts(w, q, real, mode, e)
      BY <1>6, <2>5, <2>10, <2>13 DEF Accounts, Shape
    <2>15. Accounts(w, pool', real', mode', e) /\ Order(risk', line', mode', e)
      BY <1>1, <1>2, <2>5, <2>9, <2>14 DEF Order
    <2>16. PricesKept'
      BY <1>1, <1>3, PricesStay
    <2> QED
      BY <1>1, <2>2, <2>3, <2>15, <2>16, Refold DEF w
  <1> QED
    BY <1>9, <1>10

LEMMA TopStatementKeeps ==
  ASSUME GeneratorInv, TopStatement
  PROVE  GeneratorInv'
  <1> DEFINE w == perStmt
             it == Stmt(Depth, FALSE, FALSE)
  <1>1. /\ todo # <<>> /\ It.do = "top" /\ It.left > 0
        /\ todo' = <<it, Top(It.left - 1)>> \o Tail(todo)
        /\ UNCHANGED <<risk, mode, callees, pairs, config, line>>
        /\ \/ /\ perStmt = 2 /\ pool' = Charge(pool, 1) /\ real' = Runs(1)
           \/ /\ perStmt = 1 /\ pool' = pool /\ real' = real
    BY DEF TopStatement, At, It, Then, perStmt
  <1>2. PICK a \in Entry, b \in Entry :
          /\ Follows(w, It, a, b) /\ Covered(w, Tail(todo), b)
          /\ Accounts(w, pool, real, mode, a) /\ Order(risk, line, mode, a)
    BY <1>1, Unfold
  <1>3. PricesKept /\ w \in {1, 2} /\ w \in Nat
    BY <1>1, Unfold
  <1>4. \/ w = 2 /\ pool' = Charge(pool, 1) /\ real' = Runs(1)
        \/ w = 1 /\ pool' = pool /\ real' = real
    BY <1>1
  <1> HIDE DEF w
  <1>5. It.left \in 0..Stmts /\ b = End /\ a = Topping(w, It.left)
    BY <1>1, <1>2 DEF Follows, Inside
  <1>6. PICK j \in Nat : It.left = j + 1 /\ It.left - 1 = j /\ j + 1 <= Stmts
    <2>1. Stmts \in Nat
      BY GeneratorAssumption
    <2>2. It.left \in Nat /\ It.left > 0 /\ It.left <= Stmts
      BY <1>1, <1>5, <2>1
    <2>3. It.left - 1 \in Nat /\ It.left = (It.left - 1) + 1 /\ (It.left - 1) + 1 <= Stmts
      BY <2>1, <2>2
    <2> QED
      BY <2>3
  <1>7. PICK s \in Nat, x \in Nat : s = Stmts * w /\ x = j * w /\ x + w <= s
    <2>1. j + 1 \in Nat /\ Stmts \in Nat
      BY GeneratorAssumption
    <2>2. /\ j * w \in Nat /\ Stmts * w \in Nat /\ (j + 1) * w = j * w + w
          /\ (j + 1) * w <= Stmts * w
      BY <1>3, <1>6, <2>1, Times
    <2> QED
      BY <2>2
  <1>8. /\ a.mode = "subject" /\ a.mul = 1 /\ a.kept = s /\ a.risk = "any"
        /\ a.owed = x + w /\ a.vars = 0
    <2>1. (j + 1) * w = x + w
      BY <1>3, <1>7, Times
    <2> QED
      BY <1>5, <1>6, <1>7, <2>1 DEF Topping
  <1> DEFINE r == Topping(w, j)
             e == Later(r, 1)
  <1>9. r \in Entry /\ End \in Entry
    BY <1>3, SubjectEntries
  <1>10. /\ r.mode = "subject" /\ r.mul = 1 /\ r.kept = s /\ r.risk = "any"
         /\ r.owed = x /\ r.vars = 0
    BY <1>7 DEF Topping
  <1>11. Follows(w, Top(j), r, b)
    <2>1. Top(j).do = "top" /\ Top(j).left = j /\ j \in 0..Stmts /\ r.risk = "any"
      BY <1>6, <1>10, GeneratorAssumption DEF Top
    <2>2. b.risk = "any"
      BY <1>5 DEF End
    <2> HIDE DEF r
    <2>3. r = Topping(w, Top(j).left)
      BY <2>1 DEF r
    <2> QED
      BY <1>5, <2>1, <2>2, <2>3 DEF Follows
  <1>12. Covered(w, <<Top(j)>> \o Tail(todo), r)
    BY <1>2, <1>9, <1>11, PushOne
  <1>13. Owes(w, mode, <<it>>, 1) /\ IsSeq(<<it>>)
    <2>1. Heavy(it, 1)
      BY DEF Heavy, Stmt, Due
    <2> HIDE DEF it
    <2>2. 1 \in Nat
      OBVIOUS
    <2> QED
      BY <2>1, <2>2, OwesOne
  <1>14. mode = "subject" /\ pool.mul = 1 /\ real.times = 1
    BY <1>2, <1>8 DEF Accounts
  <1> HIDE DEF r, e, it
  <1>15. Covered(w, <<it>> \o (<<Top(j)>> \o Tail(todo)), e)
    <2>1. r.owed + 1 * r.mul <= r.kept
      BY <1>3, <1>7, <1>10
    <2> QED
      BY <1>9, <1>10, <1>12, <1>13, <1>14, <2>1 DEF Owes, e
  <1>16. todo' = <<it>> \o (<<Top(j)>> \o Tail(todo))
    <2> DEFINE p == <<it>>
               u == <<Top(j)>>
               v == Tail(todo)
    <2>1. IsSeq(v)
      BY <1>2 DEF Covered
    <2>2. p \in Seq({it}) /\ u \in Seq({Top(j)})
      OBVIOUS
    <2>3. <<it, Top(j)>> = p \o u
      BY FirstOfTwo
    <2>4. todo' = (p \o u) \o v
      BY <1>1, <1>6, <2>3
    <2> HIDE DEF p, u, v
    <2>5. (p \o u) \o v = p \o (u \o v)
      BY <2>1, <2>2, Associative DEF IsSeq
    <2>6. todo' = p \o (u \o v)
      BY <2>4, <2>5
    <2> QED
      BY <2>6 DEF p, u, v
  <1>17. /\ e \in Entry /\ e.owed = x + 1 /\ e.mode = "subject" /\ e.mul = 1
         /\ e.kept = s /\ e.vars = 0 /\ e.risk = "any"
    <2>1. /\ Later(r, 1) \in Entry
          /\ Later(r, 1).owed = r.owed + 1 * r.mul
          /\ Later(r, 1).mode = r.mode /\ Later(r, 1).mul = r.mul
          /\ Later(r, 1).kept = r.kept /\ Later(r, 1).vars = r.vars
          /\ Later(r, 1).risk = r.risk
      BY <1>9, LaterEntry
    <2> QED
      BY <1>10, <2>1 DEF e
  <1>18. Accounts(w, pool', real', mode, e)
    <2>1. CASE w = 1 /\ pool' = pool /\ real' = real
      <3>1. a = e
        BY <1>8, <1>17, <2>1, EntryEqual
      <3> QED
        BY <1>2, <2>1, <3>1
    <2>2. CASE w = 2 /\ pool' = Charge(pool, 1) /\ real' = Runs(1)
      <3>1. e.mode = a.mode /\ e.mul = a.mul /\ e.kept = a.kept
        BY <1>8, <1>17
      <3>2. pool.left \in Nat /\ pool.left >= x + 2
        BY <1>2, <1>8, <1>14, <2>2 DEF Accounts
      <3>3. pool.left >= 1 + e.owed
        BY <1>17, <3>2
      <3>4. 1 \in Nat /\ 1 <= 1
        OBVIOUS
      <3>5. /\ Accounts(w, Pay(pool, 1), [real EXCEPT !.sum = @ + 1], mode, e)
            /\ Carries(pool, 1)
        BY <1>2, <1>3, <1>8, <1>17, <3>1, <3>3, <3>4, Costs
      <3>6. pool' = Pay(pool, 1)
        BY <2>2, <3>2, <3>4, <3>5, ChargeIsPay
      <3>7. real' = [real EXCEPT !.sum = @ + 1]
        BY <1>14, <2>2 DEF Runs
      <3> QED
        BY <3>5, <3>6, <3>7
    <2> QED
      BY <1>4, <2>1, <2>2
  <1>19. Accounts(w, pool', real', mode', e) /\ Order(risk', line', mode', e)
    BY <1>1, <1>2, <1>17, <1>18 DEF Order
  <1>20. PricesKept'
    BY <1>1, <1>3, PricesStay
  <1> QED
    BY <1>1, <1>15, <1>16, <1>17, <1>19, <1>20, Refold DEF w

\* All the statements are written: nothing is kept free any more.
LEMMA EndSubjectKeeps ==
  ASSUME GeneratorInv, EndSubject
  PROVE  GeneratorInv'
  <1> DEFINE w == perStmt
             items == IF config.functions THEN <<Functions>> ELSE <<>>
  <1>1. /\ todo # <<>> /\ It.do = "top" /\ It.left = 0 /\ todo' = items \o Tail(todo)
        /\ pool' = Release(pool, Stmts * perStmt)
        /\ UNCHANGED <<risk, mode, callees, pairs, config, line, real>>
    BY DEF EndSubject, At, It, Then
  <1>2. PICK a \in Entry, b \in Entry :
          /\ Follows(w, It, a, b) /\ Covered(w, Tail(todo), b)
          /\ Accounts(w, pool, real, mode, a) /\ Order(risk, line, mode, a)
    BY <1>1, Unfold
  <1>3. PricesKept /\ w \in {1, 2} /\ w \in Nat
    BY <1>1, Unfold
  <1>4. PICK s \in Nat : s = Stmts * w /\ pool' = Release(pool, s)
    BY <1>1, <1>3, SubjectEntries
  <1> HIDE DEF w
  <1>5. b = End /\ a = Topping(w, 0)
    BY <1>1, <1>2 DEF Follows, Inside
  <1>6. /\ a.mode = "subject" /\ a.mul = 1 /\ a.kept = s /\ a.owed = 0 * w /\ a.vars = 0
        /\ b.mode = "subject" /\ b.mul = 1 /\ b.kept = 0 /\ b.owed = 0 /\ b.vars = 0
        /\ b.risk = "any"
    BY <1>4, <1>5 DEF Topping, End
  <1>7. mode = "subject" /\ pool.mul = 1 /\ real.times = 1
        /\ real = [times |-> real.times, sum |-> real.sum]
    BY <1>2, <1>6 DEF Accounts
  <1>8. a.owed >= b.owed /\ a.kept = b.kept + s
    <2>1. 0 * w = 0
      BY <1>3
    <2> QED
      BY <1>6, <2>1
  <1>9. /\ Accounts(w, Released(pool, s, b.mul), [real EXCEPT !.times = b.mul], mode, b)
        /\ Shape(pool)
        /\ ~pool.priced => s <= pool.liability
    BY <1>2, <1>3, <1>6, <1>8, ReleaseAccounts
  <1>10. pool' = Released(pool, s, b.mul)
    <2>1. Release(pool, s) = Released(pool, s, pool.mul)
      BY <1>9, ReleasedFields
    <2> QED
      BY <1>4, <1>6, <1>7, <2>1
  <1>11. [real EXCEPT !.times = b.mul] = real
    <2>1. [real EXCEPT !.times = b.mul] = [times |-> b.mul, sum |-> real.sum]
      BY <1>7
    <2> QED
      BY <1>6, <1>7, <2>1
  <1>12. Accounts(w, pool', real', mode', b)
    BY <1>1, <1>9, <1>10, <1>11
  <1>13. Order(risk', line', mode', b)
    BY <1>1, <1>2, <1>6 DEF Order
  <1>14. Covered(w, todo', b)
    <2>1. CASE config.functions
      <3>1. Follows(w, Functions, b, b)
        BY <1>5, <1>6 DEF Follows, Functions
      <3>2. Covered(w, <<Functions>> \o Tail(todo), b)
        BY <1>2, <3>1, PushOne
      <3> QED
        BY <1>1, <2>1, <3>2
    <2>2. CASE ~config.functions
      <3>1. PICK S : Tail(todo) \in Seq(S)
        BY <1>2 DEF Covered, IsSeq
      <3>2. <<>> \o Tail(todo) = Tail(todo)
        BY <3>1
      <3> QED
        BY <1>1, <1>2, <2>2, <3>2
    <2> QED
      BY <2>1, <2>2
  <1>15. PricesKept'
    BY <1>1, <1>3, PricesStay
  <1> QED
    BY <1>1, <1>2, <1>12, <1>13, <1>14, <1>15, Refold DEF w

LEMMA GenerateKeeps ==
  ASSUME GeneratorInv, Generate
  PROVE  GeneratorInv'
  BY DeclareOneKeeps, TopStatementKeeps, EndSubjectKeeps DEF Generate

-----------------------------------------------------------------------------
(* Bodies.                                                                 *)

\* Before a body that returns, and what follows its return.
BodyEntry(m) == [mode |-> m, mul |-> 1, kept |-> 0, owed |-> 0, vars |-> 0, risk |-> "any"]
ReturnEntry(n) == [mode |-> "function", mul |-> 1, kept |-> n, owed |-> 1, vars |-> 0,
                   risk |-> "any"]

\* What is saved at the end of a body is what the emitters go back to.
LEMMA BodyEnds ==
  ASSUME NEW w, NEW rest, NEW c \in Entry, Covered(w, rest, c), c.risk = "any",
         Accounts(w, pool, real, mode, c), Order(risk, line, mode, c),
         NEW for \in Forms \cup Kinds \cup {"function"}, NEW m,
         m = IF for = "function" THEN "function" ELSE "pure"
  PROVE  /\ Covered(w, <<Expr(ExprFuel), EndBody(for)>> \o rest, BodyEntry(m))
         /\ BodyEntry(m) \in Entry /\ IsSeq(<<Expr(ExprFuel), EndBody(for)>>)
  <1> DEFINE e == Expr(ExprFuel)
             z == EndBody(for)
             b == BodyEntry(m)
  <1>1. b \in Entry
    BY DEF BodyEntry, Entry
  <1>2. /\ z.do = "endbody" /\ z.for = for /\ z.pool = pool /\ z.risk = risk
        /\ z.mode = mode /\ z.line = line /\ z.real = real
    BY DEF EndBody
  <1>3. b.mode = m /\ b.mul = 1 /\ b.vars = 0 /\ b.risk = "any"
    BY DEF BodyEntry
  <1>4. Lights(<<e>>)
    BY LightItems
  <1> HIDE DEF e, z, b
  <1>5. Follows(w, z, b, c)
    BY <1>2, <1>3 DEF Follows
  <1>6. Covered(w, <<z>> \o rest, b)
    BY <1>1, <1>5, PushOne
  <1>7. Owes(w, m, <<e>>, 0)
    BY <1>4, LightsOwe
  <1>8. Covered(w, <<e>> \o (<<z>> \o rest), b)
    <2>1. m # "pure" => b.owed + 0 * b.mul <= b.kept
      BY DEF b, BodyEntry
    <2>2. Covered(w, <<e>> \o (<<z>> \o rest), Later(b, 0))
      BY <1>1, <1>3, <1>6, <1>7, <2>1 DEF Owes
    <2>3. 0 \in Nat /\ Later(b, 0) = b
      BY <1>1, LaterSum
    <2> QED
      BY <2>2, <2>3
  <1>9. IsSeq(<<e, z>>) /\ <<e>> \o (<<z>> \o rest) = <<e, z>> \o rest
    <2> DEFINE p == <<e>>
               u == <<z>>
               v == <<e, z>>
    <2>1. p \in Seq({e}) /\ u \in Seq({z}) /\ v \in Seq({e, z})
      OBVIOUS
    <2>2. v = p \o u
      BY FirstOfTwo
    <2>3. IsSeq(rest)
      BY DEF Covered
    <2> HIDE DEF p, u, v
    <2>4. (p \o u) \o rest = p \o (u \o rest)
      BY <2>1, <2>3, Associative DEF IsSeq
    <2>5. IsSeq(v) /\ p \o (u \o rest) = v \o rest
      BY <2>1, <2>2, <2>4 DEF IsSeq
    <2> QED
      BY <2>5 DEF p, u, v
  <1> QED
    BY <1>1, <1>8, <1>9 DEF e, z, b

\* The statements of a body come before its return.
LEMMA BodyStarts ==
  ASSUME NEW w, NEW m, NEW r \in Entry, r.mode = m, r.vars = 0, r.risk = "any", NEW n \in Nat,
         m # "pure" => r.owed + n * r.mul <= r.kept,
         NEW return, IsSeq(return), NEW for, IsSeq(<<Expr(ExprFuel), EndBody(for)>>), NEW rest,
         Covered(w, return \o (<<Expr(ExprFuel), EndBody(for)>> \o rest), r), IsSeq(rest)
  PROVE  Covered(w, Body(n, return, for) \o rest, Later(r, n))
  <1> DEFINE s == [i \in 1..n |-> Stmt(1, FALSE, FALSE)]
             z == <<Expr(ExprFuel), EndBody(for)>>
  <1>1. s = [i \in 1..n |-> s[i]] /\ \A i \in 1..n : s[i].do = "stmt"
    BY DEF Stmt
  <1>2. Body(n, return, for) = (s \o return) \o z
    BY DEF Body
  <1> HIDE DEF s, z
  <1>3. Owes(w, m, s, n) /\ IsSeq(s)
    BY <1>1, OwesStatements
  <1>4. IsSeq(z) /\ Covered(w, return \o (z \o rest), r)
    BY DEF z
  <1>5. Covered(w, s \o (return \o (z \o rest)), Later(r, n))
    BY <1>3, <1>4 DEF Owes
  <1>6. ((s \o return) \o z) \o rest = s \o (return \o (z \o rest))
    <2> DEFINE p == s \o return
               x == z \o rest
    <2>1. IsSeq(p) /\ IsSeq(x)
      BY <1>3, <1>4, ConcatIsSeq
    <2>2. p \o x = s \o (return \o x)
      <3> HIDE DEF x
      <3> QED
        BY ONLY <1>3, <2>1, IsSeq(return), Associative
    <2> HIDE DEF p
    <2>3. (p \o z) \o rest = p \o (z \o rest)
      BY ONLY <1>4, <2>1, IsSeq(rest), Associative
    <2> QED
      BY <2>2, <2>3 DEF p
  <1> QED
    BY <1>2, <1>5, <1>6

LEMMA NewLineQuiet ==
  ASSUME NEW m, Quiet(risk, line, m), risk' = risk, line' = NewLine, NEW k
  PROVE  Quiet(risk', line', k)
  <1>1. line' = [hot |-> 0, wit |-> FALSE]
    BY DEF NewLine
  <1>2. line' = [hot |-> line'.hot, wit |-> line'.wit] /\ line'.hot = 0
    BY <1>1
  <1>3. ~line'.wit
    BY <1>1
  <1> QED
    BY <1>2, <1>3 DEF Quiet

\* A body that is called has accounts of its own, where nothing is owed.
LEMMA OpenPricedKeeps ==
  ASSUME GeneratorInv, todo # <<>>, NEW n \in Nat, NEW for \in Forms \cup Kinds, NEW back,
         NEW c \in Entry, c.risk = "any", Covered(perStmt, <<back>> \o Tail(todo), c),
         Accounts(perStmt, pool, real, mode, c), Order(risk, line, mode, c),
         OpenPriced(n, for, <<back>>)
  PROVE  GeneratorInv'
  <1> DEFINE w == perStmt
             u == <<back>>
             v == Tail(todo)
             z == <<Expr(ExprFuel), EndBody(for)>>
             r == BodyEntry("pure")
  <1>1. /\ todo' = (Body(n, <<>>, for) \o u) \o v
        /\ pool' = Pricing(pool) /\ mode' = "pure" /\ line' = NewLine
        /\ real' = [times |-> 1, sum |-> 0]
        /\ UNCHANGED <<risk, callees, pairs, config>>
    BY DEF OpenPriced, Then
  <1>2. for # "function" /\ for \in Forms \cup Kinds \cup {"function"}
    BY GeneratorAssumption DEF Kinds
  <1>3. Covered(w, z \o (u \o v), r) /\ r \in Entry /\ IsSeq(z)
    BY <1>2, BodyEnds
  <1>4. r.mode = "pure" /\ r.vars = 0 /\ r.risk = "any" /\ r.mul = 1
    BY DEF BodyEntry
  <1>5. IsSeq(u) /\ IsSeq(v) /\ IsSeq(u \o v)
    <2>1. u \in Seq({back})
      OBVIOUS
    <2>2. IsSeq(v)
      BY Unfold DEF Covered
    <2> HIDE DEF u, v
    <2>3. IsSeq(u)
      BY <2>1 DEF IsSeq
    <2> QED
      BY <2>2, <2>3, ConcatIsSeq
  <1> HIDE DEF u, v, r
  <1>6. IsSeq(<<>>) /\ <<>> \o (z \o (u \o v)) = z \o (u \o v) /\ IsSeq(z \o (u \o v))
    <2> HIDE DEF z
    <2>1. PICK S : z \o (u \o v) \in Seq(S)
      BY <1>3 DEF Covered, IsSeq
    <2> DEFINE x == z \o (u \o v)
    <2>2. IsSeq(x)
      BY <2>1 DEF IsSeq
    <2> HIDE DEF x
    <2>3. <<>> \in Seq({}) /\ <<>> \o x = x
      BY <2>1 DEF x
    <2> QED
      BY <2>2, <2>3 DEF IsSeq, x
  <1>7. Covered(w, Body(n, <<>>, for) \o (u \o v), Later(r, n))
    BY <1>3, <1>4, <1>5, <1>6, BodyStarts
  <1>8. (Body(n, <<>>, for) \o u) \o v = Body(n, <<>>, for) \o (u \o v)
    <2> DEFINE s == [i \in 1..n |-> Stmt(1, FALSE, FALSE)]
    <2>1. s = [i \in 1..n |-> s[i]] /\ \A i \in 1..n : s[i].do = "stmt"
      BY DEF Stmt
    <2>2. Body(n, <<>>, for) = (s \o <<>>) \o z
      BY DEF Body
    <2> HIDE DEF s, z
    <2>3. IsSeq(s)
      BY <2>1, OwesStatements
    <2>4. IsSeq((s \o <<>>) \o z)
      BY <1>3, <1>6, <2>3, ConcatIsSeq
    <2> QED
      BY <1>5, <2>2, <2>4, Associative
  <1>9. /\ Later(r, n) \in Entry /\ Later(r, n).mode = "pure" /\ Later(r, n).mul = 1
        /\ Later(r, n).risk = "any"
    BY <1>3, <1>4, LaterEntry
  <1>10. /\ Shape(pool) /\ ~pool.breached /\ Quiet(risk, line, mode) /\ PricesKept
    BY AtHand
  <1>11. pool' = [left |-> pool.left, liability |-> 0, mul |-> 1, breached |-> pool.breached,
                  priced |-> TRUE, cost |-> 0]
    BY <1>1, <1>10 DEF Pricing, Shape
  <1>12. /\ pool' = [left |-> pool'.left, liability |-> pool'.liability, mul |-> pool'.mul,
                     breached |-> pool'.breached, priced |-> pool'.priced, cost |-> pool'.cost]
         /\ pool'.left \in Nat /\ pool'.liability \in Nat /\ pool'.cost = 0 /\ pool'.mul = 1
         /\ pool'.breached = pool.breached /\ pool'.priced = TRUE
    BY <1>10, <1>11 DEF Shape
  <1>13. real' = [times |-> real'.times, sum |-> real'.sum] /\ real'.times = 1 /\ real'.sum = 0
    BY <1>1
  <1> DEFINE e == Later(r, n)
  <1> HIDE DEF e
  <1>14. e \in Entry /\ e.mode = "pure" /\ e.mul = 1 /\ e.risk = "any" /\ Covered(w, todo', e)
    BY <1>1, <1>7, <1>8, <1>9 DEF e
  <1>15. Accounts(w, pool', real', mode', e)
    BY <1>1, <1>10, <1>12, <1>13, <1>14 DEF Accounts
  <1>16. Order(risk', line', mode', e)
    <2>1. Quiet(risk', line', mode')
      BY <1>1, <1>10, NewLineQuiet
    <2> QED
      BY <1>14, <2>1 DEF Order
  <1>17. PricesKept'
    BY <1>1, <1>10, PricesStay
  <1> QED
    BY <1>1, <1>14, <1>15, <1>16, <1>17, Refold

LEMMA GenerateCalleeKeeps ==
  ASSUME GeneratorInv, GenerateCallee
  PROVE  GeneratorInv'
  <1>1. PICK kind \in Kinds, n \in 1..MaxBody :
          todo # <<>> /\ It.do = "callees" /\ OpenPriced(n, kind, <<Callees(It.left - 1)>>)
    BY DEF GenerateCallee, At, It
  <1> DEFINE back == Callees(It.left - 1)
  <1>2. PICK a \in Entry, b \in Entry :
          /\ Follows(perStmt, It, a, b) /\ Covered(perStmt, Tail(todo), b)
          /\ Accounts(perStmt, pool, real, mode, a) /\ Order(risk, line, mode, a)
    BY <1>1, Unfold
  <1>3. a = b /\ a.mode = "subject" /\ b.risk = "any"
    BY <1>1, <1>2 DEF Follows, Inside
  <1>4. Follows(perStmt, back, a, a)
    <2>1. back.do = "callees"
      BY DEF Callees
    <2> HIDE DEF back
    <2> QED
      BY <1>3, <2>1 DEF Follows
  <1>5. OpenPriced(n, kind, <<back>>) /\ n \in Nat
    BY <1>1, GeneratorAssumption
  <1> HIDE DEF back
  <1>6. Covered(perStmt, <<back>> \o Tail(todo), a)
    BY <1>2, <1>3, <1>4, PushOne
  <1> QED
    BY <1>1, <1>2, <1>3, <1>5, <1>6, OpenPricedKeeps

LEMMA BuildPairKeeps ==
  ASSUME GeneratorInv, BuildPair
  PROVE  GeneratorInv'
  <1>1. PICK n \in 1..MaxBody :
          todo # <<>> /\ It.do = "forward" /\ OpenPriced(n, It.form, <<It>>)
    BY DEF BuildPair, At, It
  <1>2. PICK a \in Entry, b \in Entry :
          /\ Follows(perStmt, It, a, b) /\ Covered(perStmt, Tail(todo), b)
          /\ Accounts(perStmt, pool, real, mode, a) /\ Order(risk, line, mode, a)
    BY <1>1, Unfold
  <1>3. It.form \in Forms \cup Kinds /\ a.risk = "any"
    BY <1>1, <1>2 DEF Follows, Pays, Inside
  <1>4. n \in Nat
    BY GeneratorAssumption
  <1>5. Covered(perStmt, <<It>> \o Tail(todo), a)
    BY <1>2, PushOne
  <1> QED
    BY <1>1, <1>2, <1>3, <1>4, <1>5, OpenPricedKeeps

\* A battery function has a budget of its own, and keeps free what its
\* statements and its return cost.
LEMMA GenerateFunctionKeeps ==
  ASSUME GeneratorInv, GenerateFunction
  PROVE  GeneratorInv'
  <1> DEFINE w == perStmt
             v == Tail(todo)
             z == <<Expr(ExprFuel), EndBody("function")>>
             y == BodyEntry("function")
  <1>1. PICK n \in 1..MaxBody :
          /\ todo # <<>> /\ It.do = "functions"
          /\ todo' = Body(n, <<Return(n + 1)>>, "function") \o v
          /\ pool' = CommitFloor(Pool(PerCall), n + 1)
          /\ mode' = "function" /\ line' = NewLine /\ real' = [times |-> 1, sum |-> 0]
          /\ UNCHANGED <<risk, callees, pairs, config>>
    BY DEF GenerateFunction, At, It, Then
  <1>2. PICK a \in Entry, b \in Entry :
          /\ Follows(w, It, a, b) /\ Covered(w, v, b)
          /\ Accounts(w, pool, real, mode, a) /\ Order(risk, line, mode, a)
    BY <1>1, Unfold
  <1>3. a = b /\ b.risk = "any"
    BY <1>1, <1>2 DEF Follows, Inside
  <1>4. PICK k \in Nat : k = n + 1 /\ k <= PerCall /\ n \in Nat /\ PerCall \in Nat
    BY GeneratorAssumption
  <1>5. Covered(w, z \o v, y) /\ y \in Entry /\ IsSeq(z)
    BY <1>2, <1>3, BodyEnds
  <1> DEFINE it == Return(k)
             r == ReturnEntry(k)
  <1>6. /\ r \in Entry /\ r.mode = "function" /\ r.vars = 0 /\ r.risk = "any" /\ r.mul = 1
        /\ r.owed = 1 /\ r.kept = k
    BY DEF ReturnEntry, Entry
  <1>7. Follows(w, it, r, y)
    <2>1. it.do = "return" /\ it.floor = k
      BY DEF Return
    <2>2. /\ y.mode = "function" /\ y.vars = 0 /\ y.risk = "any" /\ y.mul = 1
          /\ y.owed = 0 /\ y.kept = 0
      BY DEF BodyEntry
    <2> HIDE DEF it, r, y
    <2>3. Due(it) = 1 /\ Kept(it) = k
      BY <2>1 DEF Due, Kept
    <2>4. r.owed >= y.owed + Due(it) * r.mul /\ r.kept = y.kept + Kept(it) /\ r.owed <= r.kept
      BY <1>4, <1>6, <2>2, <2>3
    <2>5. Pays(it, r, y)
      BY <1>6, <2>1, <2>2, <2>4 DEF Pays
    <2> QED
      BY <1>6, <2>1, <2>2, <2>5 DEF Follows, Inside
  <1> HIDE DEF r, y, it
  <1>8. Covered(w, <<it>> \o (z \o v), r)
    BY <1>5, <1>6, <1>7, PushOne
  <1>9. IsSeq(<<it>>) /\ IsSeq(v)
    <2> DEFINE s == <<it>>
    <2>1. s \in Seq({it})
      OBVIOUS
    <2> HIDE DEF s
    <2>2. IsSeq(s)
      BY <2>1 DEF IsSeq
    <2> QED
      BY <1>2, <2>2 DEF Covered, s
  <1>10. r.owed + n * r.mul <= r.kept
    BY <1>4, <1>6
  <1> DEFINE e == Later(r, n)
  <1>11. Covered(w, Body(n, <<it>>, "function") \o v, e)
    BY <1>4, <1>5, <1>6, <1>8, <1>9, <1>10, BodyStarts
  <1>12. /\ e \in Entry /\ e.mode = "function" /\ e.mul = 1 /\ e.risk = "any" /\ e.vars = 0
         /\ e.owed = k /\ e.kept = k
    <2>1. /\ Later(r, n) \in Entry
          /\ Later(r, n).owed = r.owed + n * r.mul
          /\ Later(r, n).mode = r.mode /\ Later(r, n).mul = r.mul
          /\ Later(r, n).kept = r.kept /\ Later(r, n).vars = r.vars
          /\ Later(r, n).risk = r.risk
      BY <1>4, <1>6, LaterEntry
    <2>2. 1 + n * 1 = k
      BY <1>4
    <2> QED
      BY <1>6, <2>1, <2>2
  <1>13. Covered(w, todo', e)
    BY <1>1, <1>4, <1>11 DEF it
  <1> HIDE DEF e
  <1>14. pool' = [left |-> PerCall, liability |-> k, mul |-> 1, breached |-> FALSE,
                  priced |-> FALSE, cost |-> 0]
    <2>1. Pool(PerCall).priced = FALSE /\ Pool(PerCall).liability = 0
      BY DEF Pool
    <2>2. Pool(PerCall).liability + (n + 1) = k
      BY <1>4, <2>1
    <2>3. CommitFloor(Pool(PerCall), n + 1) =
            [Pool(PerCall) EXCEPT !.liability = Pool(PerCall).liability + (n + 1)]
      BY <2>1 DEF CommitFloor
    <2>4. pool' = [Pool(PerCall) EXCEPT !.liability = k]
      BY ONLY <1>1, <2>2, <2>3
    <2> QED
      BY ONLY <2>4 DEF Pool
  <1>15. /\ pool' = [left |-> pool'.left, liability |-> pool'.liability, mul |-> pool'.mul,
                     breached |-> pool'.breached, priced |-> pool'.priced, cost |-> pool'.cost]
         /\ pool'.left = PerCall /\ pool'.liability = k /\ pool'.cost = 0 /\ pool'.mul = 1
         /\ pool'.breached = FALSE /\ pool'.priced = FALSE
    BY <1>14
  <1>16. real' = [times |-> real'.times, sum |-> real'.sum] /\ real'.times = 1 /\ real'.sum = 0
    BY <1>1
  <1>17. Cap(w, "function") = PerCall
    BY DEF Cap
  <1>18. Accounts(w, pool', real', mode', e)
    <2>1. pool'.left >= e.owed /\ pool'.liability = e.kept /\ e.vars <= e.owed
      BY <1>4, <1>12, <1>15
    <2>2. real'.sum + pool'.left <= Cap(w, "function") + e.vars
      BY <1>4, <1>12, <1>15, <1>16, <1>17
    <2>3. mode' = "function"
      BY <1>1
    <2> QED
      BY <1>4, <1>12, <1>15, <1>16, <2>1, <2>2, <2>3 DEF Accounts
  <1>19. Order(risk', line', mode', e)
    <2>1. Quiet(risk, line, mode)
      BY <1>2 DEF Order
    <2>2. Quiet(risk', line', mode')
      BY <1>1, <2>1, NewLineQuiet
    <2> QED
      BY <1>12, <2>2 DEF Order
  <1>20. PricesKept'
    BY <1>1, Unfold, PricesStay
  <1> QED
    BY <1>1, <1>12, <1>13, <1>18, <1>19, <1>20, Refold

\* The emitters go back to where they were.
LEMMA CloseBodyKeeps ==
  ASSUME GeneratorInv, At("endbody"), CloseBody, UNCHANGED config, PricesKept'
  PROVE  GeneratorInv'
  <1>1. todo # <<>> /\ It.do = "endbody" /\ todo' = <<>> \o Tail(todo)
        /\ pool' = It.pool /\ risk' = It.risk /\ mode' = It.mode
        /\ line' = It.line /\ real' = It.real
    BY DEF At, It, CloseBody, Then
  <1>2. PICK a \in Entry, b \in Entry :
          Follows(perStmt, It, a, b) /\ Covered(perStmt, Tail(todo), b)
    BY <1>1, Unfold
  <1>3. Accounts(perStmt, It.pool, It.real, It.mode, b) /\ Order(It.risk, It.line, It.mode, b)
    BY <1>1, <1>2 DEF Follows, Inside
  <1>4. Accounts(perStmt, pool', real', mode', b) /\ Order(risk', line', mode', b)
    BY <1>1, <1>3
  <1>5. todo' = Tail(todo)
    <2>1. PICK S : Tail(todo) \in Seq(S)
      BY <1>2 DEF Covered, IsSeq
    <2> QED
      BY <1>1, <2>1
  <1> QED
    BY <1>2, <1>4, <1>5, Refold

\* What the body of a callee or a forward pair executed is in its price.
LEMMA Priced ==
  ASSUME GeneratorInv, At("endbody"), It.for # "function"
  PROVE  /\ real.sum \in Nat /\ pool.cost \in Nat /\ real.sum <= pool.cost /\ PricesKept
  <1>1. todo # <<>> /\ It.do = "endbody"
    BY DEF At, It
  <1>2. PICK a \in Entry, b \in Entry :
          /\ Follows(perStmt, It, a, b) /\ Accounts(perStmt, pool, real, mode, a)
    BY <1>1, Unfold
  <1>3. a.mode = "pure"
    BY <1>1, <1>2 DEF Follows, Inside
  <1> QED
    BY <1>1, <1>2, <1>3, Unfold DEF Accounts

LEMMA EndCalleeKeeps ==
  ASSUME GeneratorInv, EndCallee
  PROVE  GeneratorInv'
  <1>1. /\ At("endbody") /\ It.for \in Kinds /\ CloseBody /\ UNCHANGED <<pairs, config>>
        /\ callees' = Append(callees, [kind |-> It.for, cost |-> pool.cost + 2,
                                       runs |-> real.sum + 2])
    BY DEF EndCallee
  <1>2. real.sum \in Nat /\ pool.cost \in Nat /\ real.sum <= pool.cost /\ PricesKept
    BY <1>1, Priced DEF Kinds
  <1> DEFINE S == [kind : Kinds, cost : Nat, runs : Nat]
             c == [kind |-> It.for, cost |-> pool.cost + 2, runs |-> real.sum + 2]
  <1>3. c \in S /\ c.runs <= c.cost
    BY <1>1, <1>2
  <1>4. callees \in Seq(S) /\ \A i \in 1..Len(callees) : callees[i].runs <= callees[i].cost
    BY <1>2 DEF PricesKept
  <1>5. callees' = Append(callees, c)
    BY <1>1
  <1> HIDE DEF c
  <1>6. /\ callees' \in Seq(S) /\ Len(callees') = Len(callees) + 1
        /\ \A i \in 1..Len(callees) : callees'[i] = callees[i]
        /\ callees'[Len(callees) + 1] = c
    <2> HIDE DEF S
    <2> QED
      BY <1>3, <1>4, <1>5, AppendProperties
  <1>7. \A i \in 1..Len(callees') : callees'[i].runs <= callees'[i].cost
    <2>1. Len(callees) \in Nat
      BY <1>4
    <2>2. \A i \in 1..Len(callees') : i \in 1..Len(callees) \/ i = Len(callees) + 1
      BY <1>6, <2>1
    <2> QED
      BY <1>3, <1>4, <1>6, <2>2
  <1>8. PricesKept'
    BY <1>1, <1>2, <1>6, <1>7 DEF PricesKept
  <1> QED
    BY <1>1, <1>8, CloseBodyKeeps

LEMMA EndPairKeeps ==
  ASSUME GeneratorInv, EndPair
  PROVE  GeneratorInv'
  <1>1. PICK slots \in 2..3 :
          /\ At("endbody") /\ It.for \in Forms /\ CloseBody /\ UNCHANGED <<callees, config>>
          /\ pairs' = [pairs EXCEPT ![It.for] =
                         [built |-> TRUE, cost |-> pool.cost + 2 + slots + 4,
                          runs |-> real.sum + 2 + slots + 4]]
    BY DEF EndPair, CloseBody
  <1>2. real.sum \in Nat /\ pool.cost \in Nat /\ real.sum <= pool.cost /\ PricesKept
    BY <1>1, Priced, GeneratorAssumption
  <1> DEFINE c == [built |-> TRUE, cost |-> pool.cost + 2 + slots + 4,
                   runs |-> real.sum + 2 + slots + 4]
  <1>3. c.cost \in Nat /\ c.runs \in Nat /\ c.runs <= c.cost
    BY <1>2
  <1>4. pairs' = [pairs EXCEPT ![It.for] = c]
    BY <1>1
  <1> HIDE DEF c
  <1>5. \A f \in Forms : pairs'[f] = IF f = It.for THEN c ELSE pairs[f]
    BY <1>2, <1>4 DEF PricesKept
  <1>6. pairs' = [f \in Forms |-> pairs'[f]]
    BY <1>2, <1>4 DEF PricesKept
  <1>7. PricesKept'
    BY <1>1, <1>2, <1>3, <1>5, <1>6 DEF PricesKept
  <1> QED
    BY <1>1, <1>7, CloseBodyKeeps

LEMMA BodiesKeep ==
  ASSUME GeneratorInv, Bodies
  PROVE  GeneratorInv'
  <1>1. CASE EndCallees
    <2>1. /\ todo # <<>> /\ It.do = "callees" /\ todo' = <<>> \o Tail(todo)
          /\ UNCHANGED <<pool, risk, mode, callees, pairs, config, line, real>>
      BY <1>1 DEF EndCallees, At, It, Then
    <2>2. PICK a \in Entry, b \in Entry :
            /\ Follows(perStmt, It, a, b) /\ Covered(perStmt, Tail(todo), b)
            /\ Accounts(perStmt, pool, real, mode, a) /\ Order(risk, line, mode, a)
      BY <2>1, Unfold
    <2>3. a = b
      BY <2>1, <2>2 DEF Follows, Inside
    <2>4. todo' = Tail(todo)
      <3>1. PICK S : Tail(todo) \in Seq(S)
        BY <2>2 DEF Covered, IsSeq
      <3> QED
        BY <2>1, <3>1
    <2>5. Accounts(perStmt, pool', real', mode', b) /\ Order(risk', line', mode', b)
      BY <2>1, <2>2, <2>3
    <2>6. PricesKept'
      BY <2>1, Unfold, PricesStay
    <2> QED
      BY <2>1, <2>2, <2>4, <2>5, <2>6, Refold
  <1>2. CASE EndFunction
    <2>1. At("endbody") /\ CloseBody /\ UNCHANGED <<callees, pairs, config>> /\ todo # <<>>
      BY <1>2 DEF EndFunction, At
    <2>2. PricesKept'
      BY <2>1, Unfold, PricesStay
    <2> QED
      BY <2>1, <2>2, CloseBodyKeeps
  <1>3. CASE ForwardCall
    <2>1. /\ todo # <<>> /\ It.do = "forward" /\ It.do \in Placed
          /\ Afford(pool, pairs[It.form].cost * pool.mul)
          /\ pool' = Charge(pool, pairs[It.form].cost * pool.mul)
          /\ real' = Runs(pairs[It.form].runs)
          /\ Then(Operand(ExprFuel - 1))
          /\ UNCHANGED <<risk, mode, callees, pairs, config, line>>
      BY <1>3 DEF ForwardCall, At, It, Placed
    <2>2. PICK a \in Entry, b \in Entry : Follows(perStmt, It, a, b)
      BY <2>1, Unfold
    <2>3. It.form \in Forms
      BY <2>1, <2>2 DEF Follows, Pays, Inside
    <2>4. /\ pairs[It.form].cost \in Nat /\ pairs[It.form].runs \in Nat
          /\ pairs[It.form].runs <= pairs[It.form].cost
      BY <2>1, <2>3, Unfold DEF PricesKept
    <2>5. Quiet(risk', line', mode)
      BY <2>1, AtHand
    <2>6. Lights(Operand(ExprFuel - 1))
      BY LightItems
    <2> QED
      BY <2>1, <2>4, <2>5, <2>6, PaidKeeps
  <1>4. CASE ForwardUnaffordable
    <2>1. /\ todo # <<>> /\ It.do \in Placed /\ resetRisk /\ Then(<<Expr(ExprFuel)>>)
          /\ UNCHANGED <<pool, mode, callees, pairs, config, real>>
      BY <1>4 DEF ForwardUnaffordable, At, It, Placed
    <2>2. Quiet(risk', line', mode)
      BY <2>1, AtHand, ResetQuiet
    <2>3. Owes(perStmt, mode, <<Expr(ExprFuel)>>, 0) /\ 0 <= Due(It) /\ 0 \in Nat
      BY <2>1, LightItems, LightsOwe, DueIsNat
    <2> QED
      BY <2>1, <2>2, <2>3, FreeKeeps
  <1> QED
    BY <1>1, <1>2, <1>3, <1>4, GenerateCalleeKeeps, EndCalleeKeeps, BuildPairKeeps, EndPairKeeps,
       GenerateFunctionKeeps, ReturnLineKeeps DEF Bodies

-----------------------------------------------------------------------------
(* The invariant.                                                          *)

LEMMA InitLedger ==
  ASSUME Init
  PROVE  GeneratorInv
  <1> DEFINE w == perStmt
             e == Declaring(w, Vars)
  <1>1. PICK case \in Cases : todo = <<Callees(case.callees), Declare(Vars)>>
    BY DEF Init
  <1>2. /\ pool = Pool(ExecBudget - w * FixedReserve)
        /\ risk = NoRisk /\ line = NewLine /\ mode = "subject" /\ callees = <<>>
        /\ pairs = [f \in Forms |-> [built |-> FALSE, cost |-> 0, runs |-> 0]]
        /\ real = [times |-> 1, sum |-> 0]
    BY DEF Init, perStmt
  <1>3. w \in {1, 2} /\ w \in Nat /\ Vars \in Nat
    BY GeneratorAssumption DEF perStmt
  <1> HIDE DEF w
  <1>4. PICK v \in Nat, s \in Nat, f \in Nat, left \in Nat :
          /\ v = Vars * VarReserve /\ s = Stmts * w /\ f = w * FixedReserve
          /\ left = ExecBudget - f /\ left >= v + s
    <2>1. /\ Vars * VarReserve \in Nat /\ Stmts \in Nat /\ FixedReserve \in Nat /\ ExecBudget \in Nat
          /\ ExecBudget >= 2 * FixedReserve + Vars * VarReserve + 2 * Stmts
      BY GeneratorAssumption
    <2>2. w * FixedReserve <= 2 * FixedReserve /\ Stmts * w <= 2 * Stmts
          /\ w * FixedReserve \in Nat /\ Stmts * w \in Nat
      BY <1>3, <2>1
    <2>3. PICK v \in Nat, s \in Nat, f \in Nat, f2 \in Nat, s2 \in Nat :
            /\ v = Vars * VarReserve /\ s = Stmts * w /\ f = w * FixedReserve
            /\ f2 = 2 * FixedReserve /\ s2 = 2 * Stmts
      BY <2>1, <2>2
    <2>4. f <= f2 /\ s <= s2 /\ ExecBudget >= f2 + v + s2
      BY <2>1, <2>2, <2>3
    <2>5. ExecBudget - f \in Nat /\ ExecBudget - f >= v + s
      BY ONLY <2>1, <2>4, v \in Nat, s \in Nat, f \in Nat, f2 \in Nat, s2 \in Nat
    <2> QED
      BY <2>3, <2>5
  <1>5. /\ pool = [left |-> pool.left, liability |-> pool.liability, mul |-> pool.mul,
                   breached |-> pool.breached, priced |-> pool.priced, cost |-> pool.cost]
        /\ pool.left = left /\ pool.liability = 0 /\ pool.mul = 1 /\ pool.breached = FALSE
        /\ pool.priced = FALSE /\ pool.cost = 0
    BY <1>2, <1>4 DEF Pool
  <1>6. /\ e.mode = "subject" /\ e.mul = 1 /\ e.kept = 0 /\ e.owed = v + s /\ e.vars = v
        /\ e.risk = "any"
    BY <1>4 DEF Declaring
  <1>7. e \in Entry /\ End \in Entry
    BY <1>3, SubjectEntries
  <1>8. Covered(w, todo, e)
    <2> DEFINE c == Callees(case.callees)
               d == Declare(Vars)
    <2>1. Follows(w, d, e, End)
      <3>1. d.do = "declare" /\ d.left = Vars /\ End.risk = "any"
        BY DEF Declare, End
      <3> HIDE DEF d, e
      <3>2. e = Declaring(w, d.left)
        BY <3>1 DEF e
      <3> QED
        BY <1>3, <1>6, <3>1, <3>2 DEF Follows
    <2>2. Follows(w, c, e, e)
      <3>1. c.do = "callees"
        BY DEF Callees
      <3> HIDE DEF c, e
      <3> QED
        BY <1>6, <3>1 DEF Follows
    <2>3. todo = <<c, d>>
      BY <1>1
    <2> HIDE DEF c, d, e
    <2> DEFINE M == <<e, e, End>>
               S == {c, d}
    <2>4. /\ M[1] = e /\ M[2] = e /\ M[3] = End
      OBVIOUS
    <2>5. todo \in Seq(S) /\ Len(todo) = 2 /\ todo[1] = c /\ todo[2] = d
      BY <2>3
    <2> HIDE DEF M, S
    <2>6. \A i \in 1..Len(todo) + 1 : M[i] \in Entry
      <3>1. \A i \in 1..Len(todo) + 1 : i \in {1, 2, 3}
        BY <2>5
      <3> QED
        BY <1>7, <2>4, <3>1
    <2>7. \A i \in 1..Len(todo) : Follows(w, todo[i], M[i], M[i + 1])
      <3>1. \A i \in 1..Len(todo) : i \in {1, 2}
        BY <2>5
      <3> QED
        BY <2>1, <2>2, <2>4, <2>5, <3>1
    <2>8. M[Len(todo) + 1] = End
      BY <2>4, <2>5
    <2>9. IsSeq(todo)
      BY <2>5 DEF IsSeq
    <2> QED
      BY <2>4, <2>6, <2>7, <2>8, <2>9 DEF Covered
  <1> HIDE DEF e
  <1>9. Cap(w, "subject") = left - v
    BY <1>4, GeneratorAssumption DEF Cap
  <1>10. Accounts(w, pool, real, mode, e)
    <2>1. real = [times |-> real.times, sum |-> real.sum] /\ real.times = 1 /\ real.sum = 0
      BY <1>2
    <2>2. pool.left >= e.owed /\ pool.liability = e.kept /\ e.vars <= e.owed
      BY <1>4, <1>5, <1>6
    <2>3. real.sum + pool.left <= Cap(w, "subject") + e.vars
      BY <1>4, <1>5, <1>6, <1>9, <2>1
    <2>4. mode = "subject"
      BY <1>2
    <2> QED
      BY <1>4, <1>5, <1>6, <2>1, <2>2, <2>3, <2>4 DEF Accounts
  <1>11. Order(risk, line, mode, e)
    <2>1. risk = [spent |-> FALSE, wit |-> FALSE, clash |-> FALSE]
          /\ line = [hot |-> 0, wit |-> FALSE]
      BY <1>2 DEF NoRisk, NewLine
    <2>2. risk = [spent |-> risk.spent, wit |-> risk.wit, clash |-> risk.clash]
          /\ line = [hot |-> line.hot, wit |-> line.wit] /\ line.hot = 0
      BY <2>1
    <2>3. ~risk.clash
      BY <2>1
    <2>4. ~line.wit
      BY <2>1
    <2> QED
      BY <1>6, <2>2, <2>3, <2>4 DEF Order, Quiet
  <1>12. PricesKept
    <2>1. callees \in Seq([kind : Kinds, cost : Nat, runs : Nat]) /\ Len(callees) = 0
      BY <1>2
    <2>2. \A form \in Forms : pairs[form] = [built |-> FALSE, cost |-> 0, runs |-> 0]
      BY <1>2
    <2>3. pairs = [form \in Forms |-> pairs[form]]
      BY <1>2
    <2> QED
      BY <2>1, <2>2, <2>3 DEF PricesKept
  <1> QED
    BY <1>7, <1>8, <1>10, <1>11, <1>12 DEF GeneratorInv, Ledger, w

LEMMA NextLedger ==
  ASSUME CountBool = FALSE, GeneratorInv, [Next]_vars
  PROVE  GeneratorInv'
  <1>1. CASE UNCHANGED vars
    <2>1. perStmt' = perStmt
      BY <1>1 DEF perStmt, vars
    <2>2. PricesKept'
      BY <1>1, PricesStay DEF vars, GeneratorInv
    <2>3. Ledger'
      BY <1>1, <2>1 DEF vars, GeneratorInv, Ledger
    <2> QED
      BY <2>2, <2>3 DEF GeneratorInv
  <1>2. CASE Next
    BY <1>2, SimpleStatementKeeps, ControlFlowKeeps, ExpressionKeeps, BodiesKeep, GenerateKeeps
    DEF Next
  <1> QED
    BY <1>1, <1>2

\* The entry of where the emitters are, and what holds of the accounts
\* wherever they are.
LEMMA LedgerSays ==
  ASSUME GeneratorInv
  PROVE  /\ NoBreach /\ WithinBudget /\ PricesCoverRuns /\ PanicOrdered /\ NestBalanced
  <1>1. PICK e \in Entry : /\ Covered(perStmt, todo, e)
                           /\ Accounts(perStmt, pool, real, mode, e)
                           /\ Order(risk, line, mode, e)
    BY DEF GeneratorInv, Ledger
  <1> DEFINE w == perStmt
  <1>2. w \in {1, 2} /\ w \in Nat
    BY DEF perStmt
  <1>3. Accounts(w, pool, real, mode, e) /\ Covered(w, todo, e)
    BY <1>1
  <1> HIDE DEF w
  <1>4. NoBreach
    BY <1>1 DEF NoBreach, Accounts
  <1>5. WithinBudget
    <2>1. /\ real.sum \in Nat /\ pool.left \in Nat /\ e.vars \in Nat /\ e.owed \in Nat
          /\ mode # "pure" => /\ pool.left >= e.owed /\ e.vars <= e.owed
                              /\ real.sum + pool.left <= Cap(w, mode) + e.vars
          /\ Cap(w, mode) \in Int
      BY <1>2, <1>3, CapIsInt DEF Accounts, Entry
    <2>2. mode # "pure" => real.sum <= Cap(w, mode)
      BY ONLY <2>1
    <2>3. mode = "function" => Cap(w, mode) = PerCall
      BY DEF Cap
    <2>4. mode = "subject" => Cap(w, mode) <= ExecBudget - (FixedReserve + Vars * VarReserve)
      <3>1. PICK v \in Nat, f \in Nat, x \in Nat :
              v = Vars * VarReserve /\ f = FixedReserve /\ x = w * FixedReserve /\ f <= x
        <4>1. Vars * VarReserve \in Nat /\ FixedReserve \in Nat /\ w * FixedReserve \in Nat
              /\ FixedReserve <= w * FixedReserve
          BY <1>2, GeneratorAssumption
        <4> QED
          BY <4>1
      <3>2. mode = "subject" => Cap(w, mode) = ExecBudget - x - v
        BY <3>1 DEF Cap
      <3> QED
        BY <3>1, <3>2, GeneratorAssumption
    <2>5. mode = "subject" => real.sum <= ExecBudget - (FixedReserve + Vars * VarReserve)
      <3>1. ExecBudget - (FixedReserve + Vars * VarReserve) \in Int
        BY GeneratorAssumption
      <3> QED
        BY <2>1, <2>2, <2>4, <3>1
    <2> QED
      BY <2>2, <2>3, <2>5 DEF WithinBudget
  <1>6. PricesCoverRuns
    BY DEF PricesCoverRuns, GeneratorInv, PricesKept
  <1>7. PanicOrdered
    BY <1>1 DEF PanicOrdered, Order, Quiet
  <1>8. NestBalanced
    <2>1. pool.mul = real.times
      BY <1>1 DEF Accounts
    <2>2. ASSUME todo = <<>>
          PROVE  pool.mul = 1 /\ pool.liability = 0
      <3>1. Len(todo) = 0 /\ Len(todo) + 1 = 1
        BY <2>2
      <3>2. e = End
        BY <1>1, <3>1 DEF Covered
      <3> QED
        BY <1>1, <3>2 DEF Accounts, End
    <2> QED
      BY <2>1, <2>2 DEF NestBalanced
  <1> QED
    BY <1>4, <1>5, <1>6, <1>7, <1>8

-----------------------------------------------------------------------------
(* Theorems.  The calls of bool helpers are left out of the count: they are *)
(* neither gated nor charged.                                              *)

LEMMA LedgerKept ==
  ASSUME CountBool = FALSE
  PROVE  Spec => []GeneratorInv
  <1>1. Init => GeneratorInv
    BY InitLedger
  <1>2. GeneratorInv /\ [Next]_vars => GeneratorInv'
    BY NextLedger
  <1> QED
    BY <1>1, <1>2, PTL DEF Spec

\* What the generator is committed to stays payable, whatever the tape
\* (afford, commitFloor, charge).
THEOREM CommitmentsPayable ==
  ASSUME CountBool = FALSE
  PROVE  Spec => []NoBreach
  <1>1. GeneratorInv => NoBreach
    BY LedgerSays
  <1> QED
    BY <1>1, LedgerKept, PTL

\* A subject executes no more than its budget less the reserve, a battery
\* function no more than it may per call (ExecBudget, perCallBudget).
THEOREM BudgetKept ==
  ASSUME CountBool = FALSE
  PROVE  Spec => []WithinBudget
  <1>1. GeneratorInv => WithinBudget
    BY LedgerSays
  <1> QED
    BY <1>1, LedgerKept, PTL

\* The price a call is charged with covers what the call executes (costSink).
THEOREM PricesSuffice ==
  ASSUME CountBool = FALSE
  PROVE  Spec => []PricesCoverRuns
  <1>1. GeneratorInv => PricesCoverRuns
    BY LedgerSays
  <1> QED
    BY <1>1, LedgerKept, PTL

\* No line has two panic sites, or one beside an order witness (riskOK,
\* spendRisk, witness).
THEOREM OnePanicSite ==
  ASSUME CountBool = FALSE
  PROVE  Spec => []PanicOrdered
  <1>1. GeneratorInv => PanicOrdered
    BY LedgerSays
  <1> QED
    BY <1>1, LedgerKept, PTL

\* The multiplier is that of the loops that are open, and what was kept free
\* is released.
THEOREM LoopsBalanced ==
  ASSUME CountBool = FALSE
  PROVE  Spec => []NestBalanced
  <1>1. GeneratorInv => NestBalanced
    BY LedgerSays
  <1> QED
    BY <1>1, LedgerKept, PTL
=============================================================================
