---------------------------- MODULE GrowthProofs ----------------------------
(***************************************************************************)
(* The bounds of Growth, for programs of any length and nesting, any trips *)
(* and any values.                                                         *)
(*                                                                         *)
(* The argument has three layers.  The text: the bodies of a program nest, *)
(* and a statement is charged the product of the trips around it (Shape,   *)
(* Opened).  The bounds: a history h of what was noted after each          *)
(* statement, and how neighbouring notes differ by the statement between   *)
(* them (History).  The run: where pc is, how many passes of each loop are *)
(* over (d), and that a value is within the note before pc outside loops,  *)
(* and inside within what was noted before the outermost loop and what its *)
(* statements have added since (RunAt).                                    *)
(***************************************************************************)
EXTENDS Growth, FiniteSetTheorems, SequenceTheorems, WellFoundedInduction,
        NaturalsInduction, TLAPS

-----------------------------------------------------------------------------
(* The text.                                                               *)

Loops   == {"for", "range"}
Openers == {"if"} \union Loops
Writes  == {"set", "grow", "append", "add", "square", "untracked", "swap"}
Ops     == Openers \union Writes \union {"fold", "break", "continue", "close"}
Var     == Strings \union Slices \union Ints
Stmt    == [op : Ops, to : Var \union {none}, from : Var \union {none}, n : Nat,
            end : Nat, mul : Nat \ {0}]
Body    == [loop : BOOLEAN, over : Slices \union {none}, mul : Nat \ {0}, at : Nat \ {0}]

Positions == 1..Len(prog)
Opener(i) == prog[i].op \in Openers
Loop(i)   == prog[i].op \in Loops

\* The place i is in the body that b opens, its close included.
Around(b, i)     == Opener(b) /\ b < i /\ (prog[b].end = 0 \/ i <= prog[b].end)
LoopAround(l, i) == l \in Positions /\ Loop(l) /\ Around(l, i)
InLoop(i)        == \E l \in Positions : LoopAround(l, i)
InCond(i)        == \E b \in Positions : ~Loop(b) /\ Around(b, i)
Inner(l, i)      == LoopAround(l, i) /\ \A m \in Positions : LoopAround(m, i) => m <= l
Outer(l, i)      == LoopAround(l, i) /\ \A m \in Positions : LoopAround(m, i) => l <= m

IsText == prog \in Seq(Stmt)

\* A closed body ends with its close, and bodies nest.
Ends ==
  \A b \in Positions :
    Opener(b) /\ prog[b].end # 0 =>
      /\ b < prog[b].end /\ prog[b].end <= Len(prog)
      /\ prog[prog[b].end].op = "close" /\ prog[prog[b].end].n = b
Closes ==
  \A i \in Positions :
    prog[i].op = "close" => \E b \in Positions : b = prog[i].n /\ Opener(b) /\ prog[b].end = i
Nested ==
  \A b, c \in Positions :
    Opener(c) /\ Around(b, c) /\ prog[b].end # 0 =>
      prog[c].end # 0 /\ prog[c].end < prog[b].end

\* What a statement is charged for, and where a jump goes.
Trips == \A l \in Positions : Loop(l) => prog[l].n # 0
Alone == \A i \in Positions : InLoop(i) \/ prog[i].mul = 1
Charged ==
  \A i, l \in Positions : Inner(l, i) => prog[i].mul = prog[l].mul * prog[l].n
Jumps ==
  \A i \in Positions :
    prog[i].op \in {"break", "continue"} => \E l \in Positions : l = prog[i].n /\ Inner(l, i)

Shape == IsText /\ Ends /\ Closes /\ Nested /\ Trips /\ Alone /\ Charged /\ Jumps

\* The bodies that are open are those without an end.
Heads ==
  \A k \in 1..Len(open) :
    \E b \in Positions :
      /\ b = open[k].at /\ Opener(b) /\ prog[b].end = 0
      /\ open[k].loop <=> Loop(b)
      /\ open[k].mul = IF open[k].loop THEN prog[b].mul * prog[b].n ELSE prog[b].mul
Inward  == \A k, m \in 1..Len(open) : k < m => open[m].at < open[k].at
AllOpen ==
  \A b \in Positions : Opener(b) /\ prog[b].end = 0 => \E k \in 1..Len(open) : open[k].at = b

Opened == open \in Seq(Body) /\ Heads /\ Inward /\ AllOpen

Site == Len(prog) + 1

\* The text grows by one statement, and nothing moves.
Extends ==
  /\ prog' \in Seq(Stmt) /\ Len(prog') = Len(prog) + 1
  /\ \A i \in Positions :
       /\ prog'[i].op = prog[i].op /\ prog'[i].to = prog[i].to /\ prog'[i].from = prog[i].from
       /\ prog'[i].n = prog[i].n /\ prog'[i].mul = prog[i].mul
  /\ \A b \in Positions, i \in 1..(Len(prog) + 1) : Around(b, i)' <=> Around(b, i)

-----------------------------------------------------------------------------
(* Where the next statement stands.                                        *)

LEMMA Fields ==
  \A s \in Stmt : /\ s.op \in Ops /\ s.n \in Nat /\ s.end \in Nat /\ s.mul \in Nat \ {0}
                  /\ s.to \in Var \union {none} /\ s.from \in Var \union {none}
  BY DEF Stmt

LEMMA WithEnd ==
  ASSUME NEW s \in Stmt, NEW n \in Nat, NEW e, e = [s EXCEPT !.end = n]
  PROVE  /\ e \in Stmt /\ e.end = n /\ e.op = s.op /\ e.to = s.to
         /\ e.from = s.from /\ e.n = s.n /\ e.mul = s.mul
  BY DEF Stmt

LEMMA CountsNone ==
  ASSUME NEW n \in Nat, NEW S, S \subseteq 1..n
  PROVE  Cardinality(S) \in Nat /\ (Cardinality(S) > 0 <=> S # {})
  <1>1. IsFiniteSet(1..n)
    BY FS_Interval
  <1>2. IsFiniteSet(S)
    BY <1>1, FS_Subset
  <1> QED
    BY <1>2, FS_EmptySet, FS_CardinalityType

LEMMA Depths ==
  ASSUME Opened
  PROVE  /\ Len(open) \in Nat
         /\ loopDepth \in Nat /\ condDepth \in Nat
         /\ loopDepth > 0 <=> \E k \in 1..Len(open) : open[k].loop
         /\ condDepth > 0 <=> \E k \in 1..Len(open) : ~open[k].loop
  <1>1. Len(open) \in Nat
    BY DEF Opened
  <1> DEFINE L == {i \in 1..Len(open) : open[i].loop}
             C == {i \in 1..Len(open) : ~open[i].loop}
  <1>2. /\ Cardinality(L) \in Nat /\ (Cardinality(L) > 0 <=> L # {})
        /\ Cardinality(C) \in Nat /\ (Cardinality(C) > 0 <=> C # {})
    <2>1. L \subseteq 1..Len(open) /\ C \subseteq 1..Len(open)
      OBVIOUS
    <2> HIDE DEF L, C
    <2> QED
      BY <1>1, <2>1, CountsNone
  <1> QED
    BY <1>1, <1>2 DEF loopDepth, condDepth

LEMMA AtSite ==
  ASSUME Shape, Opened
  PROVE  /\ Len(prog) \in Nat /\ Site \notin Positions /\ execMul \in Nat \ {0}
         /\ \A b \in Positions : Around(b, Site) <=> Opener(b) /\ prog[b].end = 0
         /\ \A b \in Positions : Around(b, Site) <=> \E k \in 1..Len(open) : open[k].at = b
         /\ InLoop(Site) <=> loopDepth > 0
         /\ InCond(Site) <=> condDepth > 0
         /\ InLoop(Site) \/ execMul = 1
         /\ \A l \in Positions : Inner(l, Site) => execMul = prog[l].mul * prog[l].n
  <1>1. /\ Len(prog) \in Nat /\ Len(open) \in Nat
        /\ \A i \in Positions : prog[i] \in Stmt
        /\ \A k \in 1..Len(open) : open[k] \in Body
    BY DEF Shape, IsText, Opened, Positions
  <1>2. /\ execMul \in Nat \ {0}
        /\ open # <<>> => 1 \in 1..Len(open) /\ Head(open) = open[1] /\ execMul = open[1].mul
        /\ open = <<>> => execMul = 1 /\ Len(open) = 0
    <2>1. open # <<>> => 1 \in 1..Len(open) /\ Head(open) = open[1]
      BY <1>1 DEF Opened
    <2> QED
      BY <1>1, <2>1 DEF execMul, Body
  <1>3. ASSUME NEW b \in Positions
        PROVE  /\ Around(b, Site) <=> Opener(b) /\ prog[b].end = 0
               /\ Around(b, Site) <=> \E k \in 1..Len(open) : open[k].at = b
    <2>1. b \in Nat /\ b < Site /\ prog[b].end \in Nat
      BY <1>1 DEF Site, Positions, Stmt
    <2>2. prog[b].end # 0 /\ Opener(b) => prog[b].end <= Len(prog)
      BY DEF Shape, Ends
    <2>3. Around(b, Site) <=> Opener(b) /\ prog[b].end = 0
      BY <1>1, <2>1, <2>2 DEF Around, Site
    <2> QED
      BY <2>3 DEF Opened, Heads, AllOpen
  <1>4. \A k \in 1..Len(open) :
          /\ open[k].at \in Positions /\ Around(open[k].at, Site)
          /\ open[k].loop <=> LoopAround(open[k].at, Site)
    BY <1>3 DEF Opened, Heads, LoopAround
  <1>5. InLoop(Site) <=> \E k \in 1..Len(open) : open[k].loop
    BY <1>3, <1>4 DEF InLoop, LoopAround
  <1>6. InCond(Site) <=> \E k \in 1..Len(open) : ~open[k].loop
    BY <1>3, <1>4 DEF InCond, LoopAround, Opener
  \* A body is in the loops that are open around it.
  <1>7. ASSUME NEW b \in Positions, Around(b, Site), NEW l \in Positions
        PROVE  LoopAround(l, b) <=> LoopAround(l, Site) /\ l < b
    <2>1. Opener(b) /\ prog[b].end = 0
      BY <1>3, <1>7
    <2>2. LoopAround(l, b) => prog[l].end = 0
      BY <2>1 DEF Shape, Nested, LoopAround
    <2>3. LoopAround(l, Site) => prog[l].end = 0
      BY <1>3 DEF LoopAround
    <2>4. l < Site
      BY <1>1 DEF Site, Positions
    <2> QED
      BY <2>2, <2>3, <2>4 DEF LoopAround, Around
  <1>8. ASSUME ~InLoop(Site)
        PROVE  execMul = 1
    <2>1. CASE open = <<>>
      BY <1>2, <2>1
    <2>2. CASE open # <<>>
      <3>1. PICK b \in Positions : /\ b = open[1].at
                                   /\ open[1].mul = IF open[1].loop THEN prog[b].mul * prog[b].n
                                                    ELSE prog[b].mul
        BY <1>2, <2>2 DEF Opened, Heads
      <3>2. ~open[1].loop /\ Around(b, Site)
        BY <1>2, <1>4, <1>5, <1>8, <2>2, <3>1
      <3>3. ~InLoop(b)
        BY <1>7, <1>8, <3>2 DEF InLoop
      <3> QED
        BY <1>2, <2>2, <3>1, <3>2, <3>3 DEF Shape, Alone
    <2> QED
      BY <2>1, <2>2
  <1>9. ASSUME NEW l \in Positions, Inner(l, Site)
        PROVE  execMul = prog[l].mul * prog[l].n
    <2>1. LoopAround(l, Site) /\ \A m \in Positions : LoopAround(m, Site) => m <= l
      BY <1>9 DEF Inner
    <2>2. PICK k \in 1..Len(open) : open[k].at = l
      BY <1>3, <2>1 DEF LoopAround
    <2>3. 1 \in 1..Len(open) /\ execMul = open[1].mul
      BY <1>1, <1>2, <2>2
    <2>4. PICK b \in Positions : /\ b = open[1].at
                                 /\ open[1].mul = IF open[1].loop THEN prog[b].mul * prog[b].n
                                                  ELSE prog[b].mul
      BY <2>3 DEF Opened, Heads
    <2>5. l <= b /\ b \in Nat /\ l \in Nat
      <3>1. k = 1 \/ 1 < k
        BY <1>1
      <3>2. 1 < k => l < b
        BY <2>2, <2>3, <2>4 DEF Opened, Inward
      <3>3. b \in Nat /\ l \in Nat
        BY <1>1 DEF Positions
      <3> QED
        BY <2>2, <2>4, <3>1, <3>2, <3>3
    <2>6. Around(b, Site) /\ (open[1].loop <=> LoopAround(b, Site))
      BY <1>4, <2>3, <2>4
    <2>7. CASE open[1].loop
      <3>1. b = l
        BY <2>1, <2>5, <2>6, <2>7
      <3> QED
        BY <2>3, <2>4, <2>7, <3>1
    <2>8. CASE ~open[1].loop
      <3>1. l # b
        BY <2>1, <2>6, <2>8
      <3>2. l < b
        BY <2>5, <3>1
      <3>3. Inner(l, b)
        BY <1>7, <2>1, <2>6, <3>2 DEF Inner
      <3> QED
        BY <2>3, <2>4, <2>8, <3>3 DEF Shape, Charged
    <2> QED
      BY <2>7, <2>8
  <1>10. Site \notin Positions
    BY <1>1 DEF Site, Positions
  <1> QED
    BY <1>1, <1>2, <1>3, <1>5, <1>6, <1>8, <1>9, <1>10, Depths

-----------------------------------------------------------------------------
(* The text grows.                                                         *)

LEMMA Sites ==
  ASSUME Shape, Extends
  PROVE  /\ Positions' = 1..Site /\ Len(prog) \in Nat
         /\ \A b \in Positions : Loop(b)' <=> Loop(b)
         /\ \A i \in 1..Site :
              /\ \A b \in Positions' : Around(b, i)' <=> b \in Positions /\ Around(b, i)
              /\ \A l \in Positions' : LoopAround(l, i)' <=> LoopAround(l, i)
              /\ InLoop(i)' <=> InLoop(i)
              /\ InCond(i)' <=> InCond(i)
              /\ \A l \in Positions' : Inner(l, i)' <=> Inner(l, i)
  <1>1. PICK N \in Nat \ {0} : N = Len(prog) + 1 /\ Site = N /\ Len(prog) \in Nat
    BY DEF Shape, IsText, Site
  <1>2. /\ Positions' = 1..N /\ Positions = 1..(N - 1)
        /\ \A b \in Positions' : b \in Positions \/ b = N
    <2>1. Positions' = 1..N
      BY <1>1 DEF Extends, Positions
    <2>2. Positions = 1..(N - 1)
      BY <1>1 DEF Positions
    <2> QED
      BY <2>1, <2>2
  <1>3. \A b \in Positions : Loop(b)' <=> Loop(b)
    BY DEF Extends, Loop
  <1>4. ASSUME NEW i \in 1..N
        PROVE  /\ \A b \in Positions' : Around(b, i)' <=> b \in Positions /\ Around(b, i)
               /\ \A l \in Positions' : LoopAround(l, i)' <=> LoopAround(l, i)
    <2>1. \A b \in Positions : Around(b, i)' <=> Around(b, i)
      BY <1>1 DEF Extends
    <2>2. ~Around(N, i)' /\ N \notin Positions
      BY <1>2 DEF Around
    <2>3. \A b \in Positions' : Around(b, i)' <=> b \in Positions /\ Around(b, i)
      BY <1>2, <2>1, <2>2
    <2>4. ASSUME NEW l \in Positions'
          PROVE  LoopAround(l, i)' <=> LoopAround(l, i)
      <3>1. LoopAround(l, i)' <=> Loop(l)' /\ Around(l, i)'
        BY <2>4 DEF LoopAround
      <3> QED
        BY <1>3, <2>3, <3>1 DEF LoopAround
    <2> QED
      BY <2>3, <2>4
  <1>5. ASSUME NEW i \in 1..N
        PROVE  /\ InLoop(i)' <=> InLoop(i)
               /\ InCond(i)' <=> InCond(i)
               /\ \A l \in Positions' : Inner(l, i)' <=> Inner(l, i)
    <2>1. \A l : LoopAround(l, i) => l \in Positions'
      BY <1>2 DEF LoopAround
    <2>2. InLoop(i)' <=> InLoop(i)
      <3>1. \A l \in Positions' : LoopAround(l, i)' <=> LoopAround(l, i)
        BY <1>4
      <3>2. InLoop(i)' <=> \E l \in Positions' : LoopAround(l, i)'
        BY DEF InLoop
      <3>3. InLoop(i) <=> \E l \in Positions' : LoopAround(l, i)
        BY <1>2, <2>1 DEF InLoop, LoopAround
      <3> QED
        BY <3>1, <3>2, <3>3
    <2>3. InCond(i)' <=> InCond(i)
      <3>1. \A b \in Positions' : ~Loop(b)' /\ Around(b, i)' <=> b \in Positions /\ ~Loop(b) /\ Around(b, i)
        BY <1>3, <1>4
      <3>2. Positions \subseteq Positions'
        BY <1>2
      <3> QED
        BY <3>1, <3>2 DEF InCond
    <2>4. ASSUME NEW l \in Positions'
          PROVE  Inner(l, i)' <=> Inner(l, i)
      <3>1. \A m \in Positions' : LoopAround(m, i)' <=> LoopAround(m, i)
        BY <1>4
      <3>2. Inner(l, i)' <=> LoopAround(l, i)' /\ \A m \in Positions' : LoopAround(m, i)' => m <= l
        BY DEF Inner
      <3>3. Inner(l, i) <=> LoopAround(l, i) /\ \A m \in Positions' : LoopAround(m, i) => m <= l
        BY <1>2, <2>1 DEF Inner, LoopAround
      <3> QED
        BY <3>1, <3>2, <3>3
    <2> QED
      BY <2>2, <2>3, <2>4
  <1> QED
    BY <1>1, <1>2, <1>3, <1>4, <1>5

LEMMA Added ==
  ASSUME Shape, NEW s \in Stmt, prog' = Append(prog, s)
  PROVE  Extends /\ prog'[Site] = s /\ \A i \in Positions : prog'[i] = prog[i]
  <1>1. /\ prog' \in Seq(Stmt) /\ Len(prog') = Len(prog) + 1 /\ Len(prog) \in Nat
        /\ prog'[Len(prog) + 1] = s /\ \A i \in 1..Len(prog) : prog'[i] = prog[i]
    BY AppendProperties DEF Shape, IsText
  <1> QED
    BY <1>1 DEF Extends, Site, Positions, Around, Opener

\* A statement that is charged the multiplier of its place keeps the charges.
LEMMA GrownShape ==
  ASSUME Shape, Opened, Extends, NEW s \in Stmt, prog'[Site] = s,
         s.mul = execMul, s.op \in Loops => s.n # 0,
         s.op \in {"break", "continue"} => Inner(s.n, Site)
  PROVE  IsText' /\ Trips' /\ Alone' /\ Charged' /\ Jumps'
  <1>1. PICK N \in Nat \ {0} : N = Len(prog) + 1 /\ Site = N /\ Len(prog) \in Nat
    BY DEF Shape, IsText, Site
  <1>2. /\ prog'[N] = s
        /\ \A i \in Positions : /\ prog'[i].op = prog[i].op /\ prog'[i].n = prog[i].n
                                /\ prog'[i].mul = prog[i].mul
    BY <1>1 DEF Extends
  <1>3. /\ Positions' = 1..N /\ Positions = 1..(N - 1) /\ N \in Positions'
        /\ \A b \in Positions' : b \in Positions \/ b = N
        /\ Positions \subseteq Positions' /\ N \notin Positions
    <2>1. Positions' = 1..N
      BY <1>1, Sites
    <2>2. Positions = 1..(N - 1)
      BY <1>1 DEF Positions
    <2> QED
      BY <2>1, <2>2
  <1>5. \A i \in 1..N : /\ InLoop(i)' <=> InLoop(i)
                        /\ \A l \in Positions' : Inner(l, i)' <=> Inner(l, i)
    BY <1>1, Sites
  <1>7. IsText'
    BY DEF Extends, IsText
  <1>8. Trips'
    <2>1. \A l \in Positions' : Loop(l)' => prog'[l].n # 0
      BY <1>2, <1>3 DEF Shape, Trips, Loop
    <2> QED
      BY <2>1 DEF Trips
  <1>9. Alone'
    <2>1. InLoop(N) \/ s.mul = 1
      BY <1>1, AtSite
    <2>2. \A i \in Positions' : InLoop(i)' \/ prog'[i].mul = 1
      BY <1>2, <1>3, <1>5, <2>1 DEF Shape, Alone
    <2> QED
      BY <2>2 DEF Alone
  <1>10. Charged'
    <2>1. \A l \in Positions : Inner(l, N) => s.mul = prog[l].mul * prog[l].n
      BY <1>1, AtSite
    <2>2. \A i, l : Inner(l, i) => l \in Positions
      BY DEF Inner, LoopAround
    <2>3. ASSUME NEW i \in Positions', NEW l \in Positions', Inner(l, i)'
          PROVE  prog'[i].mul = prog'[l].mul * prog'[l].n
      <3>1. l \in Positions /\ Inner(l, i)
        BY <1>2, <1>3, <1>5, <2>2, <2>3
      <3>2. CASE i = N
        BY <1>2, <2>1, <3>1, <3>2
      <3>3. CASE i \in Positions
        BY <1>2, <3>1, <3>3 DEF Shape, Charged
      <3> QED
        BY <1>3, <3>2, <3>3
    <2> QED
      BY <2>3 DEF Charged
  <1>11. Jumps'
    <2>1. \A i \in 1..N, l \in Positions : Inner(l, i) => Inner(l, i)'
      BY <1>3, <1>5
    <2>2. \A i, l : Inner(l, i) => l \in Positions
      BY DEF Inner, LoopAround
    <2>3. ASSUME NEW i \in Positions', prog'[i].op \in {"break", "continue"}
          PROVE  \E l \in Positions' : l = prog'[i].n /\ Inner(l, i)'
      <3>1. \E l \in Positions : l = prog'[i].n /\ Inner(l, i)
        BY <1>1, <1>2, <1>3, <2>2, <2>3 DEF Shape, Jumps
      <3> QED
        BY <1>3, <2>1, <2>3, <3>1
    <2> QED
      BY <2>3 DEF Jumps
  <1> QED
    BY <1>7, <1>8, <1>9, <1>10, <1>11

\* A statement that is charged the multiplier of its place keeps the shape.
LEMMA AddedShape ==
  ASSUME Shape, Opened, NEW s \in Stmt, prog' = Append(prog, s),
         s.op # "close", s.mul = execMul, s.op \in Openers => s.end = 0,
         s.op \in Loops => s.n # 0,
         s.op \in {"break", "continue"} => Inner(s.n, Site)
  PROVE  Shape'
  <1>1. PICK N \in Nat \ {0} : N = Len(prog) + 1 /\ Site = N /\ Len(prog) \in Nat
    BY DEF Shape, IsText, Site
  <1>2. Extends /\ prog'[N] = s /\ \A i \in Positions : prog'[i] = prog[i]
    BY <1>1, Added
  <1>3. /\ Positions' = 1..N /\ Positions = 1..(N - 1) /\ N \in Positions'
        /\ \A b \in Positions' : b \in Positions \/ b = N
        /\ Positions \subseteq Positions' /\ N \notin Positions
    <2>1. Positions' = 1..N
      BY <1>1, <1>2, Sites
    <2>2. Positions = 1..(N - 1)
      BY <1>1 DEF Positions
    <2> QED
      BY <2>1, <2>2
  <1>4. \A i \in Positions : Opener(i)' <=> Opener(i)
    BY <1>2 DEF Opener
  <1>5. \A i \in 1..N : /\ \A b \in Positions' : Around(b, i)' <=> b \in Positions /\ Around(b, i)
                        /\ InLoop(i)' <=> InLoop(i)
                        /\ \A l \in Positions' : Inner(l, i)' <=> Inner(l, i)
    BY <1>1, <1>2, Sites
  <1>6. Opener(N)' => prog'[N].end = 0
    BY <1>2 DEF Opener
  <1>7. IsText' /\ Len(prog') = N
    BY <1>1, <1>2 DEF Extends, IsText
  <1>8. Ends'
    <2>1. ASSUME NEW b \in Positions', Opener(b)', prog'[b].end # 0
          PROVE  /\ b < prog'[b].end /\ prog'[b].end <= Len(prog')
                 /\ prog'[prog'[b].end].op = "close" /\ prog'[prog'[b].end].n = b
      <3>1. b \in Positions /\ Opener(b) /\ prog'[b] = prog[b]
        BY <1>2, <1>3, <1>4, <1>6, <2>1
      <3>2. /\ b < prog[b].end /\ prog[b].end <= Len(prog)
            /\ prog[prog[b].end].op = "close" /\ prog[prog[b].end].n = b
        BY <2>1, <3>1 DEF Shape, Ends
      <3>3. prog[b] \in Stmt /\ b \in Nat /\ b >= 1
        BY <3>1 DEF Shape, IsText, Positions
      <3>4. prog[b].end \in Positions
        BY <1>1, <3>2, <3>3 DEF Positions, Stmt
      <3> QED
        BY <1>1, <1>2, <1>7, <3>1, <3>2, <3>3, <3>4 DEF Stmt
    <2> QED
      BY <2>1 DEF Ends
  <1>9. Closes'
    <2>1. ASSUME NEW i \in Positions', prog'[i].op = "close"
          PROVE  \E b \in Positions' : b = prog'[i].n /\ Opener(b)' /\ prog'[b].end = i
      <3>1. i \in Positions /\ prog'[i] = prog[i]
        BY <1>2, <1>3, <2>1
      <3>2. PICK b \in Positions : b = prog[i].n /\ Opener(b) /\ prog[b].end = i
        BY <2>1, <3>1 DEF Shape, Closes
      <3> QED
        BY <1>2, <1>3, <1>4, <3>1, <3>2
    <2> QED
      BY <2>1 DEF Closes
  <1>10. Nested'
    <2>1. \A b \in Positions : Around(b, N) => prog[b].end = 0
      BY <1>1, AtSite
    <2>2. ASSUME NEW b \in Positions', NEW c \in Positions',
                 Opener(c)', Around(b, c)', prog'[b].end # 0
          PROVE  prog'[c].end # 0 /\ prog'[c].end < prog'[b].end
      <3>1. b \in Positions /\ Around(b, c) /\ prog'[b] = prog[b]
        BY <1>2, <1>3, <1>5, <2>2
      <3>2. c \in Positions /\ Opener(c) /\ prog'[c] = prog[c]
        BY <1>2, <1>3, <1>4, <2>1, <2>2, <3>1
      <3> QED
        BY <2>2, <3>1, <3>2 DEF Shape, Nested
    <2> QED
      BY <2>2 DEF Nested
  <1>11. Trips' /\ Alone' /\ Charged' /\ Jumps'
    BY <1>1, <1>2, GrownShape
  <1> QED
    BY <1>7, <1>8, <1>9, <1>10, <1>11 DEF Shape

\* A plain statement opens nothing.
LEMMA AddedOpened ==
  ASSUME Shape, Opened, NEW s \in Stmt, prog' = Append(prog, s),
         s.op \notin Openers, open' = open
  PROVE  Opened'
  <1>1. PICK N \in Nat \ {0} : N = Len(prog) + 1 /\ Site = N /\ Len(prog) \in Nat
    BY DEF Shape, IsText, Site
  <1>2. Extends /\ prog'[N] = s /\ \A i \in Positions : prog'[i] = prog[i]
    BY <1>1, Added
  <1>3. /\ \A b \in Positions' : b \in Positions \/ b = N
        /\ Positions \subseteq Positions'
    BY <1>1, <1>2, Sites DEF Positions
  <1>4. \A i \in Positions : (Opener(i)' <=> Opener(i)) /\ (Loop(i)' <=> Loop(i))
    BY <1>2 DEF Opener, Loop
  <1>5. ~Opener(N)'
    BY <1>2 DEF Opener
  <1>6. Heads'
    <2>1. ASSUME NEW k \in 1..Len(open)
          PROVE  \E b \in Positions' :
                   /\ b = open[k].at /\ Opener(b)' /\ prog'[b].end = 0
                   /\ open[k].loop <=> Loop(b)'
                   /\ open[k].mul = IF open[k].loop THEN prog'[b].mul * prog'[b].n
                                    ELSE prog'[b].mul
      <3>1. PICK b \in Positions :
              /\ b = open[k].at /\ Opener(b) /\ prog[b].end = 0
              /\ open[k].loop <=> Loop(b)
              /\ open[k].mul = IF open[k].loop THEN prog[b].mul * prog[b].n ELSE prog[b].mul
        BY DEF Opened, Heads
      <3>2. b \in Positions' /\ prog'[b] = prog[b] /\ Opener(b)' /\ (Loop(b)' <=> Loop(b))
        BY <1>2, <1>3, <1>4, <3>1
      <3> QED
        BY <3>1, <3>2
    <2> QED
      BY <2>1 DEF Heads
  <1>7. AllOpen'
    BY <1>2, <1>3, <1>4, <1>5 DEF Opened, AllOpen
  <1> QED
    BY <1>6, <1>7 DEF Opened, Inward

LEMMA Push ==
  ASSUME NEW S, NEW x \in S, NEW t \in Seq(S)
  PROVE  /\ <<x>> \o t \in Seq(S) /\ Len(<<x>> \o t) = Len(t) + 1 /\ Len(t) \in Nat
         /\ (<<x>> \o t)[1] = x
         /\ \A i \in 1..Len(t) : (<<x>> \o t)[i + 1] = t[i]
  <1> DEFINE u == <<x>>
  <1>1. u \in Seq(S) /\ Len(u) = 1 /\ u[1] = x
    OBVIOUS
  <1> HIDE DEF u
  <1>2. /\ u \o t \in Seq(S) /\ Len(u \o t) = Len(u) + Len(t)
        /\ \A i \in 1..(Len(u) + Len(t)) :
             (u \o t)[i] = IF i <= Len(u) THEN u[i] ELSE t[i - Len(u)]
    BY <1>1, ConcatProperties
  <1>3. Len(t) \in Nat
    OBVIOUS
  <1>4. (u \o t)[1] = x
    BY <1>1, <1>2, <1>3
  <1>5. ASSUME NEW i \in 1..Len(t)
        PROVE  (u \o t)[i + 1] = t[i]
    BY <1>1, <1>2, <1>3
  <1> QED
    BY <1>1, <1>2, <1>3, <1>4, <1>5 DEF u

LEMMA Pop ==
  ASSUME NEW S, NEW t \in Seq(S), t # <<>>
  PROVE  /\ Tail(t) \in Seq(S) /\ Len(t) \in Nat \ {0} /\ Len(Tail(t)) = Len(t) - 1
         /\ Head(t) = t[1] /\ Head(t) \in S
         /\ \A i \in 1..Len(Tail(t)) : Tail(t)[i] = t[i + 1]
  BY HeadTailProperties

\* An opener is the innermost body from now on.
LEMMA AddedOpener ==
  ASSUME Shape, Opened, NEW s \in Stmt, prog' = Append(prog, s),
         s.op \in Openers, s.end = 0,
         NEW r \in Body, open' = <<r>> \o open,
         r.loop <=> s.op \in Loops, r.at = Site,
         r.mul = IF r.loop THEN s.mul * s.n ELSE s.mul
  PROVE  Opened'
  <1>1. PICK N \in Nat \ {0} : N = Len(prog) + 1 /\ Site = N /\ Len(prog) \in Nat
    BY DEF Shape, IsText, Site
  <1>2. Extends /\ prog'[N] = s /\ \A i \in Positions : prog'[i] = prog[i]
    BY <1>1, Added
  <1>3. /\ \A b \in Positions' : b \in Positions \/ b = N
        /\ Positions \subseteq Positions' /\ N \in Positions'
        /\ \A b \in Positions : b \in Nat /\ b < N
    BY <1>1, <1>2, Sites DEF Positions
  <1>4. /\ \A i \in Positions : (Opener(i)' <=> Opener(i)) /\ (Loop(i)' <=> Loop(i))
        /\ Opener(N)' /\ (Loop(N)' <=> r.loop)
    BY <1>2 DEF Opener, Loop
  <1>5. /\ open' \in Seq(Body) /\ Len(open') = Len(open) + 1 /\ open'[1] = r
        /\ Len(open) \in Nat /\ \A k \in 1..Len(open) : open'[k + 1] = open[k]
    BY Push DEF Opened
  <1>6. \A k \in 1..Len(open') : k = 1 \/ \E j \in 1..Len(open) : k = j + 1 /\ open'[k] = open[j]
    <2>1. \A k \in 1..Len(open') : k = 1 \/ (k - 1 \in 1..Len(open) /\ k = (k - 1) + 1)
      BY <1>5
    <2> QED
      BY <1>5, <2>1
  <1>7. Heads'
    <2>1. ASSUME NEW k \in 1..Len(open')
          PROVE  \E b \in Positions' :
                   /\ b = open'[k].at /\ Opener(b)' /\ prog'[b].end = 0
                   /\ open'[k].loop <=> Loop(b)'
                   /\ open'[k].mul = IF open'[k].loop THEN prog'[b].mul * prog'[b].n
                                     ELSE prog'[b].mul
      <3>1. CASE k = 1
        BY <1>1, <1>2, <1>3, <1>4, <1>5, <3>1
      <3>2. ASSUME NEW j \in 1..Len(open), open'[k] = open[j]
            PROVE  \E b \in Positions' :
                     /\ b = open'[k].at /\ Opener(b)' /\ prog'[b].end = 0
                     /\ open'[k].loop <=> Loop(b)'
                     /\ open'[k].mul = IF open'[k].loop THEN prog'[b].mul * prog'[b].n
                                       ELSE prog'[b].mul
        <4>1. PICK b \in Positions :
                /\ b = open[j].at /\ Opener(b) /\ prog[b].end = 0
                /\ open[j].loop <=> Loop(b)
                /\ open[j].mul = IF open[j].loop THEN prog[b].mul * prog[b].n ELSE prog[b].mul
          BY DEF Opened, Heads
        <4>2. b \in Positions' /\ prog'[b] = prog[b] /\ Opener(b)' /\ (Loop(b)' <=> Loop(b))
          BY <1>2, <1>3, <1>4, <4>1
        <4> QED
          BY <3>2, <4>1, <4>2
      <3> QED
        BY <1>6, <3>1, <3>2
    <2> QED
      BY <2>1 DEF Heads
  <1>8. Inward'
    <2>1. ASSUME NEW k \in 1..Len(open'), NEW m \in 1..Len(open'), k < m
          PROVE  open'[m].at < open'[k].at
      <3>1. PICK j \in 1..Len(open) : m = j + 1 /\ open'[m] = open[j]
        BY <1>5, <1>6, <2>1
      <3>2. open[j].at \in Positions
        BY DEF Opened, Heads
      <3>3. CASE k = 1
        BY <1>1, <1>3, <1>5, <3>1, <3>2, <3>3
      <3>4. ASSUME NEW i \in 1..Len(open), k = i + 1, open'[k] = open[i]
            PROVE  open'[m].at < open'[k].at
        <4>1. i < j
          BY <1>5, <2>1, <3>1, <3>4
        <4> QED
          BY <3>1, <3>4, <4>1 DEF Opened, Inward
      <3> QED
        BY <1>6, <3>3, <3>4
    <2> QED
      BY <2>1 DEF Inward
  <1>9. AllOpen'
    <2>1. ASSUME NEW b \in Positions', Opener(b)', prog'[b].end = 0
          PROVE  \E k \in 1..Len(open') : open'[k].at = b
      <3>1. CASE b = N
        BY <1>1, <1>5, <3>1
      <3>2. CASE b \in Positions
        <4>1. PICK k \in 1..Len(open) : open[k].at = b
          BY <1>2, <1>4, <2>1, <3>2 DEF Opened, AllOpen
        <4>2. k + 1 \in 1..Len(open') /\ open'[k + 1] = open[k]
          BY <1>5
        <4> QED
          BY <4>1, <4>2
      <3> QED
        BY <1>3, <3>1, <3>2
    <2> QED
      BY <2>1 DEF AllOpen
  <1> QED
    BY <1>5, <1>7, <1>8, <1>9 DEF Opened

\* The text r is p with its body b ended by c.
EndedBy(p, b, c, r) == r = Append([p EXCEPT ![b].end = Len(p) + 1], c)

LEMMA Ended ==
  ASSUME NEW p \in Seq(Stmt), NEW b \in 1..Len(p), NEW c \in Stmt, NEW r, EndedBy(p, b, c, r)
  PROVE  /\ r \in Seq(Stmt) /\ Len(r) = Len(p) + 1 /\ r[Len(p) + 1] = c
         /\ r[b].end = Len(p) + 1 /\ \A i \in (1..Len(p)) \ {b} : r[i] = p[i]
         /\ \A i \in 1..Len(p) : /\ r[i].op = p[i].op /\ r[i].to = p[i].to
                                 /\ r[i].from = p[i].from /\ r[i].n = p[i].n
                                 /\ r[i].mul = p[i].mul
  <1> DEFINE e == [p[b] EXCEPT !.end = Len(p) + 1]
             q == [p EXCEPT ![b] = e]
  <1>1. Len(p) \in Nat /\ p[b] \in Stmt
    OBVIOUS
  <1>2. /\ e \in Stmt /\ e.end = Len(p) + 1 /\ e.op = p[b].op /\ e.to = p[b].to
        /\ e.from = p[b].from /\ e.n = p[b].n /\ e.mul = p[b].mul
    <2>1. Len(p) + 1 \in Nat
      BY <1>1
    <2> QED
      BY <1>1, <2>1, WithEnd
  <1>3. r = Append(q, c)
    BY DEF EndedBy
  <1> HIDE DEF e
  <1>4. /\ q \in Seq(Stmt) /\ Len(q) = Len(p)
        /\ \A i \in 1..Len(p) : q[i] = IF i = b THEN e ELSE p[i]
    BY <1>2, ExceptSeq
  <1> HIDE DEF q
  <1>5. /\ Append(q, c) \in Seq(Stmt) /\ Len(Append(q, c)) = Len(q) + 1
        /\ Append(q, c)[Len(q) + 1] = c /\ \A i \in 1..Len(q) : Append(q, c)[i] = q[i]
    BY <1>4, AppendProperties
  <1>6. /\ r = Append(q, c) /\ q[b] = e /\ \A i \in (1..Len(p)) \ {b} : q[i] = p[i]
    BY <1>3, <1>4
  <1>7. \A i \in 1..Len(p) : r[i] = q[i]
    BY <1>4, <1>5, <1>6
  <1> QED
    BY <1>1, <1>2, <1>4, <1>5, <1>6, <1>7

\* The innermost body ends.
LEMMA Closed ==
  ASSUME Shape, Opened, open # <<>>, NEW b, b = Head(open).at,
         NEW c \in Stmt, c.op = "close", c.n = b, c.mul = Head(open).mul,
         prog' \in Seq(Stmt), Len(prog') = Site, prog'[Site] = c, prog'[b].end = Site,
         \A i \in Positions \ {b} : prog'[i] = prog[i],
         \A i \in Positions : /\ prog'[i].op = prog[i].op /\ prog'[i].to = prog[i].to
                              /\ prog'[i].from = prog[i].from /\ prog'[i].n = prog[i].n
                              /\ prog'[i].mul = prog[i].mul,
         open' = Tail(open)
  PROVE  /\ b \in Positions /\ Opener(b) /\ prog[b].end = 0
         /\ Extends /\ Shape' /\ Opened'
  <1>1. PICK N \in Nat \ {0} : N = Len(prog) + 1 /\ Site = N /\ Len(prog) \in Nat
    BY DEF Shape, IsText, Site
  <1>2. /\ open \in Seq(Body) /\ Len(open) \in Nat \ {0} /\ 1 \in 1..Len(open) /\ Head(open) = open[1]
        /\ open' \in Seq(Body) /\ Len(open') = Len(open) - 1
        /\ \A k \in 1..Len(open') : k + 1 \in 1..Len(open) /\ open'[k] = open[k + 1]
    BY Pop DEF Opened
  <1>3. b \in Positions /\ Opener(b) /\ prog[b].end = 0 /\ b = open[1].at /\ c.mul = execMul
    BY <1>2 DEF Opened, Heads, execMul
  <1>4. /\ Positions = 1..(N - 1) /\ N \notin Positions
        /\ \A i \in Positions : prog[i] \in Stmt /\ i \in Nat /\ i < N
    BY <1>1 DEF Shape, IsText, Positions
  <1>6. prog' \in Seq(Stmt) /\ Len(prog') = N /\ prog'[N] = c
    BY <1>1
  <1>7. /\ prog'[b].end = N /\ \A i \in Positions \ {b} : prog'[i] = prog[i]
        /\ \A i \in Positions : /\ prog'[i].op = prog[i].op /\ prog'[i].to = prog[i].to
                                /\ prog'[i].from = prog[i].from /\ prog'[i].n = prog[i].n
                                /\ prog'[i].mul = prog[i].mul
    BY <1>1
  <1>8. Extends
    <2>1. ASSUME NEW x \in Positions, NEW i \in 1..N
          PROVE  Around(x, i)' <=> Around(x, i)
      <3>1. CASE x = b
        <4>1. prog'[b].op = prog[b].op /\ i <= prog'[b].end /\ prog[b].end = 0
          BY <1>3, <1>7
        <4> QED
          BY <3>1, <4>1 DEF Around, Opener
      <3>2. CASE x # b
        BY <1>7, <3>2 DEF Around, Opener
      <3> QED
        BY <3>1, <3>2
    <2> QED
      BY <1>1, <1>6, <1>7, <2>1 DEF Extends
  <1>9. /\ Positions' = 1..N /\ N \in Positions' /\ Positions \subseteq Positions'
        /\ \A x \in Positions' : x \in Positions \/ x = N
        /\ \A i \in 1..N, x \in Positions' : Around(x, i)' <=> x \in Positions /\ Around(x, i)
        /\ \A x \in Positions : (Opener(x)' <=> Opener(x)) /\ (Loop(x)' <=> Loop(x))
        /\ ~Opener(N)' /\ prog'[N].op = "close"
    <2>1. /\ Positions' = 1..N
          /\ \A i \in 1..N, x \in Positions' : Around(x, i)' <=> x \in Positions /\ Around(x, i)
      BY <1>1, <1>8, Sites
    <2>2. \A x \in Positions : (Opener(x)' <=> Opener(x)) /\ (Loop(x)' <=> Loop(x))
      BY <1>7 DEF Opener, Loop
    <2>3. ~Opener(N)' /\ prog'[N].op = "close"
      BY <1>6 DEF Opener, Openers, Loops
    <2>4. \A x \in 1..N : x \in 1..(N - 1) \/ x = N
      OBVIOUS
    <2>5. N \in 1..N /\ 1..(N - 1) \subseteq 1..N
      OBVIOUS
    <2> QED
      BY <1>4, <2>1, <2>2, <2>3, <2>4, <2>5
  <1>10. IsText' /\ Trips' /\ Alone' /\ Charged' /\ Jumps'
    BY <1>1, <1>3, <1>6, <1>8, GrownShape DEF Loops
  <1>11. Ends'
    <2>1. ASSUME NEW x \in Positions', Opener(x)', prog'[x].end # 0
          PROVE  /\ x < prog'[x].end /\ prog'[x].end <= Len(prog')
                 /\ prog'[prog'[x].end].op = "close" /\ prog'[prog'[x].end].n = x
      <3>1. x \in Positions /\ Opener(x)
        BY <1>9, <2>1
      <3>2. CASE x = b
        BY <1>4, <1>6, <1>7, <3>1, <3>2
      <3>3. CASE x # b
        <4>1. prog'[x] = prog[x] /\ prog[x] \in Stmt /\ x \in Nat
          BY <1>4, <1>7, <3>1, <3>3
        <4>2. /\ x < prog[x].end /\ prog[x].end <= Len(prog)
              /\ prog[prog[x].end].op = "close" /\ prog[prog[x].end].n = x
          BY <2>1, <3>1, <4>1 DEF Shape, Ends
        <4>3. prog[x].end \in Positions
          BY <1>1, <4>1, <4>2, Fields DEF Positions
        <4>4. prog[x].end <= N
          BY <1>1, <4>1, <4>2, Fields
        <4> QED
          BY <1>6, <1>7, <4>1, <4>2, <4>3, <4>4
      <3> QED
        BY <3>2, <3>3
    <2> QED
      BY <2>1 DEF Ends
  <1>12. Closes'
    <2>1. ASSUME NEW i \in Positions', prog'[i].op = "close"
          PROVE  \E x \in Positions' : x = prog'[i].n /\ Opener(x)' /\ prog'[x].end = i
      <3>1. CASE i = N
        BY <1>3, <1>6, <1>7, <1>9, <3>1
      <3>2. CASE i \in Positions
        <4>1. PICK x \in Positions : x = prog[i].n /\ Opener(x) /\ prog[x].end = i
          BY <1>7, <2>1, <3>2 DEF Shape, Closes
        <4>2. x # b
          BY <1>3, <1>4, <3>2, <4>1
        <4> QED
          BY <1>7, <1>9, <3>2, <4>1, <4>2
      <3> QED
        BY <1>9, <3>1, <3>2
    <2> QED
      BY <2>1 DEF Closes
  <1>13. Nested'
    <2>1. ASSUME NEW x \in Positions', NEW y \in Positions',
                 Opener(y)', Around(x, y)', prog'[x].end # 0
          PROVE  prog'[y].end # 0 /\ prog'[y].end < prog'[x].end
      <3>1. x \in Positions /\ y \in Positions /\ Opener(y) /\ Around(x, y)
        BY <1>9, <2>1
      <3>2. CASE x = b
        <4>1. y # b /\ b < y
          BY <1>4, <3>1, <3>2 DEF Around
        <4>2. prog[y].end # 0
          <5>1. SUFFICES ASSUME prog[y].end = 0 PROVE FALSE
            OBVIOUS
          <5>2. PICK k \in 1..Len(open) : open[k].at = y
            BY <3>1, <5>1 DEF Opened, AllOpen
          <5>3. k # 1
            BY <1>3, <4>1, <5>2
          <5>4. 1 < k
            BY <1>2, <5>3
          <5>5. y < b
            BY <1>2, <1>3, <5>2, <5>4 DEF Opened, Inward
          <5> QED
            BY <1>4, <3>1, <3>2, <4>1, <5>5
        <4>3. prog[y].end <= Len(prog) /\ prog[y].end \in Nat
          BY <1>4, <3>1, <4>2, Fields DEF Shape, Ends
        <4>4. prog'[y].end = prog[y].end /\ prog'[x].end = N /\ prog[y].end < N
          BY <1>1, <1>7, <3>1, <3>2, <4>1, <4>3
        <4> QED
          BY <4>2, <4>4
      <3>3. CASE x # b
        <4>1. prog'[x].end = prog[x].end /\ prog[y].end # 0 /\ prog[y].end < prog[x].end
          BY <1>7, <2>1, <3>1, <3>3 DEF Shape, Nested
        <4>2. y # b
          BY <1>3, <4>1
        <4> QED
          BY <1>7, <3>1, <4>1, <4>2
      <3> QED
        BY <3>2, <3>3
    <2> QED
      BY <2>1 DEF Nested
  <1>14. Heads'
    <2>1. ASSUME NEW k \in 1..Len(open')
          PROVE  \E x \in Positions' :
                   /\ x = open'[k].at /\ Opener(x)' /\ prog'[x].end = 0
                   /\ open'[k].loop <=> Loop(x)'
                   /\ open'[k].mul = IF open'[k].loop THEN prog'[x].mul * prog'[x].n
                                     ELSE prog'[x].mul
      <3>1. k + 1 \in 1..Len(open) /\ open'[k] = open[k + 1] /\ 1 < k + 1
        BY <1>2
      <3>2. PICK x \in Positions :
              /\ x = open[k + 1].at /\ Opener(x) /\ prog[x].end = 0
              /\ open[k + 1].loop <=> Loop(x)
              /\ open[k + 1].mul = IF open[k + 1].loop THEN prog[x].mul * prog[x].n
                                   ELSE prog[x].mul
        BY <3>1 DEF Opened, Heads
      <3>3. x # b
        <4>1. open[k + 1].at < open[1].at
          BY <1>2, <3>1 DEF Opened, Inward
        <4> QED
          BY <1>3, <1>4, <3>2, <4>1
      <3>4. x \in Positions' /\ prog'[x] = prog[x] /\ Opener(x)' /\ (Loop(x)' <=> Loop(x))
        BY <1>7, <1>9, <3>2, <3>3
      <3> QED
        BY <3>1, <3>2, <3>4
    <2> QED
      BY <2>1 DEF Heads
  <1>15. Inward'
    <2>1. ASSUME NEW k \in 1..Len(open'), NEW m \in 1..Len(open'), k < m
          PROVE  open'[m].at < open'[k].at
      <3>1. k + 1 < m + 1
        BY <1>2, <2>1
      <3> QED
        BY <1>2, <3>1 DEF Opened, Inward
    <2> QED
      BY <2>1 DEF Inward
  <1>16. AllOpen'
    <2>1. ASSUME NEW x \in Positions', Opener(x)', prog'[x].end = 0
          PROVE  \E k \in 1..Len(open') : open'[k].at = x
      <3>1. x \in Positions /\ Opener(x) /\ x # b
        BY <1>7, <1>9, <1>1, <2>1
      <3>2. PICK k \in 1..Len(open) : open[k].at = x
        BY <1>7, <2>1, <3>1 DEF Opened, AllOpen
      <3>3. k # 1
        BY <1>3, <3>1, <3>2
      <3>4. k - 1 \in 1..Len(open') /\ (k - 1) + 1 = k
        BY <1>2, <3>3
      <3>5. open'[k - 1] = open[k]
        BY <1>2, <3>4
      <3> QED
        BY <3>2, <3>4, <3>5
    <2> QED
      BY <2>1 DEF AllOpen
  <1> QED
    BY <1>1, <1>2, <1>3, <1>6, <1>7, <1>8, <1>10, <1>11, <1>12, <1>13, <1>14, <1>15, <1>16
       DEF Shape, Opened

-----------------------------------------------------------------------------
(* The bounds.                                                             *)

\* A history: what is noted of each variable after each statement.
Notes == [0..Len(prog) -> [scope -> Nat]]

\* The names a statement uses are in scope.
InScope(s) ==
  /\ s.op \in Writes \union {"fold", "range"} => s.to \in scope
  /\ s.op \in {"add", "square", "swap"} => s.from \in scope
  /\ s.from = none \/ s.from \in scope
Named == \A i \in Positions : InScope(prog[i])

\* The note y covers what x covered.
Rises(x, y) == y = 0 \/ (x # 0 /\ x <= y)

\* A statement that may be skipped or run again only raises what is noted.
Raising(h) ==
  \A i \in Positions : InLoop(i) \/ InCond(i) \/ Opener(i) =>
    \A v \in scope : Rises(h[i - 1][v], h[i][v])

Replaces(s, v) ==
  \/ s.op \in {"set", "square", "add", "untracked"} /\ s.to = v
  \/ s.op = "swap" /\ (s.to = v \/ s.from = v)
Grows(s, v)   == s.op \in {"grow", "append"} /\ s.to = v
Indexes(s, v) == s.op \in Loops /\ s.from = v

\* What the executions of a statement may add to a variable.
Contribution(s, v) ==
  IF Grows(s, v) THEN s.n * s.mul ELSE IF Indexes(s, v) THEN s.n * (s.mul * s.n) ELSE 0

\* In a loop a variable is unknown, or only grows by what is charged.
Charge(s, v, x, y) == y = 0 \/ (~Replaces(s, v) /\ x # 0 /\ x + Contribution(s, v) <= y)
Charging(h) ==
  \A i \in Positions : InLoop(i) \/ Loop(i) =>
    \A v \in scope : Charge(prog[i], v, h[i - 1][v], h[i][v])

\* Outside loops the note after a statement is true of what it computes from
\* values the note before it was true of.
Computes(s, v, a, y) ==
  /\ s.op = "set" /\ s.to = v =>
       IF s.from = none THEN s.n <= y ELSE a[s.from] # 0 /\ a[s.from] + s.n <= y
  /\ s.op = "square" /\ s.to = v => a[s.from] # 0 /\ a[s.from] * a[s.from] <= y
  /\ s.op = "add" /\ s.to = v => a[v] # 0 /\ a[s.from] # 0 /\ a[v] + a[s.from] <= y
  /\ s.op = "untracked" => s.to # v
  /\ s.op = "swap" /\ s.to = v => Rises(a[s.from], y)
  /\ s.op = "swap" /\ s.from = v => Rises(a[s.to], y)
  /\ Grows(s, v) => a[v] # 0 /\ a[v] + s.n <= y
  /\ ~Replaces(s, v) => Rises(a[v], y)

Covering(h) ==
  \A i \in Positions : ~InLoop(i) /\ ~Opener(i) =>
    \A v \in scope : h[i][v] = 0 \/ Computes(prog[i], v, h[i - 1], h[i][v])

\* A fold or a range is charged what is noted of its container.
Priced(h) ==
  \A i \in Positions :
    /\ prog[i].op \in {"fold", "range"} => prog[i].n # 0 /\ h[i - 1][prog[i].to] = prog[i].n
    /\ prog[i].op = "fold" => ~InLoop(i)

\* In a nest, a slice keeps its length from where it is ranged over on.
Held(h) ==
  \A j, o \in Positions : prog[j].op = "range" /\ LoopAround(o, j) =>
    /\ \A i \in Positions : j <= i /\ LoopAround(o, i) => h[i][prog[j].to] = prog[j].n
    /\ prog[o].end = 0 => prog[j].to \in frozen /\ bound[prog[j].to] = prog[j].n

\* Without the tag, all that is noted of ints is narrow.
Narrow(h) ==
  ~tagged /\ ~AssignInLoops =>
    \A j \in 0..Len(prog), v \in Ints \intersect scope : h[j][v] \in 1..(Window - 1)

Bounds ==
  /\ scope \subseteq Var /\ bound \in [scope -> Nat] /\ Named
  /\ \A s \in Slices \intersect scope : bound[s] # 0
  /\ frozen \subseteq Slices \intersect scope /\ (loopDepth = 0 => frozen = {})

History(h) ==
  /\ h \in Notes /\ h[Len(prog)] = bound
  /\ Raising(h) /\ Charging(h) /\ Covering(h) /\ Priced(h) /\ Held(h) /\ Narrow(h)

-----------------------------------------------------------------------------
(* The run.                                                                *)

Frame == [at : Nat \ {0}, pass : Nat, of : Nat]

\* The frames fs are the loops around the place p.
FramedAt(fs, p) ==
  /\ fs \in Seq(Frame)
  /\ \A k \in 1..Len(fs) :
       /\ LoopAround(fs[k].at, p)
       /\ fs[k].pass < fs[k].of /\ fs[k].of <= prog[fs[k].at].n
  /\ \A l \in Positions : LoopAround(l, p) => \E k \in 1..Len(fs) : fs[k].at = l
  /\ \A k, m \in 1..Len(fs) : k < m => fs[m].at < fs[k].at

\* The passes d that are over of each loop: those of the executions that are
\* over, and of the one that runs; a statement runs at most once in a pass.
Due(l, rs) == rs[l] * prog[l].n
PassedAt(d, fs, rs, p) ==
  /\ \A l \in Positions : Loop(l) /\ ~LoopAround(l, p) => d[l] <= Due(l, rs)
  /\ \A k \in 1..Len(fs) :
       d[fs[k].at] + prog[fs[k].at].n <= Due(fs[k].at, rs) + fs[k].pass
ExecutionsAt(d, rs, p) ==
  \A i \in Positions :
    /\ ~InLoop(i) => rs[i] <= IF i < p THEN 1 ELSE 0
    /\ \A l \in Positions :
         Inner(l, i) => rs[i] <= d[l] + IF LoopAround(l, p) /\ i < p THEN 1 ELSE 0
WithinAt(rs) == \A i \in Positions : rs[i] <= prog[i].mul

CountsAt(d, fs, rs, p) ==
  /\ d \in [Positions -> Nat] /\ rs \in [Positions -> Nat]
  /\ PassedAt(d, fs, rs, p) /\ ExecutionsAt(d, rs, p) /\ WithinAt(rs)

\* What the executions of a statement so far may have added to a variable.
Spent(i, v, d, rs) ==
  IF Grows(prog[i], v) THEN prog[i].n * rs[i]
  ELSE IF Indexes(prog[i], v) THEN prog[i].n * d[i] ELSE 0

\* The value y of v is reached from what was noted before the loop o by what
\* the statements of the loop have spent.
Reached(h, d, rs, o, v, y) ==
  \E g \in [Nat -> Nat] :
    /\ g[o - 1] <= h[o - 1][v] /\ y <= g[prog[o].end]
    /\ \A j \in o..prog[o].end : g[j] <= g[j - 1] + Spent(j, v, d, rs)

\* A value is within what is noted outside loops; in a loop it is within what
\* was noted before the outermost one, and the growth since.
KnownAt(h, p, x) ==
  ~InLoop(p) => \A v \in scope : h[p - 1][v] = 0 \/ x[v] <= h[p - 1][v]
GrownAt(h, d, rs, p, x) ==
  \A o \in Positions, v \in scope :
    Outer(o, p) /\ h[prog[o].end][v] # 0 => Reached(h, d, rs, o, v, x[v])

RunAt(h, d, p, fs, rs, x) ==
  /\ p \in 1..(Len(prog) + 1) /\ x \in [scope -> Nat]
  /\ FramedAt(fs, p) /\ CountsAt(d, fs, rs, p) /\ KnownAt(h, p, x) /\ GrownAt(h, d, rs, p, x)

Run(h, d) == open = <<>> /\ RunAt(h, d, pc, frames, runs, val)

Unstarted(h) == pc = 1 /\ frames = <<>> /\ val = h[0]

GrowthInv ==
  /\ Shape /\ Opened /\ Bounds
  /\ \E h : /\ History(h)
            /\ \/ phase = "emit" /\ Unstarted(h)
               \/ /\ phase \in {"run", "done"}
                  /\ phase = "done" => pc = Len(prog) + 1
                  /\ \E d : Run(h, d)

-----------------------------------------------------------------------------
(* What is noted when a statement is written.                              *)

\* The statement s is noted as a history requires.
Noting(s) ==
  /\ bound' \in [scope -> Nat] /\ InScope(s)
  /\ InLoop(Site) \/ InCond(Site) \/ s.op \in Openers =>
       \A v \in scope : Rises(bound[v], bound'[v])
  /\ InLoop(Site) \/ s.op \in Loops => \A v \in scope : Charge(s, v, bound[v], bound'[v])
  /\ ~InLoop(Site) /\ s.op \notin Openers =>
       \A v \in scope : bound'[v] = 0 \/ Computes(s, v, bound, bound'[v])
  /\ s.op \in {"fold", "range"} => s.n # 0 /\ bound[s.to] = s.n
  /\ s.op = "fold" => ~InLoop(Site)
  /\ s.op = "range" /\ InLoop(Site) => s.to \in frozen'
  /\ \A v \in scope : v \in frozen \/ (s.op = "range" /\ s.to = v) => bound'[v] = bound[v]
  /\ frozen \subseteq frozen' \/ \A o \in Positions : Loop(o) => prog'[o].end # 0
  /\ tagged => tagged'
  /\ ~tagged' /\ ~AssignInLoops /\ (\A v \in Ints \intersect scope : bound[v] \in 1..(Window - 1))
       => \A v \in Ints \intersect scope : bound'[v] \in 1..(Window - 1)

LEMMA Noted ==
  ASSUME Shape, Extends, Bounds, NEW h, History(h), NEW s, prog'[Site] = s, Noting(s),
         NEW k, k = [j \in 0..Site |-> IF j = Site THEN bound' ELSE h[j]]
  PROVE  History(k)' /\ Named' /\ scope' = scope /\ k[0] = h[0]
  <1>1. PICK N \in Nat \ {0} : N = Len(prog) + 1 /\ Site = N /\ Len(prog) \in Nat
    BY DEF Shape, IsText, Site
  <1>2. PICK S : S = scope
    OBVIOUS
  <1>3. scope' = S /\ bound' \in [S -> Nat]
    BY <1>2 DEF Noting, scope
  <1>4. /\ prog'[N] = s /\ Len(prog') = N
        /\ \A i \in Positions : /\ prog'[i].op = prog[i].op /\ prog'[i].n = prog[i].n
                                /\ prog'[i].to = prog[i].to /\ prog'[i].from = prog[i].from
                                /\ prog'[i].mul = prog[i].mul
    BY <1>1 DEF Extends
  <1>5. /\ Positions' = 1..N /\ Positions = 1..(N - 1)
        /\ \A i \in Positions' : i \in 1..N /\ (i \in Positions \/ i = N)
        /\ \A i \in Positions : i \in 1..N /\ i \in Nat /\ i < N
    <2>1. Positions' = 1..N
      BY <1>1, Sites
    <2>2. Positions = 1..(N - 1)
      BY <1>1 DEF Positions
    <2> QED
      BY <2>1, <2>2
  <1>6. \A i \in 1..N : /\ InLoop(i)' <=> InLoop(i)
                        /\ InCond(i)' <=> InCond(i)
                        /\ \A l \in Positions' : LoopAround(l, i)' <=> LoopAround(l, i)
    BY <1>1, Sites
  <1>7. /\ \A j \in 0..(N - 1) : k[j] = h[j]
        /\ k[N] = bound' /\ k[N - 1] = bound /\ k[0] = h[0]
        /\ \A i \in Positions : k[i] = h[i] /\ k[i - 1] = h[i - 1]
    <2>1. \A j \in 0..(N - 1) : j \in 0..N /\ j # N
      OBVIOUS
    <2>2. \A j \in 0..(N - 1) : k[j] = h[j]
      BY <1>1, <2>1
    <2>3. k[N] = bound'
      BY <1>1
    <2>4. h[N - 1] = bound /\ N - 1 \in 0..(N - 1) /\ 0 \in 0..(N - 1)
      BY <1>1 DEF History
    <2>5. \A i \in Positions : i \in 0..(N - 1) /\ i - 1 \in 0..(N - 1)
      BY <1>5
    <2> QED
      BY <2>2, <2>3, <2>4, <2>5
  <1>8. Notes' = [0..N -> [S -> Nat]] /\ h \in [0..(N - 1) -> [S -> Nat]]
    BY <1>1, <1>2, <1>3, <1>4 DEF Notes, History
  <1>9. k \in Notes' /\ (k[Len(prog)] = bound)'
    <2>1. \A j \in 0..N : j = N \/ j \in 0..(N - 1)
      OBVIOUS
    <2>2. k = [j \in 0..N |-> IF j = N THEN bound' ELSE h[j]]
      BY <1>1
    <2> QED
      BY <1>3, <1>4, <1>7, <1>8, <2>1, <2>2
  <1>10. Raising(k)'
    <2>1. ASSUME NEW i \in Positions', InLoop(i)' \/ InCond(i)' \/ Opener(i)', NEW v \in S
          PROVE  Rises(k[i - 1][v], k[i][v])
      <3>1. CASE i = N
        <4>1. InLoop(N) \/ InCond(N) \/ s.op \in Openers
          BY <1>4, <1>6, <2>1, <3>1 DEF Opener
        <4> QED
          BY <1>1, <1>2, <1>7, <3>1, <4>1 DEF Noting
      <3>2. CASE i \in Positions
        <4>1. InLoop(i) \/ InCond(i) \/ Opener(i)
          BY <1>4, <1>5, <1>6, <2>1, <3>2 DEF Opener
        <4>2. Rises(h[i - 1][v], h[i][v])
          BY <1>2, <3>2, <4>1 DEF History, Raising
        <4> QED
          BY <1>7, <3>2, <4>2
      <3> QED
        BY <1>5, <3>1, <3>2
    <2> QED
      BY <1>3, <2>1 DEF Raising
  <1>11. Charging(k)'
    <2>1. ASSUME NEW i \in Positions', InLoop(i)' \/ Loop(i)', NEW v \in S
          PROVE  Charge(prog'[i], v, k[i - 1][v], k[i][v])
      <3>1. CASE i = N
        <4>1. InLoop(N) \/ s.op \in Loops
          BY <1>4, <1>5, <1>6, <2>1, <3>1 DEF Loop
        <4> QED
          BY <1>1, <1>2, <1>4, <1>7, <3>1, <4>1 DEF Noting
      <3>2. CASE i \in Positions
        <4>1. InLoop(i) \/ Loop(i)
          BY <1>4, <1>5, <1>6, <2>1, <3>2 DEF Loop
        <4>2. Charge(prog[i], v, h[i - 1][v], h[i][v])
          BY <1>2, <3>2, <4>1 DEF History, Charging
        <4> QED
          BY <1>4, <1>7, <3>2, <4>2 DEF Charge, Replaces, Contribution, Grows, Indexes
      <3> QED
        BY <1>5, <3>1, <3>2
    <2> QED
      BY <1>3, <2>1 DEF Charging
  <1>12. Covering(k)'
    <2>1. ASSUME NEW i \in Positions', ~InLoop(i)', ~Opener(i)', NEW v \in S
          PROVE  k[i][v] = 0 \/ Computes(prog'[i], v, k[i - 1], k[i][v])
      <3>1. CASE i = N
        <4>1. ~InLoop(N) /\ s.op \notin Openers
          BY <1>4, <1>5, <1>6, <2>1, <3>1 DEF Opener
        <4> QED
          BY <1>1, <1>2, <1>4, <1>7, <3>1, <4>1 DEF Noting
      <3>2. CASE i \in Positions
        <4>1. ~InLoop(i) /\ ~Opener(i)
          BY <1>4, <1>5, <1>6, <2>1, <3>2 DEF Opener
        <4>2. h[i][v] = 0 \/ Computes(prog[i], v, h[i - 1], h[i][v])
          BY <1>2, <3>2, <4>1 DEF History, Covering
        <4>3. Computes(prog[i], v, h[i - 1], h[i][v]) => Computes(prog'[i], v, h[i - 1], h[i][v])
          BY <1>4, <3>2 DEF Computes, Replaces, Grows
        <4> QED
          BY <1>7, <3>2, <4>2, <4>3
      <3> QED
        BY <1>5, <3>1, <3>2
    <2> QED
      BY <1>3, <2>1 DEF Covering
  <1>13. Priced(k)'
    <2>1. ASSUME NEW i \in Positions'
          PROVE  /\ prog'[i].op \in {"fold", "range"} =>
                      prog'[i].n # 0 /\ k[i - 1][prog'[i].to] = prog'[i].n
                 /\ prog'[i].op = "fold" => ~InLoop(i)'
      <3>1. CASE i = N
        BY <1>1, <1>4, <1>5, <1>6, <1>7, <3>1 DEF Noting
      <3>2. CASE i \in Positions
        <4>1. /\ prog[i].op \in {"fold", "range"} =>
                   prog[i].n # 0 /\ h[i - 1][prog[i].to] = prog[i].n
              /\ prog[i].op = "fold" => ~InLoop(i)
          BY <3>2 DEF History, Priced
        <4> QED
          BY <1>4, <1>5, <1>6, <1>7, <3>2, <4>1
      <3> QED
        BY <1>5, <3>1, <3>2
    <2> QED
      BY <2>1 DEF Priced
  <1>14. Named'
    <2>1. ASSUME NEW i \in Positions'
          PROVE  /\ prog'[i].op \in Writes \union {"fold", "range"} => prog'[i].to \in S
                 /\ prog'[i].op \in {"add", "square", "swap"} => prog'[i].from \in S
                 /\ prog'[i].from = none \/ prog'[i].from \in S
      <3>1. CASE i = N
        BY <1>2, <1>3, <1>4, <3>1 DEF Noting, InScope
      <3>2. CASE i \in Positions
        BY <1>2, <1>3, <1>4, <3>2 DEF Bounds, Named, InScope
      <3> QED
        BY <1>5, <3>1, <3>2
    <2> QED
      BY <1>3, <2>1 DEF Named, InScope
  <1>15. Held(k)'
    <2>1. \A o \in Positions : LoopAround(o, N) => prog[o].end = 0
      <3>1. \A o \in Positions : Opener(o) /\ prog[o].end # 0 => prog[o].end <= Len(prog) /\ prog[o].end \in Nat
        BY Fields DEF Shape, Ends, IsText, Positions
      <3> QED
        BY <1>1, <3>1 DEF LoopAround, Around
    <2>2. ASSUME NEW o \in Positions, Loop(o), prog'[o].end = 0
          PROVE  LoopAround(o, N)
      <3>1. Around(o, N)'
        BY <1>4, <1>5, <2>2 DEF Around, Opener, Loop, Openers
      <3>2. N \in 1..N
        OBVIOUS
      <3> QED
        BY <1>1, <2>2, <3>1, <3>2 DEF Extends, LoopAround
    <2>3. \A j \in Positions : prog[j].op = "range" => prog[j].to \in S
      BY <1>2 DEF Bounds, Named, InScope
    <2>4. \A v \in S : v \in frozen \/ (s.op = "range" /\ s.to = v) => bound'[v] = bound[v]
      BY <1>2 DEF Noting
    <2>5. ASSUME NEW j \in Positions', NEW o \in Positions', prog'[j].op = "range", LoopAround(o, j)'
          PROVE  o \in Positions /\ LoopAround(o, j) /\ o < j
      BY <1>5, <1>6, <2>5 DEF LoopAround, Around
    <2>6. ASSUME NEW j \in Positions, NEW o \in Positions, prog[j].op = "range",
                 LoopAround(o, j), LoopAround(o, N)
          PROVE  /\ prog[j].to \in frozen /\ bound[prog[j].to] = prog[j].n
                 /\ bound'[prog[j].to] = prog[j].n
      <3>1. prog[j].to \in frozen /\ bound[prog[j].to] = prog[j].n
        BY <2>1, <2>6 DEF History, Held
      <3> QED
        BY <2>3, <2>4, <2>6, <3>1
    <2>7. ASSUME NEW j \in Positions', NEW o \in Positions', prog'[j].op = "range",
                 LoopAround(o, j)', NEW i \in Positions', j <= i, LoopAround(o, i)'
          PROVE  k[i][prog'[j].to] = prog'[j].n
      <3>1. o \in Positions /\ LoopAround(o, j) /\ LoopAround(o, i)
        BY <1>5, <1>6, <2>5, <2>7
      <3>2. CASE i \in Positions
        <4>1. j \in Positions
          BY <1>5, <2>7, <3>2
        <4>2. h[i][prog[j].to] = prog[j].n
          BY <1>4, <2>7, <3>1, <3>2, <4>1 DEF History, Held
        <4> QED
          BY <1>4, <1>7, <3>2, <4>1, <4>2
      <3>3. CASE i = N /\ j \in Positions
        <4>1. bound'[prog[j].to] = prog[j].n
          BY <1>4, <2>6, <2>7, <3>1, <3>3
        <4> QED
          BY <1>4, <1>7, <3>3, <4>1
      <3>4. CASE i = N /\ j = N
        <4>1. s.op = "range" /\ s.to \in S /\ bound[s.to] = s.n
          BY <1>2, <1>4, <2>7, <3>4 DEF Noting, InScope
        <4> QED
          BY <1>4, <1>7, <2>4, <3>4, <4>1
      <3> QED
        BY <1>5, <3>2, <3>3, <3>4
    <2>8. ASSUME NEW j \in Positions', NEW o \in Positions', prog'[j].op = "range",
                 LoopAround(o, j)', prog'[o].end = 0
          PROVE  prog'[j].to \in frozen' /\ bound'[prog'[j].to] = prog'[j].n
      <3>1. o \in Positions /\ LoopAround(o, j) /\ Loop(o)
        BY <2>5, <2>8 DEF LoopAround
      <3>2. LoopAround(o, N) /\ frozen \subseteq frozen'
        BY <2>2, <2>8, <3>1 DEF Noting
      <3>3. CASE j \in Positions
        <4>1. prog[j].to \in frozen /\ bound'[prog[j].to] = prog[j].n
          BY <1>4, <2>6, <2>8, <3>1, <3>2, <3>3
        <4> QED
          BY <1>4, <3>2, <3>3, <4>1
      <3>4. CASE j = N
        <4>1. InLoop(N)
          BY <3>1, <3>2 DEF InLoop
        <4>2. s.op = "range" /\ s.to \in S /\ bound[s.to] = s.n /\ s.to \in frozen'
          BY <1>1, <1>2, <1>4, <2>8, <3>4, <4>1 DEF Noting, InScope
        <4> QED
          BY <1>4, <2>4, <3>4, <4>2
      <3> QED
        BY <1>5, <3>3, <3>4
    <2> QED
      BY <2>7, <2>8 DEF Held
  <1>16. Narrow(k)'
    <2>1. ASSUME ~tagged', ~AssignInLoops, NEW j \in 0..N, NEW v \in Ints \intersect S
          PROVE  k[j][v] \in 1..(Window - 1)
      <3>1. ~tagged
        BY <2>1 DEF Noting
      <3>2. \A i \in 0..(N - 1), x \in Ints \intersect S : h[i][x] \in 1..(Window - 1)
        BY <1>1, <1>2, <2>1, <3>1 DEF History, Narrow
      <3>3. \A x \in Ints \intersect S : bound[x] \in 1..(Window - 1)
        <4>1. N - 1 \in 0..(N - 1) /\ h[N - 1] = bound
          BY <1>1 DEF History
        <4> QED
          BY <3>2, <4>1
      <3>4. CASE j = N
        BY <1>2, <1>7, <2>1, <3>3, <3>4 DEF Noting
      <3>5. CASE j \in 0..(N - 1)
        BY <1>7, <3>2, <3>5
      <3>6. j = N \/ j \in 0..(N - 1)
        OBVIOUS
      <3> QED
        BY <3>4, <3>5, <3>6
    <2> QED
      BY <1>3, <1>4, <2>1 DEF Narrow
  <1> QED
    BY <1>2, <1>3, <1>7, <1>9, <1>10, <1>11, <1>12, <1>13, <1>14, <1>15, <1>16 DEF History

\* A write of one variable x, whose note becomes e.
LEMMA OneWrite ==
  ASSUME Shape, Opened, Bounds, NEW s \in Stmt, s.op \in Writes \ {"swap"}, InScope(s),
         NEW x, x = s.to, NEW e \in Nat, Bound(x, e),
         InLoop(Site) \/ InCond(Site) => Rises(bound[x], e),
         InLoop(Site) => Charge(s, x, bound[x], e),
         ~InLoop(Site) => e = 0 \/ Computes(s, x, bound, e),
         x \notin frozen, frozen' = frozen, tagged => tagged',
         x \in Ints /\ ~tagged' /\ ~AssignInLoops
           /\ (\A v \in Ints \intersect scope : bound[v] \in 1..(Window - 1)) => e \in 1..(Window - 1)
  PROVE  Noting(s)
  <1>1. /\ s.op \notin Openers /\ s.op \notin Loops /\ s.op # "swap"
        /\ s.op \notin {"fold", "range"} /\ s.op # "fold" /\ s.op # "range"
    BY DEF Writes, Openers, Loops
  <1>2. x \in scope /\ bound \in [scope -> Nat]
    BY DEF InScope, Bounds
  <1>3. /\ bound' \in [scope -> Nat] /\ bound'[x] = e
        /\ \A v \in scope : v # x => bound'[v] = bound[v]
        /\ \A v \in scope : bound[v] \in Nat
    BY <1>2 DEF Bound
  <1>4. ASSUME NEW v \in scope, v # x
        PROVE  /\ Rises(bound[v], bound'[v])
               /\ Charge(s, v, bound[v], bound'[v])
               /\ Computes(s, v, bound, bound'[v]) \/ bound'[v] = 0
    <2>1. s.to # v /\ bound'[v] = bound[v] /\ bound[v] \in Nat
      BY <1>3, <1>4
    <2>2. ~Replaces(s, v) /\ ~Grows(s, v) /\ ~Indexes(s, v)
      BY <1>1, <2>1 DEF Replaces, Grows, Indexes
    <2>3. Rises(bound[v], bound'[v])
      BY <2>1 DEF Rises
    <2>4. Charge(s, v, bound[v], bound'[v])
      BY <2>1, <2>2 DEF Charge, Contribution
    <2> QED
      BY <1>1, <2>1, <2>2, <2>3, <2>4 DEF Computes
  <1>5. InLoop(Site) \/ InCond(Site) => \A v \in scope : Rises(bound[v], bound'[v])
    BY <1>2, <1>3, <1>4
  <1>6. InLoop(Site) => \A v \in scope : Charge(s, v, bound[v], bound'[v])
    BY <1>2, <1>3, <1>4
  <1>7. ~InLoop(Site) => \A v \in scope : bound'[v] = 0 \/ Computes(s, v, bound, bound'[v])
    BY <1>2, <1>3, <1>4
  <1>8. ~tagged' /\ ~AssignInLoops /\ (\A v \in Ints \intersect scope : bound[v] \in 1..(Window - 1))
          => \A v \in Ints \intersect scope : bound'[v] \in 1..(Window - 1)
    BY <1>2, <1>3
  <1>9. \A v \in scope : v \in frozen => bound'[v] = bound[v]
    BY <1>3
  <1> QED
    BY <1>1, <1>3, <1>5, <1>6, <1>7, <1>8, <1>9 DEF Noting

LEMMA Values ==
         /\ LitLen \in Nat \ {0} /\ InitLen \in Nat \ {0} /\ Window \in Nat \ {0} /\ LitLen < Window
         /\ MaxVal \in Nat \ {0} /\ Window < MaxVal /\ MaxLen \in Nat \ {0}
         /\ none \notin Var /\ AssignInLoops \in BOOLEAN
         /\ \A v \in Strings : v \notin Slices /\ v \notin Ints
         /\ \A v \in Slices : v \notin Strings /\ v \notin Ints
         /\ \A v \in Ints : v \notin Slices /\ v \notin Strings
  BY GrowthAssumption DEF Var, none

\* A replacement: stale in a loop, one of two under a condition.
Join(prev, new) ==
  IF loopDepth > 0 THEN 0 ELSE IF condDepth > 0 THEN boundMax(prev, new) ELSE new

LEMMA Joined ==
  ASSUME Shape, Opened
  PROVE  \A prev, new \in Nat :
           /\ Join(prev, new) \in Nat
           /\ InLoop(Site) \/ InCond(Site) => Rises(prev, Join(prev, new))
           /\ InLoop(Site) => Join(prev, new) = 0
           /\ Rises(new, Join(prev, new))
           /\ ~InLoop(Site) /\ new < Window /\ new # 0 /\ prev < Window /\ prev # 0
                => Join(prev, new) \in 1..(Window - 1)
  <1>1. (InLoop(Site) <=> loopDepth > 0) /\ (InCond(Site) <=> condDepth > 0)
    BY AtSite
  <1>2. Window \in Nat
    BY Values
  <1> QED
    BY <1>1, <1>2 DEF Join, boundMax, Rises

LEMMA Joins ==
  \A new, prev : setStrLen(new, prev) = Join(prev, new) /\ replaced(prev, new) = Join(prev, new)
  BY DEF Join, setStrLen, replaced

\* The statement s is spelled so.
Spelled(s, op, to, from_, n) ==
  /\ s \in Stmt /\ s.op = op /\ s.to = to /\ s.from = from_ /\ s.n = n
  /\ s.end = 0 /\ s.mul = execMul

LEMMA Statement ==
  ASSUME Shape, Opened, Bounds, NEW op \in Ops, NEW to, to \in scope \/ to = none,
         NEW from_, from_ \in scope \/ from_ = none, NEW n \in Nat, NEW s, s = Op(op, to, from_, n)
  PROVE  /\ s \in Stmt /\ s.op = op /\ s.to = to /\ s.from = from_ /\ s.n = n
         /\ s.end = 0 /\ s.mul = execMul
  <1>1. execMul \in Nat \ {0}
    BY AtSite
  <1>2. to \in Var \union {none} /\ from_ \in Var \union {none}
    BY DEF Bounds
  <1> QED
    BY <1>1, <1>2 DEF Op, Stmt

LEMMA Spelling ==
  ASSUME Shape, Opened, Bounds, NEW op \in Ops, NEW to, to \in scope \/ to = none,
         NEW from_, from_ \in scope \/ from_ = none, NEW n \in Nat
  PROVE  Spelled(Op(op, to, from_, n), op, to, from_, n)
  BY Statement DEF Spelled

\* A plain statement is written.
LEMMA SimpleStep ==
  ASSUME GrowthInv, NEW s \in Stmt, Emit(s), s.mul = execMul,
         s.op \notin Openers, s.op # "close",
         s.op \in {"break", "continue"} => Inner(s.n, Site),
         Noting(s), open' = open, frozen' = frozen,
         \A v \in Slices \intersect scope : bound'[v] # 0
  PROVE  GrowthInv'
  <1>1. Shape /\ Opened /\ Bounds /\ phase = "emit" /\ phase' = "emit" /\ prog' = Append(prog, s)
    BY DEF GrowthInv, Emit
  <1>2. PICK h : History(h) /\ Unstarted(h)
    BY <1>1 DEF GrowthInv
  <1>3. s.op \notin Loops
    BY DEF Openers
  <1>4. Shape'
    BY <1>1, <1>3, AddedShape
  <1>5. Opened'
    BY <1>1, AddedOpened
  <1>6. Extends /\ prog'[Site] = s
    BY <1>1, Added
  <1>7. PICK k : k = [j \in 0..Site |-> IF j = Site THEN bound' ELSE h[j]]
    OBVIOUS
  <1>8. History(k)' /\ Named' /\ scope' = scope /\ k[0] = h[0]
    BY <1>1, <1>2, <1>6, <1>7, Noted
  <1>9. Bounds'
    <2>1. loopDepth' = loopDepth
      BY DEF loopDepth
    <2>2. bound' \in [scope -> Nat]
      BY DEF Noting
    <2> QED
      BY <1>1, <1>8, <2>1, <2>2 DEF Bounds
  <1>10. Unstarted(k)'
    BY <1>2, <1>8 DEF Unstarted, Emit, running
  <1> QED
    BY <1>1, <1>4, <1>5, <1>8, <1>9, <1>10 DEF GrowthInv

-----------------------------------------------------------------------------
(* The statements.                                                         *)

LEMMA WriteStep ==
  ASSUME GrowthInv, NEW s \in Stmt, Emit(s), s.mul = execMul,
         s.op \in Writes \ {"swap"}, InScope(s),
         NEW x, x = s.to, NEW e \in Nat, Bound(x, e),
         InLoop(Site) \/ InCond(Site) => Rises(bound[x], e),
         InLoop(Site) => Charge(s, x, bound[x], e),
         ~InLoop(Site) => e = 0 \/ Computes(s, x, bound, e),
         open' = open, frozen' = frozen, tagged => tagged',
         x \in Slices => e # 0 /\ x \notin frozen,
         x \in Ints /\ ~tagged' /\ ~AssignInLoops
           /\ (\A v \in Ints \intersect scope : bound[v] \in 1..(Window - 1)) => e \in 1..(Window - 1)
  PROVE  GrowthInv'
  <1>1. Shape /\ Opened /\ Bounds
    BY DEF GrowthInv
  <1>2. x \notin frozen
    BY <1>1 DEF Bounds
  <1>3. Noting(s)
    BY <1>1, <1>2, OneWrite
  <1>4. \A v \in Slices \intersect scope : bound'[v] # 0
    <2>1. \A v \in scope : bound'[v] = IF v = x THEN e ELSE bound[v]
      BY <1>1 DEF Bounds, Bound
    <2> QED
      BY <1>1, <2>1 DEF Bounds
  <1>5. /\ s.op \notin Openers /\ s.op # "close" /\ s.op \notin {"break", "continue"}
    BY DEF Writes, Openers, Loops
  <1> QED
    BY <1>3, <1>4, <1>5, SimpleStep

\* What a write of new to x does, as the arms of set and square do it.
LEMMA SetStep ==
  ASSUME GrowthInv, NEW op \in {"set", "square"},
         NEW x \in scope, x \notin Slices, NEW y \in scope \union {none}, NEW n \in Nat,
         Emit(Op(op, x, y, n)), NEW new \in Nat,
         NEW e, Bound(x, e),
         e = Join(bound[x], new),
         op = "set" /\ y = none => n <= new,
         op = "set" /\ y # none /\ new # 0 => bound[y] # 0 /\ bound[y] + n <= new,
         op = "square" => y # none /\ new = bound[y] * bound[y],
         open' = open, frozen' = frozen, tagged => tagged',
         x \in Ints /\ ~tagged' /\ ~AssignInLoops
           /\ (\A v \in Ints \intersect scope : bound[v] \in 1..(Window - 1))
           => ~InLoop(Site) /\ new \in 1..(Window - 1)
  PROVE  GrowthInv'
  <1>1. Shape /\ Opened /\ Bounds
    BY DEF GrowthInv
  <1>2. op \in Ops /\ op \in Writes \ {"swap"} /\ op \notin {"add", "swap"}
    BY DEF Ops, Writes
  <1>5. PICK s : s = Op(op, x, y, n)
    OBVIOUS
  <1>3. /\ s \in Stmt /\ s.op = op /\ s.to = x /\ s.from = y /\ s.n = n
        /\ s.end = 0 /\ s.mul = execMul
    <2>1. (x \in scope \/ x = none) /\ (y \in scope \/ y = none)
      OBVIOUS
    <2>2. Spelled(s, op, x, y, n)
      BY <1>1, <1>2, <1>5, <2>1, Spelling
    <2> QED
      BY <2>2 DEF Spelled
  <1>4. PICK p \in Nat : p = bound[x] /\ e = Join(p, new)
    BY <1>1 DEF Bounds
  <1>6. /\ e \in Nat
        /\ InLoop(Site) \/ InCond(Site) => Rises(bound[x], e)
        /\ InLoop(Site) => e = 0
        /\ e = 0 \/ (new # 0 /\ new <= e)
        /\ ~InLoop(Site) /\ new \in 1..(Window - 1) /\ bound[x] \in 1..(Window - 1)
             => e \in 1..(Window - 1)
    <2>1. /\ e \in Nat
          /\ InLoop(Site) \/ InCond(Site) => Rises(p, e)
          /\ InLoop(Site) => e = 0
          /\ Rises(new, e)
          /\ ~InLoop(Site) /\ new < Window /\ new # 0 /\ p < Window /\ p # 0
               => e \in 1..(Window - 1)
      BY <1>1, <1>4, Joined
    <2>2. Window \in Nat
      BY Values
    <2> QED
      BY <1>4, <2>1, <2>2 DEF Rises
  <1>7. InScope(s)
    BY <1>2, <1>3 DEF InScope
  <1>8. InLoop(Site) => Charge(s, x, bound[x], e)
    BY <1>6 DEF Charge
  <1>9. y \in scope => bound[y] \in Nat
    BY <1>1 DEF Bounds
  <1>10. e = 0 \/ Computes(s, x, bound, e)
    <2>1. SUFFICES ASSUME e # 0 PROVE Computes(s, x, bound, e)
      OBVIOUS
    <2>2. new # 0 /\ new <= e
      BY <1>6, <2>1
    <2>3. Replaces(s, x) /\ ~Grows(s, x)
      BY <1>3 DEF Replaces, Grows
    <2>4. op = "set" => IF y = none THEN n <= e ELSE bound[y] # 0 /\ bound[y] + n <= e
      BY <1>6, <1>9, <2>2
    <2>5. op = "square" => bound[y] # 0 /\ bound[y] * bound[y] <= e
      BY <1>9, <2>2
    <2> QED
      BY <1>3, <2>3, <2>4, <2>5 DEF Computes
  <1>11. x \in Ints /\ ~tagged' /\ ~AssignInLoops
           /\ (\A v \in Ints \intersect scope : bound[v] \in 1..(Window - 1)) => e \in 1..(Window - 1)
    BY <1>6
  <1> QED
    BY <1>2, <1>3, <1>5, <1>6, <1>7, <1>8, <1>10, <1>11, WriteStep

LEMMA AssignStringStep ==
  ASSUME GrowthInv, AssignString
  PROVE  GrowthInv'
  <1>1. PICK x \in Strings \intersect scope :
          /\ \/ Emit(Op("set", x, none, LitLen)) /\ Bound(x, setStrLen(LitLen, bound[x]))
             \/ \E t \in (Strings \intersect scope) \ {x} :
                  Emit(Op("set", x, t, 0)) /\ Bound(x, setStrLen(bound[t], bound[x]))
             \/ \E t \in Strings \intersect scope :
                  /\ Emit(Op("set", x, t, LitLen))
                  /\ Bound(x, setStrLen(boundAdd(boundAdd(1, bound[t]), LitLen), bound[x]))
          /\ Simple
    BY DEF AssignString
  <1>2. x \notin Slices /\ x \notin Ints /\ none \notin scope /\ LitLen \in Nat
    BY <1>1, Values DEF GrowthInv, Bounds
  <1>3. open' = open /\ frozen' = frozen /\ tagged' = tagged
    BY <1>1 DEF Simple
  <1>4. \A v \in scope : bound[v] \in Nat
    BY DEF GrowthInv, Bounds
  <1>5. CASE Emit(Op("set", x, none, LitLen)) /\ Bound(x, setStrLen(LitLen, bound[x]))
    BY <1>2, <1>3, <1>5, SetStep, Joins
  <1>6. ASSUME NEW t \in Strings \intersect scope,
               Emit(Op("set", x, t, 0)), Bound(x, setStrLen(bound[t], bound[x]))
        PROVE  GrowthInv'
    <2>1. bound[t] \in Nat /\ t # none /\ (bound[t] # 0 => bound[t] + 0 <= bound[t])
      BY <1>2, <1>4
    <2> QED
      BY <1>2, <1>3, <1>6, <2>1, SetStep, Joins
  <1>7. ASSUME NEW t \in Strings \intersect scope,
               Emit(Op("set", x, t, LitLen)),
               Bound(x, setStrLen(boundAdd(boundAdd(1, bound[t]), LitLen), bound[x]))
        PROVE  GrowthInv'
    <2>1. PICK new : new = boundAdd(boundAdd(1, bound[t]), LitLen)
      OBVIOUS
    <2>2. new \in Nat /\ t # none /\ (new # 0 => bound[t] # 0 /\ bound[t] + LitLen <= new)
      <3>1. bound[t] \in Nat
        BY <1>4
      <3> QED
        BY <1>2, <2>1, <3>1 DEF boundAdd
    <2> QED
      BY <1>2, <1>3, <1>7, <2>1, <2>2, SetStep, Joins
  <1> QED
    BY <1>1, <1>5, <1>6, <1>7

LEMMA AssignIntStep ==
  ASSUME GrowthInv, AssignInt
  PROVE  GrowthInv'
  <1>1. PICK x \in Ints \intersect scope, w \in Ints \intersect scope :
          /\ loopDepth > 0 => AssignInLoops
          /\ \/ x # w /\ Emit(Op("set", x, w, 0))
                /\ Bound(x, replaced(bound[x], bound[w])) /\ UNCHANGED tagged
             \/ /\ Emit(Op("square", x, w, 0))
                /\ LET b == boundMul(bound[w], bound[w])
                   IN Bound(x, replaced(bound[x], b)) /\ tagged' = (tagged \/ widthDivergent(b))
          /\ UNCHANGED <<open, frozen>>
    BY DEF AssignInt
  <1>2. x \notin Slices /\ none \notin scope /\ w # none /\ Window \in Nat
    BY <1>1, Values DEF GrowthInv, Bounds
  <1>3. open' = open /\ frozen' = frozen
    BY <1>1
  <1>4. \A v \in scope : bound[v] \in Nat
    BY DEF GrowthInv, Bounds
  <1>5. ~AssignInLoops => ~InLoop(Site)
    BY <1>1, AtSite DEF GrowthInv
  <1>6. ASSUME Emit(Op("set", x, w, 0)), Bound(x, replaced(bound[x], bound[w])), tagged' = tagged
        PROVE  GrowthInv'
    <2>1. bound[w] \in Nat /\ (bound[w] # 0 => bound[w] + 0 <= bound[w])
      BY <1>4
    <2> QED
      BY <1>2, <1>3, <1>5, <1>6, <2>1, SetStep, Joins
  <1>7. ASSUME NEW b, b = boundMul(bound[w], bound[w]), Emit(Op("square", x, w, 0)),
               Bound(x, replaced(bound[x], b)), tagged' = (tagged \/ widthDivergent(b))
        PROVE  GrowthInv'
    <2>1. b \in Nat /\ b = bound[w] * bound[w]
      BY <1>4, <1>7 DEF boundMul
    <2>2. ~tagged' => b \in 1..(Window - 1)
      <3>1. ~tagged' => ~widthDivergent(b)
        BY <1>7, Zenon
      <3> QED
        BY <1>2, <2>1, <3>1 DEF widthDivergent
    <2>3. tagged => tagged'
      BY <1>7
    <2> QED
      BY <1>2, <1>3, <1>5, <1>7, <2>1, <2>2, <2>3, SetStep, Joins
  <1> QED
    BY <1>1, <1>6, <1>7

\* Growth by n, charged for every execution.
LEMMA GrowStep ==
  ASSUME GrowthInv, NEW op \in {"grow", "append"}, NEW x \in scope, NEW n \in Nat \ {0},
         Emit(Op(op, x, none, n)), NEW e, Bound(x, e),
         e = boundAdd(bound[x], boundMul(n, execMul)),
         open' = open, frozen' = frozen, tagged => tagged', x \in Slices => x \notin frozen,
         x \in Ints /\ ~tagged' => e \in 1..(Window - 1)
  PROVE  GrowthInv'
  <1>1. Shape /\ Opened /\ Bounds
    BY DEF GrowthInv
  <1>2. op \in Ops /\ op \in Writes \ {"swap"} /\ op \notin {"add", "square", "swap", "set", "untracked"}
    BY DEF Ops, Writes
  <1>3. PICK s : s = Op(op, x, none, n)
    OBVIOUS
  <1>4. /\ s \in Stmt /\ s.op = op /\ s.to = x /\ s.from = none /\ s.n = n
        /\ s.end = 0 /\ s.mul = execMul
    BY <1>1, <1>2, <1>3, Statement
  <1>5. PICK M \in Nat \ {0} : execMul = M /\ (~InLoop(Site) => M = 1)
    BY <1>1, AtSite
  <1>6. PICK p \in Nat : p = bound[x]
    BY <1>1 DEF Bounds
  <1>7. PICK g \in Nat : g = n * M /\ g # 0 /\ (M = 1 => g = n)
    <2>1. n * M \in Nat /\ n * M # 0 /\ (M = 1 => n * M = n)
      OBVIOUS
    <2> QED
      BY <2>1
  <1>8. e = IF p = 0 THEN 0 ELSE p + g
    BY <1>5, <1>6, <1>7 DEF boundAdd, boundMul
  <1>9. e \in Nat /\ Rises(p, e)
    BY <1>8 DEF Rises
  <1>10. InScope(s)
    BY <1>2, <1>4 DEF InScope
  <1>11. ~Replaces(s, x) /\ Grows(s, x) /\ Contribution(s, x) = g
    BY <1>2, <1>4, <1>5, <1>7 DEF Replaces, Grows, Contribution
  <1>12. Charge(s, x, bound[x], e)
    BY <1>6, <1>8, <1>11 DEF Charge
  <1>13. ~InLoop(Site) => e = 0 \/ Computes(s, x, bound, e)
    <2>1. ~InLoop(Site) /\ e # 0 => bound[x] # 0 /\ bound[x] + s.n <= e
      BY <1>4, <1>5, <1>6, <1>7, <1>8
    <2> QED
      BY <1>2, <1>4, <1>6, <1>9, <1>11, <2>1 DEF Computes
  <1>14. x \in Slices => e # 0 /\ x \notin frozen
    BY <1>1, <1>6, <1>7, <1>8 DEF Bounds
  <1> QED
    BY <1>2, <1>3, <1>4, <1>6, <1>9, <1>10, <1>12, <1>13, <1>14, WriteStep

LEMMA CompoundAssignStringStep ==
  ASSUME GrowthInv, CompoundAssignString
  PROVE  GrowthInv'
  <1>1. PICK x \in Strings \intersect scope :
          /\ Emit(Op("grow", x, none, LitLen))
          /\ Bound(x, boundAdd(bound[x], boundMul(LitLen, execMul)))
          /\ Simple
    BY DEF CompoundAssignString
  <1>2. x \notin Slices /\ x \notin Ints /\ LitLen \in Nat \ {0}
    BY Values
  <1>3. open' = open /\ frozen' = frozen /\ tagged' = tagged
    BY <1>1 DEF Simple
  <1> QED
    BY <1>1, <1>2, <1>3, GrowStep

LEMMA AppendStep ==
  ASSUME GrowthInv, AppendStmt
  PROVE  GrowthInv'
  <1>1. PICK x \in appendableSlices :
          /\ Emit(Op("append", x, none, 1))
          /\ Bound(x, boundAdd(bound[x], execMul))
          /\ Simple
    BY DEF AppendStmt
  <1>2. x \in scope /\ x \in Slices /\ x \notin frozen /\ x \notin Ints
    BY <1>1, Values DEF appendableSlices
  <1>3. open' = open /\ frozen' = frozen /\ tagged' = tagged
    BY <1>1 DEF Simple
  <1>4. execMul = boundMul(1, execMul)
    <2>1. execMul \in Nat
      BY AtSite DEF GrowthInv
    <2> QED
      BY <2>1 DEF boundMul
  <1> QED
    BY <1>1, <1>2, <1>3, <1>4, GrowStep

LEMMA Untagged ==
  ASSUME NEW e \in Nat, tagged' = (tagged \/ widthDivergent(e))
  PROVE  (tagged => tagged') /\ (~tagged' => e \in 1..(Window - 1))
  <1>1. (tagged => tagged') /\ (~tagged' => ~widthDivergent(e))
    BY Zenon
  <1> QED
    BY <1>1, Values DEF widthDivergent

LEMMA IncDecStep ==
  ASSUME GrowthInv, IncDec
  PROVE  GrowthInv'
  <1>1. PICK x \in Ints \intersect scope :
          /\ Emit(Op("grow", x, none, 1))
          /\ Bound(x, plusFixed(bound[x], 1))
          /\ tagged' = (tagged \/ widthDivergent(bound'[x]))
          /\ UNCHANGED <<open, frozen>>
    BY DEF IncDec
  <1>2. PICK e : e = plusFixed(bound[x], 1)
    OBVIOUS
  <1>3. x \notin Slices
    BY Values
  <1>4. e = boundAdd(bound[x], boundMul(1, execMul))
    BY <1>2 DEF plusFixed
  <1>5. e \in Nat
    <2>1. execMul \in Nat /\ bound[x] \in Nat
      BY AtSite DEF GrowthInv, Bounds
    <2> QED
      BY <1>4, <2>1 DEF boundAdd, boundMul
  <1>6. bound'[x] = e
    BY <1>1, <1>2 DEF GrowthInv, Bounds, Bound
  <1>7. (tagged => tagged') /\ (~tagged' => e \in 1..(Window - 1))
    BY <1>1, <1>5, <1>6, Untagged
  <1>8. open' = open /\ frozen' = frozen
    BY <1>1
  <1> QED
    BY <1>1, <1>2, <1>3, <1>4, <1>7, <1>8, GrowStep

LEMMA CompoundAssignIntStep ==
  ASSUME GrowthInv, CompoundAssignInt
  PROVE  GrowthInv'
  <1>1. PICK x \in Ints \intersect scope, w \in Ints \intersect scope :
          /\ Emit(Op("add", x, w, 0))
          /\ Bound(x, plus(bound[x], bound[w]))
          /\ tagged' = (tagged \/ widthDivergent(bound'[x]))
          /\ UNCHANGED <<open, frozen>>
    BY DEF CompoundAssignInt
  <1>2. Shape /\ Opened /\ Bounds
    BY DEF GrowthInv
  <1>3. PICK e : e = plus(bound[x], bound[w])
    OBVIOUS
  <1>4. PICK s : s = Op("add", x, w, 0)
    OBVIOUS
  <1>5. /\ s \in Stmt /\ s.op = "add" /\ s.to = x /\ s.from = w /\ s.mul = execMul
        /\ s.op \in Writes \ {"swap"}
    <2>1. "add" \in Ops /\ "add" \in Writes \ {"swap"}
      BY DEF Ops, Writes
    <2> QED
      BY <1>2, <1>4, <2>1, Statement
  <1>6. x \notin Slices
    BY Values
  <1>7. PICK p \in Nat, q \in Nat : p = bound[x] /\ q = bound[w]
    BY <1>2 DEF Bounds
  <1>8. /\ e \in Nat /\ (InLoop(Site) => e = 0)
        /\ e = 0 \/ (p # 0 /\ q # 0 /\ e = p + q)
    <2>1. InLoop(Site) <=> loopDepth > 0
      BY <1>2, AtSite
    <2> QED
      BY <1>3, <1>7, <2>1 DEF plus, boundAdd
  <1>9. bound'[x] = e
    BY <1>1, <1>2, <1>3 DEF Bounds, Bound
  <1>10. (tagged => tagged') /\ (~tagged' => e \in 1..(Window - 1))
    BY <1>1, <1>8, <1>9, Untagged
  <1>11. open' = open /\ frozen' = frozen
    BY <1>1
  <1>12. Rises(bound[x], e)
    BY <1>7, <1>8 DEF Rises
  <1>13. InLoop(Site) => Charge(s, x, bound[x], e)
    BY <1>8 DEF Charge
  <1>14. e = 0 \/ Computes(s, x, bound, e)
    <2>1. Replaces(s, x) /\ ~Grows(s, x)
      BY <1>5 DEF Replaces, Grows
    <2>2. e # 0 => bound[x] # 0 /\ bound[w] # 0 /\ bound[x] + bound[w] <= e
      BY <1>7, <1>8
    <2> QED
      BY <1>5, <2>1, <2>2 DEF Computes
  <1>15. InScope(s)
    BY <1>5 DEF InScope
  <1> QED
    BY <1>1, <1>3, <1>4, <1>5, <1>6, <1>8, <1>10, <1>11, <1>12, <1>13, <1>14, <1>15, WriteStep

LEMMA WriteUntrackedStep ==
  ASSUME GrowthInv, WriteUntracked
  PROVE  GrowthInv'
  <1>1. PICK x \in Strings \intersect scope :
          Emit(Op("untracked", x, none, 0)) /\ Bound(x, 0) /\ Simple
    BY DEF WriteUntracked
  <1>2. Shape /\ Opened /\ Bounds
    BY DEF GrowthInv
  <1>3. PICK s : s = Op("untracked", x, none, 0)
    OBVIOUS
  <1>4. /\ s \in Stmt /\ s.op = "untracked" /\ s.to = x /\ s.from = none /\ s.mul = execMul
        /\ s.op \in Writes \ {"swap"}
    <2>1. "untracked" \in Ops /\ "untracked" \in Writes \ {"swap"}
      BY DEF Ops, Writes
    <2> QED
      BY <1>2, <1>3, <2>1, Statement
  <1>5. x \notin Slices /\ x \notin Ints
    BY Values
  <1>6. open' = open /\ frozen' = frozen /\ tagged' = tagged
    BY <1>1 DEF Simple
  <1>7. InScope(s)
    BY <1>4 DEF InScope
  <1>8. Rises(bound[x], 0) /\ Charge(s, x, bound[x], 0)
    BY DEF Rises, Charge
  <1>9. 0 \in Nat
    OBVIOUS
  <1> QED
    BY <1>1, <1>3, <1>4, <1>5, <1>6, <1>7, <1>8, <1>9, WriteStep

LEMMA SwapStep ==
  ASSUME GrowthInv, SwapStrings
  PROVE  GrowthInv'
  <1>1. PICK x \in Strings \intersect scope, y \in Strings \intersect scope :
          /\ x # y
          /\ Emit(Op("swap", x, y, 0))
          /\ bound' = [bound EXCEPT
               ![x] = IF loopDepth > 0 THEN 0
                      ELSE IF condDepth > 0 THEN boundMax(@, bound[y]) ELSE bound[y],
               ![y] = IF loopDepth > 0 THEN 0
                      ELSE IF condDepth > 0 THEN boundMax(@, bound[x]) ELSE bound[x]]
          /\ Simple
    BY DEF SwapStrings
  <1>2. Shape /\ Opened /\ Bounds
    BY DEF GrowthInv
  <1>3. PICK p \in Nat, q \in Nat : p = bound[x] /\ q = bound[y]
    BY <1>2 DEF Bounds
  <1>4. PICK e, f : e = Join(p, q) /\ f = Join(q, p)
    OBVIOUS
  <1>5. /\ e \in Nat /\ f \in Nat
        /\ InLoop(Site) \/ InCond(Site) => Rises(p, e) /\ Rises(q, f)
        /\ InLoop(Site) => e = 0 /\ f = 0
        /\ Rises(q, e) /\ Rises(p, f)
    BY <1>2, <1>4, Joined
  <1>6. /\ bound' \in [scope -> Nat] /\ bound'[x] = e /\ bound'[y] = f
        /\ \A v \in scope : v # x /\ v # y => bound'[v] = bound[v]
    BY <1>1, <1>2, <1>3, <1>4, <1>5 DEF Bounds, Join
  <1>7. PICK s : s = Op("swap", x, y, 0)
    OBVIOUS
  <1>8. /\ s \in Stmt /\ s.op = "swap" /\ s.to = x /\ s.from = y /\ s.mul = execMul
        /\ s.op \notin Openers /\ s.op \notin Loops
    <2>1. "swap" \in Ops /\ "swap" \notin Openers /\ "swap" \notin Loops
      BY DEF Ops, Writes, Openers, Loops
    <2> QED
      BY <1>2, <1>7, <2>1, Statement
  <1>9. x \notin Slices /\ y \notin Slices /\ x \notin Ints /\ y \notin Ints
    BY Values
  <1>10. open' = open /\ frozen' = frozen /\ tagged' = tagged
    BY <1>1 DEF Simple
  <1>11. x \notin frozen /\ y \notin frozen
    BY <1>2, <1>9 DEF Bounds
  <1>12. ASSUME NEW v \in scope
         PROVE  /\ InLoop(Site) \/ InCond(Site) => Rises(bound[v], bound'[v])
                /\ InLoop(Site) => Charge(s, v, bound[v], bound'[v])
                /\ Computes(s, v, bound, bound'[v])
    <2>1. Replaces(s, v) <=> v = x \/ v = y
      BY <1>8 DEF Replaces
    <2>2. ~Grows(s, v) /\ ~Indexes(s, v)
      BY <1>8 DEF Grows, Indexes
    <2>3. bound[v] \in Nat
      BY <1>2 DEF Bounds
    <2>4. CASE v # x /\ v # y
      <3>1. Rises(bound[v], bound'[v])
        BY <1>6, <2>3, <2>4 DEF Rises
      <3>2. Charge(s, v, bound[v], bound'[v])
        BY <1>6, <2>1, <2>2, <2>3, <2>4 DEF Charge, Contribution
      <3> QED
        BY <1>8, <2>2, <2>4, <3>1, <3>2 DEF Computes
    <2>5. CASE v = x \/ v = y
      <3>1. InLoop(Site) \/ InCond(Site) => Rises(bound[v], bound'[v])
        BY <1>3, <1>5, <1>6, <2>5
      <3>2. InLoop(Site) => Charge(s, v, bound[v], bound'[v])
        BY <1>5, <1>6, <2>5 DEF Charge
      <3>3. (v = x => Rises(bound[y], bound'[v])) /\ (v = y => Rises(bound[x], bound'[v]))
        BY <1>3, <1>5, <1>6
      <3> QED
        BY <1>8, <2>1, <2>2, <2>5, <3>1, <3>2, <3>3 DEF Computes
    <2> QED
      BY <2>4, <2>5
  <1>13. InScope(s)
    BY <1>8 DEF InScope
  <1>14. \A v \in Ints \intersect scope : bound'[v] = bound[v]
    BY <1>6, <1>9
  <1>15. \A v \in scope : v \in frozen => bound'[v] = bound[v]
    BY <1>6, <1>11
  <1>16. Noting(s)
    BY <1>6, <1>8, <1>10, <1>12, <1>13, <1>14, <1>15 DEF Noting
  <1>17. \A v \in Slices \intersect scope : bound'[v] # 0
    BY <1>2, <1>6, <1>9 DEF Bounds
  <1> QED
    BY <1>1, <1>7, <1>8, <1>10, <1>16, <1>17, SimpleStep

\* A statement that leaves every bound alone.
LEMMA Idle ==
  ASSUME Bounds, NEW s, s.op \in {"fold", "break", "continue", "close", "if"}, InScope(s),
         bound' = bound, tagged' = tagged,
         s.op = "fold" => s.n # 0 /\ bound[s.to] = s.n /\ ~InLoop(Site),
         frozen \subseteq frozen' \/ \A o \in Positions : Loop(o) => prog'[o].end # 0
  PROVE  Noting(s)
  <1>1. \A v \in scope : bound[v] \in Nat
    BY DEF Bounds
  <1>2. s.op \notin Loops /\ s.op # "range"
    BY DEF Loops
  <1>3. \A v \in scope : Rises(bound[v], bound[v])
    BY <1>1 DEF Rises
  <1>4. \A v \in scope : ~Replaces(s, v) /\ ~Grows(s, v) /\ ~Indexes(s, v)
    BY <1>2 DEF Replaces, Grows, Indexes
  <1>5. \A v \in scope : Charge(s, v, bound[v], bound[v])
    BY <1>1, <1>4 DEF Charge, Contribution
  <1>6. \A v \in scope : Computes(s, v, bound, bound[v])
    BY <1>3, <1>4 DEF Computes
  <1>7. bound' \in [scope -> Nat]
    BY DEF Bounds
  <1> QED
    BY <1>2, <1>3, <1>5, <1>6, <1>7 DEF Noting

LEMMA FoldStep ==
  ASSUME GrowthInv, StringRangeFold
  PROVE  GrowthInv'
  <1>1. PICK x \in stringRangeableVars :
          /\ loopDepth = 0 /\ Emit(Op("fold", x, none, bound[x])) /\ bound' = bound /\ Simple
    BY DEF StringRangeFold
  <1>2. Shape /\ Opened /\ Bounds
    BY DEF GrowthInv
  <1>3. x \in scope /\ bound[x] \in Nat \ {0}
    BY <1>1, <1>2 DEF stringRangeableVars, Bounds
  <1>4. PICK s : s = Op("fold", x, none, bound[x])
    OBVIOUS
  <1>5. /\ s \in Stmt /\ s.op = "fold" /\ s.to = x /\ s.from = none /\ s.mul = execMul
        /\ s.n = bound[x] /\ s.op \notin Openers
    <2>1. "fold" \in Ops /\ "fold" \notin Openers /\ bound[x] \in Nat
      BY <1>3 DEF Ops, Openers, Loops
    <2> QED
      BY <1>2, <1>3, <1>4, <2>1, Statement
  <1>6. ~InLoop(Site)
    BY <1>1, <1>2, AtSite
  <1>7. open' = open /\ frozen' = frozen /\ tagged' = tagged
    BY <1>1 DEF Simple
  <1>8. InScope(s)
    BY <1>3, <1>5 DEF InScope
  <1>9. Noting(s)
    BY <1>1, <1>2, <1>3, <1>5, <1>6, <1>7, <1>8, Idle
  <1>10. \A v \in Slices \intersect scope : bound'[v] # 0
    BY <1>1, <1>2 DEF Bounds
  <1> QED
    BY <1>1, <1>4, <1>5, <1>7, <1>9, <1>10, SimpleStep

LEMMA TerminalStep ==
  ASSUME GrowthInv, Terminal
  PROVE  GrowthInv'
  <1>1. PICK kw \in {"break", "continue"}, i \in 1..Len(open) :
          /\ open[i].loop /\ \A k \in 1..(i - 1) : ~open[k].loop
          /\ Emit(Op(kw, none, none, open[i].at))
          /\ bound' = bound /\ Simple
    BY DEF Terminal
  <1>2. Shape /\ Opened /\ Bounds
    BY DEF GrowthInv
  <1>3. /\ Len(open) \in Nat
        /\ \A k \in 1..Len(open) : /\ open[k].at \in Positions
                                   /\ open[k].loop <=> Loop(open[k].at)
        /\ \A m \in Positions : Around(m, Site) <=> \E k \in 1..Len(open) : open[k].at = m
        /\ \A m \in Positions : m \in Nat
    <2>1. Len(open) \in Nat
      BY <1>2 DEF Opened
    <2>2. \A k \in 1..Len(open) : /\ open[k].at \in Positions
                                  /\ open[k].loop <=> Loop(open[k].at)
      BY <1>2 DEF Opened, Heads
    <2>3. \A m \in Positions : Around(m, Site) <=> \E k \in 1..Len(open) : open[k].at = m
      BY <1>2, AtSite
    <2> QED
      BY <2>1, <2>2, <2>3 DEF Positions
  <1>4. Inner(open[i].at, Site)
    <2>1. LoopAround(open[i].at, Site)
      BY <1>1, <1>3 DEF LoopAround
    <2>2. ASSUME NEW m \in Positions, LoopAround(m, Site)
          PROVE  m <= open[i].at
      <3>1. PICK k \in 1..Len(open) : open[k].at = m
        BY <1>3, <2>2 DEF LoopAround
      <3>2. open[k].loop
        BY <1>3, <2>2, <3>1 DEF LoopAround
      <3>3. i <= k
        BY <1>1, <1>3, <3>2
      <3>4. i < k => open[k].at < open[i].at
        BY <1>2 DEF Opened, Inward
      <3> QED
        BY <1>3, <3>1, <3>3, <3>4
    <2> QED
      BY <2>1, <2>2 DEF Inner
  <1>5. PICK s : s = Op(kw, none, none, open[i].at)
    OBVIOUS
  <1>6. /\ s \in Stmt /\ s.op = kw /\ s.from = none /\ s.mul = execMul
        /\ s.n = open[i].at /\ s.op \notin Openers
    <2>1. kw \in Ops /\ kw \notin Openers
      BY DEF Ops, Openers, Loops
    <2>2. PICK n \in Nat : n = open[i].at
      BY <1>3
    <2>3. s = Op(kw, none, none, n)
      BY <1>5, <2>2
    <2>4. /\ s \in Stmt /\ s.op = kw /\ s.to = none /\ s.from = none /\ s.n = n
          /\ s.end = 0 /\ s.mul = execMul
      <3>1. Spelled(s, kw, none, none, n)
        BY <1>2, <2>1, <2>3, Spelling
      <3> QED
        BY <3>1 DEF Spelled
    <2> QED
      BY <2>1, <2>2, <2>4
  <1>7. open' = open /\ frozen' = frozen /\ tagged' = tagged
    BY <1>1 DEF Simple
  <1>8. InScope(s) /\ s.op # "fold" /\ s.op # "close"
    BY <1>6 DEF InScope, Writes
  <1>9. Noting(s)
    BY <1>1, <1>2, <1>6, <1>7, <1>8, Idle
  <1>10. \A v \in Slices \intersect scope : bound'[v] # 0
    BY <1>1, <1>2 DEF Bounds
  <1> QED
    BY <1>1, <1>4, <1>5, <1>6, <1>7, <1>8, <1>9, <1>10, SimpleStep

LEMMA NoLoop ==
  ASSUME NEW o \in Seq(Body)
  PROVE  Cardinality({i \in 1..Len(o) : o[i].loop}) = 0 <=> \A i \in 1..Len(o) : ~o[i].loop
  <1>1. Len(o) \in Nat
    OBVIOUS
  <1> DEFINE L == {i \in 1..Len(o) : o[i].loop}
  <1>2. Cardinality(L) \in Nat /\ (Cardinality(L) > 0 <=> L # {})
    <2>1. L \subseteq 1..Len(o)
      OBVIOUS
    <2> HIDE DEF L
    <2> QED
      BY <1>1, <2>1, CountsNone
  <1> QED
    BY <1>2

\* A statement that opens a body is written.
LEMMA OpenStep ==
  ASSUME GrowthInv, NEW s \in Stmt, Emit(s), s.mul = execMul,
         s.op \in Openers, s.end = 0, s.op \in Loops => s.n # 0, Noting(s),
         NEW r \in Body, open' = <<r>> \o open, r.loop <=> s.op \in Loops, r.at = Site,
         r.mul = IF r.loop THEN s.mul * s.n ELSE s.mul,
         frozen' \subseteq Slices \intersect scope, r.loop \/ frozen' = frozen,
         \A v \in Slices \intersect scope : bound'[v] # 0
  PROVE  GrowthInv'
  <1>1. Shape /\ Opened /\ Bounds /\ phase = "emit" /\ phase' = "emit" /\ prog' = Append(prog, s)
    BY DEF GrowthInv, Emit
  <1>2. PICK h : History(h) /\ Unstarted(h)
    BY <1>1 DEF GrowthInv
  <1>3. s.op # "close" /\ s.op \notin {"break", "continue"}
    BY DEF Openers, Loops
  <1>4. Shape'
    BY <1>1, <1>3, AddedShape
  <1>5. Opened'
    BY <1>1, AddedOpener
  <1>6. Extends /\ prog'[Site] = s
    BY <1>1, Added
  <1>7. PICK k : k = [j \in 0..Site |-> IF j = Site THEN bound' ELSE h[j]]
    OBVIOUS
  <1>8. History(k)' /\ Named' /\ scope' = scope /\ k[0] = h[0]
    BY <1>1, <1>2, <1>6, <1>7, Noted
  <1>9. loopDepth' = 0 => frozen' = {}
    <2>1. /\ open' \in Seq(Body) /\ Len(open') = Len(open) + 1 /\ open'[1] = r
          /\ Len(open) \in Nat /\ \A k_1 \in 1..Len(open) : open'[k_1 + 1] = open[k_1]
      BY <1>1, Push DEF Opened
    <2>2. loopDepth' = 0 <=> \A i \in 1..Len(open') : ~open'[i].loop
      BY <2>1, NoLoop DEF loopDepth
    <2>3. loopDepth = 0 <=> \A i \in 1..Len(open) : ~open[i].loop
      BY <1>1, NoLoop DEF loopDepth, Opened
    <2>4. ASSUME \A i \in 1..Len(open') : ~open'[i].loop
          PROVE  ~r.loop /\ \A i \in 1..Len(open) : ~open[i].loop
      <3>1. 1 \in 1..Len(open') /\ \A i \in 1..Len(open) : i + 1 \in 1..Len(open')
        BY <2>1
      <3> QED
        BY <2>1, <2>4, <3>1
    <2> QED
      BY <1>1, <2>2, <2>3, <2>4 DEF Bounds
  <1>10. Bounds'
    <2>1. bound' \in [scope -> Nat]
      BY DEF Noting
    <2> QED
      BY <1>1, <1>8, <1>9, <2>1 DEF Bounds
  <1>11. Unstarted(k)'
    BY <1>2, <1>8 DEF Unstarted, Emit, running
  <1> QED
    BY <1>1, <1>4, <1>5, <1>8, <1>10, <1>11 DEF GrowthInv

LEMMA IfStep ==
  ASSUME GrowthInv, IfStmt
  PROVE  GrowthInv'
  <1>1. /\ Emit(Op("if", none, none, 0))
        /\ open' = <<[loop |-> FALSE, over |-> none, mul |-> execMul * 1, at |-> Len(prog) + 1]>> \o open
        /\ bound' = bound /\ frozen' = frozen /\ tagged' = tagged
    BY DEF IfStmt, Open
  <1>2. Shape /\ Opened /\ Bounds
    BY DEF GrowthInv
  <1>3. PICK s : s = Op("if", none, none, 0)
    OBVIOUS
  <1>4. /\ s \in Stmt /\ s.op = "if" /\ s.to = none /\ s.from = none /\ s.n = 0
        /\ s.end = 0 /\ s.mul = execMul
    <2>1. "if" \in Ops
      BY DEF Ops, Openers
    <2> QED
      BY <1>2, <1>3, <2>1, Statement
  <1>5. s.op \in Openers /\ s.op \notin Loops
    BY <1>4 DEF Openers, Loops
  <1>6. PICK r : r = [loop |-> FALSE, over |-> none, mul |-> execMul * 1, at |-> Len(prog) + 1]
    OBVIOUS
  <1>7. r \in Body /\ ~r.loop /\ r.at = Site /\ r.mul = s.mul /\ r.loop \in BOOLEAN
    <2>1. execMul \in Nat \ {0} /\ execMul * 1 = execMul /\ Len(prog) \in Nat
      BY <1>2, AtSite
    <2> QED
      BY <1>4, <1>6, <2>1 DEF Body, Site
  <1>8. InScope(s)
    BY <1>4 DEF InScope, Writes
  <1>9. Noting(s)
    BY <1>1, <1>2, <1>4, <1>8, Idle
  <1>10. \A v \in Slices \intersect scope : bound'[v] # 0
    BY <1>1, <1>2 DEF Bounds
  <1>11. frozen' \subseteq Slices \intersect scope
    BY <1>1, <1>2 DEF Bounds
  <1> QED
    BY <1>1, <1>3, <1>4, <1>5, <1>6, <1>7, <1>9, <1>10, <1>11, OpenStep

\* A loop of n trips is written, and its index is folded into v.
LEMMA LoopStep ==
  ASSUME GrowthInv, NEW op \in Loops, NEW x, NEW v \in accumulators, NEW n \in Nat \ {0}, NEW over,
         Open(Op(op, x, v, n), TRUE, over, n), consumeIndex(v, n), over \in Slices \union {none},
         op = "for" => x = none, op = "range" => x \in Slices \intersect scope /\ bound[x] = n,
         frozen \subseteq frozen', frozen' \subseteq Slices \intersect scope,
         op = "range" /\ loopDepth > 0 => x \in frozen'
  PROVE  GrowthInv'
  <1>1. Shape /\ Opened /\ Bounds /\ Len(prog) \in Nat
    BY AtSite DEF GrowthInv
  <1>2. PICK M \in Nat \ {0} : M = execMul
    BY <1>1, AtSite
  <1>3. PICK s : s = Op(op, x, v, n)
    OBVIOUS
  <1>4. PICK r : r = [loop |-> TRUE, over |-> over, mul |-> execMul * n, at |-> Len(prog) + 1]
    OBVIOUS
  <1>5. Emit(s) /\ open' = <<r>> \o open
    BY <1>3, <1>4 DEF Open
  <1>6. none \notin scope /\ (v = none \/ v \in Ints \intersect scope)
    BY <1>1, Values DEF Bounds, accumulators
  <1>7. /\ s \in Stmt /\ s.op = op /\ s.to = x /\ s.from = v /\ s.n = n
        /\ s.end = 0 /\ s.mul = execMul
    <2>1. op \in Ops
      BY DEF Ops, Openers
    <2>2. x \in scope \/ x = none
      BY DEF Loops
    <2>3. v \in scope \/ v = none
      BY <1>6
    <2>4. /\ s.op = op /\ s.to = x /\ s.from = v /\ s.n = n
          /\ s.end = 0 /\ s.mul = execMul
      BY <1>3 DEF Op
    <2>5. x \in Var \union {none} /\ v \in Var \union {none}
      BY <1>1, <2>2, <2>3 DEF Bounds
    <2>6. s \in Stmt
      BY <1>2, <1>3, <2>1, <2>5 DEF Op, Stmt
    <2> QED
      BY <2>4, <2>6
  <1>8. r \in Body /\ r.loop = TRUE /\ r.at = Site /\ r.mul = s.mul * s.n
    <2>1. execMul * n \in Nat \ {0}
      <3>1. M * n \in Nat /\ M * n # 0
        OBVIOUS
      <3> QED
        BY <1>2, <3>1
    <2> QED
      BY <1>1, <1>4, <1>7, <2>1 DEF Body, Site
  <1>9. PICK g \in Nat : g = n * (execMul * n)
    <2>1. n * (M * n) \in Nat
      OBVIOUS
    <2> QED
      BY <1>2, <2>1
  <1>10. /\ bound' \in [scope -> Nat]
         /\ \A y \in scope : y # v => bound'[y] = bound[y]
         /\ v # none => bound'[v] = 0 \/ (bound[v] # 0 /\ bound'[v] = bound[v] + g)
         /\ tagged => tagged'
         /\ v # none /\ ~tagged' => bound'[v] \in 1..(Window - 1)
    <2>1. CASE v = none
      BY <1>1, <2>1 DEF consumeIndex, Bounds
    <2>2. CASE v # none
      <3>1. v \in scope /\ bound[v] \in Nat /\ bound \in [scope -> Nat]
        BY <1>1, <1>6, <2>2 DEF Bounds
      <3>2. PICK e \in Nat : /\ e = boundAdd(bound[v], boundMul(n, execMul * n))
                             /\ e = 0 \/ (bound[v] # 0 /\ e = bound[v] + g)
        BY <1>9, <3>1 DEF boundAdd, boundMul
      <3>3. bound' = [bound EXCEPT ![v] = e] /\ tagged' = (tagged \/ widthDivergent(bound'[v]))
        BY <2>2, <3>2 DEF consumeIndex, Bound
      <3>4. /\ bound' \in [scope -> Nat] /\ bound'[v] = e
            /\ \A y \in scope : y # v => bound'[y] = bound[y]
        BY <3>1, <3>3
      <3>5. (tagged => tagged') /\ (~tagged' => e \in 1..(Window - 1))
        BY <3>3, <3>4, Untagged
      <3> QED
        BY <3>2, <3>4, <3>5
    <2> QED
      BY <2>1, <2>2
  <1>11. s.op \in Loops /\ s.op \in Openers /\ s.op \notin {"fold"} /\ s.op \notin Writes
    BY <1>7 DEF Openers, Loops, Writes
  <1>12. ASSUME NEW y \in scope
         PROVE  Rises(bound[y], bound'[y]) /\ Charge(s, y, bound[y], bound'[y])
    <2>1. ~Replaces(s, y) /\ ~Grows(s, y) /\ (Indexes(s, y) <=> y = v)
      BY <1>7, <1>11 DEF Replaces, Grows, Indexes, Writes
    <2>2. bound[y] \in Nat
      BY <1>1 DEF Bounds
    <2>3. CASE y = v
      <3>1. bound'[y] = 0 \/ (bound[y] # 0 /\ bound'[y] = bound[y] + g)
        BY <1>6, <1>10, <2>3
      <3>2. Contribution(s, y) = g
        BY <1>7, <1>9, <2>1, <2>3 DEF Contribution
      <3> QED
        BY <2>1, <2>2, <3>1, <3>2 DEF Rises, Charge
    <2>4. CASE y # v
      <3>1. bound'[y] = bound[y]
        BY <1>10, <2>4
      <3>2. Contribution(s, y) = 0
        BY <2>1, <2>4 DEF Contribution
      <3> QED
        BY <2>1, <2>2, <3>1, <3>2 DEF Rises, Charge
    <2> QED
      BY <2>3, <2>4
  <1>13. InScope(s)
    <2>1. s.op = "range" => s.to \in scope
      BY <1>7
    <2>2. s.op \notin {"add", "square", "swap"}
      BY <1>11 DEF Writes
    <2> QED
      BY <1>6, <1>7, <1>11, <2>1, <2>2 DEF InScope
  <1>14. s.op = "range" => s.n # 0 /\ bound[s.to] = s.n
    BY <1>7
  <1>15. s.op = "range" /\ InLoop(Site) => s.to \in frozen'
    BY <1>1, <1>7, AtSite
  <1>16. \A y \in scope : y \in frozen \/ (s.op = "range" /\ s.to = y) => bound'[y] = bound[y]
    <2>1. \A y \in scope : y \in frozen \/ (s.op = "range" /\ s.to = y) => y \in Slices
      BY <1>1, <1>7 DEF Bounds
    <2>2. v \notin Slices \/ v = none
      BY <1>6, Values
    <2> QED
      BY <1>6, <1>10, <2>1, <2>2
  <1>17. ~tagged' /\ (\A y \in Ints \intersect scope : bound[y] \in 1..(Window - 1))
           => \A y \in Ints \intersect scope : bound'[y] \in 1..(Window - 1)
    BY <1>6, <1>10
  <1>18. Noting(s)
    BY <1>10, <1>11, <1>12, <1>13, <1>14, <1>15, <1>16, <1>17 DEF Noting
  <1>19. \A y \in Slices \intersect scope : bound'[y] # 0
    <2>1. \A y \in Slices \intersect scope : y # v
      BY <1>6, Values
    <2> QED
      BY <1>1, <1>10, <2>1 DEF Bounds
  <1> QED
    BY <1>5, <1>7, <1>8, <1>11, <1>18, <1>19, OpenStep

LEMMA ForStep ==
  ASSUME GrowthInv, ForStmt
  PROVE  GrowthInv'
  <1>1. PICK n \in 1..LoopCap, v \in accumulators :
          /\ Open(Op("for", none, v, n), TRUE, none, n)
          /\ consumeIndex(v, n)
          /\ frozen' = frozen
    BY DEF ForStmt
  <1>2. n \in Nat \ {0} /\ "for" \in Loops
    BY GrowthAssumption DEF Loops
  <1>3. frozen' \subseteq Slices \intersect scope
    BY <1>1 DEF GrowthInv, Bounds
  <1> QED
    BY <1>1, <1>2, <1>3, LoopStep

LEMMA RangeStep ==
  ASSUME GrowthInv, RangeStmt
  PROVE  GrowthInv'
  <1>1. PICK x \in rangeableVars, v \in accumulators :
          /\ Open(Op("range", x, v, trips(x)), TRUE, x, trips(x))
          /\ consumeIndex(v, trips(x))
          /\ frozen' = IF loopDepth > 0 THEN frozen \union {x} ELSE frozen
    BY DEF RangeStmt
  <1>2. PICK n : n = trips(x)
    OBVIOUS
  <1>3. x \in Slices \intersect scope /\ n \in Nat \ {0} /\ bound[x] = n /\ "range" \in Loops
    BY <1>1, <1>2 DEF rangeableVars, trips, GrowthInv, Bounds, Loops
  <1>4. frozen \subseteq frozen' /\ frozen' \subseteq Slices \intersect scope
        /\ (loopDepth > 0 => x \in frozen')
    BY <1>1, <1>3 DEF GrowthInv, Bounds
  <1> QED
    BY <1>1, <1>2, <1>3, <1>4, LoopStep

LEMMA CloseStep ==
  ASSUME GrowthInv, Close
  PROVE  GrowthInv'
  <1>1. /\ Shape /\ Opened /\ Bounds /\ phase = "emit" /\ phase' = "emit" /\ open # <<>>
        /\ open' = Tail(open) /\ frozen' = (IF loopDepth' = 0 THEN {} ELSE frozen)
        /\ bound' = bound /\ tagged' = tagged /\ running' = running
    BY DEF GrowthInv, Close
  <1>2. PICK h : History(h) /\ Unstarted(h)
    BY <1>1 DEF GrowthInv
  <1>3. /\ open \in Seq(Body) /\ Len(open) \in Nat \ {0} /\ 1 \in 1..Len(open) /\ Head(open) = open[1]
        /\ open' \in Seq(Body)
    BY <1>1, Pop DEF Opened
  <1>4. PICK b \in Positions : b = Head(open).at
    BY <1>1, <1>3 DEF Opened, Heads
  <1>5. PICK m \in Nat \ {0} : m = Head(open).mul
    <2>1. Head(open) \in Body
      BY <1>3
    <2> QED
      BY <2>1 DEF Body
  <1>6. PICK c : c = [Op("close", none, none, b) EXCEPT !.mul = m]
    OBVIOUS
  <1>7. c = [op |-> "close", to |-> none, from |-> none, n |-> b, end |-> 0, mul |-> m]
    BY <1>6 DEF Op
  <1>8. c \in Stmt /\ c.op = "close" /\ c.from = none /\ c.n = b /\ c.mul = m
    <2>1. "close" \in Ops /\ b \in Nat
      BY DEF Ops, Positions
    <2> QED
      BY <1>7, <2>1 DEF Stmt
  <1>9. EndedBy(prog, b, c, prog')
    BY <1>4, <1>5, <1>6 DEF Close, EndedBy
  <1>10. /\ prog' \in Seq(Stmt) /\ Len(prog') = Site /\ prog'[Site] = c /\ prog'[b].end = Site
         /\ \A i \in Positions \ {b} : prog'[i] = prog[i]
         /\ \A i \in Positions : /\ prog'[i].op = prog[i].op /\ prog'[i].to = prog[i].to
                                 /\ prog'[i].from = prog[i].from /\ prog'[i].n = prog[i].n
                                 /\ prog'[i].mul = prog[i].mul
    <2>1. prog \in Seq(Stmt) /\ b \in 1..Len(prog)
      BY <1>1 DEF Shape, IsText, Positions
    <2>2. /\ prog' \in Seq(Stmt) /\ Len(prog') = Len(prog) + 1 /\ prog'[Len(prog) + 1] = c
          /\ prog'[b].end = Len(prog) + 1 /\ \A i \in (1..Len(prog)) \ {b} : prog'[i] = prog[i]
          /\ \A i \in 1..Len(prog) : /\ prog'[i].op = prog[i].op /\ prog'[i].to = prog[i].to
                                     /\ prog'[i].from = prog[i].from /\ prog'[i].n = prog[i].n
                                     /\ prog'[i].mul = prog[i].mul
      <3>1. PICK q \in Seq(Stmt) : q = prog
        BY <2>1
      <3>2. PICK r : r = prog'
        OBVIOUS
      <3>3. b \in 1..Len(q) /\ c \in Stmt /\ EndedBy(q, b, c, r)
        BY <1>8, <1>9, <2>1, <3>1, <3>2
      <3>4. /\ r \in Seq(Stmt) /\ Len(r) = Len(q) + 1 /\ r[Len(q) + 1] = c
            /\ r[b].end = Len(q) + 1 /\ \A i \in (1..Len(q)) \ {b} : r[i] = q[i]
            /\ \A i \in 1..Len(q) : /\ r[i].op = q[i].op /\ r[i].to = q[i].to
                                    /\ r[i].from = q[i].from /\ r[i].n = q[i].n
                                    /\ r[i].mul = q[i].mul
        BY <3>3, Ended
      <3> QED
        BY <3>1, <3>2, <3>4
    <2> QED
      BY <2>2 DEF Site, Positions
  <1>11. Extends /\ Shape' /\ Opened'
    BY <1>1, <1>4, <1>5, <1>8, <1>10, Closed
  <1>12. loopDepth' = 0 <=> \A i \in 1..Len(open') : ~open'[i].loop
    BY <1>3, NoLoop DEF loopDepth
  <1>13. loopDepth' = 0 => \A o \in Positions : Loop(o) => prog'[o].end # 0
    <2>1. SUFFICES ASSUME loopDepth' = 0, NEW o \in Positions, Loop(o), prog'[o].end = 0
                   PROVE  FALSE
      OBVIOUS
    <2>2. o \in Positions' /\ Opener(o)' /\ Loop(o)'
      <3>1. Positions' = 1..Site /\ Positions \subseteq 1..Site
        BY <1>1, <1>11, Sites DEF Positions, Site
      <3> QED
        BY <1>10, <2>1, <3>1 DEF Opener, Loop, Openers
    <2>3. PICK k \in 1..Len(open') : open'[k].at = o
      BY <1>11, <2>1, <2>2 DEF Opened, AllOpen
    <2>4. open'[k].loop
      BY <1>11, <2>2, <2>3 DEF Opened, Heads
    <2> QED
      BY <1>12, <2>1, <2>4
  <1>14. frozen \subseteq frozen' \/ \A o \in Positions : Loop(o) => prog'[o].end # 0
    BY <1>1, <1>13
  <1>15. InScope(c) /\ c.op # "fold"
    BY <1>8 DEF InScope, Writes
  <1>16. Noting(c)
    BY <1>1, <1>8, <1>14, <1>15, Idle
  <1>17. PICK k : k = [j \in 0..Site |-> IF j = Site THEN bound' ELSE h[j]]
    OBVIOUS
  <1>18. History(k)' /\ Named' /\ scope' = scope /\ k[0] = h[0]
    BY <1>1, <1>2, <1>10, <1>11, <1>16, <1>17, Noted
  <1>19. Bounds'
    <2>1. bound' \in [scope -> Nat] /\ frozen' \subseteq Slices \intersect scope
      BY <1>1 DEF Bounds
    <2> QED
      BY <1>1, <1>18, <2>1 DEF Bounds
  <1>20. Unstarted(k)'
    BY <1>1, <1>2, <1>18 DEF Unstarted, running
  <1> QED
    BY <1>1, <1>11, <1>18, <1>19, <1>20 DEF GrowthInv

-----------------------------------------------------------------------------
(* A finished text.                                                        *)

LEMMA NatInduct ==
  ASSUME NEW S, 0 \in S, \A n \in Nat : n \in S => n + 1 \in S
  PROVE  \A n \in Nat : n \in S
  <1> DEFINE T == {n \in Nat : n \notin S}
             R == OpToRel(<, Nat)
  <1>1. SUFFICES ASSUME T # {}
                 PROVE  FALSE
    OBVIOUS
  <1>2. IsWellFoundedOn(R, Nat)
    BY NatLessThanWellFounded
  <1>3. T \subseteq Nat
    OBVIOUS
  <1> HIDE DEF T, R
  <1>4. PICK x \in T : \A y \in T : ~(<<y, x>> \in R)
    BY <1>1, <1>2, <1>3, WFMin
  <1>5. \A y \in T : ~(y < x)
    BY <1>3, <1>4 DEF R, OpToRel
  <1>6. x \in Nat /\ x \notin S
    BY <1>4 DEF T
  <1>7. x - 1 \in Nat /\ x - 1 \notin T
    BY <1>5, <1>6
  <1>8. x - 1 \in S
    BY <1>7 DEF T
  <1> QED
    BY <1>6, <1>7, <1>8

\* Every body is closed, so what is around a place is bracketed.
AllClosed ==
  /\ Len(prog) \in Nat /\ \A i \in Positions : i \in 1..Len(prog) /\ prog[i] \in Stmt
  /\ \A b \in Positions :
       Opener(b) => /\ prog[b].end \in Positions /\ b < prog[b].end
                    /\ prog[prog[b].end].op = "close" /\ prog[prog[b].end].n = b
  /\ \A b \in Positions : \A i : Around(b, i) <=> Opener(b) /\ b < i /\ i <= prog[b].end

LEMMA ClosedText ==
  ASSUME Shape, Opened, open = <<>>
  PROVE  AllClosed /\ ~InLoop(Len(prog) + 1)
  <1>1. Len(prog) \in Nat /\ \A i \in Positions : i \in 1..Len(prog) /\ prog[i] \in Stmt
    BY DEF Shape, IsText, Positions
  <1>2. \A b \in Positions : Opener(b) => prog[b].end # 0
    <2>1. Len(open) = 0
      OBVIOUS
    <2> QED
      BY <2>1 DEF Opened, AllOpen
  <1>3. \A b \in Positions :
          Opener(b) => /\ prog[b].end \in Positions /\ b < prog[b].end
                       /\ prog[prog[b].end].op = "close" /\ prog[prog[b].end].n = b
    <2>1. \A b \in Positions : b \in Nat \ {0} /\ prog[b].end \in Nat
      BY <1>1 DEF Stmt
    <2> QED
      BY <1>1, <1>2, <2>1 DEF Shape, Ends, Positions
  <1>4. \A b \in Positions : \A i : Around(b, i) <=> Opener(b) /\ b < i /\ i <= prog[b].end
    BY <1>2 DEF Around
  <1>5. ~InLoop(Len(prog) + 1)
    <2>1. SUFFICES ASSUME NEW l \in Positions, LoopAround(l, Len(prog) + 1)
                   PROVE  FALSE
      BY DEF InLoop
    <2>2. Opener(l) /\ Len(prog) + 1 <= prog[l].end
      BY <1>4, <2>1 DEF LoopAround, Around
    <2>3. prog[l].end \in 1..Len(prog)
      BY <1>3, <2>2 DEF Positions
    <2> QED
      BY <1>1, <2>2, <2>3
  <1> QED
    BY <1>1, <1>3, <1>4, <1>5 DEF AllClosed

\* The same for loops: where a loop stands, and that loops nest.
LEMMA LoopPlaces ==
  ASSUME Shape, AllClosed
  PROVE  /\ \A l \in Positions : Loop(l) =>
              /\ l \in Nat \ {0} /\ prog[l].end \in Nat /\ prog[l].end \in Positions /\ l < prog[l].end
              /\ prog[l].end <= Len(prog) /\ prog[l].n \in Nat \ {0} /\ prog[l].mul \in Nat \ {0}
              /\ Opener(l)
         /\ \A l, i : LoopAround(l, i) <=>
              l \in Positions /\ Loop(l) /\ l < i /\ i <= prog[l].end
         /\ \A l, i : LoopAround(l, i) =>
              /\ l \in Positions /\ Loop(l) /\ l < i /\ i <= prog[l].end
              /\ l \in Nat \ {0} /\ prog[l].end \in Nat /\ l < prog[l].end /\ prog[l].end <= Len(prog)
         /\ \A l, b \in Positions : LoopAround(l, b) /\ Opener(b) => prog[b].end < prog[l].end
  <1>1. ASSUME NEW l \in Positions, Loop(l)
        PROVE  /\ l \in Nat \ {0} /\ prog[l].end \in Nat /\ prog[l].end \in Positions /\ l < prog[l].end
               /\ prog[l].end <= Len(prog) /\ prog[l].n \in Nat \ {0} /\ prog[l].mul \in Nat \ {0}
               /\ Opener(l)
    <2>1. Opener(l)
      BY <1>1 DEF Loop, Opener, Openers
    <2>2. prog[l].end \in Positions /\ l < prog[l].end
      BY <2>1 DEF AllClosed
    <2>3. prog[l].end \in 1..Len(prog) /\ l \in 1..Len(prog) /\ Len(prog) \in Nat
      BY <2>2 DEF AllClosed
    <2>4. prog[l].n \in Nat /\ prog[l].mul \in Nat \ {0}
      BY Fields DEF AllClosed
    <2>5. prog[l].n # 0
      BY <1>1 DEF Shape, Trips
    <2> QED
      BY <2>1, <2>2, <2>3, <2>4, <2>5
  <1>2. \A l, i : LoopAround(l, i) <=> l \in Positions /\ Loop(l) /\ l < i /\ i <= prog[l].end
    BY <1>1 DEF LoopAround, AllClosed
  <1>3. ASSUME NEW l \in Positions, NEW b \in Positions, LoopAround(l, b), Opener(b)
        PROVE  prog[b].end < prog[l].end
    <2>1. prog[l].end # 0
      BY <1>1, <1>3 DEF LoopAround
    <2> QED
      BY <1>3, <2>1 DEF Shape, Nested, LoopAround
  <1> QED
    BY <1>1, <1>2, <1>3

LEMMA Mul ==
  /\ \A a, b \in Nat : a * b \in Nat
  /\ \A a, b \in Nat : (a + 1) * b = a * b + b
  /\ \A a, b, c \in Nat : a <= b => a * c <= b * c
  /\ \A a, b \in Nat : a * b = b * a
  <1>1. \A a, b \in Nat : a * b \in Nat /\ (a + 1) * b = a * b + b /\ a * b = b * a
    OBVIOUS
  <1>2. ASSUME NEW a \in Nat, NEW b \in Nat, NEW c \in Nat, a <= b
        PROVE  a * c <= b * c
    <2>1. PICK k \in Nat : b = a + k
      <3>1. b - a \in Nat /\ b = a + (b - a)
        BY <1>2
      <3> QED
        BY <3>1
    <2>2. b * c = a * c + k * c
      BY <2>1
    <2>3. k * c \in Nat /\ a * c \in Nat
      BY <1>1
    <2> QED
      BY <2>2, <2>3
  <1> QED
    BY <1>1, <1>2

LEMMA OuterExists ==
  ASSUME Shape, NEW p, InLoop(p)
  PROVE  \E o \in Positions : Outer(o, p)
  <1> DEFINE T == {l \in Positions : LoopAround(l, p)}
             R == OpToRel(<, Nat)
  <1>1. T # {} /\ T \subseteq Nat
    BY DEF InLoop, Positions
  <1>2. IsWellFoundedOn(R, Nat)
    BY NatLessThanWellFounded
  <1> HIDE DEF R
  <1>3. PICK o \in T : \A y \in T : ~(<<y, o>> \in R)
    <2> HIDE DEF T
    <2> QED
      BY <1>1, <1>2, WFMin
  <1>4. \A y \in T : ~(y < o)
    <2> HIDE DEF T
    <2> QED
      BY <1>1, <1>3 DEF R, OpToRel
  <1> QED
    BY <1>1, <1>4 DEF Outer

-----------------------------------------------------------------------------
(* The run moves from p to q, which ends a pass of L if that is a loop.    *)

Moves(p, q, L) ==
  /\ q \in Nat \ {0}
  /\ \A i \in Positions : i <= p /\ ~InLoop(i) => i < q
  /\ \A i, l \in Positions :
       i <= p /\ Inner(l, i) /\ LoopAround(l, p) => l = L \/ (LoopAround(l, q) /\ i < q)

Once(rs, p, rr) == rr = [rs EXCEPT ![p] = @ + 1]
Over(d, L, dd)  ==
  dd \in [Positions -> Nat] /\ \A l \in Positions : dd[l] = IF l = L THEN d[l] + 1 ELSE d[l]

\* L is the loop of the first frame, and f that frame a pass later.
Inmost(fs, L)   == L = fs[1].at
After(l, q)     == q = prog[l].end + 1
PassMore(fs, f) ==
  /\ f \in Frame /\ f.at = fs[1].at /\ f.pass = fs[1].pass + 1 /\ f.of = fs[1].of
  /\ f.pass < f.of

LEMMA DueOnce ==
  ASSUME Shape, AllClosed, NEW p \in Positions, NEW rs \in [Positions -> Nat], NEW rr, Once(rs, p, rr)
  PROVE  /\ rr \in [Positions -> Nat] /\ rr[p] = rs[p] + 1
         /\ \A i \in Positions : i # p => rr[i] = rs[i]
         /\ \A i \in Positions : rs[i] <= rr[i] /\ rs[i] \in Nat /\ rr[i] \in Nat
         /\ \A l \in Positions : Loop(l) =>
              /\ Due(l, rs) \in Nat /\ Due(l, rr) \in Nat /\ prog[l].n \in Nat
              /\ Due(l, rs) <= Due(l, rr)
              /\ Due(l, rr) = IF l = p THEN Due(l, rs) + prog[l].n ELSE Due(l, rs)
  <1>1. /\ rr \in [Positions -> Nat] /\ rr[p] = rs[p] + 1
        /\ \A i \in Positions : i # p => rr[i] = rs[i]
    BY DEF Once
  <1>2. ASSUME NEW l \in Positions, Loop(l)
        PROVE  /\ Due(l, rs) \in Nat /\ Due(l, rr) \in Nat /\ prog[l].n \in Nat
               /\ Due(l, rs) <= Due(l, rr)
               /\ Due(l, rr) = IF l = p THEN Due(l, rs) + prog[l].n ELSE Due(l, rs)
    <2>1. PICK n \in Nat : n = prog[l].n
      BY <1>2, LoopPlaces
    <2>2. PICK a \in Nat : a = rs[l]
      OBVIOUS
    <2>3. rr[l] = IF l = p THEN a + 1 ELSE a
      BY <1>1, <2>2
    <2>4. a * n \in Nat /\ (a + 1) * n = a * n + n /\ (a + 1) * n \in Nat
      BY <2>1, <2>2, Mul
    <2>5. Due(l, rs) = a * n /\ Due(l, rr) = IF l = p THEN a * n + n ELSE a * n
      BY <2>1, <2>2, <2>3, <2>4 DEF Due
    <2> QED
      BY <2>1, <2>4, <2>5
  <1>3. \A i \in Positions : rs[i] <= rr[i] /\ rs[i] \in Nat /\ rr[i] \in Nat
    BY <1>1
  <1> QED
    BY <1>1, <1>2, <1>3

LEMMA Slack ==
  \A a, n, s, t, x \in Nat :
    a + n <= s + x /\ s <= t => a + n <= t + x /\ (a + 1) + n <= t + (x + 1)
  OBVIOUS

\* The passes of the frames that run are those begun.
LEMMA Begun ==
  ASSUME Shape, AllClosed, NEW p, NEW fs, NEW d, NEW rs, FramedAt(fs, p), CountsAt(d, fs, rs, p)
  PROVE  /\ \A k \in 1..Len(fs) :
              /\ fs[k].at \in Positions /\ Loop(fs[k].at) /\ fs[k].pass \in Nat /\ fs[k].of \in Nat
              /\ LoopAround(fs[k].at, p)
         /\ \A l \in Positions : LoopAround(l, p) => d[l] < Due(l, rs)
         /\ \A l \in Positions : Loop(l) => d[l] <= Due(l, rs)
  <1>1. \A k \in 1..Len(fs) :
          /\ fs[k].at \in Positions /\ Loop(fs[k].at) /\ fs[k].pass \in Nat /\ fs[k].of \in Nat
          /\ LoopAround(fs[k].at, p)
    <2>1. ASSUME NEW k \in 1..Len(fs)
          PROVE  /\ fs[k].at \in Positions /\ Loop(fs[k].at) /\ fs[k].pass \in Nat /\ fs[k].of \in Nat
                 /\ LoopAround(fs[k].at, p)
      <3>1. fs[k] \in Frame
        BY DEF FramedAt
      <3>2. fs[k].pass \in Nat /\ fs[k].of \in Nat
        BY <3>1 DEF Frame
      <3>3. LoopAround(fs[k].at, p)
        BY DEF FramedAt
      <3> QED
        BY <3>2, <3>3 DEF LoopAround
    <2> QED
      BY <2>1
  <1>2. ASSUME NEW l \in Positions, Loop(l)
        PROVE  Due(l, rs) \in Nat /\ d[l] \in Nat /\ prog[l].n \in Nat
    <2>1. PICK n \in Nat, a \in Nat : n = prog[l].n /\ a = rs[l]
      BY <1>2, LoopPlaces DEF CountsAt
    <2>2. a * n \in Nat
      BY Mul
    <2> QED
      BY <2>1, <2>2 DEF CountsAt, Due
  <1>3. ASSUME NEW l \in Positions, LoopAround(l, p)
        PROVE  d[l] < Due(l, rs)
    <2>1. PICK k \in 1..Len(fs) : fs[k].at = l
      BY <1>3 DEF FramedAt
    <2>2. d[l] + prog[l].n <= Due(l, rs) + fs[k].pass
      BY <2>1 DEF CountsAt, PassedAt
    <2>3. fs[k].pass < fs[k].of /\ fs[k].of <= prog[l].n
      BY <2>1 DEF FramedAt
    <2>4. Due(l, rs) \in Nat /\ d[l] \in Nat /\ prog[l].n \in Nat
      BY <1>2, <1>3 DEF LoopAround
    <2> QED
      BY <1>1, <2>2, <2>3, <2>4
  <1>4. ASSUME NEW l \in Positions, Loop(l)
        PROVE  d[l] <= Due(l, rs)
    BY <1>2, <1>3, <1>4 DEF CountsAt, PassedAt
  <1> QED
    BY <1>1, <1>3, <1>4

\* The innermost frame is the innermost loop.
LEMMA HeadFrame ==
  ASSUME Shape, AllClosed, NEW p, InLoop(p), NEW fs, FramedAt(fs, p)
  PROVE  /\ Len(fs) \in Nat \ {0} /\ fs # <<>> /\ Head(fs) = fs[1] /\ 1 \in 1..Len(fs)
         /\ fs[1] \in Frame /\ Inner(fs[1].at, p)
         /\ Tail(fs) \in Seq(Frame) /\ Len(Tail(fs)) = Len(fs) - 1
         /\ \A k \in 1..Len(Tail(fs)) : Tail(fs)[k] = fs[k + 1]
  <1>1. fs \in Seq(Frame) /\ Len(fs) \in Nat
    BY DEF FramedAt
  <1>2. Len(fs) # 0
    <2>1. PICK l \in Positions : LoopAround(l, p)
      BY DEF InLoop
    <2>2. PICK k \in 1..Len(fs) : fs[k].at = l
      BY <2>1 DEF FramedAt
    <2> QED
      BY <1>1, <2>2
  <1>3. fs # <<>>
    BY <1>2
  <1>4. /\ Tail(fs) \in Seq(Frame) /\ Len(Tail(fs)) = Len(fs) - 1
        /\ Head(fs) = fs[1] /\ Head(fs) \in Frame
        /\ \A k \in 1..Len(Tail(fs)) : Tail(fs)[k] = fs[k + 1]
    BY <1>1, <1>3, Pop
  <1>5. 1 \in 1..Len(fs)
    BY <1>1, <1>2
  <1>6. Inner(fs[1].at, p)
    <2>1. LoopAround(fs[1].at, p)
      BY <1>5 DEF FramedAt
    <2>2. ASSUME NEW m \in Positions, LoopAround(m, p)
          PROVE  m <= fs[1].at
      <3>1. PICK k \in 1..Len(fs) : fs[k].at = m
        BY <2>2 DEF FramedAt
      <3>2. k = 1 \/ 1 < k
        BY <1>1
      <3>3. 1 < k => fs[k].at < fs[1].at
        BY <1>5 DEF FramedAt
      <3>4. m \in Nat /\ fs[1].at \in Nat
        BY <2>1 DEF LoopAround, Positions
      <3> QED
        BY <3>1, <3>2, <3>3, <3>4
    <2> QED
      BY <2>1, <2>2 DEF Inner
  <1> QED
    BY <1>1, <1>2, <1>3, <1>4, <1>5, <1>6

\* The statement at p is executed once more.
LEMMA Counted ==
  ASSUME Shape, AllClosed, NEW p \in Positions, NEW q, NEW L, Moves(p, q, L),
         NEW fs, NEW d, NEW rs, FramedAt(fs, p), CountsAt(d, fs, rs, p),
         NEW dd, Over(d, L, dd), NEW rr, Once(rs, p, rr)
  PROVE  /\ rr \in [Positions -> Nat] /\ rr[p] = rs[p] + 1
         /\ \A i \in Positions : i # p => rr[i] = rs[i]
         /\ ExecutionsAt(dd, rr, q) /\ WithinAt(rr)
  <1>1. rs \in [Positions -> Nat] /\ d \in [Positions -> Nat]
    BY DEF CountsAt
  <1>2. /\ rr \in [Positions -> Nat] /\ rr[p] = rs[p] + 1
        /\ \A i \in Positions : i # p => rr[i] = rs[i]
    BY <1>1, DueOnce
  <1>3. /\ \A i \in Positions : ~InLoop(i) => rs[i] <= IF i < p THEN 1 ELSE 0
        /\ \A i, l \in Positions :
             Inner(l, i) => rs[i] <= d[l] + IF LoopAround(l, p) /\ i < p THEN 1 ELSE 0
    BY DEF CountsAt, ExecutionsAt
  <1>4. \A i \in Positions : i \in Nat
    BY DEF Positions
  <1>5. ASSUME NEW i \in Positions, ~InLoop(i)
        PROVE  rr[i] <= IF i < q THEN 1 ELSE 0
    <2>1. rs[i] <= IF i < p THEN 1 ELSE 0
      BY <1>3, <1>5
    <2>2. i <= p => i < q
      BY <1>5 DEF Moves
    <2> QED
      BY <1>1, <1>2, <1>4, <2>1, <2>2
  <1>6. ASSUME NEW i \in Positions, NEW l \in Positions, Inner(l, i)
        PROVE  rr[i] <= dd[l] + IF LoopAround(l, q) /\ i < q THEN 1 ELSE 0
    <2>1. rs[i] <= d[l] + IF LoopAround(l, p) /\ i < p THEN 1 ELSE 0
      BY <1>3, <1>6
    <2>2. i <= p /\ LoopAround(l, p) => l = L \/ (LoopAround(l, q) /\ i < q)
      BY <1>6 DEF Moves
    <2>3. dd[l] = (IF l = L THEN d[l] + 1 ELSE d[l]) /\ dd[l] \in Nat
      BY DEF Over
    <2>4. i = p => LoopAround(l, p)
      BY <1>6 DEF Inner
    <2>5. dd[l] \in Nat /\ d[l] \in Nat /\ rs[i] \in Nat /\ rr[i] \in Nat /\ i \in Nat /\ p \in Nat
      BY <1>1, <1>2, <1>4, <2>3
    <2>6. rr[i] = IF i = p THEN rs[i] + 1 ELSE rs[i]
      BY <1>2
    <2>7. rs[i] <= d[l] + 1 /\ (i = p => rs[i] <= d[l])
      BY <2>1, <2>5
    <2>8. CASE l = L
      <3>1. rr[i] <= dd[l]
        BY <2>3, <2>5, <2>6, <2>7, <2>8
      <3> QED
        BY <2>5, <3>1
    <2>9. CASE l # L
      BY <2>1, <2>2, <2>3, <2>4, <2>5, <2>6, <2>7, <2>9
    <2> QED
      BY <2>8, <2>9
  <1>7. rr[p] <= prog[p].mul
    <2>1. prog[p].mul \in Nat \ {0}
      BY Fields DEF AllClosed
    <2>2. CASE ~InLoop(p)
      <3>1. rs[p] <= 0
        BY <1>3, <1>4, <2>2
      <3> QED
        BY <1>1, <1>2, <2>1, <3>1
    <2>3. CASE InLoop(p)
      <3>1. PICK l \in Positions : Inner(l, p)
        BY <2>3, HeadFrame DEF Inner, LoopAround
      <3>2. rs[p] <= d[l]
        BY <1>1, <1>3, <1>4, <3>1
      <3>3. d[l] < Due(l, rs)
        BY <3>1, Begun DEF Inner
      <3>4. rs[l] <= prog[l].mul
        BY DEF CountsAt, WithinAt
      <3>5. prog[l].n \in Nat /\ prog[l].mul \in Nat /\ rs[l] \in Nat /\ d[l] \in Nat /\ rs[p] \in Nat
        BY <1>1, <3>1, LoopPlaces DEF Inner, LoopAround
      <3>6. Due(l, rs) <= prog[l].mul * prog[l].n
        BY <3>4, <3>5, Mul DEF Due
      <3>7. Due(l, rs) \in Nat /\ prog[l].mul * prog[l].n \in Nat
        BY <3>5, Mul DEF Due
      <3>8. prog[p].mul = prog[l].mul * prog[l].n
        BY <3>1 DEF Shape, Charged
      <3> QED
        BY <1>2, <3>2, <3>3, <3>5, <3>6, <3>7, <3>8
    <2> QED
      BY <2>2, <2>3
  <1>8. WithinAt(rr)
    BY <1>2, <1>7 DEF WithinAt, CountsAt
  <1> QED
    BY <1>2, <1>5, <1>6, <1>8 DEF ExecutionsAt

\* The run goes on past p, in the same loops.
LEMMA Onward ==
  ASSUME Shape, AllClosed, NEW p \in Positions, NEW q \in Nat, p < q, q <= Len(prog) + 1,
         \A l : LoopAround(l, q) <=> LoopAround(l, p),
         NEW fs, NEW d, NEW rs, FramedAt(fs, p), CountsAt(d, fs, rs, p),
         NEW rr, Once(rs, p, rr)
  PROVE  FramedAt(fs, q) /\ CountsAt(d, fs, rr, q)
  <1>1. Moves(p, q, 0)
    BY DEF Moves, Positions
  <1>2. d \in [Positions -> Nat] /\ rs \in [Positions -> Nat]
    BY DEF CountsAt
  <1>3. Over(d, 0, d)
    BY <1>2 DEF Over, Positions
  <1>4. /\ rr \in [Positions -> Nat] /\ rr[p] = rs[p] + 1
        /\ \A i \in Positions : i # p => rr[i] = rs[i]
        /\ ExecutionsAt(d, rr, q) /\ WithinAt(rr)
    BY <1>1, <1>2, <1>3, Counted
  <1>5. \A i \in Positions : rs[i] <= rr[i] /\ rs[i] \in Nat /\ rr[i] \in Nat
    BY <1>2, DueOnce
  <1>6. ASSUME NEW l \in Positions, Loop(l)
        PROVE  /\ Due(l, rs) <= Due(l, rr)
               /\ Due(l, rs) \in Nat /\ Due(l, rr) \in Nat
               /\ d[l] \in Nat /\ prog[l].n \in Nat
    <2>1. d[l] \in Nat
      BY <1>2
    <2> QED
      BY <1>2, <1>6, <2>1, DueOnce
  <1>7. PassedAt(d, fs, rr, q)
    <2>1. ASSUME NEW l \in Positions, Loop(l), ~LoopAround(l, q)
          PROVE  d[l] <= Due(l, rr)
      <3>1. d[l] <= Due(l, rs)
        BY <2>1 DEF CountsAt, PassedAt
      <3> QED
        BY <1>6, <2>1, <3>1
    <2>2. ASSUME NEW k \in 1..Len(fs)
          PROVE  d[fs[k].at] + prog[fs[k].at].n <= Due(fs[k].at, rr) + fs[k].pass
      <3>1. PICK l \in Positions : l = fs[k].at /\ Loop(l)
        BY Begun
      <3>2. d[l] + prog[l].n <= Due(l, rs) + fs[k].pass /\ fs[k].pass \in Nat
        BY <3>1, Begun DEF CountsAt, PassedAt
      <3>3. /\ Due(l, rs) <= Due(l, rr) /\ Due(l, rs) \in Nat /\ Due(l, rr) \in Nat
            /\ d[l] \in Nat /\ prog[l].n \in Nat
        BY <1>6, <3>1
      <3>4. d[l] + prog[l].n <= Due(l, rr) + fs[k].pass
        BY <3>2, <3>3, Slack
      <3> QED
        BY <3>1, <3>4
    <2> QED
      BY <2>1, <2>2 DEF PassedAt
  <1>8. FramedAt(fs, q)
    BY DEF FramedAt
  <1> QED
    BY <1>2, <1>4, <1>7, <1>8 DEF CountsAt

\* A loop is entered at p.
\* In the body that p opens, and at its beginning.
LEMMA Inside ==
  ASSUME Shape, AllClosed, NEW p \in Positions, Loop(p)
  PROVE  \A l : LoopAround(l, p + 1) <=> LoopAround(l, p) \/ l = p
  <1>1. SUFFICES ASSUME NEW l
                 PROVE  LoopAround(l, p + 1) <=> LoopAround(l, p) \/ l = p
    OBVIOUS
  <1>2. p \in Nat /\ p < prog[p].end /\ prog[p].end \in Nat /\ Opener(p)
    BY LoopPlaces
  <1>3. LoopAround(p, p + 1)
    BY <1>2, LoopPlaces
  <1>4. LoopAround(l, p + 1) => LoopAround(l, p) \/ l = p
    <2>1. SUFFICES ASSUME LoopAround(l, p + 1)
                   PROVE  LoopAround(l, p) \/ l = p
      OBVIOUS
    <2>2. l \in Positions /\ Loop(l) /\ l < p + 1 /\ p + 1 <= prog[l].end /\ prog[l].end \in Nat /\ l \in Nat
      BY <2>1, LoopPlaces
    <2>3. l = p \/ (l < p /\ p <= prog[l].end)
      BY <1>2, <2>2
    <2> QED
      BY <2>2, <2>3, LoopPlaces
  <1>5. LoopAround(l, p) => LoopAround(l, p + 1)
    <2>1. SUFFICES ASSUME LoopAround(l, p)
                   PROVE  LoopAround(l, p + 1)
      OBVIOUS
    <2>2. l \in Positions /\ Loop(l) /\ l < p /\ prog[p].end < prog[l].end /\ prog[l].end \in Nat /\ l \in Nat
      BY <1>2, <2>1, LoopPlaces
    <2>3. l < p + 1 /\ p + 1 <= prog[l].end
      BY <1>2, <2>2
    <2> QED
      BY <2>2, <2>3, LoopPlaces
  <1> QED
    BY <1>3, <1>4, <1>5

\* The frame f is put in front of fs.
Pushed(f, fs, ff) == ff = <<f>> \o fs

LEMMA Entered ==
  ASSUME Shape, AllClosed, NEW p \in Positions, Loop(p),
         NEW fs, NEW d, NEW rs, FramedAt(fs, p), CountsAt(d, fs, rs, p),
         NEW rr, Once(rs, p, rr),
         NEW f \in Frame, f.at = p, f.pass = 0, f.of # 0, f.of <= prog[p].n,
         NEW ff, Pushed(f, fs, ff)
  PROVE  /\ FramedAt(ff, p + 1) /\ CountsAt(d, ff, rr, p + 1)
         /\ \A l : LoopAround(l, p + 1) <=> LoopAround(l, p) \/ l = p
  <1>1. \A l : LoopAround(l, p + 1) <=> LoopAround(l, p) \/ l = p
    BY Inside
  <1>2. p \in Nat \ {0} /\ prog[p].n \in Nat /\ ~LoopAround(p, p)
    BY LoopPlaces
  <1>3. Moves(p, p + 1, 0)
    BY <1>1, <1>2 DEF Moves, Positions
  <1>4. d \in [Positions -> Nat] /\ rs \in [Positions -> Nat]
    BY DEF CountsAt
  <1>5. Over(d, 0, d)
    BY <1>4 DEF Over, Positions
  <1>6. /\ rr \in [Positions -> Nat] /\ rr[p] = rs[p] + 1
        /\ \A i \in Positions : i # p => rr[i] = rs[i]
        /\ ExecutionsAt(d, rr, p + 1) /\ WithinAt(rr)
    BY <1>3, <1>4, <1>5, Counted
  <1>7. fs \in Seq(Frame) /\ Len(fs) \in Nat
    BY DEF FramedAt
  <1>8. /\ ff \in Seq(Frame) /\ Len(ff) = Len(fs) + 1 /\ ff[1] = f
        /\ \A i \in 1..Len(fs) : ff[i + 1] = fs[i]
    BY <1>7, Push DEF Pushed
  <1>9. \A k \in 1..Len(ff) : ff[k] = f \/ \E i \in 1..Len(fs) : ff[k] = fs[i]
    <2>1. SUFFICES ASSUME NEW k \in 1..Len(ff), k # 1
                   PROVE  \E i \in 1..Len(fs) : ff[k] = fs[i]
      BY <1>8
    <2>2. k - 1 \in 1..Len(fs) /\ (k - 1) + 1 = k
      BY <1>7, <1>8, <2>1
    <2> QED
      BY <1>8, <2>2
  <1>10. FramedAt(ff, p + 1)
    <2>1. ASSUME NEW k \in 1..Len(ff)
          PROVE  /\ LoopAround(ff[k].at, p + 1)
                 /\ ff[k].pass < ff[k].of /\ ff[k].of <= prog[ff[k].at].n
      <3>1. CASE ff[k] = f
        <4>1. f.of \in Nat
          BY DEF Frame
        <4> QED
          BY <1>1, <3>1, <4>1
      <3>2. ASSUME NEW i \in 1..Len(fs), ff[k] = fs[i]
            PROVE  /\ LoopAround(ff[k].at, p + 1)
                   /\ ff[k].pass < ff[k].of /\ ff[k].of <= prog[ff[k].at].n
        BY <1>1, <3>2 DEF FramedAt
      <3> QED
        BY <1>9, <3>1, <3>2
    <2>2. ASSUME NEW l \in Positions, LoopAround(l, p + 1)
          PROVE  \E k \in 1..Len(ff) : ff[k].at = l
      <3>1. CASE l = p
        <4>1. 1 \in 1..Len(ff)
          BY <1>7, <1>8
        <4> QED
          BY <1>8, <3>1, <4>1
      <3>2. CASE l # p
        <4>1. PICK i \in 1..Len(fs) : fs[i].at = l
          BY <1>1, <2>2, <3>2 DEF FramedAt
        <4>2. i + 1 \in 1..Len(ff) /\ ff[i + 1] = fs[i]
          BY <1>7, <1>8
        <4> QED
          BY <4>1, <4>2
      <3> QED
        BY <3>1, <3>2
    <2>3. ASSUME NEW k \in 1..Len(ff), NEW m \in 1..Len(ff), k < m
          PROVE  ff[m].at < ff[k].at
      <3>1. m - 1 \in 1..Len(fs) /\ (m - 1) + 1 = m
        BY <1>7, <1>8, <2>3
      <3>2. ff[m] = fs[m - 1]
        BY <1>8, <3>1
      <3>3. CASE k = 1
        <4>1. LoopAround(fs[m - 1].at, p)
          BY <3>1 DEF FramedAt
        <4>2. fs[m - 1].at < p
          BY <4>1, LoopPlaces
        <4> QED
          BY <1>8, <3>2, <3>3, <4>2
      <3>4. CASE k # 1
        <4>1. k - 1 \in 1..Len(fs) /\ (k - 1) + 1 = k /\ k - 1 < m - 1
          BY <1>7, <1>8, <2>3, <3>4
        <4>2. ff[k] = fs[k - 1]
          BY <1>8, <4>1
        <4> QED
          BY <3>1, <3>2, <4>1, <4>2 DEF FramedAt
      <3> QED
        BY <3>3, <3>4
    <2> QED
      BY <1>8, <2>1, <2>2, <2>3 DEF FramedAt
  <1>11. /\ \A i \in Positions : rs[i] <= rr[i] /\ rs[i] \in Nat /\ rr[i] \in Nat
         /\ \A l \in Positions : Loop(l) =>
              /\ Due(l, rs) \in Nat /\ Due(l, rr) \in Nat /\ prog[l].n \in Nat
              /\ Due(l, rr) = IF l = p THEN Due(l, rs) + prog[l].n ELSE Due(l, rs)
    BY <1>4, DueOnce
  <1>12. ASSUME NEW l \in Positions, Loop(l)
         PROVE  /\ Due(l, rs) <= Due(l, rr)
                /\ Due(l, rs) \in Nat /\ Due(l, rr) \in Nat
                /\ d[l] \in Nat /\ prog[l].n \in Nat
    BY <1>4, <1>11, <1>12
  <1>13. PassedAt(d, ff, rr, p + 1)
    <2>1. ASSUME NEW l \in Positions, Loop(l), ~LoopAround(l, p + 1)
          PROVE  d[l] <= Due(l, rr)
      <3>1. d[l] <= Due(l, rs)
        BY <1>1, <2>1 DEF CountsAt, PassedAt
      <3> QED
        BY <1>12, <2>1, <3>1
    <2>2. ASSUME NEW i \in 1..Len(fs)
          PROVE  d[fs[i].at] + prog[fs[i].at].n <= Due(fs[i].at, rr) + fs[i].pass
      <3>1. PICK l \in Positions : l = fs[i].at /\ Loop(l)
        BY Begun
      <3>2. d[l] + prog[l].n <= Due(l, rs) + fs[i].pass /\ fs[i].pass \in Nat
        BY <3>1, Begun DEF CountsAt, PassedAt
      <3>3. /\ Due(l, rs) \in Nat /\ Due(l, rr) \in Nat /\ Due(l, rs) <= Due(l, rr)
            /\ d[l] \in Nat /\ prog[l].n \in Nat
        BY <1>12, <3>1
      <3>4. d[l] + prog[l].n <= Due(l, rr) + fs[i].pass
        BY <3>2, <3>3, Slack
      <3> QED
        BY <3>1, <3>4
    <2>3. d[p] + prog[p].n <= Due(p, rr) + 0
      <3>1. d[p] <= Due(p, rs)
        BY <1>2 DEF CountsAt, PassedAt
      <3>2. Due(p, rr) = Due(p, rs) + prog[p].n
        BY <1>4, DueOnce
      <3> QED
        BY <1>12, <3>1, <3>2
    <2> QED
      BY <1>1, <1>9, <2>1, <2>2, <2>3 DEF PassedAt
  <1> QED
    BY <1>1, <1>4, <1>6, <1>10, <1>13 DEF CountsAt

\* The body of the innermost loop L of p begins again.
LEMMA Restart ==
  ASSUME Shape, AllClosed, NEW p \in Positions, NEW L, Inner(L, p)
  PROVE  (\A l : LoopAround(l, L + 1) <=> LoopAround(l, p)) /\ Moves(p, L + 1, L)
  <1>1. /\ L \in Positions /\ Loop(L) /\ L \in Nat \ {0} /\ L < p /\ p <= prog[L].end
        /\ prog[L].end \in Nat /\ L < prog[L].end /\ prog[L].end <= Len(prog) /\ p \in Nat
        /\ \A m \in Positions : LoopAround(m, p) => m <= L
        /\ LoopAround(L, p)
    <2>1. LoopAround(L, p) /\ \A m \in Positions : LoopAround(m, p) => m <= L
      BY DEF Inner
    <2>2. p \in Nat
      BY DEF Positions
    <2> QED
      BY <2>1, <2>2, LoopPlaces
  <1>2. \A l : LoopAround(l, L + 1) <=> LoopAround(l, p)
    <2>1. SUFFICES ASSUME NEW l \in Positions, Loop(l)
                   PROVE  LoopAround(l, L + 1) <=> LoopAround(l, p)
      BY DEF LoopAround
    <2>2. l \in Nat /\ prog[l].end \in Nat
      BY <2>1, LoopPlaces
    <2>3. LoopAround(l, p) => LoopAround(l, L + 1)
      <3>1. SUFFICES ASSUME LoopAround(l, p), l # L
                     PROVE  LoopAround(l, L + 1)
        BY <1>1, LoopPlaces
      <3>2. l < L /\ p <= prog[l].end
        BY <1>1, <2>1, <2>2, <3>1, LoopPlaces
      <3>3. l < L + 1 /\ L + 1 <= prog[l].end
        BY <1>1, <2>2, <3>2
      <3> QED
        BY <2>1, <3>3, LoopPlaces
    <2>4. LoopAround(l, L + 1) => LoopAround(l, p)
      <3>1. SUFFICES ASSUME LoopAround(l, L + 1), l # L
                     PROVE  LoopAround(l, p)
        BY <1>1
      <3>2. l < L + 1 /\ L + 1 <= prog[l].end
        BY <3>1, LoopPlaces
      <3>3. l < L /\ L <= prog[l].end
        BY <1>1, <2>2, <3>1, <3>2
      <3>4. prog[L].end < prog[l].end
        BY <1>1, <2>1, <3>3, LoopPlaces
      <3> QED
        BY <1>1, <2>1, <2>2, <3>3, <3>4, LoopPlaces
    <2> QED
      BY <2>3, <2>4
  <1>3. Moves(p, L + 1, L)
    <2>1. ASSUME NEW i \in Positions, i <= p, ~InLoop(i)
          PROVE  i < L + 1
      <3>1. ~LoopAround(L, i)
        BY <1>1, <2>1 DEF InLoop
      <3>2. i \in Nat
        BY DEF Positions
      <3> QED
        BY <1>1, <2>1, <3>1, <3>2, LoopPlaces
    <2>2. ASSUME NEW i \in Positions, NEW l \in Positions, i <= p, Inner(l, i), LoopAround(l, p), l # L
          PROVE  LoopAround(l, L + 1) /\ i < L + 1
      <3>1. l < L /\ l \in Nat /\ i \in Nat
        BY <1>1, <2>2 DEF Positions
      <3>2. ~LoopAround(L, i)
        BY <1>1, <2>2, <3>1 DEF Inner
      <3> QED
        BY <1>1, <1>2, <2>2, <3>1, <3>2, LoopPlaces
    <2>3. L + 1 \in Nat \ {0}
      BY <1>1
    <2> QED
      BY <2>1, <2>2, <2>3 DEF Moves
  <1> QED
    BY <1>2, <1>3

\* Of the innermost loop of p another pass begins.
LEMMA Again ==
  ASSUME Shape, AllClosed, NEW p \in Positions, NEW fs, NEW d, NEW rs,
         FramedAt(fs, p), CountsAt(d, fs, rs, p), NEW rr, Once(rs, p, rr),
         InLoop(p), NEW L, Inmost(fs, L), NEW dd, Over(d, L, dd),
         NEW f, PassMore(fs, f), NEW ff, ff = <<f>> \o Tail(fs)
  PROVE  /\ FramedAt(ff, L + 1) /\ CountsAt(dd, ff, rr, L + 1)
         /\ \A l : LoopAround(l, L + 1) <=> LoopAround(l, p)
  <1> USE DEF Inmost, PassMore
  <1>1. /\ Len(fs) \in Nat \ {0} /\ fs # <<>> /\ 1 \in 1..Len(fs) /\ fs[1] \in Frame
        /\ Inner(L, p) /\ Tail(fs) \in Seq(Frame) /\ Len(Tail(fs)) = Len(fs) - 1
        /\ \A k \in 1..Len(Tail(fs)) : Tail(fs)[k] = fs[k + 1]
    BY HeadFrame
  <1>2. /\ L \in Positions /\ Loop(L) /\ L \in Nat \ {0} /\ L < p /\ p <= prog[L].end
        /\ prog[L].end \in Nat /\ L < prog[L].end /\ prog[L].end <= Len(prog) /\ p \in Nat
        /\ \A m \in Positions : LoopAround(m, p) => m <= L
    BY <1>1, LoopPlaces DEF Inner, Positions
  <1>3. \A l : LoopAround(l, L + 1) <=> LoopAround(l, p)
    BY <1>1, Restart
  <1>4. Moves(p, L + 1, L)
    BY <1>1, Restart
  <1>5. /\ rr \in [Positions -> Nat] /\ rr[p] = rs[p] + 1
        /\ \A i \in Positions : i # p => rr[i] = rs[i]
        /\ ExecutionsAt(dd, rr, L + 1) /\ WithinAt(rr)
    BY <1>4, Counted
  <1>6. d \in [Positions -> Nat] /\ rs \in [Positions -> Nat]
    BY DEF CountsAt
  <1>7. /\ dd \in [Positions -> Nat] /\ dd[L] = d[L] + 1
        /\ \A l \in Positions : l # L => dd[l] = d[l]
    BY <1>2, <1>6 DEF Over
  <1>8. ASSUME NEW l \in Positions, Loop(l)
        PROVE  /\ Due(l, rs) \in Nat /\ Due(l, rr) \in Nat /\ Due(l, rs) <= Due(l, rr)
               /\ d[l] \in Nat /\ dd[l] \in Nat /\ prog[l].n \in Nat
    <2>1. /\ Due(l, rs) \in Nat /\ Due(l, rr) \in Nat /\ Due(l, rs) <= Due(l, rr)
          /\ prog[l].n \in Nat
      BY <1>6, <1>8, DueOnce
    <2>2. d[l] \in Nat /\ dd[l] \in Nat
      BY <1>6, <1>7
    <2> QED
      BY <2>1, <2>2
  <1>9. /\ ff \in Seq(Frame) /\ Len(ff) = Len(fs) /\ ff[1] = f
        /\ \A i \in 1..Len(Tail(fs)) : ff[i + 1] = Tail(fs)[i]
    BY <1>1, Push
  <1>10. \A k \in 1..Len(ff) : k # 1 => ff[k] = fs[k] /\ k \in 1..Len(fs)
    <2>1. SUFFICES ASSUME NEW k \in 1..Len(ff), k # 1
                   PROVE  ff[k] = fs[k] /\ k \in 1..Len(fs)
      OBVIOUS
    <2>2. k - 1 \in 1..Len(Tail(fs)) /\ (k - 1) + 1 = k
      BY <1>1, <1>9, <2>1
    <2> QED
      BY <1>1, <1>9, <2>2
  <1>11. \A k \in 1..Len(ff) : k \in 1..Len(fs) /\ ff[k].at = fs[k].at /\ ff[k].of = fs[k].of
    BY <1>1, <1>9, <1>10
  <1>12. FramedAt(ff, L + 1)
    <2>1. \A k \in 1..Len(ff) : ff[k].pass < ff[k].of
      BY <1>9, <1>10 DEF FramedAt
    <2>2. \A k \in 1..Len(ff) : LoopAround(ff[k].at, L + 1) /\ ff[k].of <= prog[ff[k].at].n
      BY <1>3, <1>11 DEF FramedAt
    <2>3. \A l \in Positions : LoopAround(l, L + 1) => \E k \in 1..Len(ff) : ff[k].at = l
      BY <1>3, <1>9, <1>11 DEF FramedAt
    <2>4. \A k, m \in 1..Len(ff) : k < m => ff[m].at < ff[k].at
      BY <1>11 DEF FramedAt
    <2> QED
      BY <1>9, <2>1, <2>2, <2>3, <2>4 DEF FramedAt
  <1>13. PassedAt(dd, ff, rr, L + 1)
    <2>1. ASSUME NEW l \in Positions, Loop(l), ~LoopAround(l, L + 1)
          PROVE  dd[l] <= Due(l, rr)
      <3>1. l # L /\ ~LoopAround(l, p)
        BY <1>1, <1>3, <2>1 DEF Inner
      <3>2. d[l] <= Due(l, rs) /\ dd[l] = d[l]
        BY <1>7, <2>1, <3>1 DEF CountsAt, PassedAt
      <3> QED
        BY <1>8, <2>1, <3>2
    <2>2. ASSUME NEW k \in 1..Len(ff)
          PROVE  dd[ff[k].at] + prog[ff[k].at].n <= Due(ff[k].at, rr) + ff[k].pass
      <3>1. PICK l \in Positions : l = fs[k].at /\ l = ff[k].at /\ Loop(l)
        BY <1>11, Begun
      <3>2. d[l] + prog[l].n <= Due(l, rs) + fs[k].pass /\ fs[k].pass \in Nat
        BY <1>11, <3>1, Begun DEF CountsAt, PassedAt
      <3>9. /\ Due(l, rs) \in Nat /\ Due(l, rr) \in Nat /\ Due(l, rs) <= Due(l, rr)
            /\ d[l] \in Nat /\ dd[l] \in Nat /\ prog[l].n \in Nat
        BY <1>8, <3>1
      <3>3. d[l] + prog[l].n <= Due(l, rr) + fs[k].pass
        BY <3>2, <3>9, Slack
      <3>4. CASE k = 1
        <4>1. l = L /\ ff[k].pass = fs[k].pass + 1
          BY <1>9, <3>1, <3>4
        <4>2. dd[l] = d[l] + 1
          BY <1>7, <4>1
        <4>3. dd[l] + prog[l].n <= Due(l, rr) + ff[k].pass
          <5>1. (d[l] + 1) + prog[l].n <= Due(l, rr) + (fs[k].pass + 1)
            BY <3>2, <3>9, Slack
          <5> QED
            BY <4>1, <4>2, <5>1, Zenon
        <4> QED
          BY <3>1, <4>3
      <3>5. CASE k # 1
        <4>1. fs[k].at < fs[1].at
          <5>1. 1 < k /\ k \in 1..Len(fs)
            BY <1>11, <3>5
          <5> QED
            BY <1>1, <5>1 DEF FramedAt
        <4>2. l # L /\ ff[k].pass = fs[k].pass
          BY <1>2, <1>10, <3>1, <3>5, <4>1
        <4>3. dd[l] = d[l]
          BY <1>7, <4>2
        <4> QED
          BY <3>1, <3>3, <4>2, <4>3
      <3> QED
        BY <3>4, <3>5
    <2> QED
      BY <2>1, <2>2 DEF PassedAt
  <1> QED
    BY <1>3, <1>5, <1>7, <1>12, <1>13 DEF CountsAt

\* The place behind the innermost loop L of p.
LEMMA Behind ==
  ASSUME Shape, AllClosed, NEW p \in Positions, NEW L, Inner(L, p), NEW q, After(L, q)
  PROVE  /\ L \in Positions /\ Loop(L) /\ L \in Nat
         /\ q \in Nat \ {0} /\ q <= Len(prog) + 1
         /\ (\A l : LoopAround(l, q) <=> LoopAround(l, p) /\ l # L) /\ Moves(p, q, L)
  <1>1. /\ L \in Positions /\ Loop(L) /\ L \in Nat \ {0} /\ L < p /\ p <= prog[L].end
        /\ prog[L].end \in Nat /\ L < prog[L].end /\ prog[L].end <= Len(prog) /\ p \in Nat
        /\ \A m \in Positions : LoopAround(m, p) => m <= L
        /\ Len(prog) \in Nat /\ Opener(L)
    <2>1. LoopAround(L, p) /\ \A m \in Positions : LoopAround(m, p) => m <= L
      BY DEF Inner
    <2>2. p \in Nat /\ Len(prog) \in Nat
      BY DEF Positions, AllClosed
    <2> QED
      BY <2>1, <2>2, LoopPlaces
  <1>2. PICK e \in Nat : e = prog[L].end /\ q = e + 1 /\ L < e /\ e <= Len(prog) /\ p <= e
    BY <1>1 DEF After
  <1>3. \A l : LoopAround(l, q) <=> LoopAround(l, p) /\ l # L
    <2>1. SUFFICES ASSUME NEW l \in Positions, Loop(l)
                   PROVE  LoopAround(l, q) <=> LoopAround(l, p) /\ l # L
      BY DEF LoopAround
    <2>2. l \in Nat /\ prog[l].end \in Nat /\ prog[l].end \in Positions /\ l < prog[l].end
      BY <2>1, LoopPlaces
    <2>3. LoopAround(l, p) /\ l # L => LoopAround(l, q)
      <3>1. SUFFICES ASSUME LoopAround(l, p), l # L
                     PROVE  LoopAround(l, q)
        OBVIOUS
      <3>2. l < L /\ L < prog[l].end
        <4>1. l <= L /\ p <= prog[l].end
          BY <1>1, <2>1, <3>1, LoopPlaces
        <4> QED
          BY <1>1, <2>2, <3>1, <4>1
      <3>3. LoopAround(l, L)
        BY <1>1, <2>1, <2>2, <3>2, LoopPlaces
      <3>4. prog[L].end < prog[l].end
        BY <1>1, <2>1, <3>3, LoopPlaces
      <3>5. l < q /\ q <= prog[l].end
        <4>1. PICK x \in Nat : x = prog[l].end
          BY <2>2
        <4>2. e < x /\ l < e
          BY <1>1, <1>2, <2>2, <3>2, <3>4, <4>1
        <4> QED
          BY <1>2, <2>2, <4>1, <4>2
      <3> QED
        BY <2>1, <3>5, LoopPlaces
    <2>4. LoopAround(l, q) => LoopAround(l, p) /\ l # L
      <3>1. SUFFICES ASSUME LoopAround(l, q)
                     PROVE  LoopAround(l, p) /\ l # L
        OBVIOUS
      <3>2. l < q /\ q <= prog[l].end
        BY <3>1, LoopPlaces
      <3>3. l # L
        <4>1. SUFFICES ASSUME l = L
                       PROVE  FALSE
          OBVIOUS
        <4>2. e + 1 <= e
          BY <1>2, <3>2, <4>1
        <4> QED
          BY <1>2, <4>2
      <3>4. l < prog[L].end /\ prog[L].end <= prog[l].end
        <4>1. PICK x \in Nat : x = prog[l].end
          BY <2>2
        <4>2. l < e + 1 /\ e + 1 <= x
          BY <1>2, <3>2, <4>1
        <4>3. l # e
          <5>1. prog[prog[L].end].op = "close"
            BY <1>1 DEF AllClosed
          <5>2. prog[l].op # "close"
            BY <2>1 DEF Loop, Loops
          <5> QED
            BY <1>2, <5>1, <5>2
        <4> QED
          BY <1>2, <2>2, <4>1, <4>2, <4>3
      <3>5. l < L
        <4>1. SUFFICES ASSUME L < l
                       PROVE  FALSE
          BY <1>1, <2>2, <3>3
        <4>2. LoopAround(L, l)
          BY <1>1, <2>2, <3>4, <4>1, LoopPlaces
        <4>3. Opener(l)
          BY <2>1, LoopPlaces
        <4>4. prog[l].end < prog[L].end
          BY <1>1, <4>2, <4>3, LoopPlaces
        <4> QED
          BY <1>1, <2>2, <3>4, <4>4
      <3>6. l < p /\ p <= prog[l].end
        BY <1>1, <2>2, <3>4, <3>5
      <3> QED
        BY <2>1, <3>3, <3>6, LoopPlaces
    <2> QED
      BY <2>3, <2>4
  <1>4. Moves(p, q, L)
    <2>1. \A i \in Positions : i <= p => i < q
      BY <1>1, <1>2 DEF Positions
    <2>2. \A l \in Positions : LoopAround(l, p) => l = L \/ LoopAround(l, q)
      BY <1>3
    <2>3. q \in Nat \ {0}
      BY <1>2
    <2> QED
      BY <2>1, <2>2, <2>3 DEF Moves
  <1> QED
    BY <1>1, <1>2, <1>3, <1>4

\* The innermost loop of p is left.
LEMMA Left ==
  ASSUME Shape, AllClosed, NEW p \in Positions, NEW fs, NEW d, NEW rs,
         FramedAt(fs, p), CountsAt(d, fs, rs, p), NEW rr, Once(rs, p, rr),
         InLoop(p), NEW L, Inmost(fs, L), NEW dd, Over(d, L, dd),
         NEW q, After(L, q)
  PROVE  /\ FramedAt(Tail(fs), q) /\ CountsAt(dd, Tail(fs), rr, q)
         /\ \A l : LoopAround(l, q) <=> LoopAround(l, p) /\ l # L
         /\ q \in Nat /\ q <= Len(prog) + 1
  <1> USE DEF Inmost
  <1>1. /\ Len(fs) \in Nat \ {0} /\ fs # <<>> /\ 1 \in 1..Len(fs) /\ fs[1] \in Frame
        /\ Inner(L, p) /\ Tail(fs) \in Seq(Frame) /\ Len(Tail(fs)) = Len(fs) - 1
        /\ \A k \in 1..Len(Tail(fs)) : Tail(fs)[k] = fs[k + 1]
    BY HeadFrame
  <1>2. /\ L \in Positions /\ Loop(L) /\ L \in Nat
        /\ q \in Nat \ {0} /\ q <= Len(prog) + 1
        /\ (\A l : LoopAround(l, q) <=> LoopAround(l, p) /\ l # L) /\ Moves(p, q, L)
    BY <1>1, Behind
  <1>3. \A l : LoopAround(l, q) <=> LoopAround(l, p) /\ l # L
    BY <1>2
  <1>5. /\ rr \in [Positions -> Nat] /\ rr[p] = rs[p] + 1
        /\ \A i \in Positions : i # p => rr[i] = rs[i]
        /\ ExecutionsAt(dd, rr, q) /\ WithinAt(rr)
    BY <1>2, Counted
  <1>6. d \in [Positions -> Nat] /\ rs \in [Positions -> Nat]
    BY DEF CountsAt
  <1>7. /\ dd \in [Positions -> Nat] /\ dd[L] = d[L] + 1
        /\ \A l \in Positions : l # L => dd[l] = d[l]
    BY <1>2, <1>6 DEF Over
  <1>8. ASSUME NEW l \in Positions, Loop(l)
        PROVE  /\ Due(l, rs) \in Nat /\ Due(l, rr) \in Nat /\ Due(l, rs) <= Due(l, rr)
               /\ d[l] \in Nat /\ dd[l] \in Nat /\ prog[l].n \in Nat
    <2>1. /\ Due(l, rs) \in Nat /\ Due(l, rr) \in Nat /\ Due(l, rs) <= Due(l, rr)
          /\ prog[l].n \in Nat
      BY <1>6, <1>8, DueOnce
    <2>2. d[l] \in Nat /\ dd[l] \in Nat
      BY <1>6, <1>7
    <2> QED
      BY <2>1, <2>2
  <1>9. \A k \in 1..Len(Tail(fs)) :
          /\ k + 1 \in 1..Len(fs) /\ Tail(fs)[k] = fs[k + 1] /\ 1 < k + 1
          /\ fs[k + 1].at < fs[1].at
    <2>1. SUFFICES ASSUME NEW k \in 1..Len(Tail(fs))
                   PROVE  /\ k + 1 \in 1..Len(fs) /\ Tail(fs)[k] = fs[k + 1] /\ 1 < k + 1
                          /\ fs[k + 1].at < fs[1].at
      OBVIOUS
    <2>2. k + 1 \in 1..Len(fs) /\ Tail(fs)[k] = fs[k + 1] /\ 1 < k + 1
      BY <1>1
    <2> QED
      BY <1>1, <2>2 DEF FramedAt
  <1>10. FramedAt(Tail(fs), q)
    <2>1. ASSUME NEW k \in 1..Len(Tail(fs))
          PROVE  /\ LoopAround(Tail(fs)[k].at, q)
                 /\ Tail(fs)[k].pass < Tail(fs)[k].of /\ Tail(fs)[k].of <= prog[Tail(fs)[k].at].n
      <3>1. k + 1 \in 1..Len(fs) /\ Tail(fs)[k] = fs[k + 1] /\ fs[k + 1].at < L
        BY <1>9
      <3>2. /\ LoopAround(fs[k + 1].at, p) /\ fs[k + 1].pass < fs[k + 1].of
            /\ fs[k + 1].of <= prog[fs[k + 1].at].n
        BY <3>1 DEF FramedAt
      <3>3. fs[k + 1].at # L
        <4>1. fs[k + 1].at \in Nat
          BY <3>2 DEF LoopAround, Positions
        <4> QED
          BY <1>2, <3>1, <4>1
      <3> QED
        BY <1>3, <3>1, <3>2, <3>3
    <2>2. ASSUME NEW l \in Positions, LoopAround(l, q)
          PROVE  \E k \in 1..Len(Tail(fs)) : Tail(fs)[k].at = l
      <3>1. PICK m \in 1..Len(fs) : fs[m].at = l
        BY <1>3, <2>2 DEF FramedAt
      <3>2. m # 1
        BY <1>3, <2>2, <3>1
      <3>3. m - 1 \in 1..Len(Tail(fs)) /\ (m - 1) + 1 = m
        BY <1>1, <3>2
      <3> QED
        BY <1>9, <3>1, <3>3
    <2>3. ASSUME NEW k \in 1..Len(Tail(fs)), NEW m \in 1..Len(Tail(fs)), k < m
          PROVE  Tail(fs)[m].at < Tail(fs)[k].at
      <3>1. k + 1 < m + 1 /\ k + 1 \in 1..Len(fs) /\ m + 1 \in 1..Len(fs)
        BY <1>9, <2>3
      <3>2. fs[m + 1].at < fs[k + 1].at
        BY <3>1 DEF FramedAt
      <3> QED
        BY <1>9, <3>2
    <2> QED
      BY <1>1, <2>1, <2>2, <2>3 DEF FramedAt
  <1>11. PassedAt(dd, Tail(fs), rr, q)
    <2>1. ASSUME NEW l \in Positions, Loop(l), ~LoopAround(l, q)
          PROVE  dd[l] <= Due(l, rr)
      <3>1. CASE l = L
        <4>1. d[l] < Due(l, rs)
          BY <1>1, <3>1, Begun DEF Inner
        <4>2. dd[l] = d[l] + 1
          BY <1>7, <3>1
        <4> QED
          BY <1>8, <2>1, <4>1, <4>2
      <3>2. CASE l # L
        <4>1. ~LoopAround(l, p)
          BY <1>3, <2>1, <3>2
        <4>2. d[l] <= Due(l, rs) /\ dd[l] = d[l]
          BY <1>7, <2>1, <3>2, <4>1 DEF CountsAt, PassedAt
        <4> QED
          BY <1>8, <2>1, <4>2
      <3> QED
        BY <3>1, <3>2
    <2>2. ASSUME NEW k \in 1..Len(Tail(fs))
          PROVE  dd[Tail(fs)[k].at] + prog[Tail(fs)[k].at].n
                   <= Due(Tail(fs)[k].at, rr) + Tail(fs)[k].pass
      <3>1. k + 1 \in 1..Len(fs) /\ Tail(fs)[k] = fs[k + 1] /\ fs[k + 1].at < L
        BY <1>9
      <3>2. PICK l \in Positions : l = fs[k + 1].at /\ Loop(l)
        BY <3>1, Begun
      <3>3. d[l] + prog[l].n <= Due(l, rs) + fs[k + 1].pass /\ fs[k + 1].pass \in Nat
        BY <3>1, <3>2, Begun DEF CountsAt, PassedAt
      <3>4. l # L
        <4>1. l \in Nat /\ l < L
          BY <3>1, <3>2 DEF Positions
        <4> QED
          BY <1>2, <4>1
      <3>5. dd[l] = d[l]
        BY <1>7, <3>4
      <3>6. dd[l] + prog[l].n <= Due(l, rr) + fs[k + 1].pass
        BY <1>8, <3>2, <3>3, <3>5
      <3> QED
        BY <3>1, <3>2, <3>6
    <2> QED
      BY <2>1, <2>2 DEF PassedAt
  <1> QED
    BY <1>2, <1>3, <1>5, <1>7, <1>10, <1>11 DEF CountsAt

-----------------------------------------------------------------------------
(* What is noted along a body.                                             *)

LEMMA RisesTrans ==
  \A x, y, z \in Nat : Rises(x, y) /\ Rises(y, z) => Rises(x, z)
  BY DEF Rises

\* The notes of one statement and of the one before it.
LEMMA NoteTypes ==
  ASSUME AllClosed, NEW h, History(h), NEW v \in scope
  PROVE  /\ \A i \in Positions : h[i][v] \in Nat /\ h[i - 1][v] \in Nat
         /\ h[Len(prog)][v] \in Nat /\ h[0][v] \in Nat
  <1>1. Len(prog) \in Nat /\ h \in [0..Len(prog) -> [scope -> Nat]]
    BY DEF AllClosed, History, Notes
  <1>2. \A j \in 0..Len(prog) : h[j][v] \in Nat
    BY <1>1
  <1>3. \A i \in Positions : i \in 0..Len(prog) /\ i - 1 \in 0..Len(prog)
    BY <1>1 DEF Positions
  <1>4. 0 \in 0..Len(prog) /\ Len(prog) \in 0..Len(prog)
    BY <1>1
  <1> QED
    BY <1>2, <1>3, <1>4

\* In the body of b, its ends included, what is noted only rises.
LEMMA Chain ==
  ASSUME Shape, AllClosed, NEW h, History(h), NEW b \in Positions, Opener(b), NEW v \in scope,
         NEW a \in Nat, NEW e \in Nat, b <= a, a <= e, e <= prog[b].end
  PROVE  Rises(h[a - 1][v], h[e][v])
  <1>1. /\ b \in Nat \ {0} /\ Len(prog) \in Nat /\ prog[b].end \in Nat /\ prog[b].end <= Len(prog)
    BY DEF AllClosed, Positions
  <1>2. ASSUME NEW i \in Nat, b <= i, i <= prog[b].end
        PROVE  /\ i \in Positions /\ Rises(h[i - 1][v], h[i][v])
               /\ h[i - 1][v] \in Nat /\ h[i][v] \in Nat
    <2>1. i \in Positions
      BY <1>1, <1>2 DEF Positions
    <2>2. InLoop(i) \/ InCond(i) \/ Opener(i)
      <3>1. CASE i = b
        BY <3>1
      <3>2. CASE i # b
        <4>1. Around(b, i)
          BY <1>1, <1>2, <3>2 DEF AllClosed
        <4> QED
          BY <4>1 DEF InLoop, InCond, LoopAround
      <3> QED
        BY <3>1, <3>2
    <2> QED
      BY <2>1, <2>2, NoteTypes DEF History, Raising
  <1> DEFINE S == {k \in Nat : a + k <= prog[b].end => Rises(h[a - 1][v], h[a + k][v])}
  <1>3. 0 \in S
    BY <1>1, <1>2
  <1>4. ASSUME NEW k \in Nat, k \in S
        PROVE  k + 1 \in S
    <2>1. SUFFICES ASSUME a + (k + 1) <= prog[b].end
                   PROVE  Rises(h[a - 1][v], h[a + (k + 1)][v])
      OBVIOUS
    <2>2. PICK i \in Nat : i = a + (k + 1) /\ i - 1 = a + k
      OBVIOUS
    <2>3. b <= i - 1 /\ b <= i /\ i <= prog[b].end /\ a <= prog[b].end /\ i - 1 <= prog[b].end
          /\ i - 1 \in Nat
      BY <1>1, <2>1, <2>2
    <2>4. Rises(h[a - 1][v], h[i - 1][v])
      BY <1>4, <2>2, <2>3
    <2>5. Rises(h[i - 1][v], h[i][v]) /\ h[i - 1][v] \in Nat /\ h[i][v] \in Nat
      BY <1>2, <2>3
    <2>6. h[a - 1][v] \in Nat
      BY <1>2, <2>3
    <2> QED
      BY <2>2, <2>4, <2>5, <2>6, RisesTrans
  <1>5. \A k \in Nat : k \in S
    <2> HIDE DEF S
    <2> QED
      BY <1>3, <1>4, NatInduct
  <1>6. PICK k \in Nat : e = a + k
    <2>1. e - a \in Nat /\ e = a + (e - a)
      OBVIOUS
    <2> QED
      BY <2>1
  <1>7. k \in S
    BY <1>5
  <1> QED
    BY <1>6, <1>7

\* What is known after a loop was known all along it.
LEMMA KnownAlong ==
  ASSUME Shape, AllClosed, NEW h, History(h), NEW o \in Positions, Loop(o), NEW v \in scope,
         h[prog[o].end][v] # 0, NEW j \in o..prog[o].end
  PROVE  /\ h[j][v] # 0 /\ j \in Positions /\ h[j - 1][v] \in Nat /\ h[j][v] \in Nat
         /\ ~Replaces(prog[j], v) /\ h[j - 1][v] + Contribution(prog[j], v) <= h[j][v]
  <1>1. /\ o \in Nat \ {0} /\ prog[o].end \in Nat /\ o < prog[o].end /\ prog[o].end <= Len(prog)
        /\ Opener(o) /\ j \in Nat /\ o <= j /\ j <= prog[o].end /\ Len(prog) \in Nat
    BY LoopPlaces DEF AllClosed
  <1>2. j \in Positions /\ h[j - 1][v] \in Nat /\ h[j][v] \in Nat
    <2>1. j \in Positions
      BY <1>1 DEF Positions
    <2> QED
      BY <2>1, NoteTypes
  <1>3. h[j][v] # 0
    <2>1. CASE j = prog[o].end
      BY <2>1
    <2>2. CASE j # prog[o].end
      <3>1. PICK a \in Nat : a = j + 1 /\ a - 1 = j /\ o <= a /\ a <= prog[o].end
        BY <1>1, <2>2
      <3>2. Rises(h[a - 1][v], h[prog[o].end][v])
        <4>1. PICK e \in Nat : e = prog[o].end
          BY <1>1
        <4>3. o <= a /\ a <= e /\ e <= prog[o].end /\ Opener(o)
          BY <1>1, <3>1, <4>1
        <4>2. Rises(h[a - 1][v], h[e][v])
          BY <4>3, Chain
        <4> QED
          BY <4>1, <4>2
      <3>3. Rises(h[j][v], h[prog[o].end][v])
        BY <3>1, <3>2
      <3> QED
        BY <3>3 DEF Rises
    <2> QED
      BY <2>1, <2>2
  <1>4. InLoop(j) \/ Loop(j)
    <2>1. j # o => LoopAround(o, j)
      BY <1>1, LoopPlaces
    <2> QED
      BY <2>1 DEF InLoop
  <1>5. Charge(prog[j], v, h[j - 1][v], h[j][v])
    BY <1>2, <1>4 DEF History, Charging
  <1> QED
    BY <1>2, <1>3, <1>5 DEF Charge

-----------------------------------------------------------------------------
(* What the statements of a loop have spent.                               *)

LEMMA Apart ==
  \A s, v : Grows(s, v) => ~Indexes(s, v) /\ ~Replaces(s, v)
  BY DEF Grows, Indexes, Replaces, Loops

LEMMA SpentWithin ==
  ASSUME Shape, AllClosed, NEW p, NEW fs, NEW d, NEW rs, FramedAt(fs, p), CountsAt(d, fs, rs, p),
         NEW j \in Positions, NEW v
  PROVE  /\ Spent(j, v, d, rs) \in Nat /\ Contribution(prog[j], v) \in Nat
         /\ Spent(j, v, d, rs) <= Contribution(prog[j], v)
  <1>1. PICK n \in Nat, m \in Nat : n = prog[j].n /\ m = prog[j].mul
    BY Fields DEF AllClosed
  <1>2. PICK a \in Nat, b \in Nat : a = rs[j] /\ b = d[j]
    BY DEF CountsAt
  <1>3. a <= m
    BY <1>1, <1>2 DEF CountsAt, WithinAt
  <1>4. n * a \in Nat /\ n * m \in Nat /\ n * a <= n * m
    BY <1>3, Mul
  <1>5. ASSUME Indexes(prog[j], v)
        PROVE  n * b \in Nat /\ n * (m * n) \in Nat /\ n * b <= n * (m * n)
    <2>1. Loop(j)
      BY <1>5 DEF Indexes, Loop
    <2>2. b <= a * n
      BY <1>1, <1>2, <2>1, Begun DEF Due
    <2>3. PICK c \in Nat, e \in Nat : c = a * n /\ e = m * n
      BY Mul
    <2>4. c <= e
      BY <1>3, <2>3, Mul
    <2>5. b <= e
      BY <2>2, <2>3, <2>4
    <2>6. n * b \in Nat /\ n * e \in Nat /\ n * b <= n * e
      BY <2>5, Mul
    <2> QED
      BY <2>3, <2>6
  <1> QED
    BY <1>1, <1>2, <1>4, <1>5 DEF Spent, Contribution

LEMMA SpentMore ==
  ASSUME Shape, AllClosed, NEW p \in Positions, NEW rs \in [Positions -> Nat], NEW rr, Once(rs, p, rr),
         NEW d \in [Positions -> Nat], NEW L, NEW dd, Over(d, L, dd), NEW j \in Positions, NEW v
  PROVE  /\ Spent(j, v, d, rs) \in Nat /\ Spent(j, v, dd, rr) \in Nat /\ prog[j].n \in Nat
         /\ Spent(j, v, d, rs) <= Spent(j, v, dd, rr)
         /\ j = p /\ Grows(prog[j], v) => Spent(j, v, d, rs) + prog[j].n <= Spent(j, v, dd, rr)
         /\ j = L /\ Indexes(prog[j], v) => Spent(j, v, d, rs) + prog[j].n <= Spent(j, v, dd, rr)
  <1>1. PICK n \in Nat : n = prog[j].n
    BY Fields DEF AllClosed
  <1>2. PICK a \in Nat, b \in Nat : a = rs[j] /\ b = d[j]
    OBVIOUS
  <1>3. PICK aa \in Nat, bb \in Nat : aa = rr[j] /\ bb = dd[j]
    BY DueOnce DEF Over
  <1>4. aa = (IF j = p THEN a + 1 ELSE a) /\ bb = (IF j = L THEN b + 1 ELSE b)
    BY <1>2, <1>3, DueOnce DEF Over
  <1>5. \A x \in Nat : n * x \in Nat /\ n * (x + 1) = n * x + n
    BY Mul
  <1>6. ~(Grows(prog[j], v) /\ Indexes(prog[j], v))
    BY Apart
  <1>7. n * a \in Nat /\ n * b \in Nat /\ n * aa = (IF j = p THEN n * a + n ELSE n * a)
        /\ n * bb = (IF j = L THEN n * b + n ELSE n * b)
    BY <1>4, <1>5
  <1>8. PICK x \in Nat, y \in Nat, xx \in Nat, yy \in Nat :
          x = n * a /\ y = n * b /\ xx = n * aa /\ yy = n * bb
    BY <1>5
  <1>9. /\ Spent(j, v, d, rs) = IF Grows(prog[j], v) THEN x ELSE IF Indexes(prog[j], v) THEN y ELSE 0
        /\ Spent(j, v, dd, rr) = IF Grows(prog[j], v) THEN xx ELSE IF Indexes(prog[j], v) THEN yy ELSE 0
    BY <1>1, <1>2, <1>3, <1>8 DEF Spent
  <1>10. x <= xx /\ y <= yy /\ (j = p => x + n <= xx) /\ (j = L => y + n <= yy)
    BY <1>7, <1>8
  <1> QED
    BY <1>1, <1>6, <1>9, <1>10

\* Where a loop may end, all it has added is within what is noted there.
LEMMA Region ==
  ASSUME Shape, AllClosed, NEW h, History(h), NEW p, NEW fs, NEW d, NEW rs,
         FramedAt(fs, p), CountsAt(d, fs, rs, p), NEW o \in Positions, Loop(o), NEW v \in scope,
         h[prog[o].end][v] # 0, NEW y \in Nat, Reached(h, d, rs, o, v, y)
  PROVE  y <= h[prog[o].end][v]
  <1>1. PICK g \in [Nat -> Nat] :
          /\ g[o - 1] <= h[o - 1][v] /\ y <= g[prog[o].end]
          /\ \A j \in o..prog[o].end : g[j] <= g[j - 1] + Spent(j, v, d, rs)
    BY DEF Reached
  <1>2. PICK e \in Nat : e = prog[o].end /\ o < e /\ o \in Nat \ {0}
    BY LoopPlaces
  <1>3. ASSUME NEW j \in o..e, g[j - 1] <= h[j - 1][v]
        PROVE  g[j] <= h[j][v]
    <2>1. /\ j \in Positions /\ h[j - 1][v] \in Nat /\ h[j][v] \in Nat
          /\ h[j - 1][v] + Contribution(prog[j], v) <= h[j][v]
      BY <1>2, KnownAlong
    <2>2. /\ Spent(j, v, d, rs) \in Nat /\ Contribution(prog[j], v) \in Nat
          /\ Spent(j, v, d, rs) <= Contribution(prog[j], v)
      BY <2>1, SpentWithin
    <2>3. g[j] <= g[j - 1] + Spent(j, v, d, rs) /\ g[j] \in Nat /\ g[j - 1] \in Nat
      BY <1>1, <1>2
    <2> QED
      BY <1>3, <2>1, <2>2, <2>3
  <1> DEFINE S == {k \in Nat : o + k <= e => g[o + k] <= h[o + k][v]}
  <1>4. 0 \in S
    <2>1. o \in o..e /\ o + 0 = o
      BY <1>2
    <2>2. g[o] <= h[o][v]
      BY <1>1, <1>3, <2>1
    <2> QED
      BY <2>1, <2>2
  <1>5. ASSUME NEW k \in Nat, k \in S
        PROVE  k + 1 \in S
    <2>1. SUFFICES ASSUME o + (k + 1) <= e
                   PROVE  g[o + (k + 1)] <= h[o + (k + 1)][v]
      OBVIOUS
    <2>2. PICK j \in o..e : j = o + (k + 1) /\ j - 1 = o + k
      BY <1>2, <2>1
    <2>3. g[j - 1] <= h[j - 1][v]
      BY <1>2, <1>5, <2>1, <2>2
    <2>4. g[j] <= h[j][v]
      BY <1>3, <2>3
    <2> QED
      BY <2>2, <2>4
  <1>6. \A k \in Nat : k \in S
    <2> HIDE DEF S
    <2> QED
      BY <1>4, <1>5, NatInduct
  <1>7. PICK k \in Nat : e = o + k
    <2>1. e - o \in Nat /\ e = o + (e - o)
      BY <1>2
    <2> QED
      BY <2>1
  <1>8. g[e] <= h[e][v]
    <2>1. k \in S
      BY <1>6
    <2> QED
      BY <1>2, <1>7, <2>1
  <1>9. h[e][v] \in Nat /\ g[e] \in Nat /\ y <= g[e]
    <2>1. e \in Positions
      BY <1>2, LoopPlaces
    <2> QED
      BY <1>1, <1>2, <2>1, NoteTypes
  <1> QED
    BY <1>2, <1>8, <1>9

\* One statement of the loop spends k more.
LEMMA Further ==
  ASSUME Shape, AllClosed, NEW h, NEW o \in Positions, Loop(o), NEW v,
         NEW d, NEW rs, NEW dd, NEW rr, NEW y \in Nat, Reached(h, d, rs, o, v, y),
         NEW k \in Nat, NEW z \in Nat, z <= y + k, NEW j0 \in o..prog[o].end,
         \A j \in o..prog[o].end :
           /\ Spent(j, v, d, rs) \in Nat /\ Spent(j, v, dd, rr) \in Nat
           /\ Spent(j, v, d, rs) <= Spent(j, v, dd, rr),
         Spent(j0, v, d, rs) + k <= Spent(j0, v, dd, rr)
  PROVE  Reached(h, dd, rr, o, v, z)
  <1>1. PICK g \in [Nat -> Nat] :
          /\ g[o - 1] <= h[o - 1][v] /\ y <= g[prog[o].end]
          /\ \A j \in o..prog[o].end : g[j] <= g[j - 1] + Spent(j, v, d, rs)
    BY DEF Reached
  <1>2. PICK e \in Nat : e = prog[o].end /\ o < e /\ o \in Nat \ {0} /\ j0 \in o..e /\ j0 \in Nat
    <2>1. PICK e \in Nat : e = prog[o].end /\ o < e /\ o \in Nat \ {0}
      BY LoopPlaces
    <2>2. j0 \in o..e
      BY <2>1
    <2> QED
      BY <2>1, <2>2
  <1>3. PICK f : f = [j \in Nat |-> IF j0 <= j THEN g[j] + k ELSE g[j]]
    OBVIOUS
  <1>4. f \in [Nat -> Nat] /\ \A j \in Nat : f[j] = IF j0 <= j THEN g[j] + k ELSE g[j]
    BY <1>3
  <1>5. f[o - 1] = g[o - 1]
    BY <1>2, <1>4
  <1>6. f[e] = g[e] + k /\ g[e] \in Nat
    BY <1>2, <1>4
  <1>7. ASSUME NEW j \in o..e
        PROVE  f[j] <= f[j - 1] + Spent(j, v, dd, rr)
    <2>1. PICK s \in Nat, t \in Nat : s = Spent(j, v, d, rs) /\ t = Spent(j, v, dd, rr) /\ s <= t
      BY <1>2
    <2>2. j = j0 => s + k <= t
      BY <2>1
    <2>3. g[j] <= g[j - 1] + s /\ g[j] \in Nat /\ g[j - 1] \in Nat /\ j \in Nat /\ j - 1 \in Nat
      BY <1>1, <1>2, <2>1
    <2>4. f[j] = (IF j0 <= j THEN g[j] + k ELSE g[j])
          /\ f[j - 1] = (IF j0 <= j - 1 THEN g[j - 1] + k ELSE g[j - 1])
      BY <1>4, <2>3
    <2>5. f[j] <= f[j - 1] + t
      <3>1. CASE j < j0
        BY <1>2, <2>1, <2>3, <2>4, <3>1
      <3>2. CASE j = j0
        BY <1>2, <2>1, <2>2, <2>3, <2>4, <3>2
      <3>3. CASE j0 < j
        BY <1>2, <2>1, <2>3, <2>4, <3>3
      <3> QED
        BY <1>2, <2>3, <3>1, <3>2, <3>3
    <2> QED
      BY <2>1, <2>5
  <1>8. z <= f[e]
    BY <1>1, <1>2, <1>6
  <1> QED
    BY <1>1, <1>2, <1>4, <1>5, <1>7, <1>8 DEF Reached

-----------------------------------------------------------------------------
(* The values, a step further.                                             *)

\* What a statement of a loop may make of a variable.
Drawn(p, L, v, x, y) ==
  \/ Replaces(prog[p], v)
  \/ y <= x
  \/ Grows(prog[p], v) /\ y <= x + prog[p].n
  \/ L \in Positions /\ LoopAround(L, p) /\ Indexes(prog[L], v) /\ y <= x + prog[L].n

LEMMA InnerGrowth ==
  ASSUME Shape, AllClosed, NEW h, History(h), NEW p \in Positions, InLoop(p),
         NEW d, NEW fs, NEW rs, CountsAt(d, fs, rs, p), NEW rr, Once(rs, p, rr),
         NEW L, NEW dd, Over(d, L, dd), NEW x \in [scope -> Nat], NEW y \in [scope -> Nat],
         GrownAt(h, d, rs, p, x), NEW q, \A o \in Positions : Outer(o, q) => Outer(o, p),
         \A v \in scope : Drawn(p, L, v, x[v], y[v])
  PROVE  GrownAt(h, dd, rr, q, y)
  <1>1. SUFFICES ASSUME NEW o \in Positions, NEW v \in scope, Outer(o, q), h[prog[o].end][v] # 0
                 PROVE  Reached(h, dd, rr, o, v, y[v])
    BY DEF GrownAt
  <1>2. LoopAround(o, p) /\ \A m \in Positions : LoopAround(m, p) => o <= m
    BY <1>1 DEF Outer
  <1>3. Reached(h, d, rs, o, v, x[v])
    BY <1>1 DEF GrownAt
  <1>4. PICK a \in Nat, b \in Nat : a = x[v] /\ b = y[v]
    OBVIOUS
  <1>5. PICK e \in Nat : e = prog[o].end /\ o < e /\ o \in Nat \ {0} /\ o < p /\ p <= e /\ Loop(o)
                         /\ e <= Len(prog)
    BY <1>2, LoopPlaces
  <1>6. p \in o..e /\ o \in o..e /\ \A j \in o..e : j \in Positions
    BY <1>5 DEF Positions, AllClosed
  <1>7. d \in [Positions -> Nat] /\ rs \in [Positions -> Nat]
    BY DEF CountsAt
  <1>8. ASSUME NEW j \in o..e
        PROVE  /\ Spent(j, v, d, rs) \in Nat /\ Spent(j, v, dd, rr) \in Nat /\ prog[j].n \in Nat
               /\ Spent(j, v, d, rs) <= Spent(j, v, dd, rr)
               /\ j = p /\ Grows(prog[j], v) => Spent(j, v, d, rs) + prog[j].n <= Spent(j, v, dd, rr)
               /\ j = L /\ Indexes(prog[j], v) => Spent(j, v, d, rs) + prog[j].n <= Spent(j, v, dd, rr)
    <2>1. j \in Positions
      BY <1>6
    <2> QED
      BY <1>7, <2>1, SpentMore
  <1>9. ASSUME NEW k \in Nat, NEW j0 \in o..e, b <= a + k,
               Spent(j0, v, d, rs) + k <= Spent(j0, v, dd, rr)
        PROVE  Reached(h, dd, rr, o, v, b)
    <2>1. \A j \in o..prog[o].end :
            /\ Spent(j, v, d, rs) \in Nat /\ Spent(j, v, dd, rr) \in Nat
            /\ Spent(j, v, d, rs) <= Spent(j, v, dd, rr)
      BY <1>5, <1>8
    <2>2. j0 \in o..prog[o].end /\ Loop(o) /\ Reached(h, d, rs, o, v, a)
      BY <1>3, <1>4, <1>5
    <2> QED
      BY <1>9, <2>1, <2>2, Further
  <1>10. CASE Replaces(prog[p], v)
    <2>1. p \in o..prog[o].end
      BY <1>5, <1>6
    <2> QED
      BY <1>1, <1>5, <1>10, <2>1, KnownAlong
  <1>11. CASE y[v] <= x[v]
    <2>1. b <= a + 0 /\ Spent(o, v, d, rs) + 0 <= Spent(o, v, dd, rr)
      BY <1>4, <1>6, <1>8, <1>11
    <2> QED
      BY <1>4, <1>6, <1>9, <2>1
  <1>12. CASE Grows(prog[p], v) /\ y[v] <= x[v] + prog[p].n
    <2>1. PICK k \in Nat : k = prog[p].n
      BY <1>6, <1>8
    <2>2. b <= a + k /\ Spent(p, v, d, rs) + k <= Spent(p, v, dd, rr)
      BY <1>4, <1>6, <1>8, <1>12, <2>1
    <2> QED
      BY <1>4, <1>6, <1>9, <2>2
  <1>13. CASE L \in Positions /\ LoopAround(L, p) /\ Indexes(prog[L], v) /\ y[v] <= x[v] + prog[L].n
    <2>1. L \in o..e
      <3>1. o <= L /\ L < p /\ L \in Nat
        BY <1>2, <1>13, LoopPlaces
      <3>2. L <= e
        BY <1>5, <1>6, <3>1
      <3> QED
        BY <1>5, <3>1, <3>2
    <2>2. PICK k \in Nat : k = prog[L].n
      BY <1>8, <2>1
    <2>3. b <= a + k /\ Spent(L, v, d, rs) + k <= Spent(L, v, dd, rr)
      BY <1>4, <1>8, <1>13, <2>1, <2>2
    <2> QED
      BY <1>4, <1>9, <2>1, <2>3
  <1> QED
    BY <1>10, <1>11, <1>12, <1>13 DEF Drawn

\* A loop is entered from outside.
LEMMA Reaching ==
  ASSUME Shape, AllClosed, NEW h, History(h), NEW p \in Positions, Loop(p), ~InLoop(p),
         NEW d, NEW rs, \A j \in Positions : \A v : Spent(j, v, d, rs) \in Nat,
         NEW x \in [scope -> Nat], KnownAt(h, p, x), NEW q, \A l : LoopAround(l, q) <=> l = p
  PROVE  GrownAt(h, d, rs, q, x)
  <1>1. SUFFICES ASSUME NEW o \in Positions, NEW v \in scope, Outer(o, q), h[prog[o].end][v] # 0
                 PROVE  Reached(h, d, rs, o, v, x[v])
    BY DEF GrownAt
  <1>2. o = p
    BY <1>1 DEF Outer
  <1>3. PICK e \in Nat : e = prog[o].end /\ o < e /\ o \in Nat \ {0} /\ e <= Len(prog) /\ Opener(o)
    BY <1>2, LoopPlaces
  <1>4. h[o - 1][v] # 0
    <2>1. o <= o /\ o <= e /\ e <= prog[o].end /\ o \in Nat
      BY <1>3
    <2>2. Rises(h[o - 1][v], h[e][v])
      BY <1>3, <2>1, Chain
    <2> QED
      BY <1>1, <1>3, <2>2 DEF Rises
  <1>5. x[v] <= h[o - 1][v]
    BY <1>2, <1>4 DEF KnownAt
  <1>6. PICK a \in Nat : a = x[v]
    OBVIOUS
  <1>7. PICK g : g = [j \in Nat |-> a]
    OBVIOUS
  <1>8. g \in [Nat -> Nat] /\ \A j \in Nat : g[j] = a
    BY <1>7
  <1>9. g[o - 1] = a /\ g[e] = a
    BY <1>3, <1>8
  <1>10. ASSUME NEW j \in o..e
         PROVE  g[j] <= g[j - 1] + Spent(j, v, d, rs)
    <2>1. j \in Positions /\ j \in Nat /\ j - 1 \in Nat
      BY <1>3 DEF Positions, AllClosed
    <2>2. Spent(j, v, d, rs) \in Nat /\ g[j] = a /\ g[j - 1] = a
      BY <1>8, <2>1
    <2> QED
      BY <2>2
  <1> QED
    BY <1>3, <1>5, <1>6, <1>8, <1>9, <1>10 DEF Reached

-----------------------------------------------------------------------------
(* Steps in the same loops.                                                *)

LEMMA Go ==
  ASSUME Shape, AllClosed, NEW h, History(h), NEW p \in Positions, NEW d, NEW fs, NEW rs, NEW x,
         RunAt(h, d, p, fs, rs, x), NEW rr, Once(rs, p, rr),
         NEW q \in Nat, p < q, q <= Len(prog) + 1, \A l : LoopAround(l, q) <=> LoopAround(l, p),
         NEW y \in [scope -> Nat],
         InLoop(p) => \A v \in scope : Drawn(p, 0, v, x[v], y[v]),
         ~InLoop(p) => \A v \in scope : h[q - 1][v] = 0 \/ y[v] <= h[q - 1][v]
  PROVE  RunAt(h, d, q, fs, rr, y)
  <1>1. /\ x \in [scope -> Nat] /\ FramedAt(fs, p) /\ CountsAt(d, fs, rs, p)
        /\ KnownAt(h, p, x) /\ GrownAt(h, d, rs, p, x)
    BY DEF RunAt
  <1>2. FramedAt(fs, q) /\ CountsAt(d, fs, rr, q)
    BY <1>1, Onward
  <1>3. InLoop(q) <=> InLoop(p)
    BY DEF InLoop
  <1>4. \A o \in Positions : Outer(o, q) => Outer(o, p)
    BY DEF Outer
  <1>5. KnownAt(h, q, y)
    BY <1>3 DEF KnownAt
  <1>6. GrownAt(h, d, rr, q, y)
    <2>1. CASE ~InLoop(p)
      BY <1>3, <2>1 DEF GrownAt, Outer, InLoop
    <2>2. CASE InLoop(p)
      <3>1. Over(d, 0, d)
        BY <1>1 DEF Over, CountsAt, Positions
      <3> QED
        BY <1>1, <1>4, <2>2, <3>1, InnerGrowth
    <2> QED
      BY <2>1, <2>2
  <1>7. q \in 1..(Len(prog) + 1)
    BY DEF Positions, AllClosed
  <1> QED
    BY <1>2, <1>5, <1>6, <1>7 DEF RunAt

\* The next statement is in the same loops, unless one opens or closes.
LEMMA Straight ==
  ASSUME Shape, AllClosed, NEW p \in Positions, ~Loop(p), prog[p].op = "close" => ~Loop(prog[p].n)
  PROVE  /\ p + 1 \in Nat /\ p < p + 1 /\ p + 1 <= Len(prog) + 1
         /\ \A l : LoopAround(l, p + 1) <=> LoopAround(l, p)
  <1>1. p \in Nat /\ Len(prog) \in Nat /\ p <= Len(prog)
    BY DEF Positions, AllClosed
  <1>2. ASSUME NEW l \in Positions, Loop(l)
        PROVE  LoopAround(l, p + 1) <=> LoopAround(l, p)
    <2>1. PICK e \in Nat : e = prog[l].end /\ l \in Nat /\ Opener(l)
      BY <1>2, LoopPlaces
    <2>2. p # e /\ p # l
      BY <1>2, <2>1 DEF AllClosed
    <2>3. LoopAround(l, p + 1) <=> l < p + 1 /\ p + 1 <= e
      BY <1>2, <2>1, LoopPlaces
    <2>4. LoopAround(l, p) <=> l < p /\ p <= e
      BY <1>2, <2>1, LoopPlaces
    <2> QED
      BY <1>1, <2>1, <2>2, <2>3, <2>4
  <1>3. \A l : LoopAround(l, p + 1) <=> LoopAround(l, p)
    BY <1>2 DEF LoopAround
  <1> QED
    BY <1>1, <1>3

\* After the close of a body stands what is in the loops around it.
LEMMA Past ==
  ASSUME Shape, AllClosed, NEW p \in Positions, Opener(p), NEW q, q = prog[p].end + 1
  PROVE  /\ q \in Nat /\ p < q /\ q <= Len(prog) + 1 /\ q - 1 = prog[p].end
         /\ \A l : LoopAround(l, q) <=> LoopAround(l, p)
  <1>1. /\ p \in Nat /\ Len(prog) \in Nat /\ p <= Len(prog) /\ prog[p].end \in Positions
        /\ p < prog[p].end
    BY DEF Positions, AllClosed
  <1>2. PICK f \in Nat : f = prog[p].end /\ f <= Len(prog) /\ p < f /\ q = f + 1
    BY <1>1 DEF Positions
  <1>3. ASSUME NEW l \in Positions, Loop(l)
        PROVE  LoopAround(l, q) <=> LoopAround(l, p)
    <2>1. PICK e \in Nat : e = prog[l].end /\ l \in Nat /\ Opener(l) /\ l < e
      BY <1>3, LoopPlaces
    <2>2. LoopAround(l, q) <=> l < q /\ q <= e
      BY <1>3, <2>1, LoopPlaces
    <2>3. LoopAround(l, p) <=> l < p /\ p <= e
      BY <1>3, <2>1, LoopPlaces
    <2>4. LoopAround(l, p) => f < e
      BY <1>2, <2>1, LoopPlaces
    <2>5. l # f
      <3>1. prog[f].op = "close"
        BY <1>2 DEF AllClosed
      <3>2. prog[l].op # "close"
        BY <1>3 DEF Loop, Loops
      <3> QED
        BY <3>1, <3>2
    <2>6. Around(p, l) => e < f
      <3>1. prog[p].end # 0
        <4>1. p < f /\ f # 0
          BY <1>1, <1>2
        <4> QED
          BY <1>2, <4>1
      <3> QED
        BY <1>2, <2>1, <3>1 DEF Shape, Nested
    <2>7. p < l /\ l <= f => Around(p, l)
      BY <1>2 DEF AllClosed
    <2>8. l = p => e = f
      BY <1>2, <2>1
    <2> QED
      BY <1>1, <1>2, <2>1, <2>2, <2>3, <2>4, <2>5, <2>6, <2>7, <2>8
  <1>4. \A l : LoopAround(l, q) <=> LoopAround(l, p)
    BY <1>3 DEF LoopAround
  <1> QED
    BY <1>1, <1>2, <1>4

-----------------------------------------------------------------------------
(* The program that runs is the one that was written.                      *)

LEMMA Unmoved ==
  ASSUME emitting' = emitting
  PROVE  /\ prog' = prog /\ bound' = bound /\ open' = open /\ frozen' = frozen /\ tagged' = tagged
         /\ Shape => Shape'
         /\ Opened => Opened'
         /\ Bounds => Bounds'
         /\ \A h : History(h) => History(h)'
  <1>1. prog' = prog /\ bound' = bound /\ open' = open /\ frozen' = frozen /\ tagged' = tagged
    BY DEF emitting
  <1>2. /\ Positions' = Positions /\ scope' = scope
        /\ \A i : (Loop(i)' <=> Loop(i)) /\ (Opener(i)' <=> Opener(i))
    BY <1>1 DEF Positions, scope, Loop, Opener
  <1>3. \A b, i : Around(b, i)' <=> Around(b, i)
    BY <1>1, <1>2 DEF Around
  <1>4. \A l, i : LoopAround(l, i)' <=> LoopAround(l, i)
    BY <1>2, <1>3 DEF LoopAround
  <1>5. \A i : (InLoop(i)' <=> InLoop(i)) /\ (InCond(i)' <=> InCond(i))
    BY <1>2, <1>3, <1>4 DEF InLoop, InCond
  <1>6. \A l, i : Inner(l, i)' <=> Inner(l, i)
    BY <1>2, <1>4 DEF Inner
  <1>7. Shape => Shape'
    BY <1>1, <1>2, <1>3, <1>4, <1>5, <1>6
       DEF Shape, IsText, Ends, Closes, Nested, Trips, Alone, Charged, Jumps
  <1>8. Opened => Opened'
    BY <1>1, <1>2 DEF Opened, Heads, Inward, AllOpen
  <1>9. Bounds => Bounds'
    <2>1. Named => Named'
      BY <1>1, <1>2 DEF Named, InScope
    <2>2. loopDepth' = loopDepth
      BY <1>1 DEF loopDepth
    <2> QED
      BY <1>1, <1>2, <2>1, <2>2 DEF Bounds
  <1>10. ASSUME NEW h
         PROVE  History(h) => History(h)'
    <2>1. Notes' = Notes
      BY <1>1, <1>2 DEF Notes
    <2>2. Raising(h) => Raising(h)'
      BY <1>1, <1>2, <1>5 DEF Raising
    <2>3. Charging(h) => Charging(h)'
      BY <1>1, <1>2, <1>5 DEF Charging
    <2>4. Covering(h) => Covering(h)'
      BY <1>1, <1>2, <1>5 DEF Covering
    <2>5. Priced(h) => Priced(h)'
      BY <1>1, <1>2, <1>5 DEF Priced
    <2>6. Held(h) => Held(h)'
      BY <1>1, <1>2, <1>4 DEF Held
    <2>7. Narrow(h) => Narrow(h)'
      BY <1>1, <1>2 DEF Narrow
    <2> QED
      BY <1>1, <2>1, <2>2, <2>3, <2>4, <2>5, <2>6, <2>7 DEF History
  <1> QED
    BY <1>1, <1>7, <1>8, <1>9, <1>10

LEMMA Carry ==
  ASSUME Shape, Opened, Bounds, open = <<>>, NEW h, History(h), emitting' = emitting,
         phase' \in {"run", "done"}, phase' = "done" => pc' = Len(prog) + 1,
         NEW d, RunAt(h, d, pc', frames', runs', val')
  PROVE  GrowthInv'
  <1>1. Shape' /\ Opened' /\ Bounds' /\ History(h)' /\ open' = <<>> /\ prog' = prog /\ bound' = bound
    BY Unmoved
  <1>2. PICK p, fs, rs, x : p = pc' /\ fs = frames' /\ rs = runs' /\ x = val'
    OBVIOUS
  <1>3. RunAt(h, d, p, fs, rs, x)
    BY <1>2
  <1>4. /\ Positions' = Positions /\ scope' = scope
        /\ \A i : (Loop(i)' <=> Loop(i)) /\ (Opener(i)' <=> Opener(i))
    BY <1>1 DEF Positions, scope, Loop, Opener
  <1>5. \A b, i : Around(b, i)' <=> Around(b, i)
    BY <1>1, <1>4 DEF Around
  <1>6. \A l, i : LoopAround(l, i)' <=> LoopAround(l, i)
    BY <1>4, <1>5 DEF LoopAround
  <1>7. \A i : InLoop(i)' <=> InLoop(i)
    BY <1>4, <1>6 DEF InLoop
  <1>8. \A l, i : (Inner(l, i)' <=> Inner(l, i)) /\ (Outer(l, i)' <=> Outer(l, i))
    BY <1>4, <1>6 DEF Inner, Outer
  <1>9. FramedAt(fs, p)'
    BY <1>1, <1>3, <1>4, <1>6 DEF RunAt, FramedAt
  <1>10. CountsAt(d, fs, rs, p)'
    <2>1. \A l : Due(l, rs)' = Due(l, rs)
      BY <1>1 DEF Due
    <2>2. PassedAt(d, fs, rs, p)'
      BY <1>1, <1>3, <1>4, <1>6, <2>1 DEF RunAt, CountsAt, PassedAt
    <2>3. ExecutionsAt(d, rs, p)'
      BY <1>1, <1>3, <1>4, <1>6, <1>7, <1>8 DEF RunAt, CountsAt, ExecutionsAt
    <2>4. WithinAt(rs)'
      BY <1>1, <1>3, <1>4 DEF RunAt, CountsAt, WithinAt
    <2> QED
      BY <1>3, <1>4, <2>2, <2>3, <2>4 DEF RunAt, CountsAt
  <1>11. KnownAt(h, p, x)'
    BY <1>3, <1>4, <1>7 DEF RunAt, KnownAt
  <1>12. GrownAt(h, d, rs, p, x)'
    <2>1. \A j, v : Spent(j, v, d, rs)' = Spent(j, v, d, rs)
      BY <1>1 DEF Spent
    <2>2. \A o, v, y : Reached(h, d, rs, o, v, y) => Reached(h, d, rs, o, v, y)'
      BY <1>1, <2>1 DEF Reached
    <2> QED
      BY <1>1, <1>3, <1>4, <1>8, <2>2 DEF RunAt, GrownAt
  <1>13. RunAt(h, d, p, fs, rs, x)'
    BY <1>1, <1>3, <1>4, <1>9, <1>10, <1>11, <1>12 DEF RunAt
  <1>14. Run(h, d)'
    BY <1>1, <1>2, <1>13 DEF Run
  <1>15. phase' = "done" => pc' = Len(prog') + 1
    BY <1>1
  <1> QED
    BY <1>1, <1>14, <1>15 DEF GrowthInv

\* What holds while a program runs.
LEMMA Running ==
  ASSUME GrowthInv, phase # "emit"
  PROVE  /\ Shape /\ Opened /\ Bounds /\ open = <<>> /\ AllClosed /\ ~InLoop(Len(prog) + 1)
         /\ phase \in {"run", "done"} /\ (phase = "done" => pc = Len(prog) + 1)
         /\ \E h, d : History(h) /\ RunAt(h, d, pc, frames, runs, val)
  <1>1. /\ Shape /\ Opened /\ Bounds /\ phase \in {"run", "done"}
        /\ phase = "done" => pc = Len(prog) + 1
        /\ \E h, d : History(h) /\ Run(h, d)
    BY DEF GrowthInv
  <1>2. /\ open = <<>>
        /\ \E h, d : History(h) /\ RunAt(h, d, pc, frames, runs, val)
    BY <1>1 DEF Run
  <1> QED
    BY <1>1, <1>2, ClosedText

-----------------------------------------------------------------------------
(* The actions of the run.                                                 *)

\* A step that goes on with the next statement.
LEMMA NextStatement ==
  ASSUME GrowthInv, phase = "run", pc \in Positions, Executed(pc + 1), frames' = frames,
         ~Loop(pc), It.op = "close" => ~Loop(It.n), val' \in [scope -> Nat],
         InLoop(pc) => \A v \in scope : Drawn(pc, 0, v, val[v], val'[v]),
         \A h : History(h) /\ ~InLoop(pc) /\ KnownAt(h, pc, val) =>
                  \A v \in scope : h[pc][v] = 0 \/ val'[v] <= h[pc][v]
  PROVE  GrowthInv'
  <1>1. PICK h, d : History(h) /\ RunAt(h, d, pc, frames, runs, val)
    BY Running
  <1>2. Shape /\ Opened /\ Bounds /\ open = <<>> /\ AllClosed
    BY Running
  <1>3. PICK p \in Positions : p = pc
    OBVIOUS
  <1>4. pc' = p + 1 /\ phase' = "run" /\ emitting' = emitting /\ Once(runs, p, runs')
    BY <1>3 DEF Executed, Once
  <1>5. /\ p + 1 \in Nat /\ p < p + 1 /\ p + 1 <= Len(prog) + 1
        /\ \A l : LoopAround(l, p + 1) <=> LoopAround(l, p)
    <2>1. ~Loop(p) /\ (prog[p].op = "close" => ~Loop(prog[p].n))
      BY <1>3 DEF It
    <2> QED
      BY <1>2, <2>1, Straight
  <1>6. RunAt(h, d, p, frames, runs, val)
    BY <1>1, <1>3
  <1>7. ~InLoop(p) => \A v \in scope : h[p][v] = 0 \/ val'[v] <= h[p][v]
    BY <1>1, <1>3 DEF RunAt
  <1>8. (p + 1) - 1 = p
    BY <1>5 DEF Positions
  <1>9. PICK q \in Nat : q = p + 1
    BY <1>5
  <1>10. RunAt(h, d, q, frames, runs', val')
    <2>1. ~InLoop(p) => \A v \in scope : h[q - 1][v] = 0 \/ val'[v] <= h[q - 1][v]
      BY <1>7, <1>8, <1>9
    <2>2. InLoop(p) => \A v \in scope : Drawn(p, 0, v, val[v], val'[v])
      BY <1>3
    <2>3. p < q /\ q <= Len(prog) + 1 /\ \A l : LoopAround(l, q) <=> LoopAround(l, p)
      BY <1>5, <1>9
    <2> QED
      BY <1>1, <1>2, <1>4, <1>6, <2>1, <2>2, <2>3, Go
  <1>11. RunAt(h, d, pc', frames', runs', val')
    BY <1>4, <1>9, <1>10
  <1> QED
    BY <1>1, <1>2, <1>4, <1>11, Carry

\* Outside loops, a value that is computed is covered by the next note.
LEMMA Covered ==
  ASSUME AllClosed, NEW h, History(h), NEW p \in Positions, ~InLoop(p), ~Opener(p),
         NEW x \in [scope -> Nat], KnownAt(h, p, x), NEW v \in scope, h[p][v] # 0
  PROVE  /\ Computes(prog[p], v, h[p - 1], h[p][v])
         /\ \A w \in scope : h[p - 1][w] # 0 => x[w] <= h[p - 1][w]
         /\ \A w \in scope : h[p - 1][w] \in Nat /\ x[w] \in Nat
         /\ \A w \in scope : Rises(h[p - 1][w], h[p][v]) => x[w] <= h[p][v]
  <1>1. Computes(prog[p], v, h[p - 1], h[p][v])
    BY DEF History, Covering
  <1>2. \A w \in scope : h[p - 1][w] # 0 => x[w] <= h[p - 1][w]
    BY DEF KnownAt
  <1>3. \A w \in scope : h[p - 1][w] \in Nat /\ x[w] \in Nat /\ h[p][v] \in Nat
    BY NoteTypes
  <1>4. \A w \in scope : Rises(h[p - 1][w], h[p][v]) => x[w] <= h[p][v]
    BY <1>2, <1>3 DEF Rises
  <1> QED
    BY <1>1, <1>2, <1>3, <1>4

\* A step that leaves all values alone.
LEMMA QuietStep ==
  ASSUME GrowthInv, phase = "run", pc \in Positions, Executed(pc + 1), frames' = frames,
         It.op \in {"fold", "close"}, It.op = "close" => ~Loop(It.n), val' = val
  PROVE  GrowthInv'
  <1>1. PICK p \in Positions : p = pc /\ It = prog[p]
    BY DEF It
  <1>2. ~Loop(p) /\ ~Opener(p)
    BY <1>1 DEF Loop, Opener, Openers, Loops
  <1>3. val \in [scope -> Nat]
    BY Running DEF RunAt
  <1>4. \A v \in scope : Drawn(p, 0, v, val[v], val'[v])
    BY <1>3 DEF Drawn
  <1>5. ASSUME NEW h, History(h), ~InLoop(p), KnownAt(h, p, val), NEW v \in scope, h[p][v] # 0
        PROVE  val'[v] <= h[p][v]
    <2>1. AllClosed
      BY Running
    <2>2. /\ Computes(prog[p], v, h[p - 1], h[p][v])
          /\ \A w \in scope : Rises(h[p - 1][w], h[p][v]) => val[w] <= h[p][v]
      BY <1>2, <1>3, <1>5, <2>1, Covered
    <2>3. ~Replaces(prog[p], v)
      BY <1>1 DEF Replaces
    <2> QED
      BY <2>2, <2>3 DEF Computes
  <1> QED
    BY <1>1, <1>2, <1>3, <1>4, <1>5, NextStatement

LEMMA RunFoldStep ==
  ASSUME GrowthInv, RunFold
  PROVE  GrowthInv'
  <1>1. pc \in Positions
    <2>1. phase = "run" /\ pc <= Len(prog)
      BY DEF RunFold, At
    <2>2. pc \in 1..(Len(prog) + 1) /\ Len(prog) \in Nat
      BY <2>1, Running DEF RunAt, AllClosed
    <2> QED
      BY <2>1, <2>2 DEF Positions
  <1> QED
    BY <1>1, QuietStep DEF RunFold, At

LEMMA Here ==
  ASSUME GrowthInv, phase = "run", pc <= Len(prog)
  PROVE  /\ pc \in Positions /\ It = prog[pc] /\ It \in Stmt /\ InScope(It) /\ val \in [scope -> Nat]
         /\ none \notin scope
  <1>1. /\ pc \in 1..(Len(prog) + 1) /\ Len(prog) \in Nat /\ val \in [scope -> Nat]
        /\ Bounds /\ AllClosed
    BY Running DEF RunAt, AllClosed
  <1>2. pc \in Positions
    BY <1>1 DEF Positions
  <1>3. none \notin scope
    BY <1>1, Values DEF Bounds
  <1> QED
    BY <1>1, <1>2, <1>3 DEF It, AllClosed, Bounds, Named

LEMMA CappedBelow ==
  \A n \in Nat : Capped(n) \in Nat /\ Capped(n) <= n
  BY Values DEF Capped

\* The value n that a statement s writes to v, from the values x.
Written(s, v, x, n) ==
  /\ s.to = v /\ v \in scope /\ n \in Nat
  /\ \/ s.op = "set" /\ n = (IF s.from = none THEN 0 ELSE x[s.from]) + s.n
     \/ s.op \in {"grow", "append"} /\ n = x[v] + s.n
     \/ s.op = "add" /\ s.from \in scope /\ n = x[v] + x[s.from]
     \/ s.op = "square" /\ s.from \in scope /\ n = x[s.from] * x[s.from]
     \/ s.op = "untracked"

\* A write is covered by what is noted after it.
LEMMA WriteCovered ==
  ASSUME AllClosed, NEW h, History(h), NEW p \in Positions, ~InLoop(p), ~Opener(p),
         NEW x \in [scope -> Nat], KnownAt(h, p, x), InScope(prog[p]), none \notin scope,
         NEW v, NEW n, Written(prog[p], v, x, n), h[p][v] # 0
  PROVE  n <= h[p][v]
  <1>1. v \in scope /\ prog[p].to = v /\ n \in Nat
    BY DEF Written
  <1>2. /\ Computes(prog[p], v, h[p - 1], h[p][v])
        /\ \A w \in scope : h[p - 1][w] # 0 => x[w] <= h[p - 1][w]
        /\ \A w \in scope : h[p - 1][w] \in Nat /\ x[w] \in Nat
    BY <1>1, Covered
  <1>3. h[p][v] \in Nat /\ prog[p].n \in Nat
    BY <1>1, NoteTypes, Fields DEF AllClosed
  <1>4. CASE prog[p].op = "set" /\ n = (IF prog[p].from = none THEN 0 ELSE x[prog[p].from]) + prog[p].n
    <2>1. CASE prog[p].from = none
      BY <1>1, <1>2, <1>3, <1>4, <2>1 DEF Computes
    <2>2. CASE prog[p].from # none
      <3>1. PICK w \in scope : w = prog[p].from
        BY <2>2 DEF InScope
      <3>2. h[p - 1][w] # 0 /\ h[p - 1][w] + prog[p].n <= h[p][v]
        BY <1>1, <1>2, <1>4, <2>2, <3>1 DEF Computes
      <3>3. n = x[w] + prog[p].n
        BY <1>4, <2>2, <3>1
      <3> QED
        BY <1>2, <1>3, <3>2, <3>3
    <2> QED
      BY <2>1, <2>2
  <1>5. CASE prog[p].op \in {"grow", "append"} /\ n = x[v] + prog[p].n
    <2>1. h[p - 1][v] # 0 /\ h[p - 1][v] + prog[p].n <= h[p][v]
      BY <1>1, <1>2, <1>5 DEF Computes, Grows
    <2> QED
      BY <1>1, <1>2, <1>3, <1>5, <2>1
  <1>6. CASE prog[p].op = "add" /\ prog[p].from \in scope /\ n = x[v] + x[prog[p].from]
    <2>1. PICK w \in scope : w = prog[p].from
      BY <1>6
    <2>2. h[p - 1][v] # 0 /\ h[p - 1][w] # 0 /\ h[p - 1][v] + h[p - 1][w] <= h[p][v]
      BY <1>1, <1>2, <1>6, <2>1 DEF Computes
    <2>3. n = x[v] + x[w]
      BY <1>6, <2>1
    <2> QED
      BY <1>1, <1>2, <1>3, <2>2, <2>3
  <1>7. CASE prog[p].op = "square" /\ prog[p].from \in scope /\ n = x[prog[p].from] * x[prog[p].from]
    <2>1. PICK w \in scope : w = prog[p].from
      BY <1>7
    <2>2. PICK a \in Nat, b \in Nat : a = x[w] /\ b = h[p - 1][w]
      BY <1>2
    <2>3. b # 0 /\ b * b <= h[p][v]
      BY <1>1, <1>2, <1>7, <2>1, <2>2 DEF Computes
    <2>4. a <= b
      BY <1>2, <2>2, <2>3
    <2>5. a * a <= a * b /\ a * b <= b * b /\ a * a \in Nat /\ a * b \in Nat /\ b * b \in Nat
      BY <2>4, Mul
    <2>6. n = a * a
      BY <1>7, <2>1, <2>2
    <2> QED
      BY <1>3, <2>3, <2>5, <2>6
  <1>8. prog[p].op # "untracked"
    BY <1>1, <1>2 DEF Computes
  <1> QED
    BY <1>4, <1>5, <1>6, <1>7, <1>8 DEF Written

LEMMA WriteEffect ==
  ASSUME GrowthInv, phase = "run", pc <= Len(prog), It.op \in Writes,
         NEW v, NEW n, Written(It, v, val, n), Write(v, n)
  PROVE  GrowthInv'
  <1>1. /\ pc \in Positions /\ It = prog[pc] /\ It \in Stmt /\ InScope(It) /\ val \in [scope -> Nat]
        /\ none \notin scope
    BY Here
  <1>2. v \in scope /\ It.to = v /\ n \in Nat
    BY DEF Written
  <1>3. PICK c \in Nat : c = Capped(n) /\ c <= n
    BY <1>2, CappedBelow
  <1>4. val' = [val EXCEPT ![v] = c] /\ frames' = frames /\ Executed(pc + 1)
    BY <1>3 DEF Write
  <1>5. /\ val' \in [scope -> Nat] /\ val'[v] = c
        /\ \A w \in scope : w # v => val'[w] = val[w]
    BY <1>1, <1>2, <1>4
  <1>6. ~Loop(pc) /\ ~Opener(pc) /\ It.op # "close"
    BY <1>1 DEF Writes, Loop, Opener, Openers, Loops
  <1>7. PICK p \in Positions : p = pc /\ It = prog[p]
    BY <1>1
  <1>8. ASSUME NEW w \in scope
        PROVE  Drawn(p, 0, w, val[w], val'[w])
    <2>1. CASE w # v
      BY <1>1, <1>5, <2>1 DEF Drawn
    <2>2. CASE w = v /\ It.op \in {"grow", "append"}
      <3>1. n = val[v] + It.n
        BY <2>2 DEF Written
      <3> QED
        BY <1>2, <1>3, <1>5, <1>7, <2>2, <3>1 DEF Drawn, Grows
    <2>3. CASE w = v /\ It.op \notin {"grow", "append"}
      <3>1. Replaces(It, v)
        BY <1>2, <2>3 DEF Written, Replaces
      <3> QED
        BY <1>7, <2>3, <3>1 DEF Drawn
    <2> QED
      BY <2>1, <2>2, <2>3
  <1>9. ASSUME NEW h, History(h), ~InLoop(p), KnownAt(h, p, val), NEW w \in scope, h[p][w] # 0
        PROVE  val'[w] <= h[p][w]
    <2>1. AllClosed
      BY Running
    <2>2. CASE w = v
      <3>1. n <= h[p][v]
        BY <1>1, <1>6, <1>7, <1>9, <2>1, <2>2, WriteCovered
      <3>2. h[p][v] \in Nat
        BY <1>2, <1>9, <2>1, NoteTypes
      <3> QED
        BY <1>2, <1>3, <1>5, <2>2, <3>1, <3>2
    <2>3. CASE w # v
      <3>1. /\ Computes(prog[p], w, h[p - 1], h[p][w])
            /\ Rises(h[p - 1][w], h[p][w]) => val[w] <= h[p][w]
        BY <1>1, <1>6, <1>7, <1>9, <2>1, Covered
      <3>2. ~Replaces(prog[p], w)
        BY <1>2, <1>7, <2>3 DEF Written, Replaces
      <3> QED
        BY <1>5, <2>3, <3>1, <3>2 DEF Computes
    <2> QED
      BY <2>2, <2>3
  <1> QED
    BY <1>1, <1>4, <1>5, <1>6, <1>7, <1>8, <1>9, NextStatement

LEMMA RunWriteStep ==
  ASSUME GrowthInv, RunWrite
  PROVE  GrowthInv'
  <1>1. phase = "run" /\ pc <= Len(prog) /\ It.op \in Writes
    BY DEF RunWrite, At, Writes
  <1>2. /\ It \in Stmt /\ InScope(It) /\ val \in [scope -> Nat] /\ none \notin scope
    BY <1>1, Here
  <1>3. /\ It.to \in scope /\ It.n \in Nat /\ val[It.to] \in Nat
        /\ It.from # none => It.from \in scope /\ val[It.from] \in Nat
        /\ It.op \in {"add", "square"} => It.from \in scope
    BY <1>1, <1>2, Fields DEF InScope
  <1>4. PICK v \in scope : v = It.to
    BY <1>3
  <1>5. from \in Nat /\ from = (IF It.from = none THEN 0 ELSE val[It.from])
    BY <1>3 DEF from
  <1>6. CASE It.op = "set" /\ Write(It.to, from + It.n)
    <2>1. PICK n \in Nat : n = from + It.n
      BY <1>3, <1>5
    <2>2. Written(It, v, val, n) /\ Write(v, n)
      BY <1>4, <1>5, <1>6, <2>1 DEF Written
    <2> QED
      BY <1>1, <2>2, WriteEffect
  <1>7. CASE It.op \in {"grow", "append"} /\ Write(It.to, val[It.to] + It.n)
    <2>1. PICK n \in Nat : n = val[It.to] + It.n
      BY <1>3
    <2>2. Written(It, v, val, n) /\ Write(v, n)
      BY <1>4, <1>7, <2>1 DEF Written
    <2> QED
      BY <1>1, <2>2, WriteEffect
  <1>8. CASE It.op = "add" /\ Write(It.to, val[It.to] + from)
    <2>1. PICK n \in Nat : n = val[It.to] + from
      BY <1>3, <1>5
    <2>2. It.from \in scope /\ from = val[It.from]
      BY <1>2, <1>3, <1>5, <1>8
    <2>3. Written(It, v, val, n) /\ Write(v, n)
      BY <1>4, <1>8, <2>1, <2>2 DEF Written
    <2> QED
      BY <1>1, <2>3, WriteEffect
  <1>9. CASE It.op = "square" /\ Write(It.to, from * from)
    <2>1. PICK n \in Nat : n = from * from
      BY <1>5, Mul
    <2>2. It.from \in scope /\ from = val[It.from]
      BY <1>2, <1>3, <1>5, <1>9
    <2>3. Written(It, v, val, n) /\ Write(v, n)
      BY <1>4, <1>9, <2>1, <2>2 DEF Written
    <2> QED
      BY <1>1, <2>3, WriteEffect
  <1>10. CASE It.op = "untracked" /\ \E n \in {0, MaxLen} : Write(It.to, n)
    <2>1. PICK n \in Nat : Write(It.to, n)
      BY <1>10, Values
    <2>2. Written(It, v, val, n) /\ Write(v, n)
      BY <1>4, <1>10, <2>1 DEF Written
    <2> QED
      BY <1>1, <2>2, WriteEffect
  <1> QED
    BY <1>6, <1>7, <1>8, <1>9, <1>10 DEF RunWrite, At

LEMMA RunSwapStep ==
  ASSUME GrowthInv, RunSwap
  PROVE  GrowthInv'
  <1>1. phase = "run" /\ pc <= Len(prog) /\ It.op = "swap" /\ frames' = frames /\ Executed(pc + 1)
        /\ val' = [val EXCEPT ![It.to] = val[It.from], ![It.from] = val[It.to]]
    BY DEF RunSwap, At
  <1>2. /\ pc \in Positions /\ It = prog[pc] /\ InScope(It) /\ val \in [scope -> Nat]
    BY <1>1, Here
  <1>3. PICK v \in scope, w \in scope : v = It.to /\ w = It.from
    BY <1>1, <1>2 DEF InScope, Writes
  <1>4. /\ val' \in [scope -> Nat] /\ val'[w] = val[v] /\ (v # w => val'[v] = val[w])
        /\ \A u \in scope : u # v /\ u # w => val'[u] = val[u]
    <2>1. val' = [val EXCEPT ![v] = val[w], ![w] = val[v]]
      BY <1>1, <1>3
    <2> QED
      BY <1>2, <2>1
  <1>5. ~Loop(pc) /\ ~Opener(pc) /\ It.op # "close"
    BY <1>1, <1>2 DEF Loop, Opener, Openers, Loops
  <1>6. PICK p \in Positions : p = pc /\ It = prog[p]
    BY <1>2
  <1>7. ASSUME NEW u \in scope
        PROVE  Drawn(p, 0, u, val[u], val'[u])
    <2>1. CASE u # v /\ u # w
      BY <1>2, <1>4, <2>1 DEF Drawn
    <2>2. CASE u = v \/ u = w
      BY <1>1, <1>3, <1>6, <2>2 DEF Drawn, Replaces
    <2> QED
      BY <2>1, <2>2
  <1>8. ASSUME NEW h, History(h), ~InLoop(p), KnownAt(h, p, val), NEW u \in scope, h[p][u] # 0
        PROVE  val'[u] <= h[p][u]
    <2>1. AllClosed
      BY <1>1, Running
    <2>2. /\ Computes(prog[p], u, h[p - 1], h[p][u])
          /\ \A x \in scope : Rises(h[p - 1][x], h[p][u]) => val[x] <= h[p][u]
      BY <1>2, <1>5, <1>6, <1>8, <2>1, Covered
    <2>3. CASE u = w
      <3>1. Rises(h[p - 1][v], h[p][u])
        BY <1>1, <1>3, <1>6, <2>2, <2>3 DEF Computes
      <3> QED
        BY <1>4, <2>2, <2>3, <3>1
    <2>4. CASE u = v /\ u # w
      <3>1. Rises(h[p - 1][w], h[p][u])
        BY <1>1, <1>3, <1>6, <2>2, <2>4 DEF Computes
      <3> QED
        BY <1>4, <2>2, <2>4, <3>1
    <2>5. CASE u # v /\ u # w
      <3>1. ~Replaces(prog[p], u)
        BY <1>1, <1>3, <1>6, <2>5 DEF Replaces
      <3>2. Rises(h[p - 1][u], h[p][u])
        BY <2>2, <3>1 DEF Computes
      <3> QED
        BY <1>4, <2>2, <2>5, <3>2
    <2> QED
      BY <2>3, <2>4, <2>5
  <1> QED
    BY <1>1, <1>2, <1>4, <1>5, <1>6, <1>7, <1>8, NextStatement

\* From an if, or from a loop that is not entered, the run goes on past it.
LEMMA Skipped ==
  ASSUME GrowthInv, phase = "run", pc \in Positions, Opener(pc),
         Executed(prog[pc].end + 1), frames' = frames, val' = val
  PROVE  GrowthInv'
  <1>1. PICK h, d : History(h) /\ RunAt(h, d, pc, frames, runs, val)
    BY Running
  <1>2. Shape /\ Opened /\ Bounds /\ open = <<>> /\ AllClosed
    BY Running
  <1>3. PICK p \in Positions : p = pc
    OBVIOUS
  <1>4. PICK q : q = prog[p].end + 1
    OBVIOUS
  <1>5. pc' = q /\ phase' = "run" /\ emitting' = emitting /\ Once(runs, p, runs')
    BY <1>3, <1>4 DEF Executed, Once
  <1>6. /\ q \in Nat /\ p < q /\ q <= Len(prog) + 1 /\ q - 1 = prog[p].end
        /\ \A l : LoopAround(l, q) <=> LoopAround(l, p)
    BY <1>2, <1>3, <1>4, Past
  <1>7. val' \in [scope -> Nat] /\ RunAt(h, d, p, frames, runs, val)
    BY <1>1, <1>3 DEF RunAt
  <1>8. \A v \in scope : Drawn(p, 0, v, val[v], val'[v])
    BY <1>7 DEF Drawn
  <1>9. ASSUME ~InLoop(p), NEW v \in scope, h[q - 1][v] # 0
        PROVE  val'[v] <= h[q - 1][v]
    <2>1. PICK e \in Nat : e = prog[p].end /\ p \in Nat /\ p <= e /\ e \in Positions
      BY <1>2, <1>3 DEF AllClosed, Positions
    <2>2. p <= p /\ e <= prog[p].end /\ Opener(p)
      BY <1>3, <2>1
    <2>3. Rises(h[p - 1][v], h[e][v])
      BY <1>1, <1>2, <2>1, <2>2, Chain
    <2>4. h[p - 1][v] = 0 \/ val[v] <= h[p - 1][v]
      BY <1>7, <1>9 DEF RunAt, KnownAt
    <2>5. h[p - 1][v] \in Nat /\ h[e][v] \in Nat /\ val[v] \in Nat
      BY <1>1, <1>2, <1>7, <2>1, NoteTypes
    <2>6. h[q - 1] = h[e] /\ val'[v] = val[v] /\ h[e][v] # 0
      BY <1>6, <1>9, <2>1
    <2>7. val[v] <= h[e][v]
      BY <2>3, <2>4, <2>5, <2>6 DEF Rises
    <2> QED
      BY <2>6, <2>7
  <1>10. RunAt(h, d, q, frames, runs', val')
    BY <1>1, <1>2, <1>5, <1>6, <1>7, <1>8, <1>9, Go
  <1>11. RunAt(h, d, pc', frames', runs', val')
    BY <1>5, <1>10
  <1> QED
    BY <1>1, <1>2, <1>5, <1>11, Carry

LEMMA RunIfStep ==
  ASSUME GrowthInv, RunIf
  PROVE  GrowthInv'
  <1>1. /\ phase = "run" /\ pc <= Len(prog) /\ It.op = "if" /\ frames' = frames /\ val' = val
        /\ Executed(pc + 1) \/ Executed(It.end + 1)
    BY DEF RunIf, At
  <1>2. pc \in Positions /\ It = prog[pc] /\ val \in [scope -> Nat]
    BY <1>1, Here
  <1>3. PICK p \in Positions : p = pc /\ It = prog[p] /\ Opener(p) /\ ~Loop(p)
    BY <1>1, <1>2 DEF Opener, Openers, Loop, Loops
  <1>4. CASE Executed(It.end + 1)
    BY <1>1, <1>3, <1>4, Skipped
  <1>5. CASE Executed(pc + 1)
    <2>1. \A v \in scope : Drawn(p, 0, v, val[v], val'[v])
      BY <1>1, <1>2 DEF Drawn
    <2>2. ASSUME NEW h, History(h), ~InLoop(p), KnownAt(h, p, val), NEW v \in scope, h[p][v] # 0
          PROVE  val'[v] <= h[p][v]
      <3>1. AllClosed
        BY <1>1, Running
      <3>2. h[p - 1][v] \in Nat /\ h[p][v] \in Nat /\ val[v] \in Nat
        BY <1>2, <2>2, <3>1, NoteTypes
      <3>3. Rises(h[p - 1][v], h[p][v])
        BY <1>3, <2>2 DEF History, Raising
      <3>4. h[p - 1][v] = 0 \/ val[v] <= h[p - 1][v]
        BY <2>2 DEF KnownAt
      <3> QED
        BY <1>1, <2>2, <3>2, <3>3, <3>4 DEF Rises
    <2>3. It.op # "close" /\ val' \in [scope -> Nat] /\ ~Loop(pc)
      BY <1>1, <1>2, <1>3
    <2> QED
      BY <1>1, <1>3, <1>5, <2>1, <2>2, <2>3, NextStatement
  <1> QED
    BY <1>1, <1>4, <1>5

LEMMA EnteringGrowth ==
  ASSUME Shape, AllClosed, NEW h, History(h), NEW p \in Positions, Loop(p),
         NEW d, NEW fs, NEW rs, CountsAt(d, fs, rs, p), NEW rr, Once(rs, p, rr),
         \A j \in Positions : \A v : Spent(j, v, d, rr) \in Nat,
         NEW x \in [scope -> Nat], KnownAt(h, p, x), GrownAt(h, d, rs, p, x),
         NEW q, \A l : LoopAround(l, q) <=> LoopAround(l, p) \/ l = p
  PROVE  GrownAt(h, d, rr, q, x)
  <1>1. CASE InLoop(p)
    <2>1. \A o \in Positions : Outer(o, q) => Outer(o, p)
      <3>1. SUFFICES ASSUME NEW o \in Positions, Outer(o, q)
                     PROVE  Outer(o, p)
        OBVIOUS
      <3>2. PICK m \in Positions : LoopAround(m, p)
        BY <1>1 DEF InLoop
      <3>3. m < p /\ o <= m
        BY <3>1, <3>2, LoopPlaces DEF Outer
      <3>4. o # p
        BY <3>2, <3>3 DEF Positions
      <3> QED
        BY <3>1, <3>4 DEF Outer
    <2>2. Over(d, 0, d)
      BY DEF Over, CountsAt, Positions
    <2>3. \A v \in scope : Drawn(p, 0, v, x[v], x[v])
      BY DEF Drawn
    <2> QED
      BY <1>1, <2>1, <2>2, <2>3, InnerGrowth
  <1>2. CASE ~InLoop(p)
    <2>1. \A l : LoopAround(l, q) <=> l = p
      BY <1>2 DEF InLoop, LoopAround
    <2> QED
      BY <1>2, <2>1, Reaching
  <1> QED
    BY <1>1, <1>2

\* A loop is entered: from outside its values are those known, and inside
\* nothing is spent by it yet.
LEMMA Entering ==
  ASSUME GrowthInv, phase = "run", pc \in Positions, Loop(pc), Executed(pc + 1), val' = val,
         NEW n \in Nat, n # 0, n <= prog[pc].n,
         frames' = <<[at |-> pc, pass |-> 0, of |-> n]>> \o frames
  PROVE  GrowthInv'
  <1>1. PICK h, d : History(h) /\ RunAt(h, d, pc, frames, runs, val)
    BY Running
  <1>2. Shape /\ Opened /\ Bounds /\ open = <<>> /\ AllClosed
    BY Running
  <1>3. PICK p \in Positions : p = pc /\ p \in Nat \ {0} /\ p <= Len(prog) /\ Len(prog) \in Nat
    BY <1>2 DEF Positions, AllClosed
  <1>4. PICK f : f = [at |-> p, pass |-> 0, of |-> n]
    OBVIOUS
  <1>5. f \in Frame /\ f.at = p /\ f.pass = 0 /\ f.of # 0 /\ f.of <= prog[p].n
    BY <1>3, <1>4 DEF Frame
  <1>6. pc' = p + 1 /\ phase' = "run" /\ emitting' = emitting /\ Once(runs, p, runs')
    BY <1>3 DEF Executed, Once
  <1>7. /\ FramedAt(frames, p) /\ CountsAt(d, frames, runs, p) /\ val \in [scope -> Nat]
        /\ KnownAt(h, p, val) /\ GrownAt(h, d, runs, p, val)
    BY <1>1, <1>3 DEF RunAt
  <1>8. Pushed(f, frames, frames')
    BY <1>3, <1>4 DEF Pushed
  <1>9. /\ FramedAt(frames', p + 1) /\ CountsAt(d, frames', runs', p + 1)
        /\ \A l : LoopAround(l, p + 1) <=> LoopAround(l, p) \/ l = p
    BY <1>2, <1>3, <1>5, <1>6, <1>7, <1>8, Entered
  <1>10. InLoop(p + 1)
    BY <1>3, <1>9 DEF InLoop
  <1>11. KnownAt(h, p + 1, val')
    BY <1>10 DEF KnownAt
  <1>12. GrownAt(h, d, runs', p + 1, val')
    <2>1. PICK q, x, rr : q = p + 1 /\ x = val /\ rr = runs'
      OBVIOUS
    <2>2. \A j \in Positions : \A v : Spent(j, v, d, rr) \in Nat
      BY <1>2, <1>9, <2>1, SpentWithin
    <2>3. /\ CountsAt(d, frames, runs, p) /\ Once(runs, p, rr) /\ x \in [scope -> Nat]
          /\ KnownAt(h, p, x) /\ GrownAt(h, d, runs, p, x)
          /\ \A l : LoopAround(l, q) <=> LoopAround(l, p) \/ l = p
      BY <1>6, <1>7, <1>9, <2>1
    <2>4. Loop(p)
      BY <1>3
    <2>5. GrownAt(h, d, rr, q, x)
      BY <1>1, <1>2, <2>2, <2>3, <2>4, EnteringGrowth
    <2> QED
      BY <2>1, <2>5
  <1>13. RunAt(h, d, p + 1, frames', runs', val')
    <2>1. p + 1 \in 1..(Len(prog) + 1)
      BY <1>3
    <2> QED
      BY <1>7, <1>9, <1>11, <1>12, <2>1 DEF RunAt
  <1>14. RunAt(h, d, pc', frames', runs', val')
    BY <1>6, <1>13
  <1> QED
    BY <1>1, <1>2, <1>6, <1>14, Carry

\* In a loop, what is noted where the outermost one ends bounds the value.
LEMMA InLoopKnown ==
  ASSUME Shape, AllClosed, NEW h, History(h), NEW p, NEW d, NEW fs, NEW rs, NEW x,
         RunAt(h, d, p, fs, rs, x), NEW o \in Positions, Outer(o, p), NEW v \in scope,
         h[prog[o].end][v] # 0
  PROVE  x[v] <= h[prog[o].end][v]
  <1>1. /\ x \in [scope -> Nat] /\ FramedAt(fs, p) /\ CountsAt(d, fs, rs, p)
        /\ GrownAt(h, d, rs, p, x)
    BY DEF RunAt
  <1>2. Reached(h, d, rs, o, v, x[v])
    BY <1>1 DEF GrownAt
  <1>3. Loop(o)
    BY DEF Outer, LoopAround
  <1>4. PICK y \in Nat : y = x[v]
    BY <1>1
  <1>5. y <= h[prog[o].end][v]
    BY <1>1, <1>2, <1>3, <1>4, Region
  <1> QED
    BY <1>4, <1>5

\* A range or a fold runs the trips it was charged for at most.
LEMMA PricedNow ==
  ASSUME GrowthInv
  PROVE  TripsPriced
  <1>1. SUFFICES ASSUME At({"fold", "range"})
                 PROVE  val[It.to] <= It.n
    BY DEF TripsPriced
  <1>2. phase = "run" /\ pc <= Len(prog) /\ It.op \in {"fold", "range"}
    BY <1>1 DEF At
  <1>3. PICK p \in Positions : p = pc /\ It = prog[p]
    BY <1>2, Here
  <1>4. PICK h, d : History(h) /\ RunAt(h, d, p, frames, runs, val)
    BY <1>2, <1>3, Running
  <1>5. Shape /\ AllClosed /\ InScope(prog[p])
    BY <1>2, <1>3, Here, Running
  <1>6. PICK v \in scope : v = prog[p].to
    BY <1>2, <1>3, <1>5 DEF InScope
  <1>7. h[p - 1][v] = prog[p].n /\ prog[p].n # 0 /\ (prog[p].op = "fold" => ~InLoop(p))
    BY <1>2, <1>3, <1>4, <1>6 DEF History, Priced
  <1>8. CASE ~InLoop(p)
    <2>1. val[v] <= h[p - 1][v]
      BY <1>4, <1>7, <1>8 DEF RunAt, KnownAt
    <2> QED
      BY <1>3, <1>6, <1>7, <2>1
  <1>9. CASE InLoop(p)
    <2>1. PICK o \in Positions : Outer(o, p)
      BY <1>5, <1>9, OuterExists
    <2>2. prog[p].op = "range" /\ LoopAround(o, p)
      BY <1>2, <1>3, <1>7, <1>9, <2>1 DEF Outer
    <2>3. PICK e \in Positions : e = prog[o].end /\ p <= e /\ LoopAround(o, e)
      <3>1. /\ Loop(o) /\ prog[o].end \in Positions /\ o < prog[o].end /\ prog[o].end \in Nat
            /\ p <= prog[o].end
        BY <1>5, <2>2, LoopPlaces
      <3>2. PICK e \in Positions : e = prog[o].end /\ e \in Nat
        BY <3>1
      <3>3. LoopAround(o, e)
        BY <1>5, <3>1, <3>2, LoopPlaces
      <3> QED
        BY <3>1, <3>2, <3>3
    <2>4. h[e][v] = prog[p].n
      BY <1>4, <1>6, <2>2, <2>3 DEF History, Held
    <2>5. val[v] <= h[prog[o].end][v]
      BY <1>4, <1>5, <1>7, <2>1, <2>3, <2>4, InLoopKnown
    <2> QED
      BY <1>3, <1>6, <2>3, <2>4, <2>5
  <1> QED
    BY <1>8, <1>9

LEMMA RunLoopStep ==
  ASSUME GrowthInv, RunLoop
  PROVE  GrowthInv'
  <1>1. phase = "run" /\ pc <= Len(prog) /\ It.op \in Loops /\ val' = val
    BY DEF RunLoop, At, Loops
  <1>2. /\ pc \in Positions /\ It = prog[pc] /\ It \in Stmt /\ InScope(It) /\ val \in [scope -> Nat]
    BY <1>1, Here
  <1>3. PICK n : n = IF It.op = "range" THEN val[It.to] ELSE It.n
    OBVIOUS
  <1>4. n \in Nat /\ n <= It.n /\ It.n \in Nat
    <2>1. It.n \in Nat
      BY <1>2, Fields
    <2>2. CASE It.op = "range"
      <3>1. val[It.to] <= It.n
        BY <1>1, <2>2, PricedNow DEF TripsPriced, At
      <3>2. It.to \in scope
        BY <1>2, <2>2 DEF InScope
      <3> QED
        BY <1>2, <1>3, <2>1, <2>2, <3>1, <3>2
    <2>3. CASE It.op # "range"
      BY <1>3, <2>1, <2>3
    <2> QED
      BY <2>2, <2>3
  <1>5. IF n = 0 THEN frames' = frames /\ Executed(It.end + 1)
        ELSE frames' = <<[at |-> pc, pass |-> 0, of |-> n]>> \o frames /\ Executed(pc + 1)
    BY <1>3 DEF RunLoop
  <1>6. Loop(pc) /\ Opener(pc)
    BY <1>1, <1>2 DEF Loop, Opener, Openers
  <1>7. CASE n = 0
    BY <1>1, <1>2, <1>5, <1>6, <1>7, Skipped
  <1>8. CASE n # 0
    BY <1>1, <1>2, <1>4, <1>5, <1>6, <1>8, Entering
  <1> QED
    BY <1>7, <1>8

\* The innermost loop is left, and the last of the nest leaves its values
\* within what is noted there.
LEMMA Leaving ==
  ASSUME GrowthInv, phase = "run", pc \in Positions, InLoop(pc), NEW L, L = frames[1].at,
         frames' = Tail(frames), val' = val, Executed(prog[L].end + 1)
  PROVE  GrowthInv'
  <1>1. PICK h, d : History(h) /\ RunAt(h, d, pc, frames, runs, val)
    BY Running
  <1>2. Shape /\ Opened /\ Bounds /\ open = <<>> /\ AllClosed
    BY Running
  <1>17. PICK p \in Positions : p = pc
    OBVIOUS
  <1>3. PICK q, fs, rs, rr, x :
          p = pc /\ q = prog[L].end + 1 /\ fs = frames /\ rs = runs /\ rr = runs' /\ x = val
    BY <1>17
  <1>4. /\ FramedAt(fs, p) /\ CountsAt(d, fs, rs, p) /\ KnownAt(h, p, x) /\ GrownAt(h, d, rs, p, x)
        /\ x \in [scope -> Nat] /\ RunAt(h, d, p, fs, rs, x)
    BY <1>1, <1>3 DEF RunAt
  <1>5. /\ pc' = q /\ phase' = "run" /\ emitting' = emitting /\ Once(rs, p, rr)
        /\ frames' = Tail(fs) /\ val' = x /\ runs' = rr /\ InLoop(p) /\ L = fs[1].at
    BY <1>3 DEF Executed, Once
  <1>6. Inner(L, p)
    BY <1>2, <1>4, <1>5, HeadFrame
  <1>7. PICK dd : dd = [l \in Positions |-> IF l = L THEN d[l] + 1 ELSE d[l]]
    OBVIOUS
  <1>8. Over(d, L, dd)
    <2>1. d \in [Positions -> Nat]
      BY <1>4 DEF CountsAt
    <2> QED
      BY <1>7, <2>1 DEF Over
  <1>9. /\ FramedAt(Tail(fs), q) /\ CountsAt(dd, Tail(fs), rr, q)
        /\ \A l : LoopAround(l, q) <=> LoopAround(l, p) /\ l # L
        /\ q \in Nat /\ q <= Len(prog) + 1
    <2>1. Once(rs, p, rr) /\ InLoop(p) /\ Inmost(fs, L)
      BY <1>5 DEF Inmost
    <2>2. After(L, q) /\ FramedAt(fs, p) /\ CountsAt(d, fs, rs, p) /\ Shape /\ AllClosed
      BY <1>2, <1>3, <1>4 DEF After
    <2> QED
      BY <1>8, <2>1, <2>2, Left
  <1>10. LoopAround(L, p) /\ L \in Positions /\ \A m \in Positions : LoopAround(m, p) => m <= L
    BY <1>6 DEF Inner, LoopAround
  <1>11. \A o \in Positions : Outer(o, q) => Outer(o, p)
    <2>1. SUFFICES ASSUME NEW o \in Positions, Outer(o, q)
                   PROVE  Outer(o, p)
      OBVIOUS
    <2>2. LoopAround(o, p) /\ o <= L
      BY <1>9, <1>10, <2>1 DEF Outer
    <2> QED
      BY <1>9, <2>1, <2>2 DEF Outer
  <1>12. GrownAt(h, dd, rr, q, x)
    <2>1. \A v \in scope : Drawn(p, L, v, x[v], x[v])
      BY <1>4 DEF Drawn
    <2> QED
      BY <1>1, <1>2, <1>4, <1>5, <1>8, <1>11, <2>1, InnerGrowth
  <1>13. KnownAt(h, q, x)
    <2>1. SUFFICES ASSUME ~InLoop(q), NEW v \in scope, h[q - 1][v] # 0
                   PROVE  x[v] <= h[q - 1][v]
      BY DEF KnownAt
    <2>2. \A m \in Positions : LoopAround(m, p) => m = L
      BY <1>9, <2>1 DEF InLoop
    <2>3. Outer(L, p)
      <3>1. L \in Nat
        BY <1>10 DEF Positions
      <3> QED
        BY <1>10, <2>2, <3>1 DEF Outer
    <2>4. PICK e \in Nat : e = prog[L].end
      BY <1>2, <1>10, LoopPlaces
    <2>5. q - 1 = e
      BY <1>3, <2>4
    <2>6. h[prog[L].end][v] # 0
      BY <2>1, <2>4, <2>5
    <2>7. x[v] <= h[prog[L].end][v]
      BY <1>1, <1>2, <1>4, <1>10, <2>3, <2>6, InLoopKnown
    <2> QED
      BY <2>4, <2>5, <2>7
  <1>14. q \in 1..(Len(prog) + 1)
    <2>1. PICK e \in Nat : e = prog[L].end
      BY <1>2, <1>10, LoopPlaces
    <2>2. q = e + 1
      BY <1>3, <2>1
    <2> QED
      BY <1>2, <1>9, <2>2 DEF AllClosed
  <1>15. RunAt(h, dd, q, Tail(fs), rr, x)
    BY <1>4, <1>9, <1>12, <1>13, <1>14 DEF RunAt
  <1>16. RunAt(h, dd, pc', frames', runs', val')
    BY <1>5, <1>15
  <1> QED
    BY <1>1, <1>2, <1>5, <1>16, Carry

\* The index of the pass f of L is added to the values x.
Indexed(L, f, x, y) ==
  y = IF prog[L].from = none THEN x ELSE [x EXCEPT ![prog[L].from] = Capped(@ + f.pass)]

\* Another pass of the innermost loop begins, and its index is folded.
LEMMA Looping ==
  ASSUME GrowthInv, phase = "run", pc \in Positions, InLoop(pc), NEW L, Inmost(frames, L),
         NEW f, PassMore(frames, f), frames' = <<f>> \o Tail(frames), Executed(L + 1),
         Indexed(L, f, val, val')
  PROVE  GrowthInv'
  <1>1. PICK h, d : History(h) /\ RunAt(h, d, pc, frames, runs, val)
    BY Running
  <1>2. Shape /\ Opened /\ Bounds /\ open = <<>> /\ AllClosed
    BY Running
  <1>3. PICK p \in Positions : p = pc
    OBVIOUS
  <1>4. PICK q, fs, rs, rr, x : q = L + 1 /\ fs = frames /\ rs = runs /\ rr = runs' /\ x = val
    OBVIOUS
  <1>5. /\ FramedAt(fs, p) /\ CountsAt(d, fs, rs, p) /\ KnownAt(h, p, x) /\ GrownAt(h, d, rs, p, x)
        /\ x \in [scope -> Nat]
    BY <1>1, <1>3, <1>4 DEF RunAt
  <1>6. /\ pc' = q /\ phase' = "run" /\ emitting' = emitting /\ Once(rs, p, rr)
        /\ InLoop(p) /\ Inmost(fs, L) /\ PassMore(fs, f)
    BY <1>3, <1>4 DEF Executed, Once
  <1>7. PICK ff : ff = <<f>> \o Tail(fs)
    OBVIOUS
  <1>8. PICK dd : dd = [l \in Positions |-> IF l = L THEN d[l] + 1 ELSE d[l]]
    OBVIOUS
  <1>9. Over(d, L, dd)
    <2>1. d \in [Positions -> Nat]
      BY <1>5 DEF CountsAt
    <2> QED
      BY <1>8, <2>1 DEF Over
  <1>10. Inner(L, p) /\ fs[1] \in Frame /\ fs[1].of <= prog[L].n
    <2>1. 1 \in 1..Len(fs) /\ Inner(fs[1].at, p) /\ fs[1] \in Frame
      BY <1>2, <1>5, <1>6, HeadFrame
    <2> QED
      BY <1>5, <1>6, <2>1 DEF Inmost, FramedAt
  <1>11. /\ FramedAt(ff, q) /\ CountsAt(dd, ff, rr, q)
         /\ \A l : LoopAround(l, q) <=> LoopAround(l, p)
    <2>1. /\ FramedAt(ff, L + 1) /\ CountsAt(dd, ff, rr, L + 1)
          /\ \A l : LoopAround(l, L + 1) <=> LoopAround(l, p)
      BY <1>2, <1>5, <1>6, <1>7, <1>9, Again
    <2> QED
      BY <1>4, <2>1
  <1>12. /\ L \in Positions /\ Loop(L) /\ LoopAround(L, p) /\ L \in Nat \ {0} /\ L < Len(prog)
         /\ prog[L].n \in Nat /\ Len(prog) \in Nat
    <2>1. L \in Positions /\ Loop(L) /\ LoopAround(L, p)
      BY <1>10 DEF Inner, LoopAround
    <2>2. PICK e \in Nat : e = prog[L].end /\ L < e /\ e <= Len(prog) /\ L \in Nat \ {0}
      BY <1>2, <2>1, LoopPlaces
    <2>3. prog[L].n \in Nat /\ Len(prog) \in Nat
      BY <1>2, <2>1, LoopPlaces DEF AllClosed
    <2> QED
      BY <2>1, <2>2, <2>3
  <1>13. PICK k \in Nat : k = f.pass /\ k <= prog[L].n
    <2>1. f.pass \in Nat /\ f.of \in Nat /\ f.pass < f.of /\ f.of = fs[1].of
      BY <1>6 DEF PassMore, Frame
    <2> QED
      BY <1>10, <1>12, <2>1
  <1>14. PICK a : a = prog[L].from
    OBVIOUS
  <1>15. a = none \/ a \in scope
    BY <1>2, <1>12, <1>14 DEF Bounds, Named, InScope
  <1>16. PICK y : y = val'
    OBVIOUS
  <1>17. y = IF a = none THEN x ELSE [x EXCEPT ![a] = Capped(@ + k)]
    BY <1>4, <1>13, <1>14, <1>16 DEF Indexed
  <1>18. y \in [scope -> Nat] /\ \A v \in scope : Drawn(p, L, v, x[v], y[v])
    <2>1. CASE a = none
      BY <1>5, <1>17, <2>1 DEF Drawn
    <2>2. CASE a # none
      <3>1. PICK c \in Nat : c = Capped(x[a] + k) /\ c <= x[a] + k
        <4>1. x[a] + k \in Nat
          BY <1>5, <1>15, <2>2
        <4> QED
          BY <4>1, CappedBelow
      <3>2. y = [x EXCEPT ![a] = c]
        BY <1>17, <2>2, <3>1
      <3>3. /\ y \in [scope -> Nat] /\ y[a] = c
            /\ \A v \in scope : v # a => y[v] = x[v]
        BY <1>5, <1>15, <2>2, <3>2
      <3>4. Indexes(prog[L], a)
        BY <1>12, <1>14 DEF Indexes, Loop
      <3>5. y[a] <= x[a] + prog[L].n
        BY <1>5, <1>12, <1>13, <1>15, <2>2, <3>1, <3>3
      <3>6. Drawn(p, L, a, x[a], y[a])
        BY <1>12, <3>4, <3>5 DEF Drawn
      <3>7. \A v \in scope : v # a => Drawn(p, L, v, x[v], y[v])
        BY <1>5, <3>3 DEF Drawn
      <3> QED
        BY <3>3, <3>6, <3>7
    <2> QED
      BY <2>1, <2>2
  <1>19. GrownAt(h, dd, rr, q, y)
    <2>1. \A o \in Positions : Outer(o, q) => Outer(o, p)
      BY <1>11 DEF Outer
    <2>2. Shape /\ AllClosed /\ History(h)
      BY <1>1, <1>2
    <2>3. CountsAt(d, fs, rs, p) /\ GrownAt(h, d, rs, p, x) /\ Once(rs, p, rr) /\ InLoop(p)
      BY <1>5, <1>6
    <2> QED
      BY <1>5, <1>9, <1>18, <2>1, <2>2, <2>3, InnerGrowth
  <1>20. KnownAt(h, q, y)
    <2>1. InLoop(q)
      BY <1>11, <1>12 DEF InLoop
    <2> QED
      BY <2>1 DEF KnownAt
  <1>21. q \in 1..(Len(prog) + 1)
    BY <1>4, <1>12
  <1>22. RunAt(h, dd, q, ff, rr, y)
    BY <1>11, <1>18, <1>19, <1>20, <1>21 DEF RunAt
  <1>23. RunAt(h, dd, pc', frames', runs', val')
    <2>1. pc' = q /\ frames' = ff /\ runs' = rr /\ val' = y
      BY <1>4, <1>6, <1>7, <1>16
    <2> QED
      BY <1>22, <2>1
  <1> QED
    BY <1>1, <1>2, <1>6, <1>23, Carry

LEMMA PassStep ==
  ASSUME GrowthInv, phase = "run", pc \in Positions, InLoop(pc), NextPass
  PROVE  GrowthInv'
  <1>1. PICK h, d : History(h) /\ RunAt(h, d, pc, frames, runs, val)
    BY Running
  <1>2. Head(frames) = frames[1] /\ frames[1] \in Frame
    <2>1. Shape /\ AllClosed
      BY Running
    <2>2. FramedAt(frames, pc)
      BY <1>1 DEF RunAt
    <2> QED
      BY <2>1, <2>2, HeadFrame
  <1>3. PICK r : r = frames[1]
    OBVIOUS
  <1>4. r \in Frame /\ Head(frames) = r
    BY <1>2, <1>3
  <1>5. PICK L : L = r.at
    OBVIOUS
  <1>6. Inmost(frames, L)
    BY <1>3, <1>5 DEF Inmost
  <1>7. CASE r.pass + 1 < r.of
    <2>1. PICK f : f = [r EXCEPT !.pass = r.pass + 1]
      OBVIOUS
    <2>2. f \in Frame /\ f.at = r.at /\ f.pass = r.pass + 1 /\ f.of = r.of
      BY <1>4, <2>1 DEF Frame
    <2>3. PassMore(frames, f)
      BY <1>3, <1>7, <2>2 DEF PassMore
    <2>4. frames' = <<f>> \o Tail(frames) /\ Executed(L + 1)
      BY <1>4, <1>5, <1>7, <2>1 DEF NextPass
    <2>5. Indexed(L, f, val, val')
      BY <1>4, <1>5, <1>7, <2>2 DEF NextPass, Indexed
    <2> QED
      BY <1>6, <2>3, <2>4, <2>5, Looping
  <1>8. CASE ~(r.pass + 1 < r.of)
    <2>1. frames' = Tail(frames) /\ val' = val /\ Executed(prog[L].end + 1)
      BY <1>4, <1>5, <1>8 DEF NextPass
    <2>2. L = frames[1].at
      BY <1>3, <1>5
    <2> QED
      BY <2>1, <2>2, Leaving
  <1> QED
    BY <1>7, <1>8


LEMMA RunCloseStep ==
  ASSUME GrowthInv, RunClose
  PROVE  GrowthInv'
  <1>1. phase = "run" /\ pc <= Len(prog) /\ It.op = "close"
    BY DEF RunClose, At
  <1>2. pc \in Positions /\ It = prog[pc] /\ Shape /\ AllClosed
    BY <1>1, Here, Running
  <1>3. PICK b \in Positions : b = It.n /\ Opener(b) /\ prog[b].end = pc
    BY <1>1, <1>2 DEF Shape, Closes
  <1>4. CASE prog[It.n].op = "if"
    <2>1. ~Loop(It.n)
      BY <1>4 DEF Loop, Loops
    <2>2. val' = val /\ frames' = frames /\ Executed(pc + 1)
      BY <1>4 DEF RunClose
    <2> QED
      BY <1>1, <1>2, <2>1, <2>2, QuietStep
  <1>5. CASE prog[It.n].op # "if"
    <2>1. NextPass
      BY <1>5 DEF RunClose
    <2>2. Loop(b)
      BY <1>3, <1>5 DEF Loop, Opener, Openers
    <2>3. b < prog[b].end /\ prog[b].end <= prog[b].end
      <3>1. prog[b].end \in Nat /\ b < prog[b].end
        BY <1>2, <2>2, LoopPlaces
      <3> QED
        BY <3>1
    <2>4. LoopAround(b, prog[b].end)
      BY <1>2, <2>2, <2>3, LoopPlaces
    <2>5. InLoop(pc)
      BY <1>3, <2>4 DEF InLoop
    <2> QED
      BY <1>1, <1>2, <2>1, <2>5, PassStep
  <1> QED
    BY <1>4, <1>5

LEMMA RunTerminalStep ==
  ASSUME GrowthInv, RunTerminal
  PROVE  GrowthInv'
  <1>1. phase = "run" /\ pc <= Len(prog) /\ It.op \in {"break", "continue"}
    BY DEF RunTerminal, At
  <1>2. pc \in Positions /\ It = prog[pc] /\ Shape /\ AllClosed
    BY <1>1, Here, Running
  <1>3. PICK l \in Positions : l = It.n /\ Inner(l, pc)
    BY <1>1, <1>2 DEF Shape, Jumps
  <1>4. InLoop(pc)
    BY <1>3 DEF Inner, InLoop
  <1>5. CASE NextPass
    BY <1>1, <1>2, <1>4, <1>5, PassStep
  <1>6. CASE frames' = Tail(frames) /\ val' = val /\ Executed(prog[It.n].end + 1)
    <2>1. FramedAt(frames, pc)
      BY <1>1, Running DEF RunAt
    <2>2. Inner(frames[1].at, pc)
      BY <1>2, <1>4, <2>1, HeadFrame
    <2>3. PICK m \in Positions : m = frames[1].at /\ Inner(m, pc)
      BY <2>2 DEF Inner, LoopAround
    <2>4. l <= m /\ m <= l
      BY <1>3, <2>3 DEF Inner
    <2>5. l = m
      BY <2>4 DEF Positions
    <2> QED
      BY <1>1, <1>2, <1>3, <1>4, <1>6, <2>3, <2>5, Leaving
  <1> QED
    BY <1>5, <1>6 DEF RunTerminal

\* Nothing was executed before the first statement, and the values are those
\* that are noted first.
LEMMA StartStep ==
  ASSUME GrowthInv, Start
  PROVE  GrowthInv'
  <1>1. /\ phase = "emit" /\ open = <<>> /\ phase' = "run" /\ runs' = [i \in Positions |-> 0]
        /\ emitting' = emitting /\ pc' = pc /\ val' = val /\ frames' = frames
    BY DEF Start, Positions
  <1>2. PICK h : History(h) /\ Unstarted(h)
    BY <1>1 DEF GrowthInv
  <1>3. Shape /\ Opened /\ Bounds
    BY DEF GrowthInv
  <1>4. AllClosed
    BY <1>1, <1>3, ClosedText
  <1>5. pc = 1 /\ frames = <<>> /\ val = h[0]
    BY <1>2 DEF Unstarted
  <1>6. PICK x : x = h[0] /\ x \in [scope -> Nat]
    <2>1. 0 \in 0..Len(prog)
      BY <1>4 DEF AllClosed
    <2> QED
      BY <1>2, <2>1 DEF History, Notes
  <1>7. PICK z : z = [i \in Positions |-> 0]
    OBVIOUS
  <1>8. z \in [Positions -> Nat] /\ \A i \in Positions : z[i] = 0
    BY <1>7
  <1>9. \A l : ~LoopAround(l, 1)
    BY DEF LoopAround, Around, Positions
  <1>10. FramedAt(<<>>, 1)
    BY <1>9 DEF FramedAt
  <1>11. CountsAt(z, <<>>, z, 1)
    <2>1. ASSUME NEW l \in Positions, Loop(l)
          PROVE  z[l] <= Due(l, z)
      <3>1. PICK n \in Nat : n = prog[l].n
        BY <1>3, <1>4, <2>1, LoopPlaces
      <3> QED
        BY <1>8, <3>1 DEF Due
    <2>2. PassedAt(z, <<>>, z, 1)
      BY <2>1 DEF PassedAt
    <2>3. ExecutionsAt(z, z, 1)
      <3>1. \A i \in Positions : ~(i < 1)
        BY DEF Positions
      <3> QED
        BY <1>8, <1>9, <3>1 DEF ExecutionsAt
    <2>4. WithinAt(z)
      BY <1>4, <1>8, Fields DEF WithinAt, AllClosed
    <2> QED
      BY <1>8, <2>2, <2>3, <2>4 DEF CountsAt
  <1>12. KnownAt(h, 1, x)
    <2>1. \A v \in scope : h[1 - 1][v] \in Nat /\ h[1 - 1] = x
      BY <1>6
    <2> QED
      BY <2>1 DEF KnownAt
  <1>13. GrownAt(h, z, z, 1, x)
    BY <1>9 DEF GrownAt, Outer
  <1>14. RunAt(h, z, 1, <<>>, z, x)
    BY <1>4, <1>6, <1>10, <1>11, <1>12, <1>13 DEF RunAt, AllClosed
  <1>15. RunAt(h, z, pc', frames', runs', val')
    <2>1. pc' = 1 /\ frames' = <<>> /\ runs' = z /\ val' = x
      BY <1>1, <1>5, <1>6, <1>7
    <2> QED
      BY <1>14, <2>1
  <1> QED
    BY <1>1, <1>2, <1>3, <1>15, Carry

LEMMA FinishStep ==
  ASSUME GrowthInv, Finish
  PROVE  GrowthInv'
  <1>1. phase = "run" /\ pc > Len(prog) /\ phase' = "done" /\ emitting' = emitting /\ running' = running
    BY DEF Finish
  <1>2. PICK h, d : History(h) /\ RunAt(h, d, pc, frames, runs, val)
    BY <1>1, Running
  <1>3. pc' = pc /\ frames' = frames /\ runs' = runs /\ val' = val
    BY <1>1 DEF running
  <1>4. Shape /\ Opened /\ Bounds /\ open = <<>> /\ AllClosed
    BY <1>1, Running
  <1>5. pc' = Len(prog) + 1
    <2>1. pc \in 1..(Len(prog) + 1) /\ Len(prog) \in Nat
      BY <1>2, <1>4 DEF RunAt, AllClosed
    <2> QED
      BY <1>1, <1>3, <2>1
  <1>6. RunAt(h, d, pc', frames', runs', val')
    BY <1>2, <1>3
  <1> QED
    BY <1>1, <1>2, <1>4, <1>5, <1>6, Carry

LEMMA Stutter ==
  ASSUME GrowthInv, UNCHANGED vars
  PROVE  GrowthInv'
  <1>1. phase' = phase /\ emitting' = emitting /\ running' = running
    BY DEF vars
  <1>2. pc' = pc /\ frames' = frames /\ runs' = runs /\ val' = val
    BY <1>1 DEF running
  <1>3. CASE phase = "emit"
    <2>1. PICK h : History(h) /\ Unstarted(h)
      BY <1>3 DEF GrowthInv
    <2>2. Shape' /\ Opened' /\ Bounds' /\ History(h)'
      BY <1>1, <2>1, Unmoved DEF GrowthInv
    <2>3. Unstarted(h)'
      BY <1>2, <2>1 DEF Unstarted
    <2> QED
      BY <1>1, <1>3, <2>2, <2>3 DEF GrowthInv
  <1>4. CASE phase # "emit"
    <2>1. PICK h, d : History(h) /\ RunAt(h, d, pc, frames, runs, val)
      BY <1>4, Running
    <2>2. /\ Shape /\ Opened /\ Bounds /\ open = <<>> /\ phase' \in {"run", "done"}
          /\ phase' = "done" => pc' = Len(prog) + 1
      BY <1>1, <1>2, <1>4, Running
    <2>3. RunAt(h, d, pc', frames', runs', val')
      BY <1>2, <2>1
    <2> QED
      BY <1>1, <2>1, <2>2, <2>3, Carry
  <1> QED
    BY <1>3, <1>4

-----------------------------------------------------------------------------
(* The invariant.                                                          *)

LEMMA InitStep ==
  ASSUME Init
  PROVE  GrowthInv
  <1>1. /\ phase = "emit" /\ prog = <<>> /\ open = <<>> /\ frozen = {} /\ tagged = FALSE
        /\ val = bound /\ pc = 1 /\ frames = <<>>
    BY DEF Init
  <1>2. PICK s \in Scopes : bound = [v \in s |-> IF v \in Slices THEN InitLen ELSE LitLen]
    BY DEF Init
  <1>3. scope = s /\ s \subseteq Var
    BY <1>2, GrowthAssumption DEF scope, Var
  <1>4. /\ bound \in [scope -> Nat] /\ \A v \in scope : bound[v] # 0
        /\ \A v \in Ints \intersect scope : bound[v] = LitLen
    BY <1>2, <1>3, Values
  <1>5. Len(prog) = 0 /\ Positions = {} /\ Len(open) = 0
    BY <1>1 DEF Positions
  <1>6. Shape
    BY <1>1, <1>5 DEF Shape, IsText, Ends, Closes, Nested, Trips, Alone, Charged, Jumps
  <1>7. Opened
    BY <1>1, <1>5 DEF Opened, Heads, Inward, AllOpen
  <1>8. Bounds
    <2>1. Named
      BY <1>5 DEF Named
    <2> QED
      BY <1>1, <1>3, <1>4, <2>1 DEF Bounds
  <1>9. PICK h : h = [j \in {0} |-> bound]
    OBVIOUS
  <1>10. h[0] = bound /\ 0..Len(prog) = {0}
    BY <1>5, <1>9
  <1>11. History(h)
    <2>1. h \in Notes /\ h[Len(prog)] = bound
      BY <1>4, <1>5, <1>9, <1>10 DEF Notes
    <2>2. Raising(h) /\ Charging(h) /\ Covering(h) /\ Priced(h) /\ Held(h)
      BY <1>5 DEF Raising, Charging, Covering, Priced, Held
    <2>3. Narrow(h)
      <3>1. \A v \in Ints \intersect scope : bound[v] \in 1..(Window - 1)
        BY <1>4, Values
      <3> QED
        BY <1>10, <3>1 DEF Narrow
    <2> QED
      BY <2>1, <2>2, <2>3 DEF History
  <1>12. Unstarted(h)
    BY <1>1, <1>10 DEF Unstarted
  <1> QED
    BY <1>1, <1>6, <1>7, <1>8, <1>11, <1>12 DEF GrowthInv

LEMMA Inductive ==
  ASSUME GrowthInv, [Next]_vars
  PROVE  GrowthInv'
  <1>1. CASE Write_
    BY <1>1, AssignStringStep, CompoundAssignStringStep, SwapStep, WriteUntrackedStep, AppendStep,
       AssignIntStep, CompoundAssignIntStep, IncDecStep DEF Write_
  <1>2. CASE StringRangeFold
    BY <1>2, FoldStep
  <1>3. CASE IfStmt
    BY <1>3, IfStep
  <1>4. CASE ForStmt
    BY <1>4, ForStep
  <1>5. CASE RangeStmt
    BY <1>5, RangeStep
  <1>6. CASE Terminal
    BY <1>6, TerminalStep
  <1>7. CASE Close
    BY <1>7, CloseStep
  <1>8. CASE Start
    BY <1>8, StartStep
  <1>9. CASE RunWrite
    BY <1>9, RunWriteStep
  <1>10. CASE RunSwap
    BY <1>10, RunSwapStep
  <1>11. CASE RunFold
    BY <1>11, RunFoldStep
  <1>12. CASE RunIf
    BY <1>12, RunIfStep
  <1>13. CASE RunLoop
    BY <1>13, RunLoopStep
  <1>14. CASE RunClose
    BY <1>14, RunCloseStep
  <1>15. CASE RunTerminal
    BY <1>15, RunTerminalStep
  <1>16. CASE Finish
    BY <1>16, FinishStep
  <1>17. CASE UNCHANGED vars
    BY <1>17, Stutter
  <1> QED
    BY <1>1, <1>2, <1>3, <1>4, <1>5, <1>6, <1>7, <1>8, <1>9, <1>10, <1>11, <1>12, <1>13,
       <1>14, <1>15, <1>16, <1>17 DEF Next

\* The text that is written and its run are those of GrowthInv: bodies nest
\* and are charged for every loop around them, a history of the bounds exists
\* that each statement keeps true, and the run is within it (gen/gen.go
\* writeBound, stmt.go setStrLen, appendStmt, rangeStmt).
THEOREM GrowthKept == Spec => []GrowthInv
  <1>1. Init => GrowthInv
    BY InitStep
  <1>2. GrowthInv /\ [Next]_vars => GrowthInv'
    BY Inductive
  <1> QED
    BY <1>1, <1>2, PTL DEF Spec

-----------------------------------------------------------------------------
(* What it says of the program.                                            *)

LEMMA TypesNow ==
  ASSUME GrowthInv
  PROVE  TypeOK
  <1>1. /\ phase \in {"emit", "run", "done"} /\ bound \in [scope -> Nat]
        /\ frozen \subseteq Slices \intersect scope /\ (loopDepth = 0 => frozen = {})
    BY DEF GrowthInv, Bounds
  <1>2. val \in [scope -> Nat]
    <2>1. CASE phase = "emit"
      <3>1. PICK h : History(h) /\ Unstarted(h)
        BY <2>1 DEF GrowthInv
      <3>2. Len(prog) \in Nat
        BY DEF GrowthInv, Shape, IsText
      <3>3. 0 \in 0..Len(prog)
        BY <3>2
      <3> QED
        BY <3>1, <3>3 DEF History, Notes, Unstarted
    <2>2. CASE phase # "emit"
      BY <2>2, Running DEF RunAt
    <2> QED
      BY <2>1, <2>2
  <1> QED
    BY <1>1, <1>2 DEF TypeOK

LEMMA WithinNow ==
  ASSUME GrowthInv
  PROVE  RunsWithinMul
  <1>1. SUFFICES ASSUME phase = "run"
                 PROVE  \A i \in Positions : runs[i] <= prog[i].mul
    BY DEF RunsWithinMul, Positions
  <1>2. WithinAt(runs)
    BY <1>1, Running DEF RunAt, CountsAt
  <1> QED
    BY <1>2 DEF WithinAt

LEMMA HoldsNow ==
  ASSUME GrowthInv
  PROVE  BoundsHold
  <1>1. SUFFICES ASSUME phase = "done", NEW v \in scope, bound[v] # 0
                 PROVE  val[v] <= bound[v]
    BY DEF BoundsHold
  <1>2. PICK h, d : History(h) /\ RunAt(h, d, pc, frames, runs, val)
    BY <1>1, Running
  <1>3. pc = Len(prog) + 1 /\ ~InLoop(pc) /\ Len(prog) \in Nat
    BY <1>1, Running DEF AllClosed
  <1>4. pc - 1 = Len(prog)
    BY <1>3
  <1>5. h[pc - 1] = bound
    BY <1>2, <1>4 DEF History
  <1> QED
    BY <1>1, <1>2, <1>3, <1>5 DEF RunAt, KnownAt

\* In a loop a value is within what is noted after the nest, outside within
\* the last note; without the tag both are narrow.
LEMMA NarrowNow ==
  ASSUME GrowthInv, AssignInLoops = FALSE
  PROVE  WidthTagged
  <1>1. SUFFICES ASSUME NEW v \in Ints \intersect scope, ~tagged
                 PROVE  ~(val[v] >= Window)
    BY DEF WidthTagged
  <1>2. PICK x : x = val /\ x \in [scope -> Nat]
    BY TypesNow DEF TypeOK
  <1>3. Window \in Nat /\ x[v] \in Nat
    BY <1>2, Values
  <1>4. ASSUME NEW h, History(h), NEW j \in 0..Len(prog)
        PROVE  h[j][v] # 0 /\ h[j][v] \in Nat /\ h[j][v] < Window
    <2>1. h[j][v] \in 1..(Window - 1)
      BY <1>1, <1>4 DEF History, Narrow
    <2> QED
      BY <1>3, <2>1
  <1>5. Len(prog) \in Nat
    BY DEF GrowthInv, Shape, IsText
  <1>6. \E m \in Nat : x[v] <= m /\ m < Window
    <2>1. CASE phase = "emit"
      <3>1. PICK h : History(h) /\ Unstarted(h)
        BY <2>1 DEF GrowthInv
      <3>2. 0 \in 0..Len(prog)
        BY <1>5
      <3>3. h[0][v] < Window /\ x = h[0]
        BY <1>2, <1>4, <3>1, <3>2 DEF Unstarted
      <3> QED
        BY <1>3, <3>3
    <2>2. CASE phase # "emit"
      <3>1. PICK h, d : History(h) /\ RunAt(h, d, pc, frames, runs, x)
        BY <1>2, <2>2, Running
      <3>2. Shape /\ AllClosed
        BY <2>2, Running
      <3>3. CASE ~InLoop(pc)
        <4>1. PICK j \in 0..Len(prog) : j = pc - 1
          BY <1>5, <3>1 DEF RunAt
        <4>2. h[j][v] # 0 /\ h[j][v] \in Nat /\ h[j][v] < Window
          BY <1>4, <3>1
        <4>3. x[v] <= h[j][v]
          BY <3>1, <3>3, <4>1, <4>2 DEF RunAt, KnownAt
        <4> QED
          BY <4>2, <4>3
      <3>4. CASE InLoop(pc)
        <4>1. PICK o \in Positions : Outer(o, pc)
          BY <3>2, <3>4, OuterExists
        <4>2. PICK j \in 0..Len(prog) : j = prog[o].end
          <5>1. prog[o].end \in Nat /\ prog[o].end <= Len(prog)
            BY <3>2, <4>1, LoopPlaces DEF Outer
          <5> QED
            BY <1>5, <5>1
        <4>3. h[j][v] # 0 /\ h[j][v] \in Nat /\ h[j][v] < Window
          BY <1>4, <3>1
        <4>4. x[v] <= h[j][v]
          BY <3>1, <3>2, <4>1, <4>2, <4>3, InLoopKnown
        <4> QED
          BY <4>3, <4>4
      <3> QED
        BY <3>3, <3>4
    <2> QED
      BY <2>1, <2>2
  <1> QED
    BY <1>2, <1>3, <1>6

\* The bounds and values are naturals for the names in scope, and no slice
\* stays frozen outside loops (gen/gen.go releaseFrozenSlices).
THEOREM TypesKept == Spec => []TypeOK
  BY GrowthKept, TypesNow, PTL

\* A range or a fold never takes more trips than were charged for it when it
\* was written, however often it is run again (gen/stmt.go rangeStmt).
THEOREM TripsKept == Spec => []TripsPriced
  BY GrowthKept, PricedNow, PTL

\* No statement is executed more often than it is charged for: execMul is the
\* worst case of its site (gen/gen.go execMul, pushLoop).
THEOREM WithinKept == Spec => []RunsWithinMul
  BY GrowthKept, WithinNow, PTL

\* What the generator notes of a variable at the end of a program is true on
\* every path of it (gen/gen.go writeBound, stmt.go setStrLen, swapStrLen).
THEOREM BoundsKept == Spec => []BoundsHold
  BY GrowthKept, HoldsNow, PTL

\* A program without the tag width_dependent never computes a value that
\* differs between widths, when ints are assigned outside loops only (gen/
\* stmt.go assignments and widthDivergent).
THEOREM TagKept ==
  ASSUME AssignInLoops = FALSE
  PROVE  Spec => []WidthTagged
  <1>1. GrowthInv => WidthTagged
    BY NarrowNow
  <1> QED
    BY <1>1, GrowthKept, PTL

=============================================================================
