------------------------------ MODULE MCGrowth ------------------------------
(* Programs on strings, on slices, on ints, each kind on its own.          *)
EXTENDS Growth, TLC

CONSTANTS s1, s2, l1, l2, i1, i2

strings == {s1, s2}
slices  == {l1, l2}
ints    == {i1, i2}

onInts  == {ints}
perKind == {strings, slices, ints}
opsOf   == [k \in perKind |-> IF k = ints THEN 3 ELSE 4]

\* The two variables of a kind are alike.
alike == Permutations(strings) \union Permutations(slices) \union Permutations(ints)
=============================================================================
