------------------------- MODULE MCBatteryCampaign -------------------------
(***************************************************************************)
(* Instances of BatteryCampaign, and through it of Batteries, for TLC: two *)
(* functions, the first with two inputs, and outcomes at the edges of      *)
(* their types.  The workers are model values; they are not declared       *)
(* symmetric, since Returns is checked with the invariants.                *)
(***************************************************************************)
EXTENDS BatteryCampaign

MCSpecs == << [inputs |-> 2, results |-> <<"int8">>],
              [inputs |-> 1, results |-> <<"uint8", "bool">>] >>

MCTruths == { <<OK(<<Value(-128)>>), OK(<<Value(127)>>), OK(<<Value(255), Value(1)>>)>>,
              <<OK(<<Value(0)>>), Panics(TRUE), OK(<<Value(0), Value(0)>>)>>,
              <<Panics(TRUE), Panics(TRUE), Panics(TRUE)>> }
=============================================================================
