---------------------------- MODULE MCGenerator ----------------------------
(* Each case has the constructs of one mix, so that the parts of the       *)
(* generator that meet are explored together and the others are not.       *)
EXTENDS Generator

Case(corner, f, n, m) == [order |-> corner, functions |-> f, callees |-> n, mix |-> m]

nests == Case(FALSE, TRUE, 0, {"loops", "range", "block_decl", "if"})

branches == Case(FALSE, FALSE, 0, {"if", "switch", "loops", "break", "early_return", "recover",
                                "recover_wrapper"})

orders == Case(TRUE, TRUE, 0, {"order_witness", "index", "division", "comparisons", "min",
                            "multi_assign", "linearize", "if", "string_index"})

calls == Case(FALSE, TRUE, 1, {"helpers", "loops", "block_decl"})

forwards == Case(FALSE, FALSE, 0, {"helpers", "tuple_forward", "loops"})

witnessed == Case(TRUE, FALSE, 1, {"helpers", "tuple_forward", "order_witness", "index"})

dispatches == Case(FALSE, TRUE, 1, {"methods", "recover_wrapper", "range"})

arms == Case(FALSE, TRUE, 0, {"append", "maps", "delete", "comma_ok", "index", "multi_assign",
                           "assertion", "interfaces", "field", "observe_point", "defer",
                           "type_switch", "range", "string_range", "slice_triple"})

\* For the calls of bool helpers, whose executions are then counted.
boolCalls == {Case(FALSE, FALSE, 1, {"helpers", "loops", "if"})}

AllCases == {nests, branches, orders, calls, forwards, witnessed, dispatches, arms}
=============================================================================
