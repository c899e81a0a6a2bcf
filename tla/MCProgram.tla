----------------------------- MODULE MCProgram -----------------------------
(***************************************************************************)
(* Every engine.ini up to a length over a few lines: headers with and      *)
(* without a comment, one comment that reads as a section itself,          *)
(* properties with and without a value.                                    *)
(***************************************************************************)
EXTENDS Program

CONSTANT MaxLines   \* bound on the text

MCName == {"Dimensions", "Modes"}
MCProperty == {"logic_update_rate", "width"}
MCWord == {"0", "33", "fast"}
MCNumber == {"0", "33"}
MCPoint == {<<0, 0>>, <<1, 0>>}

header(name, commented, tail) ==
  [kind |-> "header", name |-> name, commented |-> commented, tail |-> tail]
assign(p, v) == [kind |-> "property", property |-> p, value |-> v]

Lines == {header("Dimensions", FALSE, None), header("Modes", FALSE, None),
          header("Dimensions", TRUE, None), header("Modes", TRUE, "Dimensions"),
          assign("logic_update_rate", <<"0">>), assign("logic_update_rate", <<"33", "fast">>),
          assign("width", << >>), assign("logic_update_rate", <<"fast">>), [kind |-> "other"]}

MCTexts == UNION {[1..n -> Lines] : n \in 0..MaxLines}
=============================================================================
