---------------------------- MODULE MCFundCheck -----------------------------
(* Orders and amounts for FundCheck: an order, and a half-filled one whose *)
(* token has no contract code; neither pays a fee.                         *)
EXTENDS FundCheck

SomeOrders ==
  { [taker |-> 2, filled |-> 0, maker |-> 2, fee |-> 0,
     key |-> [c \in Checks |-> IF c \in {1, 2} THEN "balance" ELSE "allowance"]],
    [taker |-> 2, filled |-> 1, maker |-> 3, fee |-> 0,
     key |-> [c \in Checks |-> "missing"]] }

\* The balance moves, the allowance does not.
SomeAmounts == [k \in {"balance", "allowance"} |-> IF k = "balance" THEN {0, 2} ELSE {2}]

=============================================================================
