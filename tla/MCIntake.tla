------------------------------ MODULE MCIntake ------------------------------
(* Two requests of ten kinds.  A quarter of the base fee, 4 or 8, is m1's  *)
(* discount; the default pool takes half of the base fee.                  *)
EXTENDS Intake, TLC

MCPools == ("" :> [share |-> 1, expired |-> FALSE]) @@ ("old" :> [share |-> 2, expired |-> TRUE])
MCAccounts == [m \in {"m1", "m2", "zero"} |->
  CASE m = "m1" -> [bl |-> FALSE, dp |-> 25, ends |-> TRUE]
    [] m = "m2" -> [bl |-> TRUE, dp |-> 0, ends |-> FALSE]
    [] m = "zero" -> [bl |-> FALSE, dp |-> 0, ends |-> FALSE]]

Base == [kind |-> "order", type |-> "json", body |-> "json", flaws |-> {}, maker |-> "m1",
         exchange |-> "e1", recipient |-> "f1", fee |-> 1, pool |-> ""]

MCInputs == {
  Base,
  [Base EXCEPT !.type = "octet", !.body = "octet", !.flaws = {"makerAmount"}],
  [Base EXCEPT !.type = "octet", !.body = "octet", !.maker = "m2", !.fee = 2],
  [Base EXCEPT !.kind = "postOrder", !.body = "split"],
  [Base EXCEPT !.kind = "postOrder", !.exchange = "zero", !.pool = "old"],
  [Base EXCEPT !.kind = "postOrder", !.flaws = {"short"}],
  [Base EXCEPT !.kind = "fees", !.recipient = "zero", !.flaws = {"exchange"}],
  [Base EXCEPT !.kind = "fees", !.body = "null"],
  [Base EXCEPT !.kind = "postConfig"],
  [Base EXCEPT !.kind = "postConfig", !.pool = "none"]}
=============================================================================
