--------------------------- MODULE MCChainMonitor ---------------------------
(***************************************************************************)
(* Two forks with one block in common in number: a1 and a2, or b1 and b2.  *)
(* The blocks have events of every kind, the pairs of events the services  *)
(* have to tell apart, and a log they must skip.                           *)
(***************************************************************************)
EXTENDS ChainMonitor, TLC

Log(addr, topics, size, word) ==
  [addr |-> Addr(addr), topics |-> [i \in DOMAIN topics |-> Topic(topics[i])],
   size |-> size, word |-> word]

MCBlocks == {"a1", "b1", "b2"}
MCChains == {<<"a1">>, <<"b1", "b2">>}

MCLogs ==
  ("a1" :> << Log("exchange", <<"Fill", "maker", "fees", "order1">>, 288, "5"),
              Log("exchange", <<"CancelUpTo", "maker", "sender">>, 32, "7"),
              Log("erc20", <<"Transfer", "maker", "taker">>, 32, "5"),
              Log("erc20", <<"Approval", "maker", "robodex">>, 32, "3"),
              Log("cats", <<"Transfer">>, 96, <<"maker", "taker", "id1">>),
              Log("cats", <<"Approval">>, 96, <<"maker", "taker", "id1">>),
              Log("signup", <<"Signup">>, 32, "maker") >>)
  @@
  ("b1" :> << Log("erc20", <<"Approval", "taker", "proxy">>, 32, "2"),
              Log("erc20", <<"Approval", "maker", "robodex">>, 32, "4"),
              Log("kitty", <<"Approval", "maker", "proxy", "id1">>, 0, "0"),
              Log("kitty", <<"Approval", "maker", "taker", "id2">>, 0, "0"),
              Log("kitty", <<"Transfer", "maker", "taker", "id1">>, 0, "0"),
              Log("kitty", <<"Transfer", "maker", "taker", "id2">>, 0, "0"),
              Log("hybrid", <<"Transfer", "maker", "taker">>, 32, "id3"),
              Log("hybrid", <<"Transfer", "taker", "maker">>, 32, "id4"),
              Log("kitty", <<"Transfer", "taker", "nobody", "id5">>, 0, "0"),
              Log("exchange", <<"Cancel", "maker", "fees", "order2">>, 288, "0"),
              Log("exchange", <<"Fill", "maker", "fees", "order1">>, 288, "5") >>)
  @@
  ("b2" :> << Log("kitty", <<"ApprovalForAll", "maker", "proxy">>, 32, "0"),
              Log("multisig", <<"Confirmation", "owner", "id">>, 0, "0"),
              Log("exchange", <<"CancelUpTo", "maker", "sender">>, 32, "9"),
              Log("erc20", <<"Transfer", "maker", "other">>, 32, "5"),
              Log("erc20", <<"Transfer", "maker", "other">>, 32, "6") >>)

\* b2 has no fill, but its bloom filter says so.
MCNoise == [b \in MCBlocks |-> IF b = "b2" THEN {Topic("Fill")} ELSE {}]
MCHybrid == {Addr("hybrid")}

\* A Hybrid token's transfer, and that of an ERC721 token which is no more.
MCReverts == {Log("hybrid", <<"Transfer", "maker", "taker">>, 32, "id3"),
              Log("kitty", <<"Transfer", "taker", "nobody", "id5">>, 0, "0")}

AllMonitors == {"fill", "spend", "allowance", "approval", "cancelupto", "affiliate", "multisig"}
=============================================================================
