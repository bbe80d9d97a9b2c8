----------------------------- MODULE FundCheck -----------------------------
(***************************************************************************)
(* The fund validation: funds/order_validate.go and funds/balance, run by  *)
(* cmd/fundcheckrelay as the filter of a relay (RedisQueue).               *)
(*                                                                         *)
(* ValidateOrder starts four goroutines, each of which looks one balance   *)
(* or allowance up and answers on a channel of its own; it receives the    *)
(* answers in a fixed order.  The lookups of all orders share a cache that *)
(* every block message on a topic replaces by an empty one.  The node's    *)
(* chain moves between a lookup's steps, and a block message arrives late  *)
(* or never.                                                               *)
(*                                                                         *)
(* A lookup is a key of the cache and an amount.  Calls of ValidateOrder   *)
(* are numbered in the order they begin.                                   *)
(***************************************************************************)
EXTENDS Integers, FiniteSets

CONSTANTS Keys,        \* cache keys: a balance or an allowance of an account
          NoCode,      \* the keys whose token has no contract code, hence no amount
          Orders,      \* the orders: see OrderAssumption
          Concurrency, \* slots of the relay's semaphore
          Amounts,     \* bound: the amounts the node may report for each key
          MaxCalls,    \* bound: calls of ValidateOrder
          MaxBlocks,   \* bound: blocks after the first
          MaxFaults    \* bound: RPC errors and ends of the process

\* The lookups of a call, in the order their answers are received: maker
\* balance, fee balance, maker allowance, fee allowance.
Checks == 1..4

ASSUME OrderAssumption ==
  /\ Orders # {}
  /\ Orders \subseteq [taker : Nat, filled : Nat, maker : Nat, fee : Nat,
                       key : [Checks -> Keys]]

ASSUME BoundAssumption ==
  /\ NoCode \subseteq Keys /\ Amounts \in [Keys \ NoCode -> SUBSET Nat]
  /\ Concurrency \in Nat \ {0}
  /\ MaxCalls \in Nat /\ MaxBlocks \in Nat /\ MaxFaults \in Nat

VARIABLES
  funds,   \* what the node reports for each key at its latest block
  block,   \* the number of that block
  notices, \* block messages on the topic; a lost one is never consumed
  cached,  \* lookupCache # nil
  cache,   \* the entries of lookupCache
  call,    \* the calls of ValidateOrder
  look,    \* their lookups
  begun,   \* how many calls there were
  faults,
  past,    \* every amount the node has reported for each key
  since    \* those it has reported since the cache was last emptied

node == <<funds, block, past, since>>
vars == <<node, notices, cached, cache, call, look, begun, faults>>

Calls == 1..MaxCalls

\* What the node may report at one block.
Reports == {f \in [Keys \ NoCode -> UNION {Amounts[k] : k \in Keys \ NoCode}] :
              \A k \in Keys \ NoCode : f[k] \in Amounts[k]}

\* No entry, and a lookup that does not run.  `late` is history: a block
\* message emptied the cache while the lookup was under way.
NoEntry == [there |-> FALSE, val |-> 0, late |-> FALSE]
Idle    == [at |-> "idle", ok |-> FALSE, err |-> "none", val |-> 0, late |-> FALSE]

NoCall == [at |-> "none", order |-> CHOOSE o \in Orders : TRUE, next |-> 1,
           result |-> TRUE, err |-> FALSE]

EmptyCache == [k \in Keys |-> NoEntry]

\* The process has just started; the message of the latest block is on its way.
Init ==
  /\ funds \in Reports /\ block = 0
  /\ past = [k \in Keys \ NoCode |-> {funds[k]}] /\ since = past
  /\ notices = 1
  /\ cached = FALSE /\ cache = EmptyCache
  /\ call = [n \in Calls |-> NoCall]
  /\ look = [n \in Calls |-> [c \in Checks |-> Idle]]
  /\ begun = 0 /\ faults = 0

-----------------------------------------------------------------------------
(* The node and the block topic.                                           *)

\* A block, with other balances, and its message.
NewBlock ==
  /\ block < MaxBlocks
  /\ block' = block + 1
  /\ funds' \in Reports
  /\ past' = [k \in Keys \ NoCode |-> past[k] \cup {funds'[k]}]
  /\ since' = [k \in Keys \ NoCode |-> since[k] \cup {funds'[k]}]
  /\ notices' = notices + 1
  /\ UNCHANGED <<cached, cache, call, look, begun, faults>>

\* The history of an emptied cache.
Emptied ==
  /\ since' = [k \in Keys \ NoCode |-> {funds[k]}]
  /\ look' = [n \in Calls |-> [c \in Checks |->
                [look[n][c] EXCEPT !.late = @ \/ look[n][c].at \in {"ask", "store"}]]]

\* Mutant of Consume: only the first block message makes a map.
ConsumeOnce ==
  /\ notices > 0
  /\ notices' = notices - 1
  /\ cached' = TRUE /\ Emptied
  /\ UNCHANGED <<funds, block, past, cache, call, begun, faults>>

\* routingBalanceChecker.Consume: the cache is a new, empty map.
Consume ==
  /\ notices > 0
  /\ notices' = notices - 1
  /\ cached' = TRUE /\ cache' = EmptyCache /\ Emptied
  /\ UNCHANGED <<funds, block, past, call, begun, faults>>

-----------------------------------------------------------------------------
(* checkBalance and checkAllowance, GetBalance and GetAllowance.           *)

\* getRemainingAmount: the bytes of a negative remainder are those of its
\* absolute value.
RemainingAmount(filled, taker, target) ==
  IF taker = 0 THEN 0
  ELSE LET left == target - (filled * target) \div taker
       IN  IF left < 0 THEN -left ELSE left

\* The amount a check requires.
Required(o, c) == RemainingAmount(o.filled, o.taker, IF c \in {1, 3} THEN o.maker ELSE o.fee)

Need(n, c) == Required(call[n].order, c)
Key(n, c)  == call[n].order.key[c]

Lookup(n, c, at) == look[n][c].at = at

Step(n, c, l) == look' = [look EXCEPT ![n][c] = l]

\* The goroutine compares what it has looked up, and waits to send the answer.
Answer(n, c, val) == [Idle EXCEPT !.at = "send", !.ok = Need(n, c) <= val]
Failure(err)      == [Idle EXCEPT !.at = "send", !.err = err]

\* Mutant of NewLookup: a check of nothing returns without an answer.
NewLookupSilent(o, c) == IF Required(o, c) = 0 THEN Idle ELSE [Idle EXCEPT !.at = "start"]

\* Under the mutex: an entry is the answer, without one the node is asked.
CheckCache(n, c) ==
  /\ Lookup(n, c, "start")
  /\ LET e == cache[Key(n, c)]
     IN  Step(n, c, IF cached /\ e.there THEN Answer(n, c, e.val)
                    ELSE [Idle EXCEPT !.at = "ask"])
  /\ UNCHANGED <<node, notices, cached, cache, call, begun, faults>>

\* The node answers for its latest block, or there is no contract code.
Ask(n, c) ==
  /\ Lookup(n, c, "ask")
  /\ IF Key(n, c) \in NoCode
     THEN Step(n, c, Failure("nocode"))
     ELSE Step(n, c, [look[n][c] EXCEPT !.at = "store", !.val = funds[Key(n, c)]])
  /\ UNCHANGED <<node, notices, cached, cache, call, begun, faults>>

\* The RPC fails in any other way.
AskError(n, c) ==
  /\ Lookup(n, c, "ask")
  /\ faults < MaxFaults /\ faults' = faults + 1
  /\ Step(n, c, Failure("rpc"))
  /\ UNCHANGED <<node, notices, cached, cache, call, begun>>

\* The answer goes into the cache there is now, if there is one.
Store(n, c) ==
  /\ Lookup(n, c, "store")
  /\ cache' = IF cached
              THEN [cache EXCEPT ![Key(n, c)] =
                      [there |-> TRUE, val |-> look[n][c].val, late |-> look[n][c].late]]
              ELSE cache
  /\ Step(n, c, Answer(n, c, look[n][c].val))
  /\ UNCHANGED <<node, notices, cached, call, begun, faults>>

-----------------------------------------------------------------------------
(* ValidateOrder.                                                          *)

Waiting == {n \in Calls : call[n].at = "wait"}

\* A worker of the relay calls ValidateOrder for an order.
MayBegin == begun < MaxCalls /\ Cardinality(Waiting) < Concurrency /\ begun' = begun + 1

\* A new lookup: nothing to look up, and true to send, if nothing is required.
NewLookup(o, c) ==
  IF Required(o, c) = 0 THEN [Idle EXCEPT !.at = "send", !.ok = TRUE]
                        ELSE [Idle EXCEPT !.at = "start"]

\* Fee token and proxies are known; the four lookups start.
Begin(o) ==
  /\ MayBegin
  /\ call' = [call EXCEPT ![begun + 1] = [NoCall EXCEPT !.at = "wait", !.order = o]]
  /\ look' = [look EXCEPT ![begun + 1] = [c \in Checks |-> NewLookup(o, c)]]
  /\ UNCHANGED <<node, notices, cached, cache, faults>>

\* Fee token or a proxy cannot be looked up: false, with an error.
BeginError(o) ==
  /\ MayBegin
  /\ faults < MaxFaults /\ faults' = faults + 1
  /\ call' = [call EXCEPT ![begun + 1] =
                [NoCall EXCEPT !.at = "done", !.order = o, !.result = FALSE, !.err = TRUE]]
  /\ UNCHANGED <<node, notices, cached, cache, look>>

\* ValidateOrder has an answer of call n to receive.
Sending(n) == call[n].at = "wait" /\ Lookup(n, call[n].next, "send")

Received(n) == look' = [look EXCEPT ![n][call[n].next] = Idle]

\* Mutant of Receive: the next channel is one further, also after the last.
ReceivePast(n) ==
  /\ Sending(n) /\ look[n][call[n].next].err = "none"
  /\ LET c == call[n].next
     IN  call' = [call EXCEPT ![n] = [call[n] EXCEPT
                    !.at = IF c = 4 THEN "done" ELSE "wait", !.next = c + 1,
                    !.result = @ /\ look[n][c].ok]]
  /\ Received(n)
  /\ UNCHANGED <<node, notices, cached, cache, begun, faults>>

\* Mutant of Receive: the first check that fails decides.
ReceiveFirst(n) ==
  /\ Sending(n) /\ look[n][call[n].next].err = "none"
  /\ LET c == call[n].next
     IN  call' = [call EXCEPT ![n] = [call[n] EXCEPT
                    !.at = IF c = 4 \/ ~look[n][c].ok THEN "done" ELSE "wait",
                    !.next = IF c = 4 \/ ~look[n][c].ok THEN 1 ELSE c + 1,
                    !.result = @ /\ look[n][c].ok]]
  /\ Received(n)
  /\ UNCHANGED <<node, notices, cached, cache, begun, faults>>

\* Mutant of Receive: the last check decides.
ReceiveLast(n) ==
  /\ Sending(n) /\ look[n][call[n].next].err = "none"
  /\ LET c == call[n].next
     IN  call' = [call EXCEPT ![n] = [call[n] EXCEPT
                    !.at = IF c = 4 THEN "done" ELSE "wait",
                    !.next = IF c = 4 THEN 1 ELSE c + 1,
                    !.result = look[n][c].ok]]
  /\ Received(n)
  /\ UNCHANGED <<node, notices, cached, cache, begun, faults>>

\* The next answer is received; the last one ends the call.
Receive(n) ==
  /\ Sending(n) /\ look[n][call[n].next].err = "none"
  /\ LET c == call[n].next
     IN  call' = [call EXCEPT ![n] = [call[n] EXCEPT
                    !.at = IF c = 4 THEN "done" ELSE "wait",
                    !.next = IF c = 4 THEN 1 ELSE c + 1,
                    !.result = @ /\ look[n][c].ok]]
  /\ Received(n)
  /\ UNCHANGED <<node, notices, cached, cache, begun, faults>>

\* "no contract code at given address": false, at once.  The other lookups
\* go on and nobody receives their answers.
ReceiveNoCode(n) ==
  /\ Sending(n) /\ look[n][call[n].next].err = "nocode"
  /\ call' = [call EXCEPT ![n] = [call[n] EXCEPT !.at = "done", !.next = 1, !.result = FALSE, !.err = TRUE]]
  /\ Received(n)
  /\ UNCHANGED <<node, notices, cached, cache, begun, faults>>

\* The process ends, with its cache, its calls and its lookups, and is
\* restarted.
Ends ==
  /\ cached' = FALSE /\ cache' = EmptyCache
  /\ call' = [n \in Calls |-> IF call[n].at = "wait" THEN [NoCall EXCEPT !.at = "lost"]
                              ELSE call[n]]
  /\ look' = [n \in Calls |-> [c \in Checks |-> Idle]]
  /\ UNCHANGED <<node, notices, begun>>

\* Any other error: panic.
ReceivePanic(n) ==
  /\ Sending(n) /\ look[n][call[n].next].err = "rpc"
  /\ Ends
  /\ UNCHANGED faults

\* A kill, or a concurrent write of the maps of fee tokens and proxies.
Crash == faults < MaxFaults /\ faults' = faults + 1 /\ Ends

-----------------------------------------------------------------------------
LookStep(n, c) == CheckCache(n, c) \/ Ask(n, c) \/ Store(n, c)

CallStep(n) == Receive(n) \/ ReceiveNoCode(n) \/ ReceivePanic(n)

Next == \/ NewBlock \/ Consume \/ Crash
        \/ \E o \in Orders : Begin(o) \/ BeginError(o)
        \/ \E n \in Calls : CallStep(n)
        \/ \E n \in Calls, c \in Checks : LookStep(n, c) \/ AskError(n, c)

Spec == Init /\ [][Next]_vars

\* As long as some goroutine of the process can go on, one of them does; the
\* node answers.
FairSpec ==
  Spec /\ WF_vars(\E n \in Calls : CallStep(n) \/ \E c \in Checks : LookStep(n, c))

-----------------------------------------------------------------------------
(* Properties.                                                             *)

Entries == [there : BOOLEAN, val : Nat, late : BOOLEAN]
CallRecords == [at : {"none", "wait", "done", "lost"}, order : Orders, next : Checks,
                result : BOOLEAN, err : BOOLEAN]
Lookups == [at : {"idle", "start", "ask", "store", "send"}, ok : BOOLEAN,
            err : {"none", "nocode", "rpc"}, val : Nat, late : BOOLEAN]

TypeOK ==
  /\ funds \in Reports /\ block \in 0..MaxBlocks
  /\ past \in [Keys \ NoCode -> SUBSET Nat] /\ since \in [Keys \ NoCode -> SUBSET Nat]
  /\ notices \in Nat /\ cached \in BOOLEAN
  /\ cache \in [Keys -> Entries]
  /\ call \in [Calls -> CallRecords]
  /\ look \in [Calls -> [Checks -> Lookups]]
  /\ begun \in 0..MaxCalls /\ faults \in Nat

\* The cache holds nothing from before the block that last emptied it
\* (routing.go:84-92), except what was stored by a lookup that was under way
\* when a block message emptied the cache: it had missed an earlier one.
CacheFresh ==
  \A k \in Keys \ NoCode : cache[k].there => cache[k].val \in since[k] \/ cache[k].late

\* The node has reported an amount that meets a check, or one that does not.
Reported(k) == IF k \in NoCode THEN {} ELSE past[k]
Met(o, c)   == Required(o, c) = 0 \/ \E v \in Reported(o.key[c]) : Required(o, c) <= v
Unmet(o, c) == Required(o, c) # 0 /\ \E v \in Reported(o.key[c]) : v < Required(o, c)

\* A verdict follows from what the node has reported (order_validate.go:78-170):
\* an order passes only if every check was met by an amount the node had, and
\* fails only if one was not or an error was met, whichever lookups, cached or
\* not, and whichever interleaving decided it.
VerdictJustified ==
  \A n \in Calls :
    call[n].at = "done" /\ ~call[n].err =>
      IF call[n].result THEN \A c \in Checks : Met(call[n].order, c)
                        ELSE \E c \in Checks : Unmet(call[n].order, c)

\* No call waits for ever on one of its channels (order_validate.go:30-62,
\* 129-168): from any point on, the calls are all decided at some time, or
\* lost with their process.
Decided == []<>(Waiting = {})

\* A lookup goroutine ends (order_validate.go:35, 41, 44): some receive waits
\* for its answer, unless its call has returned early for a token without
\* contract code.
LookupsEnd ==
  []<>(\A n \in Calls, c \in Checks : look[n][c].at = "idle" \/ call[n].err)

=============================================================================
