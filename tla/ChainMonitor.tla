---------------------------- MODULE ChainMonitor ----------------------------
(***************************************************************************)
(* The services that consume the block monitor's blocks and turn contract  *)
(* events into records: monitor/fill, spend, allowance, erc721approvals,   *)
(* cancelupto, affiliate and multisig, with the fill monitor's bloom       *)
(* filter (fillbloom).                                                     *)
(*                                                                         *)
(* They share their control: test the block's bloom filter, ask the node   *)
(* for the logs at the block's NUMBER, publish a record per log, Ack.  An  *)
(* RPC error Returns the block and ends the process, which docker-compose  *)
(* restarts (restart: on-failure).  One goroutine consumes; the blocks the *)
(* channel has prefetched stay in the unacked list when the process ends   *)
(* and nothing returns them (RedisQueue).                                  *)
(*                                                                         *)
(* Addresses, topics and data words are values; amounts are left out       *)
(* except where a record carries them unchanged.                           *)
(***************************************************************************)
EXTENDS Integers, Sequences, Functions, FiniteSets

CONSTANTS Monitors,   \* which of the seven consumers are considered
          Blocks, Chains, \* the chains the node may have, as sequences of blocks
          Logs,       \* the logs of each block, in order
          Noise,      \* what each block's bloom filter wrongly contains
          Hybrid,     \* ERC721 tokens with ERC20's Transfer signature
          Reverts,    \* the transfers of assets whose allowance call reverts
          Prefetch,   \* blocks in the process: CONCURRENCY, and the one sent
          MaxFaults,  \* bound: RPC and Redis errors, failed saves and crashes
          NoFile, Torn \* the stored bloom filter: absent, cut short

ASSUME ChainAssumption ==
  /\ Monitors \subseteq {"fill", "spend", "allowance", "approval", "cancelupto",
                         "affiliate", "multisig"}
  /\ Chains \subseteq Seq(Blocks) /\ Blocks = UNION {Range(c) : c \in Chains}
  /\ \A c, d \in Chains : \A i \in DOMAIN c, j \in DOMAIN d : c[i] = d[j] => i = j
  /\ DOMAIN Logs = Blocks /\ DOMAIN Noise = Blocks

ASSUME BoundAssumption == Prefetch \in Nat \ {0} /\ MaxFaults \in Nat

VARIABLES
  mon,       \* the consumer of this process
  chain,     \* the node's canonical chain
  ready,     \* the queue of blocks, oldest first
  inflight,  \* the process's unacked blocks; it works on the first
  orphans,   \* unacked blocks that no process holds
  phase,     \* where Consume is; "down": the process has ended
  asked,     \* the block whose logs FilterLogs gave, or the one tested
  logs,      \* the logs Consume has still to go through
  seen,      \* spend's tradedTokens
  bloom,     \* the fill monitor's FillBloom: its orders, or NoFile at first
  stored,    \* the bloom filter in object storage
  published, \* the records published, with the place of each one's log
  taken,     \* how often a block of each number was begun
  acked,     \* blocks acked, with what `asked` was
  lost,      \* logs whose record Redis has refused
  unsaved,   \* orders of fills whose Save failed or that Initialize missed
  faults     \* bound on faults

world   == <<mon, chain>>
queue   == <<ready, inflight, orphans>>
work    == <<phase, asked, logs, seen>>
storage == <<bloom, stored, unsaved>>
history == <<published, taken, acked, lost>>
vars == <<world, queue, work, storage, history, faults>>

-----------------------------------------------------------------------------
(* The node: logs, bloom filters and FilterLogs.                           *)

\* A contract's address is 20 bytes, a topic 32: an address is padded to be
\* one, and a bloom filter tells the two apart.
Addr(v)  == <<20, v>>
Topic(v) == <<32, v>>

\* The i-th topic of a log, read as an address, a token id or an order hash.
At(log, i) == log.topics[i][2]

\* The log is of this event; anonymous events have no topic.
Is(log, event) == log.topics # <<>> /\ At(log, 1) = event

Bloom(b) == Noise[b] \cup UNION {{log.addr} \cup Range(log.topics) : log \in Range(Logs[b])}

\* A position of a query that is nil matches any topic, but a log must have
\* as many topics as the query has positions.
Nil == {}
Query(addrs, topics) == [addrs |-> addrs, topics |-> topics]

Matches(query, log) ==
  /\ query.addrs = Nil \/ log.addr \in query.addrs
  /\ Len(query.topics) <= Len(log.topics)
  /\ \A i \in DOMAIN query.topics :
       query.topics[i] = Nil \/ log.topics[i] \in query.topics[i]

Numbers == UNION {DOMAIN c : c \in Chains}
Number(b) == CHOOSE n \in Numbers : \E c \in Chains : n \in DOMAIN c /\ c[n] = b

\* A log's place: its block and its index there.
LogIds == UNION {{<<b, i>> : i \in DOMAIN Logs[b]} : b \in Blocks}
LogAt(id) == Logs[id[1]][id[2]]

Before(id, other) == \/ Number(id[1]) < Number(other[1])
                     \/ id[1] = other[1] /\ id[2] < other[2]

\* FilterLogs from one number to another: of the chain as it is now.
FilterLogs(query, from, to) ==
  {id \in LogIds : /\ \E n \in from..to : n \in DOMAIN chain /\ chain[n] = id[1]
                   /\ Matches(query, LogAt(id))}

\* The chain grows, perhaps on another fork, and the block monitor emits the
\* blocks that are new.
NewHead ==
  /\ \E c \in Chains :
       /\ Len(c) > Len(chain)
       /\ chain' = c
       /\ \E k \in 0..Len(chain) :
            /\ Range(SubSeq(c, k + 1, Len(c))) = Range(c) \ Range(chain)
            /\ ready' = ready \o SubSeq(c, k + 1, Len(c))
  /\ UNCHANGED <<mon, inflight, orphans, work, storage, history, faults>>

-----------------------------------------------------------------------------
(* The contracts.                                                          *)

Exchange   == Addr("exchange")
TokenProxy == "proxy"          \* of the ERC20 tokens, or of the ERC721 ones
RoboDexProxy == "robodex"

\* No argument of the log's event is indexed, as in CryptoKitties' Transfer:
\* the data has them all.
Plain(log) == Len(log.topics) = 1

\* The i-th argument of a log's event.
Arg(log, i) == IF Plain(log) THEN log.word[i] ELSE At(log, i + 1)

\* The events as the contracts declare them: how many arguments are indexed,
\* how long the others are, and which contract emits those that are not a
\* token's.  A token's Transfer and Approval may index none of the arguments,
\* all but the last (ERC20, and ERC721 tokens with its signatures), or all.
EventLayout(log) ==
  /\ Is(log, "Fill") \/ Is(log, "Cancel") =>
       log.addr = Exchange /\ Len(log.topics) = 4 /\ log.size >= 256
  /\ Is(log, "CancelUpTo") => log.addr = Exchange /\ Len(log.topics) = 3 /\ log.size = 32
  /\ Is(log, "Transfer") => IF log.addr \in Hybrid THEN Len(log.topics) = 3
                            ELSE Len(log.topics) \in {1, 3, 4}
  /\ Is(log, "Approval") => Len(log.topics) \in {1, 3, 4}
  /\ Is(log, "Transfer") \/ Is(log, "Approval") =>
       /\ Len(log.topics) = 3 => log.size = 32
       /\ Plain(log) => log.size >= 96
  /\ Is(log, "ApprovalForAll") => Len(log.topics) = 3
  /\ Is(log, "Signup") => log.addr = Addr("signup")

ASSUME LogAssumption ==
  \A b \in Blocks : \A log \in Range(Logs[b]) :
    /\ log.topics \in Seq(Range(log.topics)) /\ log.size \in Nat
    /\ \A i \in DOMAIN log.topics : log.topics[i] = Topic(At(log, i))
    /\ EventLayout(log)

\* The orders there are events of: the exchange's, and an earlier exchange's.
Orders ==
  LET of(first, second) == {LogAt(id) : id \in {x \in LogIds : Is(LogAt(x), first) \/ Is(LogAt(x), second)}}
  IN  {At(log, 4) : log \in of("Fill", "Cancel")} \cup {log.word : log \in of("LogFill", "LogCancel")}

ASSUME FileAssumption == NoFile # Torn /\ \A orders \in SUBSET Orders : orders \notin {NoFile, Torn}

-----------------------------------------------------------------------------
(* The consumers' queries: none when the bloom filter shows no event.      *)

FillQuery(b) ==
  IF {Topic("Fill"), Topic("Cancel")} \cap Bloom(b) # {} /\ Exchange \in Bloom(b)
  THEN {Query({Exchange}, <<{Topic("Fill"), Topic("Cancel")}, Nil, Nil>>)} ELSE {}

SpendQuery(b) ==
  IF Topic("Transfer") \in Bloom(b)
  THEN {Query(Nil, <<{Topic("Transfer")}, Nil, Nil>>)} ELSE {}

\* An else-if: one query, for the first proxy the bloom filter contains.
AllowanceQuery(b) ==
  LET proxies == {p \in {TokenProxy, RoboDexProxy} : {Topic("Approval"), Topic(p)} \subseteq Bloom(b)}
      query(p) == {Query(Nil, <<{Topic("Approval")}, Nil, {Topic(p)}>>)}
  IN  IF TokenProxy \in proxies THEN query(TokenProxy)
      ELSE IF RoboDexProxy \in proxies THEN query(RoboDexProxy) ELSE {}

\* The proxy is looked up as an address, not as the topic it would be.
ApprovalQuery(b) ==
  IF \/ Topic("Approval") \in Bloom(b)
     \/ Topic("ApprovalForAll") \in Bloom(b) /\ Addr(TokenProxy) \in Bloom(b)
  THEN {Query(Nil, <<{Topic("Approval"), Topic("ApprovalForAll")}, Nil, Nil, Nil>>)} ELSE {}

CancelUpToQuery(b) ==
  IF {Topic("CancelUpTo"), Exchange} \subseteq Bloom(b)
  THEN {Query({Exchange}, <<{Topic("CancelUpTo")}, Nil, Nil>>)} ELSE {}

AffiliateQuery(b) ==
  IF {Topic("Signup"), Addr("signup")} \subseteq Bloom(b)
  THEN {Query({Addr("signup")}, <<{Topic("Signup")}>>)} ELSE {}

MultisigQuery(b) ==
  IF Addr("multisig") \in Bloom(b) THEN {Query({Addr("multisig")}, <<Nil, Nil, Nil>>)} ELSE {}

QueryOf(b) == CASE mon = "fill"       -> FillQuery(b)
                [] mon = "spend"      -> SpendQuery(b)
                [] mon = "allowance"  -> AllowanceQuery(b)
                [] mon = "approval"   -> ApprovalQuery(b)
                [] mon = "cancelupto" -> CancelUpToQuery(b)
                [] mon = "affiliate"  -> AffiliateQuery(b)
                [] mon = "multisig"   -> MultisigQuery(b)

-----------------------------------------------------------------------------
(* The record of a log: none when the consumer skips it.                   *)

FillRecord(log) ==
  IF log.size < 256 THEN {}
  ELSE IF At(log, 1) = "Fill" THEN {[order |-> At(log, 4), amount |-> log.word, cancel |-> FALSE]}
  ELSE {[order |-> At(log, 4), amount |-> "0", cancel |-> TRUE]}

\* A transfer is of ERC20 tokens or of an ERC721 token, by the number of its
\* topics; when the allowance call reverts, of the ERC721 token in its data.
TransferAsset(log) ==
  IF log \in Reverts THEN <<log.addr, log.word>>
  ELSE IF Len(log.topics) = 4 THEN <<log.addr, At(log, 4)>> ELSE <<log.addr>>

PairKey(log) == <<At(log, 2), log.addr>>

\* The branch for transfers that index nothing (spend.go:69) tests for no topic
\* at all, and the query's three positions keep them out anyway.
SpendRecord(log) ==
  IF Len(log.topics) \notin {3, 4} \/ PairKey(log) \in seen THEN {}
  ELSE {[token |-> log.addr, asset |-> TransferAsset(log), owner |-> At(log, 2)]}

AllowanceRecord(log) ==
  IF Len(log.topics) < 2 \/ log.size # 32 THEN {}
  ELSE {[token |-> log.addr, owner |-> At(log, 2), balance |-> log.word]}

\* No asset: RecordSpend then closes the orders of all the maker's tokens.
ApprovalRecord(log) ==
  IF At(log, 1) = "Approval"
  THEN IF Len(log.topics) # 4 \/ At(log, 3) = TokenProxy THEN {}
       ELSE {[token |-> log.addr, asset |-> <<log.addr, At(log, 4)>>, owner |-> At(log, 2)]}
  ELSE IF Len(log.topics) # 3 \/ At(log, 3) # TokenProxy \/ log.word # "0" THEN {}
       ELSE {[token |-> log.addr, asset |-> <<>>, owner |-> At(log, 2)]}

CancelUpToRecord(log) ==
  IF Len(log.topics) < 3 \/ log.size # 32 THEN {}
  ELSE {[maker |-> At(log, 2), sender |-> At(log, 3), epoch |-> log.word]}

AffiliateRecord(log) == {[affiliate |-> log.word]}

RecordOf(log) == CASE mon = "fill"       -> FillRecord(log)
                   [] mon = "spend"      -> SpendRecord(log)
                   [] mon = "allowance"  -> AllowanceRecord(log)
                   [] mon = "approval"   -> ApprovalRecord(log)
                   [] mon = "cancelupto" -> CancelUpToRecord(log)
                   [] mon = "affiliate"  -> AffiliateRecord(log)
                   [] mon = "multisig"   -> {}

-----------------------------------------------------------------------------
(* Consume.                                                                *)

Init ==
  /\ mon \in Monitors
  /\ chain = <<>> /\ ready = <<>> /\ inflight = <<>> /\ orphans = <<>>
  /\ phase = "idle" /\ asked = {} /\ logs = {} /\ seen = {}
  /\ bloom = NoFile /\ stored = NoFile
  /\ published = <<>> /\ acked = {} /\ unsaved = {} /\ lost = {}
  /\ taken = [n \in Numbers |-> 0] /\ faults = 0

Fault == faults < MaxFaults /\ faults' = faults + 1

\* Mutant of Fetch: prefetches without bound.
FetchAll ==
  /\ phase # "down" /\ ready # <<>>
  /\ inflight' = Append(inflight, Head(ready)) /\ ready' = Tail(ready)
  /\ UNCHANGED <<world, orphans, work, storage, history, faults>>

\* The channel's BRPOPLPUSH.
Fetch ==
  /\ phase # "down" /\ ready # <<>> /\ Len(inflight) < Prefetch
  /\ inflight' = Append(inflight, Head(ready)) /\ ready' = Tail(ready)
  /\ UNCHANGED <<world, orphans, work, storage, history, faults>>

\* The orders Initialize finds up to `number`.  It asks for the events of an
\* earlier exchange contract, whose data ends with the order's hash.
Populate(number) ==
  LET query == Query({Exchange}, <<{Topic("LogFill"), Topic("LogCancel")}, Nil, Nil>>)
  IN  {LogAt(id).word : id \in FilterLogs(query, 0, number)}

\* FillBloom.Initialize; a bloom filter that was cut short cannot be read.
Initialized(number) ==
  IF bloom # NoFile \/ mon # "fill" THEN bloom
  ELSE IF stored = NoFile THEN Populate(number) ELSE stored

\* Consume begins: Initialize, and the test of the block's bloom filter.
Begin ==
  /\ phase = "idle" /\ inflight # <<>>
  /\ mon = "fill" /\ bloom = NoFile => stored # Torn
  /\ LET b == Head(inflight)
     IN  /\ bloom' = Initialized(Number(b))
         /\ phase' = IF QueryOf(b) = {} THEN "ack" ELSE "query"
         /\ asked' = {b}
         /\ taken' = [taken EXCEPT ![Number(b)] = @ + 1]
  /\ seen' = {}
  /\ UNCHANGED <<world, queue, logs, stored, unsaved, published, acked, lost, faults>>

\* Mutant of End: a Returned block is only taken off the unacked list.
EndLost(returned) ==
  /\ phase' = "down" /\ inflight' = <<>>
  /\ orphans' = orphans \o (IF returned THEN Tail(inflight) ELSE inflight)
  /\ asked' = {} /\ logs' = {} /\ bloom' = NoFile
  /\ UNCHANGED <<world, ready, seen, history>>

\* The end of the process: what it had in flight stays in the unacked list,
\* except a block it has Returned to the end the next process pops from.
End(returned) ==
  /\ phase' = "down" /\ inflight' = <<>>
  /\ orphans' = orphans \o (IF returned THEN Tail(inflight) ELSE inflight)
  /\ ready' = IF returned THEN <<Head(inflight)>> \o ready ELSE ready
  /\ asked' = {} /\ logs' = {} /\ bloom' = NoFile
  /\ UNCHANGED <<world, seen, history>>

\* Initialize fails, on a torn file or an RPC error: Fatalf, no Return.
BeginFails ==
  /\ phase = "idle" /\ inflight # <<>> /\ mon = "fill" /\ bloom = NoFile
  /\ \/ stored = Torn /\ UNCHANGED faults
     \/ stored = NoFile /\ Fault
  /\ End(FALSE)
  /\ UNCHANGED <<stored, unsaved>>

\* Mutant of Filter: FromBlock is left out.
FilterWide ==
  /\ phase = "query"
  /\ LET b == Head(inflight)
     IN  /\ \E query \in QueryOf(b) : logs' = FilterLogs(query, 0, Number(b))
         /\ asked' = IF Number(b) > Len(chain) THEN {} ELSE {chain[Number(b)]}
  /\ phase' = "logs"
  /\ UNCHANGED <<world, queue, seen, storage, history, faults>>

Filter ==
  /\ phase = "query"
  /\ LET b == Head(inflight)
     IN  /\ \E query \in QueryOf(b) : logs' = FilterLogs(query, Number(b), Number(b))
         /\ asked' = IF Number(b) > Len(chain) THEN {} ELSE {chain[Number(b)]}
  /\ phase' = "logs"
  /\ UNCHANGED <<world, queue, seen, storage, history, faults>>

\* FilterLogs fails: Return, Fatalf.
FilterFails ==
  phase = "query" /\ Fault /\ End(TRUE) /\ UNCHANGED <<stored, unsaved>>

\* The next log of the loop.
NextLog == {id \in logs : \A other \in logs \ {id} : Before(id, other)}

\* What the loop does with a log: skip it, or publish its record.  Spend's
\* errors of contracts without the method give a balance of 0.
Publish(id) ==
  \/ RecordOf(LogAt(id)) = {} /\ UNCHANGED published
  \/ \E r \in RecordOf(LogAt(id)) : published' = Append(published, [of |-> id, record |-> r])

\* What it keeps of the log, before the record is published.
Remember(id) ==
  /\ seen' = IF mon = "spend" THEN seen \cup {PairKey(LogAt(id))} ELSE seen
  /\ bloom' = IF mon = "fill" THEN bloom \cup {r.order : r \in RecordOf(LogAt(id))} ELSE bloom

\* Mutant of HandleLog: the rest of the logs is given up at the first that
\* is skipped.
HandleLogBreak ==
  /\ phase = "logs"
  /\ \E id \in NextLog :
       /\ Publish(id) /\ Remember(id)
       /\ logs' = IF RecordOf(LogAt(id)) = {} THEN {} ELSE logs \ {id}
  /\ UNCHANGED <<world, queue, phase, asked, stored, unsaved, taken, acked, lost, faults>>

HandleLog ==
  /\ phase = "logs"
  /\ \E id \in NextLog : Publish(id) /\ Remember(id) /\ logs' = logs \ {id}
  /\ UNCHANGED <<world, queue, phase, asked, stored, unsaved, taken, acked, lost, faults>>

\* Redis refuses the record.  Publish says so or not, nobody looks: the loop
\* goes on, and the block will be acked.
RecordRefused ==
  /\ phase = "logs" /\ mon \in {"fill", "spend", "allowance", "approval", "cancelupto"}
  /\ \E id \in NextLog :
       /\ RecordOf(LogAt(id)) # {} /\ lost' = lost \cup {id}
       /\ Remember(id) /\ logs' = logs \ {id}
  /\ Fault
  /\ UNCHANGED <<world, queue, phase, asked, stored, unsaved, published, taken, acked>>

\* Spend's allowance or balance, or the affiliate service's Set, fails:
\* Return, Fatalf.
HandleLogFails ==
  /\ phase = "logs" /\ mon \in {"spend", "affiliate"}
  /\ \E id \in NextLog : RecordOf(LogAt(id)) # {}
  /\ Fault /\ End(TRUE) /\ UNCHANGED <<stored, unsaved>>

\* After the logs: the fill monitor saves its bloom filter, the others Ack.
LogsDone ==
  /\ phase = "logs" /\ logs = {}
  /\ phase' = IF mon = "fill" THEN "save" ELSE "ack"
  /\ UNCHANGED <<world, queue, asked, logs, seen, storage, history, faults>>

\* Mutant of Save: nothing is written.
SaveNothing ==
  /\ phase = "save" /\ phase' = "ack"
  /\ UNCHANGED <<world, queue, asked, logs, seen, storage, history, faults>>

\* FillBloom.Save writes all of the filter.
Save ==
  /\ phase = "save" /\ phase' = "ack"
  /\ stored' = bloom /\ unsaved' = unsaved \ bloom
  /\ UNCHANGED <<world, queue, asked, logs, seen, bloom, history, faults>>

\* Save fails, which is only logged: what is not in the stored filter is in
\* this process's memory and nowhere else.
SaveFails ==
  /\ phase = "save" /\ phase' = "ack" /\ Fault
  /\ unsaved' = unsaved \cup (IF stored \in {NoFile, Torn} THEN bloom ELSE bloom \ stored)
  /\ UNCHANGED <<world, queue, asked, logs, seen, bloom, stored, history>>

Ack ==
  /\ phase = "ack" /\ phase' = "idle"
  /\ acked' = acked \cup {<<Head(inflight), asked>>}
  /\ inflight' = Tail(inflight)
  /\ asked' = {}
  /\ UNCHANGED <<world, ready, orphans, logs, seen, storage, published, taken, lost, faults>>

\* The process is killed.  A Save it was in has written some of the filter:
\* of a new file too little, of an old one the part that was there before or
\* is there now (the file has a fixed size).
Crash ==
  /\ phase # "down" /\ Fault
  /\ End(FALSE)
  /\ IF phase # "save" THEN UNCHANGED stored
     ELSE \/ stored \in {NoFile, Torn} /\ stored' \in {stored, Torn}
          \/ /\ stored \notin {NoFile, Torn}
             /\ \E part \in SUBSET bloom : stored' = stored \cup part
  /\ UNCHANGED unsaved

Restart ==
  /\ phase = "down" /\ phase' = "idle"
  /\ UNCHANGED <<world, queue, asked, logs, seen, storage, history, faults>>

Consume == Begin \/ BeginFails \/ Filter \/ HandleLog \/ LogsDone \/ Save \/ Ack

Next == \/ NewHead \/ Fetch \/ Consume \/ Restart
        \/ FilterFails \/ RecordRefused \/ HandleLogFails \/ SaveFails \/ Crash

\* The process runs, and docker-compose restarts it; faults and new blocks
\* need not happen.
Fairness == WF_vars(Fetch) /\ WF_vars(Consume) /\ WF_vars(Restart)

Spec == Init /\ [][Next]_vars /\ Fairness

-----------------------------------------------------------------------------
(* Properties.                                                             *)

TypeOK ==
  /\ mon \in Monitors /\ chain \in Chains \cup {<<>>}
  /\ Range(ready) \cup Range(inflight) \cup Range(orphans) \subseteq Blocks
  /\ Len(inflight) <= Prefetch
  /\ phase \in {"idle", "query", "logs", "save", "ack", "down"}
  /\ phase \in {"query", "logs", "save", "ack"} => inflight # <<>>
  /\ logs \subseteq LogIds /\ (logs # {} => phase = "logs")
  /\ \A k \in DOMAIN published : published[k].of \in LogIds
  /\ faults \in 0..MaxFaults

\* The asset a transfer is of.
Sent(log) ==
  IF Len(log.topics) \in {1, 4} THEN <<log.addr, Arg(log, 3)>>
  ELSE IF log.addr \in Hybrid THEN <<log.addr, log.word>> ELSE <<log.addr>>

\* What an event tells a service, whatever the code does with it: the order
\* filled or cancelled, the asset sent, the allowance set or taken away, the
\* epoch, the affiliate.
Due(log) ==
  LET when(told, record) == IF told THEN {record} ELSE {}
  IN  CASE mon = "fill" ->
             when(Is(log, "Fill"), [order |-> At(log, 4), amount |-> log.word, cancel |-> FALSE])
             \cup when(Is(log, "Cancel"), [order |-> At(log, 4), amount |-> "0", cancel |-> TRUE])
        [] mon = "spend" ->
             when(Is(log, "Transfer"),
                  [token |-> log.addr, asset |-> Sent(log), owner |-> Arg(log, 1)])
        [] mon = "allowance" ->
             when(/\ Is(log, "Approval") /\ Len(log.topics) = 3
                  /\ At(log, 3) \in {TokenProxy, RoboDexProxy},
                  [token |-> log.addr, owner |-> At(log, 2), balance |-> log.word])
        [] mon = "approval" ->
             when(Is(log, "Approval") /\ Len(log.topics) # 3 /\ Arg(log, 2) # TokenProxy,
                  [token |-> log.addr, asset |-> <<log.addr, Arg(log, 3)>>, owner |-> Arg(log, 1)])
             \cup when(Is(log, "ApprovalForAll") /\ At(log, 3) = TokenProxy /\ log.word = "0",
                       [token |-> log.addr, asset |-> <<>>, owner |-> At(log, 2)])
        [] mon = "cancelupto" ->
             when(Is(log, "CancelUpTo"),
                  [maker |-> At(log, 2), sender |-> At(log, 3), epoch |-> log.word])
        [] mon = "affiliate" -> when(Is(log, "Signup"), [affiliate |-> log.word])
        [] mon = "multisig" -> {}

\* The events of which the code is known not to publish what they tell:
\* transfers and approvals that index no argument, which no query finds; of
\* the transfers of a contract's tokens by one account in one block, all but
\* the first; transfers taken for another asset, because the allowance call
\* reverts for a reason of its own or does not for a Hybrid token; allowances
\* of the RoboDex proxy in a block with ones of the token proxy; operators
\* revoked (the query asks for four topics and ApprovalForAll has three).
Skipped(id) ==
  LET log == LogAt(id)
  IN  \/ mon \in {"spend", "approval"} /\ Plain(log)
      \/ mon = "spend" /\ \E other \in LogIds :
           /\ other[1] = id[1] /\ other[2] < id[2]
           /\ Is(LogAt(other), "Transfer") /\ ~Plain(LogAt(other))
           /\ PairKey(LogAt(other)) = PairKey(log)
      \/ mon = "spend" /\ (log \in Reverts) # (log.addr \in Hybrid)
      \/ mon = "allowance" /\ {Topic("Approval"), Topic(TokenProxy)} \subseteq Bloom(id[1])
           /\ At(log, 3) = RoboDexProxy
      \/ mon = "approval" /\ Is(log, "ApprovalForAll")

\* A block that was acked (fill.go:100, spend.go:157 ...) on the strength of
\* its own logs has had what each of its events tells the service published
\* for that event, but for those named in Skipped and those whose record
\* Redis refused, wherever the process was killed, however often it was
\* restarted and whatever else the block's bloom filter says.
AckedPublished ==
  \A pair \in acked : pair[2] = {pair[1]} =>
    \A id \in LogIds : id[1] = pair[1] /\ id \notin lost /\ ~Skipped(id) =>
      \A record \in Due(LogAt(id)) : [of |-> id, record |-> record] \in Range(published)

\* The fill indexer adds what each record says (db/indexer.go:52): a log is
\* published no more often than a block of its number was begun, so that a
\* duplicate needs a redelivery or a reorganisation.
DuplicatesExplained ==
  \A id \in LogIds :
    Cardinality({k \in DOMAIN published : published[k].of = id}) <= taken[Number(id[1])]

\* The fill monitor's bloom filter loses no order over a restart (fill.go:94,
\* fillbloom.go:43-81): once it is initialised it has every order of the
\* blocks acked in any life of the process, but for those a failed Save left
\* behind.
BloomRemembers ==
  (mon = "fill" /\ bloom # NoFile) =>
    \A pair \in acked : pair[2] = {pair[1]} =>
      \A log \in Range(Logs[pair[1]]) : \A record \in Due(log) : record.order \in bloom \cup unsaved

\* Every block the block monitor emitted is acked in the end, an RPC error
\* leading to another attempt (fill.go:58), or is left in the unacked list by
\* a process that ended with it in hand.
BlocksHandled ==
  \A b \in Blocks : (b \in Range(ready)) ~>
    (b \in Range(orphans) \/ \E pair \in acked : pair[1] = b)

=============================================================================
