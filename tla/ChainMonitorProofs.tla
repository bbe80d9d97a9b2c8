------------------------- MODULE ChainMonitorProofs -------------------------
(***************************************************************************)
(* ChainMonitor for every chain, block, log, prefetch and number of faults.*)
(*                                                                         *)
(* What the properties say of acked blocks has to be followed back to the  *)
(* loop over the logs: while a block's own logs are gone through, each log *)
(* is published, refused by Redis, known to be skipped, or still to come.  *)
(***************************************************************************)
EXTENDS ChainMonitor, SequenceTheorems, FiniteSetTheorems, TLAPS

-----------------------------------------------------------------------------
(* The inductive invariant.                                                *)

\* The types, with the functions' domains.
Shapes ==
  /\ mon \in Monitors /\ chain \in Chains \cup {<<>>}
  /\ ready \in Seq(Blocks) /\ inflight \in Seq(Blocks) /\ orphans \in Seq(Blocks)
  /\ Len(inflight) <= Prefetch
  /\ phase \in {"idle", "query", "logs", "save", "ack", "down"}
  /\ phase \in {"query", "logs", "save", "ack"} => inflight # <<>>
  /\ phase = "save" => mon = "fill"
  /\ logs \subseteq LogIds /\ (logs # {} => phase = "logs")
  /\ \E S : published \in Seq(S)
  /\ \A k \in DOMAIN published : published[k].of \in LogIds
  /\ taken \in [Numbers -> Nat]
  /\ faults \in 0..MaxFaults

\* The logs Consume goes through are of the block it asked for, and of the
\* events it asked for.
LogsAsked ==
  \A id \in logs : /\ id[1] \in asked
                   /\ Number(id[1]) = Number(Head(inflight))
                   /\ mon = "fill" => Is(LogAt(id), "Fill") \/ Is(LogAt(id), "Cancel")
                   /\ mon = "spend" => Is(LogAt(id), "Transfer") /\ ~Plain(LogAt(id))

\* A log that may still be published by the block Consume is at.
Pending(id) == id \in logs \/ (phase = "query" /\ Number(id[1]) = Number(Head(inflight)))

Copies(id) == {k \in DOMAIN published : published[k].of = id}

DupInv ==
  \A id \in LogIds :
    Cardinality(Copies(id)) + (IF Pending(id) THEN 1 ELSE 0) <= taken[Number(id[1])]

\* The record a log is there for, whatever was seen before.
Told(log) ==
  IF mon = "spend"
  THEN {[token |-> log.addr, asset |-> TransferAsset(log), owner |-> At(log, 2)]}
  ELSE RecordOf(log)

\* The block Consume is at, when its own logs, or its bloom filter, decide.
Own(b) == inflight # <<>> /\ b = Head(inflight) /\ asked = {b}

\* What a log tells is published, or it is one of the exceptions.
Settled(id) ==
  \/ \A record \in Due(LogAt(id)) : [of |-> id, record |-> record] \in Range(published)
  \/ id \in lost \/ Skipped(id)

\* Every key in tradedTokens is that of a transfer before those to come.
SeenInv(b) ==
  \A key \in seen : \E other \in LogIds :
    /\ other[1] = b /\ Is(LogAt(other), "Transfer") /\ ~Plain(LogAt(other))
    /\ PairKey(LogAt(other)) = key
    /\ \A id \in logs : other[2] < id[2]

OwnInv(b) ==
  /\ phase = "logs" => \A id \in LogIds : id[1] = b => Settled(id) \/ id \in logs
  /\ phase \in {"save", "ack"} => \A id \in LogIds : id[1] = b => Settled(id)
  /\ phase = "logs" /\ mon = "spend" => SeenInv(b)

PublishInv ==
  /\ AckedPublished
  /\ phase = "query" => seen = {}
  /\ \A b \in Blocks : Own(b) => OwnInv(b)

\* An order the bloom filters have, the one in memory and the one in storage,
\* or that is known to be missing there.
Stored == IF stored \in {NoFile, Torn} THEN {} ELSE stored
Kept(order) == /\ bloom # NoFile => order \in bloom \cup unsaved
               /\ order \in Stored \cup unsaved

OrdersOf(b) == UNION {{record.order : record \in Due(log)} : log \in Range(Logs[b])}

\* The bloom filter of the process, and the stored one.
FileTypes ==
  /\ bloom \in (SUBSET Orders) \cup {NoFile} /\ stored \in (SUBSET Orders) \cup {NoFile, Torn}
  /\ phase \in {"query", "logs", "save", "ack"} => bloom # NoFile

AckedKept ==
  \A pair \in acked : pair[2] = {pair[1]} => \A order \in OrdersOf(pair[1]) : Kept(order)

OwnKept(b) ==
  /\ phase = "logs" => \A id \in LogIds : id[1] = b =>
                         id \in logs \/ \A record \in Due(LogAt(id)) : record.order \in bloom
  /\ phase = "save" => OrdersOf(b) \subseteq bloom
  /\ phase = "ack" => \A order \in OrdersOf(b) : Kept(order)

BloomInv == mon = "fill" => /\ FileTypes /\ AckedKept
                            /\ \A b \in Blocks : Own(b) => OwnKept(b)

\* Only blocks the monitor was given are acked.
AckedBlocks == \A pair \in acked : pair[1] \in Blocks

Inv == Shapes /\ LogsAsked /\ AckedBlocks /\ DupInv /\ PublishInv /\ BloomInv

-----------------------------------------------------------------------------
(* Blocks, logs and queries.                                               *)

\* A block's number is its place in the chains it is on.
LEMMA NumberOf == ASSUME NEW c \in Chains, NEW n \in DOMAIN c
                  PROVE  c[n] \in Blocks /\ Number(c[n]) = n /\ n \in Numbers
<1>1. n \in Numbers
  BY DEF Numbers
<1>2. \A m \in Numbers : (\E d \in Chains : m \in DOMAIN d /\ d[m] = c[n]) <=> m = n
  BY <1>1, ChainAssumption
<1>3. Number(c[n]) = n
  BY <1>1, <1>2 DEF Number
<1>4. c[n] \in Blocks
  BY ChainAssumption
<1> QED BY <1>1, <1>3, <1>4

\* Every block has a number.
LEMMA BlockNumber == ASSUME NEW b \in Blocks PROVE Number(b) \in Numbers
<1>1. PICK c \in Chains : b \in Range(c)
  BY ChainAssumption
<1>2. PICK n \in DOMAIN c : b = c[n]
  BY <1>1 DEF Range
<1> QED BY <1>2, NumberOf

\* Numbers are natural.
LEMMA NumberNat == ASSUME NEW n \in Numbers PROVE n \in Nat /\ n > 0
<1>1. PICK c \in Chains : n \in DOMAIN c
  BY DEF Numbers
<1>2. c \in Seq(Blocks)
  BY ChainAssumption
<1> QED BY <1>1, <1>2

\* The place of a log is one of its block's.
LEMMA LogPlace == ASSUME NEW b \in Blocks, NEW log \in Range(Logs[b])
                  PROVE  \E id \in LogIds : id[1] = b /\ LogAt(id) = log
<1>1. PICK i \in DOMAIN Logs[b] : log = Logs[b][i]
  BY DEF Range
<1>2. <<b, i>> \in LogIds
  BY DEF LogIds
<1>3. LogAt(<<b, i>>) = log
  BY <1>1 DEF LogAt
<1> QED BY <1>2, <1>3

\* A place has a block and a log of it.
LEMMA PlaceLog == ASSUME NEW id \in LogIds
                  PROVE  id[1] \in Blocks /\ LogAt(id) \in Range(Logs[id[1]])
BY DEF LogIds, LogAt, Range

\* A log's contract and topics are in the block's bloom filter.
LEMMA InBloom == ASSUME NEW b \in Blocks, NEW log \in Range(Logs[b])
                 PROVE  /\ log.addr \in Bloom(b)
                        /\ \A i \in DOMAIN log.topics : Topic(At(log, i)) \in Bloom(b)
<1>1. \A i \in DOMAIN log.topics : log.topics[i] = Topic(At(log, i)) /\ log.topics[i] \in Range(log.topics)
  BY LogAssumption DEF Range
<1>2. ({log.addr} \cup Range(log.topics)) \subseteq Bloom(b)
  BY DEF Bloom
<1> QED BY <1>1, <1>2

\* The topics of a log are numbered from 1.
LEMMA TopicFacts == ASSUME NEW b \in Blocks, NEW log \in Range(Logs[b])
                    PROVE  /\ DOMAIN log.topics = 1..Len(log.topics) /\ Len(log.topics) \in Nat
                           /\ log.topics # <<>> => 1 \in DOMAIN log.topics
                           /\ EventLayout(log)
<1>1. log.topics \in Seq(Range(log.topics)) /\ EventLayout(log)
  BY LogAssumption
<1> QED BY <1>1

\* An event's name is its first topic.
LEMMA NameTopic == ASSUME NEW b \in Blocks, NEW log \in Range(Logs[b]), NEW event, Is(log, event)
                   PROVE  log.topics[1] = Topic(event) /\ Topic(event) \in Bloom(b)
<1>1. 1 \in DOMAIN log.topics /\ At(log, 1) = event
  BY TopicFacts DEF Is
<1> QED BY <1>1, InBloom, LogAssumption

\* The names of events are told apart.
LEMMA TopicInjective == ASSUME NEW v, NEW w, Topic(v) = Topic(w) PROVE v = w
BY DEF Topic

\* What a query with one set of names and otherwise nil topics matches.
LEMMA MatchByName ==
  ASSUME NEW b \in Blocks, NEW log \in Range(Logs[b]), NEW addrs, NEW names, NEW topics,
         addrs = Nil \/ log.addr \in addrs,
         log.topics[1] \in names,
         topics \in {<<names>>, <<names, Nil, Nil>>, <<names, Nil, Nil, Nil>>},
         Len(log.topics) >= Len(topics)
  PROVE  Matches(Query(addrs, topics), log)
BY TopicFacts DEF Matches, Query, Nil

\* The query of block b finds the log, and Consume takes the record from it.
Found(b, log, record) ==
  /\ QueryOf(b) # {}
  /\ \A query \in QueryOf(b) : Matches(query, log)
  /\ record \in Told(log)

\* The fill monitor finds every fill and cancellation.
LEMMA FillFound ==
  ASSUME mon = "fill", NEW b \in Blocks, NEW log \in Range(Logs[b]), NEW record \in Due(log)
  PROVE  Found(b, log, record)
<1>1. \/ Is(log, "Fill") /\ record = [order |-> At(log, 4), amount |-> log.word, cancel |-> FALSE]
      \/ Is(log, "Cancel") /\ record = [order |-> At(log, 4), amount |-> "0", cancel |-> TRUE]
  BY DEF Due
<1> DEFINE names == {Topic("Fill"), Topic("Cancel")}
           topics == <<names, Nil, Nil>>
           query == Query({Exchange}, topics)
<1>2. log.topics[1] \in names /\ names \cap Bloom(b) # {}
  BY <1>1, NameTopic
<1>3. log.addr = Exchange /\ Len(log.topics) = 4 /\ log.size >= 256 /\ log.size \in Nat
  BY <1>1, TopicFacts, LogAssumption DEF EventLayout
<1>4. QueryOf(b) = {query}
  BY <1>2, <1>3, InBloom DEF QueryOf, FillQuery
<1>5. Matches(query, log)
  <2>1. Len(topics) = 3 /\ Len(log.topics) >= Len(topics) /\ log.addr \in {Exchange}
    BY <1>3
  <2> HIDE DEF names
  <2> QED BY <1>2, <2>1, MatchByName
<1>6. record \in Told(log)
  <2>1. RecordOf(log) = FillRecord(log) /\ Told(log) = RecordOf(log)
    BY DEF RecordOf, Told
  <2>2. Is(log, "Cancel") => At(log, 1) # "Fill"
    BY DEF Is
  <2> QED BY <1>1, <1>3, <2>1, <2>2 DEF FillRecord, Is
<1> QED BY <1>4, <1>5, <1>6 DEF Found

\* The spend monitor finds the transfers it does not skip.
LEMMA SpendFound ==
  ASSUME mon = "spend", NEW b \in Blocks, NEW log \in Range(Logs[b]), NEW record \in Due(log),
         NEW id, id[1] = b, LogAt(id) = log, ~Skipped(id)
  PROVE  Found(b, log, record)
<1>1. /\ Is(log, "Transfer")
      /\ record = [token |-> log.addr, asset |-> Sent(log), owner |-> Arg(log, 1)]
  BY DEF Due
<1>0. ~Plain(log) /\ (log \in Reverts <=> log.addr \in Hybrid)
  BY DEF Skipped
<1> DEFINE names == {Topic("Transfer")}
           topics == <<names, Nil, Nil>>
           query == Query(Nil, topics)
<1>2. log.topics[1] \in names /\ Topic("Transfer") \in Bloom(b)
  BY <1>1, NameTopic
<1>7. \/ log.addr \in Hybrid /\ Len(log.topics) = 3
      \/ log.addr \notin Hybrid /\ Len(log.topics) \in {3, 4}
  <2>1. EventLayout(log)
    BY TopicFacts
  <2> QED BY <1>0, <1>1, <2>1 DEF EventLayout, Plain
<1>3. Len(log.topics) >= 3
  BY <1>0, <1>7
<1>4. QueryOf(b) = {query}
  BY <1>2 DEF QueryOf, SpendQuery
<1>5. Matches(query, log)
  <2>1. Len(topics) = 3
    OBVIOUS
  <2> HIDE DEF names
  <2> QED BY <1>2, <1>3, <2>1, MatchByName
<1>6. record \in Told(log)
  <2>1. Arg(log, 1) = At(log, 2) /\ (Len(log.topics) = 4 => Arg(log, 3) = At(log, 4))
    BY <1>0 DEF Arg
  <2>2. Sent(log) = TransferAsset(log)
    BY <1>0, <1>7, <2>1 DEF Sent, TransferAsset
  <2> QED BY <1>1, <2>1, <2>2 DEF Told
<1> QED BY <1>4, <1>5, <1>6 DEF Found

\* The allowance monitor finds the allowances of the proxy it asks for.
LEMMA AllowanceFound ==
  ASSUME mon = "allowance", NEW b \in Blocks, NEW log \in Range(Logs[b]), NEW record \in Due(log),
         NEW id, id[1] = b, LogAt(id) = log, ~Skipped(id)
  PROVE  Found(b, log, record)
<1>1. /\ Is(log, "Approval") /\ Len(log.topics) = 3 /\ At(log, 3) \in {TokenProxy, RoboDexProxy}
      /\ record = [token |-> log.addr, owner |-> At(log, 2), balance |-> log.word]
  BY DEF Due
<1> DEFINE topics == <<{Topic("Approval")}, Nil, {Topic(At(log, 3))}>>
           query == Query(Nil, topics)
<1>2. /\ log.topics[1] = Topic("Approval") /\ log.topics[3] = Topic(At(log, 3))
      /\ Topic("Approval") \in Bloom(b) /\ Topic(At(log, 3)) \in Bloom(b)
  <2>1. 3 \in DOMAIN log.topics
    BY <1>1, TopicFacts
  <2> QED BY <1>1, <2>1, NameTopic, InBloom, LogAssumption
<1>3. At(log, 3) = RoboDexProxy => Topic(TokenProxy) \notin Bloom(b)
  BY <1>1, <1>2 DEF Skipped
<1>4. QueryOf(b) = {query}
  <2>1. QueryOf(b) = AllowanceQuery(b)
    BY DEF QueryOf
  <2>2. CASE At(log, 3) = TokenProxy
    BY <1>2, <2>1, <2>2 DEF AllowanceQuery
  <2>3. CASE At(log, 3) = RoboDexProxy
    BY <1>2, <1>3, <2>1, <2>3 DEF AllowanceQuery
  <2> QED BY <1>1, <2>2, <2>3
<1>5. Matches(query, log)
  BY <1>1, <1>2 DEF Matches, Query, Nil
<1>6. record \in Told(log)
  <2>1. Told(log) = AllowanceRecord(log)
    BY DEF RecordOf, Told
  <2>2. log.size = 32
    <3>1. EventLayout(log)
      BY TopicFacts
    <3> QED BY <1>1, <3>1 DEF EventLayout
  <2> QED BY <1>1, <2>1, <2>2 DEF AllowanceRecord
<1> QED BY <1>4, <1>5, <1>6 DEF Found

\* The approval monitor finds the approvals that are taken away.
LEMMA ApprovalFound ==
  ASSUME mon = "approval", NEW b \in Blocks, NEW log \in Range(Logs[b]), NEW record \in Due(log),
         NEW id, id[1] = b, LogAt(id) = log, ~Skipped(id)
  PROVE  Found(b, log, record)
<1>1. /\ Is(log, "Approval") /\ Len(log.topics) = 4 /\ At(log, 3) # TokenProxy
      /\ record = [token |-> log.addr, asset |-> <<log.addr, At(log, 4)>>, owner |-> At(log, 2)]
  <2>1. ~Plain(log) /\ ~Is(log, "ApprovalForAll")
    BY DEF Skipped
  <2>2. /\ Is(log, "Approval") /\ Len(log.topics) # 3 /\ Arg(log, 2) # TokenProxy
        /\ record = [token |-> log.addr, asset |-> <<log.addr, Arg(log, 3)>>, owner |-> Arg(log, 1)]
    BY <2>1 DEF Due
  <2>3. EventLayout(log)
    BY TopicFacts
  <2>4. Len(log.topics) = 4
    BY <2>1, <2>2, <2>3 DEF EventLayout, Plain
  <2>5. Arg(log, 1) = At(log, 2) /\ Arg(log, 2) = At(log, 3) /\ Arg(log, 3) = At(log, 4)
    BY <2>1 DEF Arg
  <2> QED BY <2>2, <2>4, <2>5
<1> DEFINE names == {Topic("Approval"), Topic("ApprovalForAll")}
           topics == <<names, Nil, Nil, Nil>>
           query == Query(Nil, topics)
<1>2. log.topics[1] \in names /\ Topic("Approval") \in Bloom(b)
  BY <1>1, NameTopic
<1>3. QueryOf(b) = {query}
  BY <1>2 DEF QueryOf, ApprovalQuery
<1>4. Matches(query, log)
  <2>1. Len(topics) = 4
    OBVIOUS
  <2> HIDE DEF names
  <2> QED BY <1>1, <1>2, <2>1, MatchByName
<1>5. record \in Told(log)
  <2>1. Told(log) = ApprovalRecord(log)
    BY DEF RecordOf, Told
  <2> QED BY <1>1, <2>1 DEF ApprovalRecord, Is
<1> QED BY <1>3, <1>4, <1>5 DEF Found

\* The cancel-up-to monitor finds every epoch.
LEMMA CancelUpToFound ==
  ASSUME mon = "cancelupto", NEW b \in Blocks, NEW log \in Range(Logs[b]), NEW record \in Due(log)
  PROVE  Found(b, log, record)
<1>1. /\ Is(log, "CancelUpTo")
      /\ record = [maker |-> At(log, 2), sender |-> At(log, 3), epoch |-> log.word]
  BY DEF Due
<1> DEFINE names == {Topic("CancelUpTo")}
           topics == <<names, Nil, Nil>>
           query == Query({Exchange}, topics)
<1>2. log.topics[1] \in names /\ Topic("CancelUpTo") \in Bloom(b)
  BY <1>1, NameTopic
<1>3. log.addr = Exchange /\ Len(log.topics) = 3 /\ log.size = 32
  BY <1>1, TopicFacts DEF EventLayout
<1>4. QueryOf(b) = {query}
  BY <1>2, <1>3, InBloom DEF QueryOf, CancelUpToQuery
<1>5. Matches(query, log)
  <2>1. Len(topics) = 3
    OBVIOUS
  <2> HIDE DEF names
  <2> QED BY <1>2, <1>3, <2>1, MatchByName
<1>6. record \in Told(log)
  <2>1. Told(log) = CancelUpToRecord(log)
    BY DEF RecordOf, Told
  <2> QED BY <1>1, <1>3, <2>1 DEF CancelUpToRecord
<1> QED BY <1>4, <1>5, <1>6 DEF Found

\* The affiliate monitor finds every signup.
LEMMA AffiliateFound ==
  ASSUME mon = "affiliate", NEW b \in Blocks, NEW log \in Range(Logs[b]), NEW record \in Due(log)
  PROVE  Found(b, log, record)
<1>1. Is(log, "Signup") /\ record = [affiliate |-> log.word]
  BY DEF Due
<1> DEFINE names == {Topic("Signup")}
           topics == <<names>>
           query == Query({Addr("signup")}, topics)
<1>2. log.topics[1] \in names /\ Topic("Signup") \in Bloom(b)
  BY <1>1, NameTopic
<1>3. log.addr = Addr("signup") /\ Len(log.topics) >= 1
  BY <1>1, TopicFacts DEF EventLayout, Is
<1>4. QueryOf(b) = {query}
  BY <1>2, <1>3, InBloom DEF QueryOf, AffiliateQuery
<1>5. Matches(query, log)
  <2>1. Len(topics) = 1
    OBVIOUS
  <2> HIDE DEF names
  <2> QED BY <1>2, <1>3, <2>1, MatchByName
<1>6. record \in Told(log)
  <2>1. Told(log) = AffiliateRecord(log)
    BY DEF RecordOf, Told
  <2> QED BY <1>1, <2>1 DEF AffiliateRecord
<1> QED BY <1>4, <1>5, <1>6 DEF Found

\* Every service's query finds each log that tells it something and is not
\* known to be skipped.
LEMMA DueFound ==
  ASSUME mon \in Monitors, NEW id \in LogIds, ~Skipped(id), NEW record \in Due(LogAt(id))
  PROVE  Found(id[1], LogAt(id), record)
<1> DEFINE b == id[1]
           log == LogAt(id)
<1>1. mon \in {"fill", "spend", "allowance", "approval", "cancelupto", "affiliate", "multisig"}
  BY ChainAssumption
<1>2. mon # "multisig"
  BY DEF Due
<1>3. b \in Blocks /\ log \in Range(Logs[b]) /\ record \in Due(log) /\ id[1] = b /\ LogAt(id) = log
  BY PlaceLog
<1> HIDE DEF b, log
<1>4. Found(b, log, record)
  BY <1>1, <1>2, <1>3, FillFound, SpendFound, AllowanceFound, ApprovalFound, CancelUpToFound, AffiliateFound
<1> QED BY <1>4 DEF b, log

\* The fill monitor skips none.
LEMMA FillSkipsNone == ASSUME mon = "fill", NEW id PROVE ~Skipped(id)
BY DEF Skipped

-----------------------------------------------------------------------------
(* The steps.                                                              *)

\* The end of the process, in whichever way.
Ends == BeginFails \/ FilterFails \/ HandleLogFails \/ Crash

\* What all ends of the process have in common.
LEMMA EndFacts ==
  ASSUME Shapes, Ends
  PROVE  /\ phase # "down" /\ phase' = "down" /\ inflight' = <<>> /\ asked' = {} /\ logs' = {}
         /\ ready' \in Seq(Blocks) /\ orphans' \in Seq(Blocks)
         /\ bloom' = NoFile /\ unsaved' = unsaved
         /\ mon' = mon /\ chain' = chain
         /\ published' = published /\ taken' = taken /\ acked' = acked
         /\ faults' \in 0..MaxFaults
<1> USE BoundAssumption
<1>1. PICK returned \in BOOLEAN : End(returned) /\ (returned => phase \in {"query", "logs"})
  BY DEF Ends, BeginFails, FilterFails, HandleLogFails, Crash
<1>2. returned => inflight # <<>> /\ Head(inflight) \in Blocks /\ Tail(inflight) \in Seq(Blocks)
  BY <1>1 DEF Shapes
<1>3. orphans' \in Seq(Blocks) /\ ready' \in Seq(Blocks)
  <2>1. CASE returned
    <3>1. orphans' = orphans \o Tail(inflight) /\ ready' = <<Head(inflight)>> \o ready
      BY <1>1, <2>1 DEF End
    <3>2. <<Head(inflight)>> \in Seq(Blocks)
      BY <1>2, <2>1
    <3> QED BY <1>2, <2>1, <3>1, <3>2, ConcatProperties DEF Shapes
  <2>2. CASE ~returned
    <3>1. orphans' = orphans \o inflight /\ ready' = ready
      BY <1>1, <2>2 DEF End
    <3> QED BY <3>1, ConcatProperties DEF Shapes
  <2> QED BY <2>1, <2>2
<1>4. faults' \in 0..MaxFaults
  <2>1. faults' = faults \/ Fault
    BY DEF Ends, BeginFails, FilterFails, HandleLogFails, Crash
  <2>2. faults \in 0..MaxFaults
    BY DEF Shapes
  <2> QED BY <2>1, <2>2 DEF Fault
<1>5. unsaved' = unsaved /\ phase # "down"
  BY DEF Ends, BeginFails, FilterFails, HandleLogFails, Crash
<1> QED BY <1>1, <1>3, <1>4, <1>5 DEF End, world, history

\* Publishing leaves a sequence of records with places.
LEMMA PublishFacts ==
  ASSUME Shapes, NEW id \in logs, Publish(id)
  PROVE  /\ \E S : published' \in Seq(S)
         /\ \A k \in DOMAIN published' : published'[k].of \in LogIds
         /\ \/ RecordOf(LogAt(id)) = {} /\ published' = published
            \/ \E r \in RecordOf(LogAt(id)) :
                 /\ Len(published') = Len(published) + 1
                 /\ DOMAIN published' = DOMAIN published \cup {Len(published) + 1}
                 /\ Len(published) + 1 \notin DOMAIN published
                 /\ \A k \in DOMAIN published : published'[k] = published[k]
                 /\ published'[Len(published) + 1] = [of |-> id, record |-> r]
<1>1. PICK S : published \in Seq(S)
  BY DEF Shapes
<1>2. CASE RecordOf(LogAt(id)) = {} /\ UNCHANGED published
  BY <1>1, <1>2 DEF Shapes
<1>3. ASSUME NEW r \in RecordOf(LogAt(id)), published' = Append(published, [of |-> id, record |-> r])
      PROVE  /\ \E T : published' \in Seq(T)
             /\ \A k \in DOMAIN published' : published'[k].of \in LogIds
             /\ Len(published') = Len(published) + 1
             /\ DOMAIN published' = DOMAIN published \cup {Len(published) + 1}
             /\ Len(published) + 1 \notin DOMAIN published
             /\ \A k \in DOMAIN published : published'[k] = published[k]
             /\ published'[Len(published) + 1] = [of |-> id, record |-> r]
  <2> DEFINE e == [of |-> id, record |-> r]
             T == S \cup {e}
  <2>1. e.of = id /\ id \in LogIds
    BY DEF Shapes
  <2>2. e \in T /\ published \in Seq(T) /\ published' = Append(published, e)
    BY <1>1, <1>3
  <2> HIDE DEF e, T
  <2>3. /\ published' \in Seq(T) /\ Len(published') = Len(published) + 1
        /\ \A k \in 1..Len(published) : published'[k] = published[k]
        /\ published'[Len(published) + 1] = e
    BY <2>2, AppendProperties
  <2>4. DOMAIN published = 1..Len(published) /\ Len(published) \in Nat
    BY <1>1
  <2>5. DOMAIN published' = 1..Len(published) + 1
    BY <2>3, LenProperties
  <2>6. DOMAIN published' = DOMAIN published \cup {Len(published) + 1}
    BY <2>4, <2>5
  <2>7. \A k \in DOMAIN published' : published'[k].of \in LogIds
    BY <2>1, <2>3, <2>4, <2>6 DEF Shapes
  <2> QED BY <2>3, <2>4, <2>6, <2>7 DEF e
<1> QED BY <1>2, <1>3 DEF Publish

\* The loop over the logs: the next is published or skipped, or its record is
\* refused.
Loop == HandleLog \/ RecordRefused

Handled(x) ==
  /\ Remember(x) /\ logs' = logs \ {x} /\ \A id \in logs' : Before(x, id)
  /\ \/ Publish(x) /\ lost' = lost
     \/ published' = published /\ lost' = lost \cup {x}

LEMMA LoopFacts ==
  ASSUME Shapes, Loop
  PROVE  /\ \E x \in logs : Handled(x)
         /\ phase = "logs" /\ phase' = "logs" /\ faults' \in 0..MaxFaults
         /\ UNCHANGED <<mon, chain, ready, inflight, orphans, asked, stored, unsaved, taken, acked>>
<1> USE BoundAssumption
<1>1. CASE HandleLog
  <2>1. PICK x \in NextLog : Publish(x) /\ Remember(x) /\ logs' = logs \ {x}
    BY <1>1 DEF HandleLog
  <2>2. x \in logs /\ (\A id \in logs' : Before(x, id)) /\ lost' = lost
    BY <1>1, <2>1 DEF HandleLog, NextLog
  <2> QED BY <1>1, <2>1, <2>2 DEF Handled, HandleLog, Shapes, world, queue
<1>2. CASE RecordRefused
  <2>1. PICK x \in NextLog : lost' = lost \cup {x} /\ Remember(x) /\ logs' = logs \ {x}
    BY <1>2 DEF RecordRefused
  <2>2. x \in logs /\ (\A id \in logs' : Before(x, id)) /\ published' = published
    BY <1>2, <2>1 DEF RecordRefused, NextLog
  <2>3. faults' \in 0..MaxFaults
    BY <1>2 DEF RecordRefused, Fault, Shapes
  <2> QED BY <1>2, <2>1, <2>2, <2>3 DEF Handled, RecordRefused, world, queue
<1> QED BY <1>1, <1>2 DEF Loop

\* A block begun is numbered.
LEMMA HeadFacts == ASSUME Shapes, inflight # <<>>
                   PROVE  /\ Head(inflight) \in Blocks /\ Number(Head(inflight)) \in Numbers
                          /\ Tail(inflight) \in Seq(Blocks) /\ Len(Tail(inflight)) = Len(inflight) - 1
<1>1. Head(inflight) \in Blocks /\ Tail(inflight) \in Seq(Blocks) /\ Len(Tail(inflight)) = Len(inflight) - 1
  BY DEF Shapes
<1> QED BY <1>1, BlockNumber

\* The node's chain is a sequence of blocks.
LEMMA ChainSeq == ASSUME Shapes
                  PROVE  chain \in Seq(Blocks) /\ Len(chain) \in Nat /\ DOMAIN chain = 1..Len(chain)
<1>1. chain \in Seq(Blocks)
  <2>1. chain \in Chains \/ chain = <<>>
    BY DEF Shapes
  <2>2. <<>> \in Seq(Blocks)
    BY EmptySeq
  <2> QED BY <2>1, <2>2, ChainAssumption
<1> QED BY <1>1, LenProperties

\* What FilterLogs gives.
LEMMA FilterFacts ==
  ASSUME Shapes, Filter
  PROVE  LET b == Head(inflight)
             n == Number(b)
         IN  /\ b \in Blocks /\ n \in Nat
             /\ \E query \in QueryOf(b) :
                  logs' = {id \in LogIds : /\ n \in DOMAIN chain /\ chain[n] = id[1]
                                           /\ Matches(query, LogAt(id))}
             /\ asked' = IF n \in DOMAIN chain THEN {chain[n]} ELSE {}
             /\ n \in DOMAIN chain => Number(chain[n]) = n
<1> DEFINE b == Head(inflight)
           n == Number(b)
<1>1. inflight # <<>>
  BY DEF Shapes, Filter
<1>2. b \in Blocks /\ n \in Numbers
  BY <1>1, HeadFacts
<1>4. n \in Nat /\ n > 0
  BY <1>2, NumberNat
<1>5. chain \in Seq(Blocks) /\ Len(chain) \in Nat /\ DOMAIN chain = 1..Len(chain)
  BY ChainSeq
<1>6. n \in DOMAIN chain <=> ~(n > Len(chain))
  BY <1>4, <1>5
<1>7. n..n = {n}
  BY <1>4
<1>8. n \in DOMAIN chain => Number(chain[n]) = n
  <2>1. n \in DOMAIN chain => chain \in Chains
    BY <1>4 DEF Shapes
  <2> HIDE DEF n
  <2> QED BY <2>1, NumberOf
<1>9. PICK query \in QueryOf(b) : logs' = FilterLogs(query, n, n)
  BY DEF Filter
<1>10. logs' = {id \in LogIds : n \in DOMAIN chain /\ chain[n] = id[1] /\ Matches(query, LogAt(id))}
  <2> HIDE DEF n
  <2> QED BY <1>7, <1>9 DEF FilterLogs
<1>11. asked' = IF n > Len(chain) THEN {} ELSE {chain[n]}
  BY DEF Filter
<1> HIDE DEF b, n
<1>12. asked' = IF n \in DOMAIN chain THEN {chain[n]} ELSE {}
  BY <1>6, <1>11
<1>13. /\ b \in Blocks /\ n \in Nat
       /\ \E q \in QueryOf(b) :
            logs' = {id \in LogIds : /\ n \in DOMAIN chain /\ chain[n] = id[1]
                                     /\ Matches(q, LogAt(id))}
       /\ asked' = IF n \in DOMAIN chain THEN {chain[n]} ELSE {}
       /\ n \in DOMAIN chain => Number(chain[n]) = n
  BY <1>2, <1>4, <1>8, <1>9, <1>10, <1>12
<1> QED BY <1>13 DEF b, n

\* A new head gives the queue blocks.
LEMMA NewHeadShapes == ASSUME Shapes, NewHead PROVE chain' \in Chains /\ ready' \in Seq(Blocks)
<1>1. PICK c \in Chains, k \in 0..Len(chain) :
        Len(c) > Len(chain) /\ chain' = c /\ ready' = ready \o SubSeq(c, k + 1, Len(c))
  BY DEF NewHead
<1>2. c \in Seq(Blocks) /\ Len(chain) \in Nat
  BY ChainAssumption, ChainSeq
<1>3. SubSeq(c, k + 1, Len(c)) \in Seq(Blocks)
  BY <1>1, <1>2
<1> QED BY <1>1, <1>3, ConcatProperties DEF Shapes

\* Every step keeps the types.
LEMMA ShapesStep == ASSUME Shapes, [Next]_vars PROVE Shapes'
<1> USE BoundAssumption
<1>1. CASE NewHead
  <2>1. chain' \in Chains /\ ready' \in Seq(Blocks)
    BY <1>1, NewHeadShapes
  <2>2. UNCHANGED <<mon, inflight, orphans, phase, logs, published, taken, faults>>
    BY <1>1 DEF NewHead, work, history
  <2> QED BY <2>1, <2>2 DEF Shapes
<1>2. CASE Fetch
  <2>1. Head(ready) \in Blocks /\ ready' \in Seq(Blocks)
    BY <1>2 DEF Fetch, Shapes
  <2>2. inflight' \in Seq(Blocks) /\ Len(inflight') = Len(inflight) + 1 /\ inflight' # <<>>
    <3>1. inflight \in Seq(Blocks) /\ inflight' = Append(inflight, Head(ready))
      BY <1>2 DEF Fetch, Shapes
    <3>2. inflight' \in Seq(Blocks) /\ Len(inflight') = Len(inflight) + 1
      BY <2>1, <3>1, AppendProperties
    <3> QED BY <3>1, <3>2
  <2>3. Len(inflight) \in Nat /\ Len(inflight') <= Prefetch
    BY <1>2, <2>2 DEF Fetch, Shapes
  <2>4. UNCHANGED <<mon, chain, orphans, phase, logs, published, taken, faults>>
    BY <1>2 DEF Fetch, world, work, history
  <2> QED BY <2>1, <2>2, <2>3, <2>4 DEF Shapes
<1>3. CASE Begin
  <2>1. inflight # <<>> /\ Number(Head(inflight)) \in Numbers
    BY <1>3, HeadFacts DEF Begin
  <2>2. taken' \in [Numbers -> Nat]
    BY <1>3, <2>1 DEF Begin, Shapes
  <2>3. phase = "idle" /\ phase' \in {"ack", "query"}
    BY <1>3 DEF Begin
  <2>4. UNCHANGED <<mon, chain, ready, inflight, orphans, logs, published, faults>>
    BY <1>3 DEF Begin, world, queue
  <2> QED BY <2>1, <2>2, <2>3, <2>4 DEF Shapes
<1>4. CASE Ends
  <2>1. <<>> \in Seq(Blocks) /\ Len(<<>>) = 0
    OBVIOUS
  <2>2. Len(inflight') <= Prefetch /\ inflight' \in Seq(Blocks)
    BY <1>4, <2>1, EndFacts
  <2>3. phase' = "down" /\ logs' = {} /\ UNCHANGED <<mon, chain, published, taken>>
    BY <1>4, EndFacts
  <2>4. ready' \in Seq(Blocks) /\ orphans' \in Seq(Blocks) /\ faults' \in 0..MaxFaults
    BY <1>4, EndFacts
  <2> QED BY <2>2, <2>3, <2>4 DEF Shapes
<1>5. CASE Filter
  <2>1. logs' \subseteq LogIds
    BY <1>5, FilterFacts
  <2>2. UNCHANGED <<mon, chain, ready, inflight, orphans, published, taken, faults>> /\ phase = "query" /\ phase' = "logs"
    BY <1>5 DEF Filter, world, queue, history
  <2> QED BY <2>1, <2>2 DEF Shapes
<1>6. CASE Loop
  <2>1. PICK id \in logs : Handled(id)
    BY <1>6, LoopFacts
  <2>2. (\E S : published' \in Seq(S)) /\ \A k \in DOMAIN published' : published'[k].of \in LogIds
    BY <2>1, PublishFacts DEF Handled, Shapes
  <2>3. /\ UNCHANGED <<mon, chain, ready, inflight, orphans, taken>>
        /\ phase = "logs" /\ phase' = "logs" /\ faults' \in 0..MaxFaults
    BY <1>6, LoopFacts
  <2> QED BY <2>1, <2>2, <2>3 DEF Handled, Shapes
<1>7. CASE LogsDone \/ Save \/ Restart
  <2>1. UNCHANGED <<mon, chain, ready, inflight, orphans, logs, published, taken, faults>>
    BY <1>7 DEF LogsDone, Save, Restart, world, queue, history
  <2>2. /\ phase' \in {"save", "ack", "idle"} /\ (phase' = "save" => mon = "fill")
        /\ phase' # "idle" => inflight # <<>>
        /\ logs = {}
    BY <1>7 DEF LogsDone, Save, Restart, Shapes
  <2> QED BY <2>1, <2>2 DEF Shapes
<1>8. CASE SaveFails
  <2>1. UNCHANGED <<mon, chain, ready, inflight, orphans, logs, published, taken>> /\ phase = "save" /\ phase' = "ack"
    BY <1>8 DEF SaveFails, world, queue, history
  <2>2. faults' \in 0..MaxFaults
    BY <1>8 DEF SaveFails, Fault, Shapes
  <2> QED BY <2>1, <2>2 DEF Shapes
<1>9. CASE Ack
  <2>1. inflight # <<>> /\ phase = "ack" /\ phase' = "idle" /\ inflight' = Tail(inflight)
    BY <1>9 DEF Ack, Shapes
  <2>2. inflight' \in Seq(Blocks) /\ Len(inflight') <= Prefetch
    BY <2>1, HeadFacts DEF Shapes
  <2>3. UNCHANGED <<mon, chain, ready, orphans, logs, published, taken, faults>>
    BY <1>9 DEF Ack, world
  <2> QED BY <2>1, <2>2, <2>3 DEF Shapes
<1>10. CASE UNCHANGED vars
  BY <1>10 DEF Shapes, vars, world, queue, work, history
<1> QED BY <1>1, <1>2, <1>3, <1>4, <1>5, <1>6, <1>7, <1>8, <1>9, <1>10 DEF Next, Consume, Ends, Loop

-----------------------------------------------------------------------------
(* The logs gone through.                                                  *)

\* Steps of which the loop over the logs sees nothing, or that end it.
Quiet == NewHead \/ Fetch \/ Begin \/ Ends \/ LogsDone \/ Save \/ SaveFails \/ Ack \/ Restart
         \/ UNCHANGED vars

\* They leave the loop as it is, with the same block, or there is no loop.
LEMMA QuietFacts ==
  ASSUME Shapes, Quiet
  PROVE  \/ logs' = {}
         \/ /\ logs' = logs /\ asked' = asked /\ mon' = mon
            /\ inflight # <<>> /\ inflight' # <<>> /\ Head(inflight') = Head(inflight)
<1>1. CASE logs = {}
  <2>1. CASE Ends
    BY <2>1, EndFacts
  <2>2. CASE ~Ends
    BY <1>1, <2>2 DEF Quiet, NewHead, Fetch, Begin, LogsDone, Save, SaveFails, Ack, Restart, vars, work
  <2> QED BY <2>1, <2>2
<1>2. CASE logs # {}
  <2>1. phase = "logs" /\ inflight # <<>>
    BY <1>2 DEF Shapes
  <2>2. CASE NewHead \/ UNCHANGED vars
    BY <2>1, <2>2 DEF NewHead, vars, world, queue, work
  <2>3. CASE Fetch
    <3>1. Head(ready) \in Blocks
      BY <2>3 DEF Fetch, Shapes
    <3>2. inflight \in Seq(Blocks) /\ inflight' = Append(inflight, Head(ready))
      BY <2>3 DEF Fetch, Shapes
    <3>3. inflight' # <<>> /\ Head(inflight') = Head(inflight)
      BY <2>1, <3>1, <3>2
    <3> QED BY <2>1, <2>3, <3>3 DEF Fetch, world, work
  <2>4. CASE Ends
    BY <2>4, EndFacts
  <2>5. CASE Begin \/ LogsDone \/ Save \/ SaveFails \/ Ack \/ Restart
    BY <1>2, <2>1, <2>5 DEF Begin, LogsDone, Save, SaveFails, Ack, Restart
  <2> QED BY <2>2, <2>3, <2>4, <2>5 DEF Quiet
<1> QED BY <1>1, <1>2

\* What a query for events by name finds are such events.
LEMMA MatchedName ==
  ASSUME NEW id \in LogIds, NEW names, NEW addrs, names # {},
         Matches(Query(addrs, <<names, Nil, Nil>>), LogAt(id))
  PROVE  /\ LogAt(id).topics # <<>> /\ Topic(At(LogAt(id), 1)) \in names
         /\ ~Plain(LogAt(id))
<1> DEFINE log == LogAt(id)
           query == Query(addrs, <<names, Nil, Nil>>)
<1>1. id[1] \in Blocks /\ log \in Range(Logs[id[1]])
  BY PlaceLog
<1>2. DOMAIN log.topics = 1..Len(log.topics) /\ Len(log.topics) \in Nat
  BY <1>1, TopicFacts
<1>3. \A i \in DOMAIN log.topics : log.topics[i] = Topic(At(log, i))
  BY <1>1, LogAssumption
<1>4. query.topics = <<names, Nil, Nil>> /\ Matches(query, log)
  BY DEF Query
<1> HIDE DEF log, query
<1>5. Len(query.topics) = 3 /\ 1 \in DOMAIN query.topics /\ query.topics[1] = names
  BY <1>4
<1>6. Len(query.topics) <= Len(log.topics)
  BY <1>4 DEF Matches
<1>7. query.topics[1] = {} \/ log.topics[1] \in query.topics[1]
  BY <1>4, <1>5 DEF Matches, Nil
<1>8. 1 \in DOMAIN log.topics /\ log.topics # <<>> /\ log.topics[1] \in names
  BY <1>2, <1>5, <1>6, <1>7
<1>9. ~Plain(log)
  BY <1>2, <1>5, <1>6 DEF Plain
<1> QED BY <1>3, <1>8, <1>9 DEF log

\* The queries of the fill and of the spend monitor are for their events.
LEMMA QueryNames ==
  ASSUME NEW b, NEW query \in QueryOf(b), NEW id \in LogIds, Matches(query, LogAt(id))
  PROVE  /\ mon = "fill" => Is(LogAt(id), "Fill") \/ Is(LogAt(id), "Cancel")
         /\ mon = "spend" => Is(LogAt(id), "Transfer") /\ ~Plain(LogAt(id))
<1> DEFINE log == LogAt(id)
<1>1. mon = "fill" => Is(log, "Fill") \/ Is(log, "Cancel")
  <2> SUFFICES ASSUME mon = "fill" PROVE Is(log, "Fill") \/ Is(log, "Cancel")
    OBVIOUS
  <2>1. query = Query({Exchange}, <<{Topic("Fill"), Topic("Cancel")}, Nil, Nil>>)
    BY DEF QueryOf, FillQuery
  <2>2. log.topics # <<>> /\ Topic(At(log, 1)) \in {Topic("Fill"), Topic("Cancel")}
    BY <2>1, MatchedName
  <2> QED BY <2>2 DEF Is, Topic
<1>2. mon = "spend" => Is(log, "Transfer") /\ ~Plain(log)
  <2> SUFFICES ASSUME mon = "spend" PROVE Is(log, "Transfer") /\ ~Plain(log)
    OBVIOUS
  <2>1. query = Query(Nil, <<{Topic("Transfer")}, Nil, Nil>>)
    BY DEF QueryOf, SpendQuery
  <2>2. log.topics # <<>> /\ Topic(At(log, 1)) \in {Topic("Transfer")} /\ ~Plain(log)
    BY <2>1, MatchedName
  <2> QED BY <2>2 DEF Is, Topic
<1> QED BY <1>1, <1>2

\* All steps.
LEMMA StepKinds == ASSUME [Next]_vars PROVE Quiet \/ Filter \/ Loop
BY DEF Next, Consume, Quiet, Ends, Loop

\* The logs stay those of the block Consume is at.
LEMMA LogsAskedStep == ASSUME Shapes, LogsAsked, [Next]_vars PROVE LogsAsked'
<1>1. CASE Quiet
  BY <1>1, QuietFacts DEF LogsAsked
<1>2. CASE Filter
  <2> DEFINE b == Head(inflight)
             n == Number(b)
  <2>1. PICK query \in QueryOf(b) :
          logs' = {id \in LogIds : n \in DOMAIN chain /\ chain[n] = id[1] /\ Matches(query, LogAt(id))}
    BY <1>2, FilterFacts
  <2>2. /\ asked' = IF n \in DOMAIN chain THEN {chain[n]} ELSE {}
        /\ n \in DOMAIN chain => Number(chain[n]) = n
    BY <1>2, FilterFacts
  <2>3. inflight' = inflight /\ mon' = mon
    BY <1>2 DEF Filter, world, queue
  <2> SUFFICES ASSUME NEW id \in logs'
               PROVE  /\ id[1] \in asked' /\ Number(id[1]) = Number(Head(inflight'))
                      /\ mon = "fill" => Is(LogAt(id), "Fill") \/ Is(LogAt(id), "Cancel")
                      /\ mon = "spend" => Is(LogAt(id), "Transfer") /\ ~Plain(LogAt(id))
    BY <2>3 DEF LogsAsked
  <2>4. id \in LogIds /\ n \in DOMAIN chain /\ chain[n] = id[1] /\ Matches(query, LogAt(id))
    BY <2>1
  <2>5. id[1] \in asked' /\ Number(id[1]) = n
    BY <2>2, <2>4
  <2> QED BY <2>3, <2>4, <2>5, QueryNames
<1>3. CASE Loop
  <2>1. UNCHANGED <<asked, inflight, mon>> /\ logs' \subseteq logs
    BY <1>3, LoopFacts DEF Handled
  <2> QED BY <2>1 DEF LogsAsked
<1> QED BY <1>1, <1>2, <1>3, StepKinds

\* Only blocks are acked.
LEMMA AckedBlocksStep == ASSUME Shapes, AckedBlocks, [Next]_vars PROVE AckedBlocks'
<1>1. CASE Ack
  <2>1. inflight # <<>>
    BY <1>1 DEF Ack, Shapes
  <2>2. Head(inflight) \in Blocks
    BY <2>1, HeadFacts
  <2>3. acked' = acked \cup {<<Head(inflight), asked>>}
    BY <1>1 DEF Ack
  <2> QED BY <2>2, <2>3 DEF AckedBlocks
<1>2. CASE ~Ack
  <2>1. acked' = acked
    BY <1>2 DEF Next, Consume, NewHead, Fetch, Begin, BeginFails, FilterFails, HandleLogFails, Crash,
                End, Filter, HandleLog, RecordRefused, LogsDone, Save, SaveFails, Restart, history, vars
  <2> QED BY <2>1 DEF AckedBlocks
<1> QED BY <1>1, <1>2

-----------------------------------------------------------------------------
(* Duplicates.                                                             *)

\* A log has finitely many copies.
LEMMA CopiesFinite ==
  ASSUME Shapes, NEW id PROVE IsFiniteSet(Copies(id)) /\ Cardinality(Copies(id)) \in Nat
<1>1. PICK S : published \in Seq(S)
  BY DEF Shapes
<1>2. IsFiniteSet(1..Len(published))
  BY <1>1, FS_Interval
<1>3. IsFiniteSet(Copies(id))
  BY <1>1, <1>2, FS_Subset DEF Copies
<1> QED BY <1>3, FS_CardinalityType

\* One more copy of the log that is published, if any.
LEMMA CopiesPublish ==
  ASSUME Shapes, NEW id \in logs, Publish(id), NEW other
  PROVE  Cardinality(Copies(other)') <= Cardinality(Copies(other)) + (IF other = id THEN 1 ELSE 0)
<1>1. IsFiniteSet(Copies(other)) /\ Cardinality(Copies(other)) \in Nat
  BY CopiesFinite
<1>2. CASE published' = published
  <2>1. Copies(other)' = Copies(other)
    BY <1>2 DEF Copies
  <2> QED BY <1>1, <2>1
<1>3. CASE published' # published
  <2> DEFINE n == Len(published) + 1
  <2>1. PICK r : /\ DOMAIN published' = DOMAIN published \cup {n}
                 /\ n \notin DOMAIN published
                 /\ \A k \in DOMAIN published : published'[k] = published[k]
                 /\ published'[n] = [of |-> id, record |-> r]
    BY <1>3, PublishFacts
  <2> HIDE DEF n
  <2>2. published'[n].of = id
    BY <2>1
  <2>3. Copies(other)' = IF other = id THEN Copies(other) \cup {n} ELSE Copies(other)
    BY <2>1, <2>2 DEF Copies
  <2>4. n \notin Copies(other)
    BY <2>1 DEF Copies
  <2>5. Cardinality(Copies(other) \cup {n}) = Cardinality(Copies(other)) + 1
    BY <1>1, <2>4, FS_AddElement
  <2> QED BY <1>1, <2>3, <2>5
<1> QED BY <1>2, <1>3

\* Each step keeps as many beginnings as copies, published or to be published.
LEMMA DupStep == ASSUME Shapes, LogsAsked, DupInv, [Next]_vars PROVE DupInv'
<1> SUFFICES ASSUME NEW id \in LogIds
             PROVE  Cardinality(Copies(id)') + (IF Pending(id)' THEN 1 ELSE 0) <= taken'[Number(id[1])]
  BY DEF DupInv
<1>1. id[1] \in Blocks /\ Number(id[1]) \in Numbers
  BY PlaceLog, BlockNumber
<1>2. Cardinality(Copies(id)) \in Nat /\ taken[Number(id[1])] \in Nat
  BY <1>1, CopiesFinite DEF Shapes
<1>3. Cardinality(Copies(id)) + (IF Pending(id) THEN 1 ELSE 0) <= taken[Number(id[1])]
  BY DEF DupInv
<1>4. ASSUME published' = published, taken' = taken, Pending(id)' => Pending(id)
      PROVE  Cardinality(Copies(id)') + (IF Pending(id)' THEN 1 ELSE 0) <= taken'[Number(id[1])]
  <2>1. Copies(id)' = Copies(id)
    BY <1>4 DEF Copies
  <2> QED BY <1>2, <1>3, <1>4, <2>1
<1>5. CASE Begin
  <2> DEFINE n == Number(Head(inflight))
             m == Number(id[1])
  <2>1. inflight # <<>> /\ phase = "idle" /\ inflight' = inflight /\ published' = published /\ logs' = logs
    BY <1>5 DEF Begin, queue
  <2>2. logs = {}
    BY <2>1 DEF Shapes
  <2>3. n \in Numbers /\ taken' = [taken EXCEPT ![n] = @ + 1] /\ taken \in [Numbers -> Nat]
    BY <1>5, <2>1, HeadFacts DEF Begin, Shapes
  <2>4. Copies(id)' = Copies(id)
    BY <2>1 DEF Copies
  <2>5. Pending(id)' => m = n
    BY <2>1, <2>2 DEF Pending
  <2> HIDE DEF n, m
  <2>6. taken'[m] = IF m = n THEN taken[m] + 1 ELSE taken[m]
    BY <1>1, <2>3 DEF m
  <2>7. m = Number(id[1])
    BY DEF m
  <2> QED BY <1>2, <1>3, <2>4, <2>5, <2>6, <2>7
<1>6. CASE Filter
  <2>1. published' = published /\ taken' = taken /\ phase = "query" /\ phase' = "logs"
    BY <1>6 DEF Filter, history
  <2>2. id \in logs' => Number(id[1]) = Number(Head(inflight))
    BY <1>6, LogsAskedStep DEF LogsAsked, Filter, queue
  <2> QED BY <1>4, <2>1, <2>2 DEF Pending
<1>7. CASE Loop
  <2>1. PICK x \in logs : Handled(x)
    BY <1>7, LoopFacts
  <2>2. taken' = taken /\ phase = "logs" /\ phase' = "logs" /\ logs' = logs \ {x}
    BY <1>7, <2>1, LoopFacts DEF Handled
  <2>3. Cardinality(Copies(id)') <= Cardinality(Copies(id)) + (IF id = x THEN 1 ELSE 0)
    <3>1. CASE Publish(x)
      BY <2>1, <3>1, CopiesPublish
    <3>2. CASE published' = published
      <4>1. Copies(id)' = Copies(id)
        BY <3>2 DEF Copies
      <4> QED BY <1>2, <4>1
    <3> QED BY <2>1, <3>1, <3>2 DEF Handled
  <2>4. Cardinality(Copies(id)') \in Nat
    <3>1. Shapes'
      BY ShapesStep
    <3>2. IsFiniteSet(Copies(id)') /\ Cardinality(Copies(id)') \in Nat
      <4>1. PICK S : published' \in Seq(S)
        BY <3>1 DEF Shapes
      <4>2. IsFiniteSet(1..Len(published'))
        BY <4>1, FS_Interval
      <4>3. IsFiniteSet(Copies(id)')
        BY <4>1, <4>2, FS_Subset DEF Copies
      <4> QED BY <4>3, FS_CardinalityType
    <3> QED BY <3>2
  <2>5. CASE id = x
    <3>1. Pending(id) /\ ~Pending(id)'
      BY <2>1, <2>2, <2>5 DEF Pending
    <3> QED BY <1>2, <1>3, <2>2, <2>3, <2>4, <2>5, <3>1
  <2>6. CASE id # x
    <3>1. Pending(id)' <=> Pending(id)
      BY <2>1, <2>2, <2>6 DEF Pending
    <3> QED BY <1>2, <1>3, <2>2, <2>3, <2>4, <2>6, <3>1
  <2> QED BY <2>5, <2>6
<1>8. CASE Quiet /\ ~Begin
  <2>1. CASE Ends
    BY <1>4, <2>1, EndFacts DEF Pending
  <2>2. CASE ~Ends
    <3>1. published' = published /\ taken' = taken
      BY <1>8, <2>2 DEF Quiet, NewHead, Fetch, LogsDone, Save, SaveFails, Ack, Restart, vars, history
    <3>2. phase' = "query" => phase = "query"
      BY <1>8, <2>2 DEF Quiet, NewHead, Fetch, LogsDone, Save, SaveFails, Ack, Restart, vars, work
    <3>3. phase' = "query" => Head(inflight') = Head(inflight)
      <4>1. CASE Fetch
        <5>1. Head(ready) \in Blocks /\ inflight \in Seq(Blocks) /\ inflight' = Append(inflight, Head(ready))
          BY <4>1 DEF Fetch, Shapes
        <5>2. phase' = "query" => inflight # <<>>
          BY <3>2 DEF Shapes
        <5> QED BY <5>1, <5>2
      <4>2. CASE ~Fetch
        BY <1>8, <2>2, <4>2
           DEF Quiet, NewHead, LogsDone, Save, SaveFails, Ack, Restart, vars, queue
      <4> QED BY <4>1, <4>2
    <3>4. logs' \subseteq logs
      BY <1>8, QuietFacts
    <3>5. Pending(id)' => Pending(id)
      BY <3>2, <3>3, <3>4 DEF Pending
    <3> QED BY <1>4, <3>1, <3>5
  <2> QED BY <2>1, <2>2
<1> QED BY <1>5, <1>6, <1>7, <1>8, StepKinds

-----------------------------------------------------------------------------
(* What is due is published.                                               *)

\* The service is the same for ever.
LEMMA SameMonitor == ASSUME [Next]_vars PROVE mon' = mon
BY DEF Next, Consume, NewHead, Fetch, Begin, BeginFails, FilterFails, HandleLogFails, Crash, End,
       Filter, HandleLog, RecordRefused, LogsDone, Save, SaveFails, Ack, Restart, world, vars

\* What is due, skipped and told depends on the service alone.
LEMMA SameDue ==
  ASSUME mon' = mon, mon \in Monitors, NEW id, NEW log
  PROVE  Due(log)' = Due(log) /\ (Skipped(id)' <=> Skipped(id)) /\ Told(log)' = Told(log)
<1>1. Due(log)' = Due(log)
  BY DEF Due
<1>2. Skipped(id)' <=> Skipped(id)
  BY DEF Skipped
<1>3. Told(log)' = Told(log)
  <2>1. CASE mon = "spend"
    BY <2>1 DEF Told
  <2>2. CASE mon # "spend"
    <3>1. mon \in {"fill", "allowance", "approval", "cancelupto", "affiliate", "multisig"}
      BY <2>2, ChainAssumption
    <3>2. RecordOf(log)' = RecordOf(log)
      BY <3>1 DEF RecordOf, FillRecord, AllowanceRecord, ApprovalRecord, CancelUpToRecord, AffiliateRecord
    <3> QED BY <2>2, <3>2 DEF Told
  <2> QED BY <2>1, <2>2
<1> QED BY <1>1, <1>2, <1>3

\* Nothing is unpublished, and what was refused is not forgotten.
LEMMA PublishedGrow ==
  ASSUME Shapes, [Next]_vars PROVE Range(published) \subseteq Range(published') /\ lost \subseteq lost'
<1>1. CASE Loop
  <2>1. PICK x \in logs : Handled(x)
    BY <1>1, LoopFacts
  <2>2. CASE Publish(x)
    <3>1. \A k \in DOMAIN published : k \in DOMAIN published' /\ published'[k] = published[k]
      BY <2>2, PublishFacts
    <3>2. lost \subseteq lost'
      BY <2>1 DEF Handled
    <3> QED BY <3>1, <3>2 DEF Range
  <2>3. CASE published' = published
    BY <2>1, <2>3 DEF Handled
  <2> QED BY <2>1, <2>2, <2>3 DEF Handled
<1>2. CASE ~Loop
  <2>1. published' = published /\ lost' = lost
    BY <1>2 DEF Next, Consume, NewHead, Fetch, Begin, BeginFails, FilterFails, HandleLogFails, Crash,
                End, Filter, LogsDone, Save, SaveFails, Ack, Restart, Loop, history, vars
  <2> QED BY <2>1
<1> QED BY <1>1, <1>2

\* A log has at most one record.
LEMMA OneRecord ==
  ASSUME mon \in Monitors, NEW log, NEW r \in RecordOf(log), NEW q \in RecordOf(log) PROVE r = q
<1>1. mon \in {"fill", "spend", "allowance", "approval", "cancelupto", "affiliate", "multisig"}
  BY ChainAssumption
<1>2. CASE mon = "fill"
  <2> DEFINE f == [order |-> At(log, 4), amount |-> log.word, cancel |-> FALSE]
             c == [order |-> At(log, 4), amount |-> "0", cancel |-> TRUE]
  <2>1. RecordOf(log) = FillRecord(log)
    BY <1>2 DEF RecordOf
  <2>2. FillRecord(log) = {} \/ FillRecord(log) = {f} \/ FillRecord(log) = {c}
    BY Zenon DEF FillRecord
  <2> HIDE DEF f, c
  <2> QED BY <2>1, <2>2
<1>3. CASE mon = "spend"
  BY <1>3 DEF RecordOf, SpendRecord
<1>4. CASE mon = "allowance"
  BY <1>4 DEF RecordOf, AllowanceRecord
<1>5. CASE mon = "approval"
  BY <1>5 DEF RecordOf, ApprovalRecord
<1>6. CASE mon = "cancelupto"
  BY <1>6 DEF RecordOf, CancelUpToRecord
<1>7. CASE mon = "affiliate"
  BY <1>7 DEF RecordOf, AffiliateRecord
<1>8. CASE mon = "multisig"
  BY <1>8 DEF RecordOf
<1> QED BY <1>1, <1>2, <1>3, <1>4, <1>5, <1>6, <1>7, <1>8

\* After a log was published, its record is among those of that log.
LEMMA RecordPublished ==
  ASSUME Shapes, NEW x \in logs, Publish(x), NEW r \in RecordOf(LogAt(x))
  PROVE  [of |-> x, record |-> r] \in Range(published')
<1>1. PICK q \in RecordOf(LogAt(x)) :
        /\ DOMAIN published' = DOMAIN published \cup {Len(published) + 1}
        /\ published'[Len(published) + 1] = [of |-> x, record |-> q]
  BY PublishFacts
<1>2. q = r
  BY OneRecord DEF Shapes
<1> DEFINE n == Len(published) + 1
<1>3. n \in DOMAIN published' /\ published'[n] = [of |-> x, record |-> r]
  BY <1>1, <1>2
<1> HIDE DEF n
<1> QED BY <1>3 DEF Range

\* What was settled stays settled.
LEMMA SettledStays ==
  ASSUME Shapes, [Next]_vars, NEW id, Settled(id) PROVE Settled(id)'
<1>1. mon' = mon /\ mon \in Monitors
  BY SameMonitor DEF Shapes
<1>2. Due(LogAt(id))' = Due(LogAt(id)) /\ (Skipped(id)' <=> Skipped(id))
  BY <1>1, SameDue
<1> QED BY <1>2, PublishedGrow DEF Settled

\* A transfer the spend monitor goes through and does not skip is one it has
\* not seen.
LEMMA SpendSeen ==
  ASSUME Shapes, LogsAsked, mon = "spend", NEW b \in Blocks, SeenInv(b), NEW x \in logs, x[1] = b,
         ~Skipped(x), NEW record \in Told(LogAt(x))
  PROVE  record \in RecordOf(LogAt(x))
<1> DEFINE log == LogAt(x)
<1>1. log \in Range(Logs[b]) /\ Is(log, "Transfer") /\ ~Plain(log)
  BY PlaceLog DEF Shapes, LogsAsked
<1>2. PairKey(log) \notin seen
  <2> SUFFICES ASSUME PairKey(log) \in seen PROVE FALSE
    OBVIOUS
  <2>1. PICK other \in LogIds :
          /\ other[1] = b /\ Is(LogAt(other), "Transfer") /\ ~Plain(LogAt(other))
          /\ PairKey(LogAt(other)) = PairKey(log) /\ other[2] < x[2]
    BY DEF SeenInv
  <2> QED BY <2>1 DEF Skipped
<1>3. Len(log.topics) \in {3, 4}
  <2>1. EventLayout(log)
    BY <1>1, TopicFacts
  <2> QED BY <1>1, <2>1 DEF EventLayout, Plain
<1>4. record = [token |-> log.addr, asset |-> TransferAsset(log), owner |-> At(log, 2)]
  BY DEF Told
<1> HIDE DEF log
<1>5. RecordOf(log) = SpendRecord(log)
  BY DEF RecordOf
<1>6. record \in RecordOf(log)
  BY <1>2, <1>3, <1>4, <1>5 DEF SpendRecord
<1> QED BY <1>6 DEF log

\* A log that was handled is settled.
LEMMA HandledSettled ==
  ASSUME Shapes, LogsAsked, Loop, [Next]_vars, NEW b \in Blocks, Own(b), OwnInv(b),
         NEW x \in logs, Handled(x)
  PROVE  Settled(x)'
<1>1. phase = "logs" /\ x[1] = b /\ x \in LogIds
  BY LoopFacts DEF Own, LogsAsked, Shapes
<1>2. mon' = mon /\ mon \in Monitors
  BY SameMonitor DEF Shapes
<1>3. Due(LogAt(x))' = Due(LogAt(x)) /\ (Skipped(x)' <=> Skipped(x))
  BY <1>2, SameDue
<1>4. CASE x \in lost'
  BY <1>4 DEF Settled
<1>5. CASE Skipped(x)
  BY <1>3, <1>5 DEF Settled
<1>6. CASE x \notin lost' /\ ~Skipped(x)
  <2>1. Publish(x)
    BY <1>6 DEF Handled
  <2>2. ASSUME NEW record \in Due(LogAt(x)) PROVE [of |-> x, record |-> record] \in Range(published')
    <3>1. record \in Told(LogAt(x))
      BY <1>1, <1>2, <1>6, DueFound DEF Found
    <3>2. record \in RecordOf(LogAt(x))
      <4>1. CASE mon = "spend"
        BY <1>1, <1>6, <3>1, <4>1, SpendSeen DEF OwnInv
      <4>2. CASE mon # "spend"
        BY <3>1, <4>2 DEF Told
      <4> QED BY <4>1, <4>2
    <3> QED BY <2>1, <3>2, RecordPublished
  <2> QED BY <1>3, <2>2 DEF Settled
<1> QED BY <1>4, <1>5, <1>6

\* Its key is that of a transfer before those to come.
LEMMA HandledSeen ==
  ASSUME Shapes, LogsAsked, Loop, mon = "spend", NEW b \in Blocks, Own(b), SeenInv(b),
         NEW x \in logs, Handled(x)
  PROVE  SeenInv(b)'
<1>1. /\ seen' = seen \cup {PairKey(LogAt(x))} /\ logs' = logs \ {x}
      /\ \A id \in logs' : Before(x, id)
  BY DEF Handled, Remember
<1>2. x \in LogIds /\ x[1] = b /\ Is(LogAt(x), "Transfer") /\ ~Plain(LogAt(x))
  BY DEF Own, LogsAsked, Shapes
<1>3. ASSUME NEW id \in logs' PROVE x[2] < id[2]
  <2>1. id[1] = b
    BY <1>1, <1>3 DEF Own, LogsAsked
  <2>2. Number(b) \in Nat
    BY BlockNumber, NumberNat
  <2>3. ~(Number(b) < Number(b))
    BY <2>2
  <2> QED BY <1>1, <1>2, <1>3, <2>1, <2>3 DEF Before
<1> SUFFICES ASSUME NEW key \in seen'
             PROVE  \E other \in LogIds :
                      /\ other[1] = b /\ Is(LogAt(other), "Transfer") /\ ~Plain(LogAt(other))
                      /\ PairKey(LogAt(other)) = key
                      /\ \A id \in logs' : other[2] < id[2]
  BY DEF SeenInv
<1>4. CASE key \in seen
  BY <1>1, <1>4 DEF SeenInv
<1>5. CASE key = PairKey(LogAt(x))
  BY <1>2, <1>3, <1>5
<1> QED BY <1>1, <1>4, <1>5

\* The loop over a block's own logs.
LEMMA HandleOwn ==
  ASSUME Shapes, LogsAsked, Loop, [Next]_vars, NEW b \in Blocks, Own(b), OwnInv(b)
  PROVE  OwnInv(b)'
<1>1. PICK x \in logs : Handled(x)
  BY LoopFacts
<1>2. phase = "logs" /\ phase' = "logs" /\ mon' = mon /\ logs' = logs \ {x}
  BY <1>1, LoopFacts DEF Handled
<1>3. ASSUME NEW id \in LogIds, id[1] = b PROVE Settled(id)' \/ id \in logs'
  <2>1. Settled(id) \/ id \in logs
    BY <1>2, <1>3 DEF OwnInv
  <2>2. CASE Settled(id)
    BY <2>2, SettledStays
  <2>3. CASE id = x
    BY <1>1, <2>3, HandledSettled
  <2> QED BY <1>2, <2>1, <2>2, <2>3
<1>4. mon = "spend" => SeenInv(b)'
  BY <1>1, <1>2, HandledSeen DEF OwnInv
<1> QED BY <1>2, <1>3, <1>4 DEF OwnInv

\* The logs of the block itself have all that is due.
LEMMA FilterOwn ==
  ASSUME Shapes, PublishInv, Filter, [Next]_vars, NEW b \in Blocks, Own(b)'
  PROVE  /\ OwnInv(b)' /\ mon' = mon
         /\ \A id \in LogIds : id[1] = b => Skipped(id) \/ Due(LogAt(id)) = {} \/ id \in logs'
<1> DEFINE n == Number(b)
<1>1. phase' = "logs" /\ mon' = mon /\ mon \in Monitors /\ inflight' = inflight /\ seen' = {}
  BY SameMonitor DEF Filter, Shapes, PublishInv, world, queue
<1>2. b = Head(inflight) /\ asked' = {b}
  BY <1>1 DEF Own
<1>3. PICK query \in QueryOf(b) :
        logs' = {id \in LogIds : n \in DOMAIN chain /\ chain[n] = id[1] /\ Matches(query, LogAt(id))}
  BY <1>2, FilterFacts
<1>4. n \in DOMAIN chain /\ chain[n] = b
  <2>1. asked' = IF n \in DOMAIN chain THEN {chain[n]} ELSE {}
    BY <1>2, FilterFacts
  <2> HIDE DEF n
  <2> QED BY <1>2, <2>1
<1>5. ASSUME NEW id \in LogIds, id[1] = b, ~Skipped(id), NEW record \in Due(LogAt(id))
      PROVE  id \in logs'
  BY <1>1, <1>3, <1>4, <1>5, DueFound DEF Found
<1>6. ASSUME NEW id \in LogIds, id[1] = b PROVE Settled(id)' \/ id \in logs'
  <2>1. Due(LogAt(id))' = Due(LogAt(id)) /\ (Skipped(id)' <=> Skipped(id))
    BY <1>1, SameDue
  <2> QED BY <1>5, <1>6, <2>1 DEF Settled
<1>7. SeenInv(b)'
  BY <1>1 DEF SeenInv
<1> QED BY <1>1, <1>5, <1>6, <1>7 DEF OwnInv

\* Without a query nothing is due but what is skipped.
LEMMA NoQuery ==
  ASSUME mon \in Monitors, NEW id \in LogIds, QueryOf(id[1]) = {}
  PROVE  Skipped(id) \/ Due(LogAt(id)) = {}
BY DueFound DEF Found

\* Steps between the loops.
LEMMA QuietOwn ==
  ASSUME Shapes, PublishInv, Quiet, [Next]_vars, NEW b \in Blocks, Own(b)'
  PROVE  OwnInv(b)'
<1>0. mon' = mon /\ mon \in Monitors
  BY SameMonitor DEF Shapes
<1>1. CASE Begin
  <2>1. asked' = {Head(inflight)} /\ inflight' = inflight /\ phase' = IF QueryOf(Head(inflight)) = {} THEN "ack" ELSE "query"
    BY <1>1 DEF Begin, queue
  <2>2. b = Head(inflight)
    BY <2>1 DEF Own
  <2>3. ASSUME phase' = "ack", NEW id \in LogIds, id[1] = b PROVE Settled(id)'
    <3>1. Skipped(id) \/ Due(LogAt(id)) = {}
      BY <1>0, <2>1, <2>2, <2>3, NoQuery
    <3>2. Due(LogAt(id))' = Due(LogAt(id)) /\ (Skipped(id)' <=> Skipped(id))
      BY <1>0, SameDue
    <3> QED BY <3>1, <3>2 DEF Settled
  <2> QED BY <2>1, <2>3 DEF OwnInv
<1>2. CASE Ends
  BY <1>2, EndFacts DEF Own
<1>3. CASE Ack \/ Restart
  BY <1>3 DEF Ack, Restart, OwnInv
<1>4. CASE NewHead \/ Fetch \/ UNCHANGED vars
  <2>1. phase' = phase /\ asked' = asked /\ logs' = logs /\ seen' = seen /\ published' = published
    BY <1>4 DEF NewHead, Fetch, vars, work, history
  <2>2. phase \in {"logs", "save", "ack"} => inflight # <<>> /\ Head(inflight') = Head(inflight)
    <3>1. CASE Fetch
      <4>1. Head(ready) \in Blocks /\ inflight \in Seq(Blocks) /\ inflight' = Append(inflight, Head(ready))
        BY <3>1 DEF Fetch, Shapes
      <4>2. phase \in {"logs", "save", "ack"} => inflight # <<>>
        BY DEF Shapes
      <4> QED BY <4>1, <4>2
    <3>2. CASE ~Fetch
      BY <1>4, <3>2 DEF NewHead, vars, queue, Shapes
    <3> QED BY <3>1, <3>2
  <2>3. CASE phase \notin {"logs", "save", "ack"}
    BY <2>1, <2>3 DEF OwnInv
  <2>4. CASE phase \in {"logs", "save", "ack"}
    <3>1. Own(b) /\ OwnInv(b)
      BY <2>1, <2>2, <2>4 DEF Own, PublishInv
    <3>2. \A id : Settled(id) => Settled(id)'
      BY SettledStays
    <3>3. SeenInv(b) => SeenInv(b)'
      BY <2>1 DEF SeenInv
    <3> QED BY <1>0, <2>1, <3>1, <3>2, <3>3 DEF OwnInv
  <2> QED BY <2>3, <2>4
<1>5. CASE LogsDone \/ Save \/ SaveFails
  <2>1. inflight' = inflight /\ asked' = asked /\ phase' \in {"save", "ack"}
    BY <1>5 DEF LogsDone, Save, SaveFails, queue
  <2>2. phase \in {"logs", "save"} /\ (phase = "logs" => logs = {})
    BY <1>5 DEF LogsDone, Save, SaveFails
  <2>3. Own(b) /\ OwnInv(b)
    BY <2>1 DEF Own, PublishInv
  <2>4. \A id \in LogIds : id[1] = b => Settled(id)
    BY <2>2, <2>3 DEF OwnInv
  <2>5. \A id \in LogIds : id[1] = b => Settled(id)'
    BY <2>4, SettledStays
  <2> QED BY <2>1, <2>5 DEF OwnInv
<1> QED BY <1>1, <1>2, <1>3, <1>4, <1>5 DEF Quiet

\* Every step keeps what is said of acked blocks and of the block at hand.
LEMMA PublishStep ==
  ASSUME Shapes, LogsAsked, AckedBlocks, PublishInv, [Next]_vars PROVE PublishInv'
<1>0. mon' = mon /\ mon \in Monitors
  BY SameMonitor DEF Shapes
<1>1. AckedPublished'
  <2> SUFFICES ASSUME NEW pair \in acked', pair[2] = {pair[1]}, NEW id \in LogIds, id[1] = pair[1]
               PROVE  Settled(id)'
    BY DEF AckedPublished, Settled
  <2>1. CASE pair \in acked
    <3>1. Settled(id)
      BY <2>1 DEF PublishInv, AckedPublished, Settled
    <3> QED BY <3>1, SettledStays
  <2>2. CASE pair \notin acked
    <3>1. Ack
      BY <2>2 DEF Next, Consume, NewHead, Fetch, Begin, BeginFails, FilterFails, HandleLogFails, Crash,
                  End, Filter, HandleLog, RecordRefused, LogsDone, Save, SaveFails, Restart, history, vars
    <3>2. pair = <<Head(inflight), asked>> /\ phase = "ack" /\ inflight # <<>>
      BY <2>2, <3>1 DEF Ack, Shapes
    <3>3. Head(inflight) \in Blocks
      BY <3>2, HeadFacts
    <3>4. Own(pair[1]) /\ pair[1] \in Blocks
      BY <3>2, <3>3 DEF Own
    <3>5. Settled(id)
      BY <3>2, <3>4 DEF PublishInv, OwnInv
    <3> QED BY <3>5, SettledStays
  <2> QED BY <2>1, <2>2
<1>2. phase' = "query" => seen' = {}
  <2>1. CASE Begin
    BY <2>1 DEF Begin
  <2>2. CASE Ends
    BY <2>2, EndFacts
  <2>3. CASE ~Begin /\ ~Ends
    BY <2>3 DEF PublishInv, Next, Consume, Ends, NewHead, Fetch, Filter, HandleLog, RecordRefused, LogsDone,
                Save, SaveFails, Ack, Restart, work, vars
  <2> QED BY <2>1, <2>2, <2>3
<1>3. ASSUME NEW b \in Blocks, Own(b)' PROVE OwnInv(b)'
  <2>1. CASE Quiet
    BY <1>3, <2>1, QuietOwn
  <2>2. CASE Filter
    BY <1>3, <2>2, FilterOwn
  <2>3. CASE Loop
    <3>1. Own(b)
      BY <1>3, <2>3, LoopFacts DEF Own
    <3> QED BY <2>3, <3>1, HandleOwn DEF PublishInv
  <2> QED BY <2>1, <2>2, <2>3, StepKinds
<1> QED BY <1>1, <1>2, <1>3 DEF PublishInv

-----------------------------------------------------------------------------
(* The bloom filter.                                                       *)

\* A set of orders is a filter, not one of the two missing files.
LEMMA NotMissing == ASSUME NEW orders \in SUBSET Orders PROVE orders # NoFile /\ orders # Torn
BY FileAssumption

\* The events of fills and cancellations are of orders.
LEMMA RecordOrder ==
  ASSUME mon = "fill", NEW id \in LogIds, Is(LogAt(id), "Fill") \/ Is(LogAt(id), "Cancel"),
         NEW r \in RecordOf(LogAt(id))
  PROVE  r.order \in Orders
<1> DEFINE log == LogAt(id)
<1>1. At(log, 4) \in Orders
  BY DEF Orders
<1>2. RecordOf(log) = FillRecord(log)
  BY DEF RecordOf
<1>3. r.order = At(log, 4)
  <2>1. \/ r = [order |-> At(log, 4), amount |-> log.word, cancel |-> FALSE]
        \/ r = [order |-> At(log, 4), amount |-> "0", cancel |-> TRUE]
    BY <1>2, Zenon DEF FillRecord
  <2> QED BY <2>1
<1> QED BY <1>1, <1>3

\* What Initialize finds are orders.
LEMMA PopulateOrders == ASSUME NEW n PROVE Populate(n) \in SUBSET Orders
<1> SUFFICES ASSUME NEW x \in Populate(n) PROVE x \in Orders
  OBVIOUS
<1> DEFINE names == {Topic("LogFill"), Topic("LogCancel")}
           query == Query({Exchange}, <<names, Nil, Nil>>)
<1>1. PICK id \in LogIds : Matches(query, LogAt(id)) /\ x = LogAt(id).word
  BY DEF Populate, FilterLogs
<1>2. LogAt(id).topics # <<>> /\ Topic(At(LogAt(id), 1)) \in names
  <2>1. names # {}
    OBVIOUS
  <2> HIDE DEF names
  <2> QED BY <1>1, <2>1, MatchedName
<1>3. Is(LogAt(id), "LogFill") \/ Is(LogAt(id), "LogCancel")
  BY <1>2 DEF Is, Topic
<1> QED BY <1>1, <1>3 DEF Orders

\* The file is never forgotten: an end of the process, even in the middle of a
\* write, leaves a filter with all that was stored.
LEMMA EndStored ==
  ASSUME Shapes, FileTypes, Ends
  PROVE  stored' \in (SUBSET Orders) \cup {NoFile, Torn} /\ Stored \subseteq Stored'
<1>1. CASE stored' = stored
  BY <1>1 DEF FileTypes, Stored
<1>2. CASE stored' # stored
  <2>1. Crash /\ phase = "save"
    BY <1>2 DEF Ends, BeginFails, FilterFails, HandleLogFails, Crash
  <2>2. bloom \in SUBSET Orders
    BY <2>1 DEF FileTypes
  <2>3. CASE stored \in {NoFile, Torn}
    BY <2>1, <2>3 DEF Crash, Stored
  <2>4. CASE stored \notin {NoFile, Torn}
    <3>1. PICK part \in SUBSET bloom : stored' = stored \cup part
      BY <2>1, <2>4 DEF Crash
    <3>2. stored \in SUBSET Orders
      BY <2>4 DEF FileTypes
    <3>3. stored' \in SUBSET Orders
      BY <2>2, <3>1, <3>2
    <3>4. stored' \notin {NoFile, Torn}
      BY <3>3, NotMissing
    <3> QED BY <2>4, <3>1, <3>3, <3>4 DEF Stored
  <2> QED BY <2>3, <2>4
<1> QED BY <1>1, <1>2

\* Every step keeps the filters filters.
LEMMA FileTypesStep ==
  ASSUME Shapes, LogsAsked, FileTypes, mon = "fill", [Next]_vars PROVE FileTypes'
<1>1. CASE Begin
  <2>1. /\ bloom' = Initialized(Number(Head(inflight)))
        /\ bloom = NoFile => stored # Torn
        /\ stored' = stored
    BY <1>1 DEF Begin
  <2>2. bloom' \in SUBSET Orders
    BY <2>1, PopulateOrders DEF Initialized, FileTypes
  <2> QED BY <2>1, <2>2, NotMissing DEF FileTypes
<1>2. CASE Ends
  BY <1>2, EndFacts, EndStored DEF FileTypes
<1>3. CASE Loop
  <2>1. PICK x \in logs : Handled(x)
    BY <1>3, LoopFacts
  <2>2. phase = "logs" /\ stored' = stored
    BY <1>3, LoopFacts
  <2>3. bloom \in SUBSET Orders
    BY <2>2 DEF FileTypes
  <2>4. bloom' = bloom \cup {r.order : r \in RecordOf(LogAt(x))}
    BY <2>1 DEF Handled, Remember
  <2>5. x \in LogIds /\ (Is(LogAt(x), "Fill") \/ Is(LogAt(x), "Cancel"))
    BY <2>1 DEF LogsAsked, Shapes
  <2>6. \A r \in RecordOf(LogAt(x)) : r.order \in Orders
    BY <2>5, RecordOrder
  <2>7. bloom' \in SUBSET Orders
    BY <2>3, <2>4, <2>6
  <2> QED BY <2>2, <2>7, NotMissing DEF FileTypes
<1>4. CASE Save
  <2>1. bloom \in SUBSET Orders /\ bloom # NoFile /\ stored' = bloom /\ bloom' = bloom
    BY <1>4 DEF Save, FileTypes
  <2> QED BY <2>1 DEF FileTypes
<1>5. CASE Restart
  BY <1>5 DEF Restart, storage, FileTypes
<1>6. CASE NewHead \/ Fetch \/ Filter \/ LogsDone \/ SaveFails \/ Ack \/ UNCHANGED vars
  <2>1. bloom' = bloom /\ stored' = stored
    BY <1>6 DEF NewHead, Fetch, Filter, LogsDone, SaveFails, Ack, storage, vars
  <2>2. phase' = phase \/ phase' = "idle" \/ phase \in {"query", "logs", "save"}
    BY <1>6 DEF NewHead, Fetch, Filter, LogsDone, SaveFails, Ack, work, vars
  <2> QED BY <2>1, <2>2 DEF FileTypes
<1> QED BY <1>1, <1>2, <1>3, <1>4, <1>5, <1>6 DEF Next, Consume, Ends, Loop

\* An order that is kept stays kept, in whatever way the filters change.
LEMMA KeptStays ==
  ASSUME Shapes, LogsAsked, FileTypes, mon = "fill", [Next]_vars, NEW order, Kept(order)
  PROVE  Kept(order)'
<1>0. FileTypes'
  BY FileTypesStep
<1>1. CASE Begin
  <2>1. /\ bloom' = Initialized(Number(Head(inflight))) /\ stored' = stored /\ unsaved' = unsaved
        /\ bloom = NoFile => stored # Torn
    BY <1>1 DEF Begin
  <2>2. CASE bloom # NoFile
    BY <2>1, <2>2 DEF Initialized, Kept, Stored
  <2>3. CASE bloom = NoFile
    BY <2>1, <2>3 DEF Initialized, Kept, Stored
  <2> QED BY <2>2, <2>3
<1>2. CASE Ends
  BY <1>2, EndFacts, EndStored DEF Kept
<1>3. CASE Loop
  <2>1. PICK x \in logs : Handled(x)
    BY <1>3, LoopFacts
  <2>2. bloom \subseteq bloom' /\ stored' = stored /\ unsaved' = unsaved /\ phase = "logs"
    BY <1>3, <2>1, LoopFacts DEF Handled, Remember
  <2>3. bloom # NoFile
    BY <2>2 DEF FileTypes
  <2> QED BY <2>2, <2>3 DEF Kept, Stored
<1>4. CASE Save
  <2>1. bloom \in SUBSET Orders /\ bloom # NoFile /\ stored' = bloom /\ bloom' = bloom /\ unsaved' = unsaved \ bloom
    BY <1>4 DEF Save, FileTypes
  <2>2. Stored' = bloom
    BY <2>1, NotMissing DEF Stored
  <2> QED BY <2>1, <2>2 DEF Kept
<1>5. CASE SaveFails
  <2>1. bloom' = bloom /\ stored' = stored /\ unsaved \subseteq unsaved'
    BY <1>5 DEF SaveFails
  <2> QED BY <2>1 DEF Kept, Stored
<1>6. CASE NewHead \/ Fetch \/ Filter \/ LogsDone \/ Ack \/ Restart \/ UNCHANGED vars
  <2>1. bloom' = bloom /\ stored' = stored /\ unsaved' = unsaved
    BY <1>6 DEF NewHead, Fetch, Filter, LogsDone, Ack, Restart, storage, vars
  <2> QED BY <2>1 DEF Kept, Stored
<1> QED BY <1>1, <1>2, <1>3, <1>4, <1>5, <1>6 DEF Next, Consume, Ends, Loop

\* The block at hand: its orders reach the filter before it is acked.
LEMMA OwnKeptStep ==
  ASSUME Shapes, LogsAsked, PublishInv, BloomInv, mon = "fill", [Next]_vars,
         NEW b \in Blocks, Own(b)'
  PROVE  OwnKept(b)'
<1>0. mon' = mon /\ mon \in Monitors /\ FileTypes /\ (Own(b) => OwnKept(b))
  BY SameMonitor DEF Shapes, BloomInv
<1>1. /\ \A log : Due(log)' = Due(log)
      /\ OrdersOf(b)' = OrdersOf(b)
      /\ \A id \in LogIds : id[1] = b => LogAt(id) \in Range(Logs[b])
  BY <1>0, SameDue, PlaceLog DEF OrdersOf
<1>2. CASE Begin
  <2>1. asked' = {Head(inflight)} /\ inflight' = inflight /\ phase' = IF QueryOf(Head(inflight)) = {} THEN "ack" ELSE "query"
    BY <1>2 DEF Begin, queue
  <2>2. b = Head(inflight)
    BY <2>1 DEF Own
  <2>3. phase' = "ack" => OrdersOf(b) = {}
    <3> SUFFICES ASSUME phase' = "ack", NEW log \in Range(Logs[b]) PROVE Due(log) = {}
      BY DEF OrdersOf
    <3>1. PICK id \in LogIds : id[1] = b /\ LogAt(id) = log
      BY LogPlace
    <3> QED BY <1>0, <2>1, <2>2, <3>1, NoQuery, FillSkipsNone
  <2> QED BY <1>1, <2>1, <2>3 DEF OwnKept
<1>3. CASE Ends
  BY <1>3, EndFacts DEF Own
<1>4. CASE Ack \/ Restart
  BY <1>4 DEF Ack, Restart, OwnKept
<1>5. CASE NewHead \/ Fetch \/ UNCHANGED vars
  <2>1. phase' = phase /\ asked' = asked /\ logs' = logs /\ bloom' = bloom
    BY <1>5 DEF NewHead, Fetch, vars, work, storage
  <2>2. phase \in {"logs", "save", "ack"} => inflight # <<>> /\ Head(inflight') = Head(inflight)
    <3>1. CASE Fetch
      <4>1. Head(ready) \in Blocks /\ inflight \in Seq(Blocks) /\ inflight' = Append(inflight, Head(ready))
        BY <3>1 DEF Fetch, Shapes
      <4>2. phase \in {"logs", "save", "ack"} => inflight # <<>>
        BY DEF Shapes
      <4> QED BY <4>1, <4>2
    <3>2. CASE ~Fetch
      BY <1>5, <3>2 DEF NewHead, vars, queue, Shapes
    <3> QED BY <3>1, <3>2
  <2>3. CASE phase \notin {"logs", "save", "ack"}
    BY <2>1, <2>3 DEF OwnKept
  <2>4. CASE phase \in {"logs", "save", "ack"}
    <3>1. OwnKept(b)
      BY <1>0, <2>1, <2>2, <2>4 DEF Own
    <3>2. \A order : Kept(order) => Kept(order)'
      BY <1>0, KeptStays
    <3> QED BY <1>1, <2>1, <3>1, <3>2 DEF OwnKept
  <2> QED BY <2>3, <2>4
<1>6. CASE Filter
  <2>1. \A id \in LogIds : id[1] = b => Due(LogAt(id)) = {} \/ id \in logs'
    BY <1>6, FilterOwn, FillSkipsNone
  <2>2. phase' = "logs"
    BY <1>6 DEF Filter
  <2> QED BY <1>1, <2>1, <2>2 DEF OwnKept
<1>7. CASE Loop
  <2>1. PICK x \in logs : Handled(x)
    BY <1>7, LoopFacts
  <2>2. phase = "logs" /\ phase' = "logs" /\ inflight' = inflight /\ asked' = asked
    BY <1>7, LoopFacts
  <2>3. OwnKept(b)
    BY <1>0, <2>2 DEF Own
  <2>4. bloom' = bloom \cup {r.order : r \in RecordOf(LogAt(x))} /\ logs' = logs \ {x}
    BY <2>1 DEF Handled, Remember
  <2>5. ASSUME NEW id \in LogIds, id[1] = b
        PROVE  id \in logs' \/ \A record \in Due(LogAt(id)) : record.order \in bloom'
    <3>1. id \in logs \/ \A record \in Due(LogAt(id)) : record.order \in bloom
      BY <2>2, <2>3, <2>5 DEF OwnKept
    <3>2. CASE id = x
      <4>1. \A record \in Due(LogAt(x)) : record \in RecordOf(LogAt(x))
        BY <1>0, <2>5, <3>2, DueFound, FillSkipsNone DEF Found, Told
      <4> QED BY <2>4, <3>2, <4>1
    <3>3. CASE id # x
      BY <2>4, <3>1, <3>3
    <3> QED BY <3>2, <3>3
  <2> QED BY <1>1, <2>2, <2>5 DEF OwnKept
<1>8. CASE LogsDone
  <2>1. inflight' = inflight /\ asked' = asked /\ phase = "logs" /\ phase' = "save" /\ logs = {} /\ bloom' = bloom
    BY <1>8 DEF LogsDone, queue, storage
  <2>2. OwnKept(b)
    BY <1>0, <2>1 DEF Own
  <2>3. \A id \in LogIds : id[1] = b => \A record \in Due(LogAt(id)) : record.order \in bloom
    BY <2>1, <2>2 DEF OwnKept
  <2>4. OrdersOf(b) \subseteq bloom
    <3> SUFFICES ASSUME NEW log \in Range(Logs[b]), NEW record \in Due(log) PROVE record.order \in bloom
      BY DEF OrdersOf
    <3> QED BY <2>3, LogPlace
  <2> QED BY <1>1, <2>1, <2>4 DEF OwnKept
<1>9. CASE Save \/ SaveFails
  <2>1. inflight' = inflight /\ asked' = asked /\ phase = "save" /\ phase' = "ack" /\ bloom' = bloom
    BY <1>9 DEF Save, SaveFails, queue
  <2>2. OrdersOf(b) \subseteq bloom
    BY <1>0, <2>1 DEF Own, OwnKept
  <2>3. bloom \in SUBSET Orders
    BY <1>0, <2>1 DEF FileTypes
  <2>4. ASSUME NEW order \in bloom PROVE Kept(order)'
    <3>1. CASE Save
      <4>1. stored' = bloom
        BY <3>1 DEF Save
      <4>2. Stored' = bloom
        BY <2>3, <4>1, NotMissing DEF Stored
      <4> QED BY <2>1, <2>4, <4>2 DEF Kept
    <3>2. CASE SaveFails
      <4>1. /\ stored' = stored
            /\ unsaved' = unsaved \cup (IF stored \in {NoFile, Torn} THEN bloom ELSE bloom \ stored)
        BY <3>2 DEF SaveFails
      <4> QED BY <2>1, <2>4, <4>1 DEF Kept, Stored
    <3> QED BY <1>9, <3>1, <3>2
  <2> QED BY <1>1, <2>1, <2>2, <2>4 DEF OwnKept
<1> QED BY <1>2, <1>3, <1>4, <1>5, <1>6, <1>7, <1>8, <1>9, StepKinds DEF Quiet

\* Every step keeps the bloom filters' invariant.
LEMMA BloomStep ==
  ASSUME Shapes, LogsAsked, AckedBlocks, PublishInv, BloomInv, [Next]_vars PROVE BloomInv'
<1> SUFFICES ASSUME mon = "fill" PROVE FileTypes' /\ AckedKept' /\ \A b \in Blocks : Own(b)' => OwnKept(b)'
  BY SameMonitor DEF BloomInv
<1>1. FileTypes /\ FileTypes' /\ mon' = mon /\ mon \in Monitors
  BY FileTypesStep, SameMonitor DEF BloomInv, Shapes
<1>2. ASSUME NEW pair \in acked', pair[2] = {pair[1]}, NEW order \in OrdersOf(pair[1])'
      PROVE  Kept(order)'
  <2>1. order \in OrdersOf(pair[1])
    BY <1>1, SameDue DEF OrdersOf
  <2>2. Kept(order)
    <3>1. CASE pair \in acked
      BY <1>2, <2>1, <3>1 DEF BloomInv, AckedKept
    <3>2. CASE pair \notin acked
      <4>1. Ack
        BY <3>2 DEF Next, Consume, NewHead, Fetch, Begin, BeginFails, FilterFails, HandleLogFails, Crash,
                    End, Filter, HandleLog, RecordRefused, LogsDone, Save, SaveFails, Restart, history, vars
      <4>2. pair = <<Head(inflight), asked>> /\ phase = "ack" /\ inflight # <<>>
        BY <3>2, <4>1 DEF Ack, Shapes
      <4>3. Head(inflight) \in Blocks
        BY <4>2, HeadFacts
      <4>4. Own(pair[1]) /\ pair[1] \in Blocks
        BY <1>2, <4>2, <4>3 DEF Own
      <4> QED BY <2>1, <4>2, <4>4 DEF BloomInv, OwnKept
    <3> QED BY <3>1, <3>2
  <2> QED BY <1>1, <2>2, KeptStays
<1>3. AckedKept'
  BY <1>2 DEF AckedKept
<1> QED BY <1>1, <1>3, OwnKeptStep

-----------------------------------------------------------------------------
(* The theorems.                                                           *)

\* A new process with nothing in its queue.
LEMMA InvInit == Init => Inv
<1> SUFFICES ASSUME Init PROVE Inv
  OBVIOUS
<1>1. <<>> \in Seq(Blocks) /\ Len(<<>>) = 0 /\ DOMAIN <<>> = {}
  OBVIOUS
<1>2. Shapes
  BY <1>1, BoundAssumption DEF Init, Shapes
<1>3. LogsAsked /\ AckedBlocks
  BY DEF Init, LogsAsked, AckedBlocks
<1>4. DupInv
  <2> SUFFICES ASSUME NEW id \in LogIds
               PROVE  Cardinality(Copies(id)) + (IF Pending(id) THEN 1 ELSE 0) <= taken[Number(id[1])]
    BY DEF DupInv
  <2>1. Copies(id) = {}
    BY <1>1 DEF Init, Copies
  <2>2. ~Pending(id)
    BY DEF Init, Pending
  <2>3. id[1] \in Blocks /\ Number(id[1]) \in Numbers
    BY PlaceLog, BlockNumber
  <2>4. taken[Number(id[1])] = 0
    BY <2>3 DEF Init
  <2> QED BY <2>1, <2>2, <2>4, FS_EmptySet
<1>5. PublishInv
  BY DEF Init, PublishInv, AckedPublished, Own
<1>6. BloomInv
  BY DEF Init, BloomInv, FileTypes, AckedKept, Own
<1> QED BY <1>2, <1>3, <1>4, <1>5, <1>6 DEF Inv

\* The invariant holds in every state.
LEMMA Inductive == Spec => []Inv
<1>1. Inv /\ [Next]_vars => Inv'
  BY ShapesStep, LogsAskedStep, AckedBlocksStep, DupStep, PublishStep, BloomStep DEF Inv
<1> QED BY <1>1, InvInit, PTL DEF Spec

\* The queue, the process and its loop are well typed: no more than Prefetch
\* blocks are in flight, and a block is there while it is worked on.
THEOREM MonitorTypes == Spec => []TypeOK
<1>1. Inv => TypeOK
  <2> SUFFICES ASSUME Shapes PROVE TypeOK
    BY DEF Inv
  <2>1. \A s \in Seq(Blocks) : Range(s) \subseteq Blocks
    BY DEF Range
  <2> QED BY <2>1 DEF Shapes, TypeOK
<1> QED BY <1>1, Inductive, PTL

\* A block acked on the strength of its own logs has had what each of its
\* events tells the service published for that event, but for the kinds named
\* in Skipped and the records Redis refused: for all seven services, any logs
\* the contracts may emit, any bloom filter's false positives, any
\* reorganisation, end and restart (fill.go, spend.go, allowance.go,
\* approval.go, cancelupto.go, affiliate.go).
THEOREM AckedMeansPublished == Spec => []AckedPublished
<1>1. Inv => AckedPublished
  BY DEF Inv, PublishInv
<1> QED BY <1>1, Inductive, PTL

\* No log is published more often than a block of its number was begun: only
\* a redelivery or a reorganisation makes the fill indexer count a fill twice.
THEOREM DuplicatesHaveCause == Spec => []DuplicatesExplained
<1>1. Inv => DuplicatesExplained
  <2> SUFFICES ASSUME Inv, NEW id \in LogIds
               PROVE  Cardinality({k \in DOMAIN published : published[k].of = id}) <= taken[Number(id[1])]
    BY DEF DuplicatesExplained
  <2>1. Cardinality(Copies(id)) \in Nat
    BY CopiesFinite DEF Inv
  <2>2. id[1] \in Blocks /\ Number(id[1]) \in Numbers
    BY PlaceLog, BlockNumber
  <2>3. taken[Number(id[1])] \in Nat
    BY <2>2 DEF Inv, Shapes
  <2>4. Cardinality(Copies(id)) + (IF Pending(id) THEN 1 ELSE 0) <= taken[Number(id[1])]
    BY DEF Inv, DupInv
  <2>5. Cardinality(Copies(id)) <= taken[Number(id[1])]
    BY <2>1, <2>3, <2>4
  <2> QED BY <2>5 DEF Copies
<1> QED BY <1>1, Inductive, PTL

\* The fill monitor's bloom filter, once initialised, has the orders of all
\* blocks acked on their own logs in any life of the process, but for those a
\* failed Save left behind, wherever it was killed (fillbloom.go, fill.go).
THEOREM FilterRemembers == Spec => []BloomRemembers
<1>1. Inv => BloomRemembers
  <2> SUFFICES ASSUME Inv, mon = "fill", bloom # NoFile, NEW pair \in acked, pair[2] = {pair[1]}
               PROVE  \A log \in Range(Logs[pair[1]]) : \A record \in Due(log) :
                        record.order \in bloom \cup unsaved
    BY DEF BloomRemembers
  <2>1. \A order \in OrdersOf(pair[1]) : Kept(order)
    BY DEF Inv, BloomInv, AckedKept
  <2> QED BY <2>1 DEF Kept, OrdersOf
<1> QED BY <1>1, Inductive, PTL

=============================================================================
