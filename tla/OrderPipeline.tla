--------------------------- MODULE OrderPipeline ----------------------------
(***************************************************************************)
(* An order's way from the API to the index, and the chain's events on     *)
(* theirs, as docker-compose.yml wires the services:                       *)
(*                                                                         *)
(*   api -> exchangesplitter -> canceluptofilter -> fillupdate ->          *)
(*     fundcheckrelay -> poolfilter -> indexer                             *)
(*   fillmonitor -> simplerelay -> fillindexer (a queue)                   *)
(*                              -> fillupdate's bloom filter (a topic)     *)
(*   canceluptomonitor -> canceluptoindexer                                *)
(*                                                                         *)
(* The index and its services are those of OrderIndex, and FundCheck       *)
(* models how the fund check comes to its verdict, which is open here.     *)
(* The exchange contract, the node and the block monitor are external.     *)
(***************************************************************************)
EXTENDS OrderIndex

CONSTANTS Copies,       \* bound: copies of orders in the pipeline at a time
          MaxMined,     \* bound: events of the exchange contract
          MaxPipelineFaults, \* bound: lost messages, errors and restarts
          NoFile        \* the bloom filter was never stored

ASSUME PipelineAssumption ==
  /\ MaxMined \in Nat /\ MaxPipelineFaults \in Nat
  /\ \A S \in SUBSET Orders : S # NoFile

VARIABLES
  chain,     \* per order what is filled and if it is cancelled; the maker's epoch
  events,    \* the exchange's fills and cancellations, for the fill monitor
  records,   \* queue://ordersfilled, queue://pgordersfilled
  epochs,    \* the maker's cancelUpTo events, for canceluptoindexer
  topic,     \* topic://ordersfilled: orders whose record is on its way
  heard,     \* the fill monitor's bloom filter
  stored,    \* the bloom filter's file, shared by fillmonitor and fillupdate
  bloom,     \* fillupdate's bloom filter
  initialized, \* FillBloom.Initialized
  msg,       \* the copies of orders in the pipeline
  recorded,  \* orders with an event that the fill indexer has taken or never gets
  missed,    \* orders with an event that was lost or came at a bad time
  pfaults    \* bound on faults

index    == <<row, epoch, indexing, filling, cancelling, rejected, total>>
exchange == <<chain, events>>
feed     == <<records, epochs, topic, heard, stored>>
updater  == <<bloom, initialized>>
history  == <<recorded, missed>>
pvars    == <<vars, exchange, feed, updater, msg, history, pfaults>>

PInit ==
  /\ Init
  /\ chain = [filled |-> [o \in Orders |-> 0], cancelled |-> [o \in Orders |-> FALSE],
              epoch |-> 0]
  /\ events = <<>> /\ records = [in |-> <<>>, pg |-> <<>>] /\ epochs = <<>> /\ topic = {}
  /\ heard = {} /\ stored \in {NoFile, {}} /\ bloom = {} /\ initialized = TRUE
  /\ msg = [c \in Copies |-> <<>>]
  /\ recorded = {} /\ missed = {}
  /\ pfaults = 0

Fault == pfaults < MaxPipelineFaults /\ pfaults' = pfaults + 1
Miss(S) == missed' = missed \cup S

-----------------------------------------------------------------------------
(* The exchange contract.                                                  *)

\* The bound on all events of the contract.
MayMine == used.fill + used.epoch < MaxMined

Live(o) == /\ ~chain.cancelled[o] /\ Salt[o] >= chain.epoch
           /\ chain.filled[o] < TakerAmount[o]

\* An order is filled, in part or in full, or its maker cancels it.
Mine ==
  /\ MayMine /\ Take("fill", MaxFill)
  /\ \E o \in Orders :
       /\ Live(o)
       /\ \/ \E a \in Fills \ {0} :
               /\ chain.filled[o] + a <= TakerAmount[o]
               /\ chain' = [chain EXCEPT !.filled[o] = @ + a]
               /\ events' = Append(events, <<o, a, FALSE>>)
          \/ /\ chain' = [chain EXCEPT !.cancelled[o] = TRUE]
             /\ events' = Append(events, <<o, 0, TRUE>>)
  /\ UNCHANGED <<index, feed, updater, msg, history, pfaults>>

\* cancelOrdersUpTo: the epoch of the maker grows.
MineEpoch ==
  /\ MayMine /\ Take("epoch", MaxEpoch)
  /\ chain' = [chain EXCEPT !.epoch = @ + 1]
  /\ epochs' = Append(epochs, chain.epoch + 1)
  /\ UNCHANGED <<index, events, records, topic, heard, stored, updater, msg, history, pfaults>>

-----------------------------------------------------------------------------
(* The fill monitor, the relay of its records and the topic.               *)

\* The monitor adds the order to its bloom filter and publishes the record.
MonitorFill ==
  /\ events # <<>>
  /\ heard' = heard \cup {Head(events)[1]}
  /\ records' = [records EXCEPT !.in = Append(@, Head(events))]
  /\ events' = Tail(events)
  /\ UNCHANGED <<vars, chain, epochs, topic, stored, updater, msg, history, pfaults>>

\* The monitor ends in the middle of a block, or Redis refuses the record, and
\* Publish's result is ignored: the record is lost, whether or not the order
\* is in the bloom filter by then.
MonitorLoses ==
  /\ Fault /\ events # <<>>
  /\ heard' \in {heard, heard \cup {Head(events)[1]}}
  /\ events' = Tail(events)
  /\ recorded' = recorded \cup {Head(events)[1]} /\ Miss({Head(events)[1]})
  /\ UNCHANGED <<vars, chain, records, epochs, topic, stored, updater, msg>>

\* The monitor saves its bloom filter at the end of a block.
Save ==
  /\ stored # heard
  /\ stored' = heard
  /\ UNCHANGED <<vars, exchange, records, epochs, topic, heard, updater, msg, history, pfaults>>

\* simplerelay: the queue, then the topic.
Relay ==
  /\ records.in # <<>>
  /\ records' = [in |-> Tail(records.in), pg |-> Append(records.pg, Head(records.in))]
  /\ topic' = topic \cup {Head(records.in)[1]}
  /\ UNCHANGED <<vars, exchange, epochs, heard, stored, updater, msg, history, pfaults>>

\* The relay takes no notice of a publisher that fails: the others get the
\* record, and it is acked.  Or the relay ends before it is through with them.
RelayFails ==
  /\ Fault /\ records.in # <<>>
  /\ \E reached \in {{}, {"queue"}, {"topic"}} :
       LET record == Head(records.in)
           lost   == IF "queue" \in reached THEN {} ELSE {record[1]}
       IN  /\ records' = [in |-> Tail(records.in),
                          pg |-> IF lost = {} THEN Append(records.pg, record) ELSE records.pg]
           /\ topic' = IF "topic" \in reached THEN topic \cup {record[1]} ELSE topic
           /\ recorded' = recorded \cup lost /\ Miss(lost)
  /\ UNCHANGED <<vars, exchange, epochs, heard, stored, updater, msg>>

\* FillBloom.Consume.
TopicDeliver ==
  /\ topic # {}
  /\ topic' = {} /\ bloom' = bloom \cup topic
  /\ UNCHANGED <<vars, exchange, records, epochs, heard, stored, initialized, msg, history, pfaults>>

\* Pub/sub forgets what it cannot deliver.
TopicLose ==
  /\ Fault /\ topic # {}
  /\ topic' = {}
  /\ UNCHANGED <<vars, exchange, records, epochs, heard, stored, updater, msg, history>>

-----------------------------------------------------------------------------
(* An order in the pipeline.  `at` is the queue it waits in; `looked` has  *)
(* the lookups of the fill updater that have answered.                     *)

Submit(c) ==
  /\ Take("index", MaxIndex) /\ msg[c] = <<>>
  /\ \E o \in Orders :
       msg' = [msg EXCEPT ![c] = [order |-> o, at |-> "api", filled |-> 0,
                                  cancelled |-> FALSE, looked |-> {}]]
  /\ UNCHANGED <<index, exchange, feed, updater, history, pfaults>>

At(c, queue) == msg[c] # <<>> /\ msg[c].at = queue

\* AddressSplitterConsumer: on to the queue of the order's exchange.
Split(c) ==
  /\ At(c, "api")
  /\ msg' = [msg EXCEPT ![c].at = "exchange"]
  /\ UNCHANGED <<vars, exchange, feed, updater, history, pfaults>>

\* dbCancellationLookup.GetCancelled.
BelowEpoch(o) == epoch # 0 /\ Salt[o] < epoch

\* Mutant of CancellationFilter: an order with the epoch's salt counts as well.
CancellationFilterLoose(c) ==
  /\ At(c, "exchange")
  /\ msg' = [msg EXCEPT ![c].at = "fillupdate",
                        ![c].cancelled = @ \/ (epoch # 0 /\ Salt[msg[c].order] <= epoch)]
  /\ UNCHANGED <<vars, exchange, feed, updater, history, pfaults>>

\* Mutant of CancellationFilter: the epoch is not looked up.
CancellationFilterSkipped(c) ==
  /\ At(c, "exchange")
  /\ msg' = [msg EXCEPT ![c].at = "fillupdate"]
  /\ UNCHANGED <<vars, exchange, feed, updater, history, pfaults>>

\* CancellationConsumer.
CancellationFilter(c) ==
  /\ At(c, "exchange")
  /\ msg' = [msg EXCEPT ![c].at = "fillupdate", ![c].cancelled = @ \/ BelowEpoch(msg[c].order)]
  /\ UNCHANGED <<vars, exchange, feed, updater, history, pfaults>>

\* The database cannot be read: the order is rejected.
CancellationFilterFails(c) ==
  /\ Fault /\ At(c, "exchange")
  /\ msg' = [msg EXCEPT ![c] = <<>>]
  /\ rejected' = rejected + 1
  /\ UNCHANGED <<row, epoch, indexing, filling, cancelling, total, used,
                 exchange, feed, updater, history>>

\* rpcFilledLookup: the bloom filter has not heard of the order.
BloomMiss(o) == initialized /\ o \notin bloom

\* FillConsumer's two lookups, each in a goroutine of its own.
LookCancelled(c) ==
  /\ At(c, "fillupdate") /\ "cancelled" \notin msg[c].looked
  /\ LET o == msg[c].order
         answer == ~BloomMiss(o) /\ chain.cancelled[o]
     IN  /\ msg' = [msg EXCEPT ![c].looked = @ \cup {"cancelled"}, ![c].cancelled = @ \/ answer]
         /\ Miss(IF answer # chain.cancelled[o] THEN {o} \cap recorded ELSE {})
  /\ UNCHANGED <<vars, exchange, feed, updater, pfaults, recorded>>

LookFilled(c) ==
  /\ At(c, "fillupdate") /\ "filled" \notin msg[c].looked
  /\ LET o == msg[c].order
         answer == IF BloomMiss(o) THEN 0 ELSE chain.filled[o]
     IN  /\ msg' = [msg EXCEPT ![c].looked = @ \cup {"filled"}, ![c].filled = answer]
         /\ Miss(IF answer # chain.filled[o] THEN {o} \cap recorded ELSE {})
  /\ UNCHANGED <<vars, exchange, feed, updater, pfaults, recorded>>

\* doLookup, doLookupBoolean: the node does not answer, the old value stays.
LookFails(c, what) ==
  /\ Fault /\ At(c, "fillupdate") /\ what \notin msg[c].looked /\ ~BloomMiss(msg[c].order)
  /\ msg' = [msg EXCEPT ![c].looked = @ \cup {what}]
  /\ LET o == msg[c].order
         lost == IF what = "filled" THEN chain.filled[o] # 0 ELSE chain.cancelled[o]
     IN  Miss(IF lost THEN {o} \cap recorded ELSE {})
  /\ UNCHANGED <<vars, exchange, feed, updater, recorded>>

\* Mutant of Publish: one answer is enough.
PublishEarly(c) ==
  /\ At(c, "fillupdate") /\ msg[c].looked # {}
  /\ msg' = [msg EXCEPT ![c].at = "fundcheck"]
  /\ UNCHANGED <<vars, exchange, feed, updater, history, pfaults>>

\* The order is published, and acked, once both have answered.
Publish(c) ==
  /\ At(c, "fillupdate") /\ msg[c].looked = {"filled", "cancelled"}
  /\ msg' = [msg EXCEPT ![c].at = "fundcheck"]
  /\ UNCHANGED <<vars, exchange, feed, updater, history, pfaults>>

\* FundFilter: an order the maker cannot pay for is acked and goes no further.
FundCheck(c) ==
  /\ At(c, "fundcheck")
  /\ msg' \in {[msg EXCEPT ![c].at = "poolfilter"], [msg EXCEPT ![c] = <<>>]}
  /\ UNCHANGED <<vars, exchange, feed, updater, history, pfaults>>

\* NetworkAddressMap.Scan decodes into a copy: no pool that was read from the
\* database has an address, and CheckFilter lets every order of it pass.
FilterAddresses == {}
CheckFilter == FilterAddresses = {}

\* PoolFilter.Filter.
PoolFilter(c) ==
  /\ At(c, "poolfilter")
  /\ msg' = [msg EXCEPT ![c] = IF CheckFilter THEN [@ EXCEPT !.at = "pgindexer"] ELSE <<>>]
  /\ UNCHANGED <<vars, exchange, feed, updater, history, pfaults>>

\* The pool cannot be read, or two workers are caught in the map of pools: the
\* process ends, and the orders it has stay in its unacked list.
PoolFilterEnds ==
  /\ Fault
  /\ \E S \in SUBSET {c \in Copies : At(c, "poolfilter")} :
       S # {} /\ msg' = [c \in Copies |-> IF c \in S THEN <<>> ELSE msg[c]]
  /\ UNCHANGED <<vars, exchange, feed, updater, history>>

\* A service of the pipeline ends with the order in hand, its Redis refuses the
\* publish and the order is acked all the same, or the indexer rejects it.  The
\* lookups of the fill updater only end with the process, in UpdaterRestart.
CopyLost(c) ==
  /\ Fault /\ msg[c] # <<>>
  /\ msg[c].at = "fillupdate" => msg[c].looked \in {{}, {"filled", "cancelled"}}
  /\ msg' = [msg EXCEPT ![c] = <<>>]
  /\ UNCHANGED <<vars, exchange, feed, updater, history>>

\* The fill updater ends and is started again: it reads the bloom filter's
\* file, misses what is on the topic, and leaves orders in its unacked list.
\* Without a file its empty filter counts as initialised; a file that Save is
\* writing cannot be read, the error is ignored and every order looked up.
UpdaterRestart ==
  /\ Fault
  /\ \E S \in SUBSET {c \in Copies : At(c, "fillupdate")} :
       /\ \A c \in Copies : At(c, "fillupdate") /\ msg[c].looked # {} => c \in S
       /\ msg' = [c \in Copies |-> IF c \in S THEN <<>> ELSE msg[c]]
  /\ topic' = {}
  /\ \/ bloom' = (IF stored = NoFile THEN {} ELSE stored) /\ initialized' = TRUE
     \/ stored # heard /\ bloom' = {} /\ initialized' = FALSE
  /\ UNCHANGED <<vars, exchange, records, epochs, heard, stored, history>>

-----------------------------------------------------------------------------
(* The index.                                                              *)

\* Orders with a copy in the pipeline, or with an indexer, that says less than
\* the chain does of their fills and cancellation.
StaleFill == {o \in Orders :
  \/ \E c \in Copies :
       /\ msg[c] # <<>> /\ msg[c].order = o
       /\ \/ "filled" \in msg[c].looked /\ msg[c].filled # chain.filled[o]
          \/ "cancelled" \in msg[c].looked /\ chain.cancelled[o] /\ ~msg[c].cancelled
  \/ \E w \in IndexWorkers :
       /\ indexing[w] # <<>> /\ indexing[w][1] = o
       /\ \/ indexing[w][2].filled # chain.filled[o]
          \/ chain.cancelled[o] /\ ~indexing[w][2].cancelled}

\* Orders with a copy that went through the cancel-up-to filter too early.
StaleEpoch == {o \in Orders :
  /\ Salt[o] < chain.epoch
  /\ \/ \E c \in Copies : /\ msg[c] # <<>> /\ msg[c].order = o /\ ~msg[c].cancelled
                          /\ msg[c].at \notin {"api", "exchange"}
     \/ \E w \in IndexWorkers : /\ indexing[w] # <<>> /\ indexing[w][1] = o
                                /\ ~indexing[w][2].cancelled}

IndexOrder(w, c) ==
  /\ At(c, "pgindexer")
  /\ Index(w, msg[c].order, msg[c].filled, msg[c].cancelled, StatusOpen)
  /\ msg' = [msg EXCEPT ![c] = <<>>]
  /\ UNCHANGED <<used, exchange, feed, updater, history, pfaults>>

\* A record consumed while a copy that does not have its event is on its way
\* is lost when that copy is indexed.
RecordTake(w) ==
  /\ records.pg # <<>>
  /\ RecordFill(w, Head(records.pg)[1], Head(records.pg)[2], Head(records.pg)[3])
  /\ records' = [records EXCEPT !.pg = Tail(@)]
  /\ recorded' = recorded \cup {Head(records.pg)[1]}
  /\ Miss(StaleFill \cap {Head(records.pg)[1]})
  /\ UNCHANGED <<used, exchange, epochs, topic, heard, stored, updater, msg, pfaults>>

\* A row that was changed between SELECT and UPDATE loses the change.
RecordSave(w) ==
  /\ FillUpdate(w)
  /\ LET o == filling[w][1]
     IN  Miss((StaleFill \cap {o}) \cup (IF row[o] # filling[w][4] THEN {o} ELSE {}))
  /\ UNCHANGED <<exchange, feed, updater, msg, pfaults, recorded>>

\* fillindexer rejects a record when one of its two statements fails, or ends
\* with the record in hand: before the SELECT, or before the UPDATE.
RecordLost ==
  /\ Fault /\ records.pg # <<>>
  /\ records' = [records EXCEPT !.pg = Tail(@)]
  /\ recorded' = recorded \cup {Head(records.pg)[1]} /\ Miss({Head(records.pg)[1]})
  /\ UNCHANGED <<vars, exchange, epochs, topic, heard, stored, updater, msg>>

RecordFails(w) ==
  /\ Fault /\ FillFails(w) /\ Miss({filling[w][1]})
  /\ UNCHANGED <<exchange, feed, updater, msg, recorded>>

EpochTake(w) ==
  /\ epochs # <<>>
  /\ RecordCancellation(w, Head(epochs))
  /\ epochs' = Tail(epochs)
  /\ UNCHANGED <<used, exchange, records, topic, heard, stored, updater, msg, history, pfaults>>

\* The cancellations table may go back to a smaller epoch, or refuse this one.
EpochSave(w) ==
  /\ CancelSave(w)
  /\ Miss({o \in Orders : \/ epoch' < epoch /\ Salt[o] < epoch
                          \/ rejected' # rejected /\ Salt[o] < cancelling[w][1]})
  /\ UNCHANGED <<exchange, feed, updater, msg, pfaults, recorded>>

EpochMark(w) ==
  /\ CancelMark(w)
  /\ Miss(StaleEpoch)
  /\ UNCHANGED <<exchange, feed, updater, msg, pfaults, recorded>>

\* canceluptoindexer does the same with an epoch, and canceluptomonitor loses
\* one as fillmonitor loses a record: the orders it closes stay on the book.
EpochLost ==
  /\ Fault /\ epochs # <<>>
  /\ epochs' = Tail(epochs)
  /\ Miss({o \in Orders : Salt[o] < Head(epochs)})
  /\ UNCHANGED <<vars, exchange, records, topic, heard, stored, updater, msg, recorded>>

EpochFails(w) ==
  /\ Fault /\ CancelFails(w)
  /\ Miss({o \in Orders : Salt[o] < cancelling[w][1]})
  /\ UNCHANGED <<exchange, feed, updater, msg, recorded>>

InsertFails(w) == Fault /\ IndexFails(w) /\ UNCHANGED <<exchange, feed, updater, msg, history>>

Insert(w) == IndexInsert(w) /\ UNCHANGED <<exchange, feed, updater, msg, history, pfaults>>

-----------------------------------------------------------------------------
OrderStep(c) ==
  \/ Split(c) \/ CancellationFilter(c) \/ LookCancelled(c) \/ LookFilled(c) \/ Publish(c)
  \/ FundCheck(c) \/ PoolFilter(c)
  \/ \E w \in IndexWorkers : IndexOrder(w, c)

IndexStep ==
  \/ \E w \in IndexWorkers : Insert(w)
  \/ \E w \in FillWorkers : RecordTake(w) \/ RecordSave(w)
  \/ \E w \in CancelWorkers : EpochTake(w) \/ EpochSave(w) \/ EpochMark(w)

IndexFault ==
  \/ \E w \in IndexWorkers : InsertFails(w)
  \/ RecordLost \/ \E w \in FillWorkers : RecordFails(w)
  \/ EpochLost \/ \E w \in CancelWorkers : EpochFails(w)

PNext ==
  \/ Mine \/ MineEpoch
  \/ MonitorFill \/ MonitorLoses \/ Save
  \/ Relay \/ RelayFails \/ TopicDeliver \/ TopicLose
  \/ \E c \in Copies :
       \/ Submit(c) \/ OrderStep(c) \/ CancellationFilterFails(c) \/ CopyLost(c)
       \/ \E what \in {"filled", "cancelled"} : LookFails(c, what)
  \/ UpdaterRestart \/ PoolFilterEnds
  \/ IndexStep \/ IndexFault

PSpec == PInit /\ [][PNext]_pvars

-----------------------------------------------------------------------------
(* Properties.                                                             *)

\* Fields in their ranges; an order is indexed with the answers of both lookups
\* (filled_consumer.go:54-60), and no bloom filter has an order that the fill
\* monitor has not heard of.
PTypeOK ==
  /\ TypeOK
  /\ \A o \in Orders : chain.filled[o] \in 0..TakerAmount[o] /\ chain.cancelled[o] \in BOOLEAN
  /\ chain.epoch \in 0..MaxEpoch
  /\ topic \subseteq Orders /\ heard \subseteq Orders /\ bloom \subseteq heard
  /\ stored = NoFile \/ stored \subseteq heard
  /\ \A c \in Copies :
       msg[c] # <<>> =>
         /\ msg[c].filled \in 0..TakerAmount[msg[c].order]
         /\ msg[c].at \in {"fundcheck", "poolfilter", "pgindexer"}
              => msg[c].looked = {"filled", "cancelled"}

\* Every queue is empty and every worker idle.
Quiet ==
  /\ \A c \in Copies : msg[c] = <<>>
  /\ events = <<>> /\ records = [in |-> <<>>, pg |-> <<>>] /\ epochs = <<>>
  /\ \A w \in IndexWorkers : indexing[w] = <<>>
  /\ \A w \in FillWorkers : filling[w] = <<>>
  /\ \A w \in CancelWorkers : cancelling[w] = <<>>

\* What the pipeline is for: when all is quiet, an order that was filled,
\* cancelled or cancelled up to on the chain is not Open in the index, however
\* its copies and the records of its events overtook each other, were lost on
\* the topic or met a restart of the fill updater.  The exceptions are the ones
\* in `missed`:
\*   - the order's record, or an epoch above its salt, was lost for the index: a
\*     monitor ended or Redis refused it (fill.go:92), the relay did not get it
\*     on the queue and acked it (relay.go:64), the database refused it or the
\*     indexer ended with it in hand (record_fill_consumer.go:24-26,
\*     cancellation_consumer.go:29-32);
\*   - a lookup was answered wrongly, the record gone already (fillbloom.go:90,
\*     filled_consumer.go:14-17);
\*   - a record, or an epoch, was taken while an older copy was between lookup
\*     and index (indexer.go:38);
\*   - its row changed between RecordFill's SELECT and UPDATE;
\*   - the cancellations table went back to a smaller epoch, or the first two
\*     epochs of a maker met in it (cancellations.go:17).
ClosedLeavesBook ==
  Quiet => \A o \in Orders :
    (row[o] # NoRow /\ row[o].status = StatusOpen /\ ~Live(o)) => o \in missed

\* The index hides no order as cancelled that can be filled: canceluptofilter,
\* the fill updater, fillindexer and canceluptoindexer only pass on what the
\* chain says, errors of the database and the node included
\* (cancellation_update.go:26-35, filled_consumer.go:22-30).
CancelledOnChain ==
  \A o \in Orders : (row[o] # NoRow /\ row[o].status = StatusCancelled)
                      => chain.cancelled[o] \/ Salt[o] < chain.epoch

=============================================================================
