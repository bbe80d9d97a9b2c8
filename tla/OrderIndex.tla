----------------------------- MODULE OrderIndex -----------------------------
(***************************************************************************)
(* The SQL order index and the services that write it: db/ (order.go,      *)
(* indexer.go, cancellations.go and the consumers), run by cmd/indexer,    *)
(* cmd/fillindexer, cmd/spendrecorder and cmd/canceluptoindexer.           *)
(*                                                                         *)
(* No operation uses a transaction: every action below is ONE SQL          *)
(* statement.  Each service runs as many of its operations at a time as    *)
(* its semaphore has slots (CONCURRENCY, default 5), one worker per slot,  *)
(* and all of them write the same rows.                                    *)
(*                                                                         *)
(* All orders have one maker, one maker token and one sender; a spend is   *)
(* of the maker token, of the fee token, or of one that is both.           *)
(***************************************************************************)
EXTENDS Integers, Sequences, FiniteSets

CONSTANTS Orders,
          TakerAmount,   \* TakerAssetAmount of each order
          MakerAmount,   \* MakerAssetAmount of each order
          MakerFee,      \* MakerFee of each order
          Salt,          \* Salt of each order
          Word,          \* 2^256: what a Uint256 wraps at
          IndexWorkers, FillWorkers, CancelWorkers,
          Fills,         \* bound: amounts a fill record may carry
          Balances,      \* bound: balances a spend record may carry
          MaxIndex, MaxFill, MaxSpend, MaxEpoch, \* bounds: messages per service
          NoRow

ASSUME AmountAssumption ==
  /\ Word \in Nat \ {0}
  /\ TakerAmount \in [Orders -> 1..Word-1]
  /\ MakerAmount \in [Orders -> 0..Word-1]
  /\ MakerFee \in [Orders -> 0..Word-1]
  /\ Salt \in [Orders -> Nat]
  /\ Fills \subseteq 0..Word-1 /\ Balances \subseteq 0..Word-1

ASSUME BoundAssumption ==
  MaxIndex \in Nat /\ MaxFill \in Nat /\ MaxSpend \in Nat /\ MaxEpoch \in Nat

StatusOpen      == 0
StatusFilled    == 1
StatusUnfunded  == 2
StatusCancelled == 3

VARIABLES
  row,        \* the orders table
  epoch,      \* the cancellations table: 0 is no row
  indexing,   \* IndexWorkers' orders between UPDATE and INSERT
  filling,    \* FillWorkers' fills and the row they have read
  cancelling, \* CancelWorkers' epochs and where they are
  rejected,   \* messages on a rejected list, or in the unacked list of a process that ended
  total,      \* what the row of each order should have as filled
  used        \* messages taken so far, per service

vars == <<row, epoch, indexing, filling, cancelling, rejected, total, used>>

\* Mutant of Word256: no reduction.
WordUnbounded(n) == n

Word256(n) == n % Word

-----------------------------------------------------------------------------
(* Order.Populate and Order.Save.                                          *)

\* 99% of an order of more than 100 base units, all of a smaller one.
Threshold(amount) == IF amount > 100 THEN (amount * 99) \div 100 ELSE amount

\* What is left of `whole` once `filled` of the taker amount has been filled.
Remaining(o, whole, filled) == Word256((whole * (TakerAmount[o] - filled)) \div TakerAmount[o])

\* Mutant of PopulateStatus: an order filled to the threshold is not Filled.
PopulateStatusStrict(o, filled, cancelled, status) ==
  IF Threshold(TakerAmount[o]) - filled < 0 THEN StatusFilled
  ELSE IF cancelled THEN StatusCancelled ELSE status

\* Populate: a cancelled order is Cancelled, but a filled one is Filled.
PopulateStatus(o, filled, cancelled, status) ==
  IF Threshold(TakerAmount[o]) - filled <= 0 THEN StatusFilled
  ELSE IF cancelled THEN StatusCancelled ELSE status

\* Save with a row's status and the status argument of Save.
Populated(o, filled, cancelled, status, default) ==
  LET populated == PopulateStatus(o, filled, cancelled, status)
  IN  [filled         |-> filled,
       makerRemaining |-> Remaining(o, MakerAmount[o], filled),
       feeRemaining   |-> Remaining(o, MakerFee[o], filled),
       status         |-> IF populated = StatusOpen THEN default ELSE populated,
       cancelled      |-> cancelled]

\* Mutant of Update: the remaining amounts are not among its columns.
UpdateFilledOnly(o, saved) ==
  row' = [row EXCEPT ![o].filled = saved.filled, ![o].status = saved.status]

\* The UPDATE of Save: the cancelled column is not among its columns.
Update(o, saved) ==
  row' = [row EXCEPT ![o] = [saved EXCEPT !.cancelled = row[o].cancelled]]

-----------------------------------------------------------------------------
Init ==
  /\ row = [o \in Orders |-> NoRow] /\ epoch = 0
  /\ indexing = [w \in IndexWorkers |-> <<>>]
  /\ filling = [w \in FillWorkers |-> <<>>]
  /\ cancelling = [w \in CancelWorkers |-> <<>>]
  /\ rejected = 0
  /\ total = [o \in Orders |-> 0]
  /\ used = [index |-> 0, fill |-> 0, spend |-> 0, epoch |-> 0]

Take(service, max) == used[service] < max /\ used' = [used EXCEPT ![service] = @ + 1]

\* Index, with the amount the fill updater found, by the indexer of the
\* funded orders or by the --unfunded one: Save's UPDATE.  It affects the
\* row, or INSERT comes next.  After an UPDATE that fails INSERT comes next as
\* well, and meets the primary key: such a message changes nothing.
Index(w, o, filled, cancelled, status) ==
  /\ indexing[w] = <<>>
  /\ LET saved == Populated(o, filled, cancelled, StatusOpen, status)
     IN  IF row[o] # NoRow
         THEN /\ Update(o, saved)
              /\ total' = [total EXCEPT ![o] = filled]
              /\ UNCHANGED indexing
         ELSE /\ indexing' = [indexing EXCEPT ![w] = <<o, saved>>]
              /\ UNCHANGED <<row, total>>
  /\ UNCHANGED <<epoch, filling, cancelling, rejected>>

IndexUpdate(w) ==
  /\ Take("index", MaxIndex)
  /\ \E o \in Orders, filled \in Fills \cup {0}, cancelled \in BOOLEAN,
        status \in {StatusOpen, StatusUnfunded} : Index(w, o, filled, cancelled, status)

\* Save's INSERT; the primary key is taken if another worker was faster, and
\* the message is rejected.
IndexInsert(w) ==
  /\ indexing[w] # <<>>
  /\ LET o == indexing[w][1]
         saved == indexing[w][2]
     IN  IF row[o] = NoRow
         THEN /\ row' = [row EXCEPT ![o] = saved]
              /\ total' = [total EXCEPT ![o] = saved.filled]
              /\ UNCHANGED rejected
         ELSE rejected' = rejected + 1 /\ UNCHANGED <<row, total>>
  /\ indexing' = [indexing EXCEPT ![w] = <<>>]
  /\ UNCHANGED <<epoch, filling, cancelling, used>>

\* The process ends, or the database refuses the INSERT, with an order in hand.
IndexFails(w) ==
  /\ indexing[w] # <<>>
  /\ indexing' = [indexing EXCEPT ![w] = <<>>] /\ rejected' = rejected + 1
  /\ UNCHANGED <<row, epoch, filling, cancelling, total, used>>

\* RecordFill's SELECT.  Without a row the message is acked: not our order.
\* (After a SELECT that fails Save finds no signature, and rejects.)
RecordFill(w, o, amount, cancel) ==
  /\ filling[w] = <<>>
  /\ filling' = IF row[o] = NoRow THEN filling
                ELSE [filling EXCEPT ![w] = <<o, amount, cancel, row[o]>>]
  /\ UNCHANGED <<row, epoch, indexing, cancelling, rejected, total>>

FillSelect(w) ==
  /\ Take("fill", MaxFill)
  /\ \E o \in Orders, amount \in Fills, cancel \in BOOLEAN : RecordFill(w, o, amount, cancel)

\* RecordFill's Save of the row as it was read, with the amount added.
FillUpdate(w) ==
  /\ filling[w] # <<>>
  /\ LET o      == filling[w][1]
         amount == filling[w][2]
         old    == filling[w][4]
     IN  /\ Update(o, Populated(o, Word256(old.filled + amount),
                                old.cancelled \/ filling[w][3], old.status, old.status))
         /\ total' = [total EXCEPT ![o] = Word256(@ + amount)]
  /\ filling' = [filling EXCEPT ![w] = <<>>]
  /\ UNCHANGED <<epoch, indexing, cancelling, rejected, used>>

\* The process ends with a fill in hand, or the UPDATE fails: Save's INSERT
\* then meets the primary key, and the record is rejected.
FillFails(w) ==
  /\ filling[w] # <<>>
  /\ filling' = [filling EXCEPT ![w] = <<>>] /\ rejected' = rejected + 1
  /\ UNCHANGED <<row, epoch, indexing, cancelling, total, used>>

\* The rows RecordSpend's UPDATE matches: when `tokens` has the maker token,
\* the open ones the balance cannot cover; when it has the fee token, any
\* whose fee it cannot cover.
Underfunded(o, tokens, balance) ==
  /\ row[o] # NoRow
  /\ \/ "maker" \in tokens /\ row[o].status = StatusOpen /\ balance < row[o].makerRemaining
     \/ "fee" \in tokens /\ balance < row[o].feeRemaining

\* RecordSpend, one statement.
RecordSpend ==
  /\ Take("spend", MaxSpend)
  /\ \E balance \in Balances, tokens \in {{"maker"}, {"fee"}, {"maker", "fee"}} :
       row' = [o \in Orders |-> IF Underfunded(o, tokens, balance)
                                THEN [row[o] EXCEPT !.status = StatusUnfunded] ELSE row[o]]
  /\ UNCHANGED <<epoch, indexing, filling, cancelling, rejected, total>>

\* RecordCancellation: FirstOrCreate's SELECT.
RecordCancellation(w, e) ==
  /\ cancelling[w] = <<>>
  /\ cancelling' = [cancelling EXCEPT ![w] = <<e, "save", epoch = 0>>]
  /\ UNCHANGED <<row, epoch, indexing, filling, rejected, total>>

\* Epochs grow on the chain.
CancelSelect(w) == Take("epoch", MaxEpoch) /\ RecordCancellation(w, used.epoch + 1)

\* FirstOrCreate's INSERT or UPDATE; an INSERT of a key that has appeared
\* fails, and the message is rejected.
CancelSave(w) ==
  /\ cancelling[w] # <<>> /\ cancelling[w][2] = "save"
  /\ IF cancelling[w][3] /\ epoch # 0
     THEN /\ cancelling' = [cancelling EXCEPT ![w] = <<>>]
          /\ rejected' = rejected + 1 /\ UNCHANGED epoch
     ELSE /\ cancelling' = [cancelling EXCEPT ![w][2] = "mark"]
          /\ epoch' = cancelling[w][1] /\ UNCHANGED rejected
  /\ UNCHANGED <<row, indexing, filling, total, used>>

\* The UPDATE of the open orders with a smaller salt.
CancelMark(w) ==
  /\ cancelling[w] # <<>> /\ cancelling[w][2] = "mark"
  /\ row' = [o \in Orders |->
               IF /\ row[o] # NoRow
                  /\ row[o].status = StatusOpen /\ Salt[o] < cancelling[w][1]
               THEN [row[o] EXCEPT !.status = StatusCancelled] ELSE row[o]]
  /\ cancelling' = [cancelling EXCEPT ![w] = <<>>]
  /\ UNCHANGED <<epoch, indexing, filling, rejected, total, used>>

\* The process ends, or the database fails, with a cancellation in hand, be
\* it before the save or between the save and the UPDATE of the orders.
CancelFails(w) ==
  /\ cancelling[w] # <<>>
  /\ cancelling' = [cancelling EXCEPT ![w] = <<>>] /\ rejected' = rejected + 1
  /\ UNCHANGED <<row, epoch, indexing, filling, total, used>>

Next == \/ \E w \in IndexWorkers : IndexUpdate(w) \/ IndexInsert(w) \/ IndexFails(w)
        \/ \E w \in FillWorkers : FillSelect(w) \/ FillUpdate(w) \/ FillFails(w)
        \/ RecordSpend
        \/ \E w \in CancelWorkers :
             CancelSelect(w) \/ CancelSave(w) \/ CancelMark(w) \/ CancelFails(w)

Spec == Init /\ [][Next]_vars

-----------------------------------------------------------------------------
(* Properties.                                                             *)

Rows == [filled : 0..Word-1, makerRemaining : 0..Word-1, feeRemaining : 0..Word-1,
         status : 0..3, cancelled : BOOLEAN]

ASSUME RowAssumption == NoRow \notin Rows

TypeOK ==
  /\ \A o \in Orders : row[o] = NoRow \/ row[o] \in Rows
  /\ epoch \in 0..MaxEpoch
  /\ \A w \in IndexWorkers : indexing[w] = <<>> \/ indexing[w] \in Orders \X Rows
  /\ \A w \in FillWorkers :
       filling[w] = <<>> \/ filling[w] \in Orders \X (Fills \cup {0}) \X BOOLEAN \X Rows
  /\ \A w \in CancelWorkers :
       cancelling[w] = <<>> \/ cancelling[w] \in (1..MaxEpoch) \X {"save", "mark"} \X BOOLEAN
  /\ rejected \in Nat
  /\ total \in [Orders -> 0..Word-1]

\* An order that is 99% filled, or all of a small one, is not on the
\* orderbook (order.go:42-44, 73-75): its row is never Open, whatever the
\* services wrote to it and in which order.
FilledNotOpen ==
  \A o \in Orders :
    ( /\ row[o] # NoRow
      /\ IF TakerAmount[o] > 100 THEN 100 * row[o].filled >= 99 * TakerAmount[o]
                                 ELSE row[o].filled >= TakerAmount[o] )
    => row[o].status # StatusOpen

\* RecordSpend compares balances with amounts that fit the fills in the same
\* row (order.go:52-60, 99-104): what remains of the maker amount plus the
\* part that was filled is the whole, up to the rounding of one base unit.
RemainingAgrees ==
  \A o \in Orders :
    (row[o] # NoRow /\ row[o].filled <= TakerAmount[o]) =>
      LET spent == MakerAmount[o] - row[o].makerRemaining
      IN  /\ spent * TakerAmount[o] >= MakerAmount[o] * row[o].filled
          /\ (spent - 1) * TakerAmount[o] < MakerAmount[o] * row[o].filled

\* design.rst, SQL Fill Indexer: it updates the index "with the cancelled and
\* filled amounts of each received message": the row has the amount it was
\* last indexed with plus every fill recorded since.
FillsCounted == \A o \in Orders : row[o] # NoRow => row[o].filled = total[o]

=============================================================================
