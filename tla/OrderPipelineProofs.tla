------------------------ MODULE OrderPipelineProofs -------------------------
(***************************************************************************)
(* The order index, on its own and at the end of the pipeline, for any     *)
(* number of orders, workers, copies and faults: what its rows say of      *)
(* fills and remaining amounts, that none is cancelled unless the chain    *)
(* says so, and that one the chain has closed does not stay on the book.   *)
(***************************************************************************)
EXTENDS OrderPipeline, TLAPS

-----------------------------------------------------------------------------
(* Amounts.                                                                *)

\* Division rounds down.
LEMMA Quotient ==
  ASSUME NEW n \in Int, NEW t \in Nat \ {0}
  PROVE  n \div t \in Int /\ (n \div t) * t <= n /\ n < (n \div t) * t + t
OBVIOUS

\* A reduced amount is a word.
LEMMA Reduced ==
  ASSUME NEW n \in Int
  PROVE  Word256(n) \in 0..Word-1 /\ (n \in 0..Word-1 => Word256(n) = n)
BY AmountAssumption DEF Word256

\* Remaining is a word, and fits what was filled.
LEMMA RemainingFits ==
  ASSUME NEW o \in Orders, NEW whole \in 0..Word-1, NEW filled \in 0..Word-1
  PROVE  LET t == TakerAmount[o]
             left == Remaining(o, whole, filled)
         IN  /\ left \in 0..Word-1
             /\ filled <= t => /\ (whole - left) * t >= whole * filled
                              /\ (whole - left - 1) * t < whole * filled
<1> DEFINE t == TakerAmount[o]
           n == whole * (t - filled)
           q == n \div t
<1>1. t \in Nat \ {0} /\ whole \in Nat /\ filled \in Nat /\ n \in Int
  BY AmountAssumption
<1>2. q \in Int /\ q * t <= n /\ n < q * t + t
  BY <1>1, Quotient
<1>3. Remaining(o, whole, filled) = Word256(q)
  BY DEF Remaining
<1>4. Word256(q) \in 0..Word-1
  BY <1>2, Reduced
<1>5. ASSUME filled <= t PROVE Word256(q) = q
  <2>1. n >= 0 /\ n <= whole * t
    BY <1>1, <1>5
  <2> HIDE DEF n, q
  <2>2. q >= 0
    <3>1. ASSUME q <= -1 PROVE FALSE
      <4>1. q * t <= (-1) * t
        BY <1>1, <1>2, <3>1
      <4> QED BY <1>1, <1>2, <2>1, <4>1
    <3> QED BY <1>2, <3>1
  <2>3. q <= whole
    <3>1. ASSUME q >= whole + 1 PROVE FALSE
      <4>1. q * t >= (whole + 1) * t
        BY <1>1, <1>2, <3>1
      <4> QED BY <1>1, <1>2, <2>1, <4>1
    <3> QED BY <1>1, <1>2, <3>1
  <2>4. q \in 0..Word-1
    <3>1. Word \in Nat /\ whole <= Word - 1
      BY AmountAssumption
    <3> QED BY <1>1, <1>2, <2>2, <2>3, <3>1
  <2> QED BY <2>4, <1>2, Reduced
<1>6. ASSUME filled <= t
      PROVE  (whole - q) * t >= whole * filled /\ (whole - q - 1) * t < whole * filled
  <2>1. n = whole * t - whole * filled
    BY <1>1
  <2> HIDE DEF n, q
  <2>2. (whole - q) * t = whole * t - q * t /\ (whole - q - 1) * t = whole * t - q * t - t
    BY <1>1, <1>2
  <2>3. whole * t \in Int /\ whole * filled \in Int /\ q * t \in Int
    BY <1>1, <1>2
  <2> QED BY <1>1, <1>2, <2>1, <2>2, <2>3
<1> HIDE DEF q, n
<1> QED BY <1>3, <1>4, <1>5, <1>6

\* The threshold is 99% of a large amount, rounded down.
LEMMA ThresholdReached ==
  ASSUME NEW a \in Nat, NEW f \in Nat, IF a > 100 THEN 100 * f >= 99 * a ELSE f >= a
  PROVE  Threshold(a) \in Nat /\ Threshold(a) - f <= 0
BY DEF Threshold

-----------------------------------------------------------------------------
(* The rows.                                                               *)

\* FilledNotOpen and RemainingAgrees, of one row.
SoundRow(o, r) ==
  /\ (IF TakerAmount[o] > 100 THEN 100 * r.filled >= 99 * TakerAmount[o]
                              ELSE r.filled >= TakerAmount[o])
     => r.status # StatusOpen
  /\ r.filled <= TakerAmount[o] =>
       /\ (MakerAmount[o] - r.makerRemaining) * TakerAmount[o] >= MakerAmount[o] * r.filled
       /\ (MakerAmount[o] - r.makerRemaining - 1) * TakerAmount[o] < MakerAmount[o] * r.filled

\* What Save writes is a sound row, whatever it was given, if an amount that
\* reaches the threshold cannot come with another status than Filled.
LEMMA SavedSound ==
  ASSUME NEW o \in Orders, NEW filled \in 0..Word-1, NEW cancelled \in BOOLEAN,
         NEW status \in 0..3, NEW default \in 0..3
  PROVE  LET r == Populated(o, filled, cancelled, status, default)
         IN  /\ r \in Rows /\ SoundRow(o, r)
             /\ r.filled = filled /\ r.cancelled = cancelled
             /\ r.status = StatusCancelled =>
                  cancelled \/ status = StatusCancelled \/ default = StatusCancelled
<1> DEFINE r == Populated(o, filled, cancelled, status, default)
           ps == PopulateStatus(o, filled, cancelled, status)
<1>1. TakerAmount[o] \in Nat /\ MakerAmount[o] \in 0..Word-1 /\ MakerFee[o] \in 0..Word-1
      /\ filled \in Nat
  BY AmountAssumption
<1>2. r.filled = filled /\ r.makerRemaining = Remaining(o, MakerAmount[o], filled)
      /\ r.status = (IF ps = StatusOpen THEN default ELSE ps) /\ r.cancelled = cancelled
  BY DEF Populated
<1>3. /\ Remaining(o, MakerAmount[o], filled) \in 0..Word-1
      /\ Remaining(o, MakerFee[o], filled) \in 0..Word-1
  BY <1>1, RemainingFits
<1>4. ps \in 0..3
  BY DEF PopulateStatus, StatusFilled, StatusCancelled
<1>5. r \in Rows
  BY <1>3, <1>4 DEF Populated, Rows
<1>6. (IF TakerAmount[o] > 100 THEN 100 * filled >= 99 * TakerAmount[o]
                               ELSE filled >= TakerAmount[o]) => ps = StatusFilled
  BY <1>1, ThresholdReached DEF PopulateStatus
<1>7. filled <= TakerAmount[o] =>
        /\ (MakerAmount[o] - r.makerRemaining) * TakerAmount[o] >= MakerAmount[o] * filled
        /\ (MakerAmount[o] - r.makerRemaining - 1) * TakerAmount[o] < MakerAmount[o] * filled
  BY <1>1, <1>2, RemainingFits
<1>8. r.status = StatusCancelled =>
        cancelled \/ status = StatusCancelled \/ default = StatusCancelled
  BY <1>2 DEF PopulateStatus, StatusFilled, StatusCancelled, StatusOpen
<1>9. SoundRow(o, r)
  <2>1. ps = StatusFilled => r.status # StatusOpen
    BY <1>2 DEF StatusFilled, StatusOpen
  <2> QED BY <1>2, <1>6, <1>7, <2>1 DEF SoundRow
<1> QED BY <1>2, <1>5, <1>8, <1>9

-----------------------------------------------------------------------------
(* The inductive invariant of the index.                                   *)

\* Every row is sound ...
RowInv == /\ row \in [Orders -> Rows \cup {NoRow}]
          /\ \A o \in Orders : row[o] # NoRow => SoundRow(o, row[o])

\* ... and so is the one each indexer is about to insert.
IndexingInv ==
  /\ indexing \in [IndexWorkers -> (Orders \X Rows) \cup {<<>>}]
  /\ \A w \in IndexWorkers : indexing[w] # <<>> => SoundRow(indexing[w][1], indexing[w][2])

\* A fill indexer has read a row that is still there.
FillingInv ==
  /\ filling \in [FillWorkers -> (Orders \X (Fills \cup {0}) \X BOOLEAN \X Rows) \cup {<<>>}]
  /\ \A w \in FillWorkers : filling[w] # <<>> => row[filling[w][1]] \in Rows

CancellingInv ==
  /\ epoch \in 0..MaxEpoch
  /\ cancelling \in [CancelWorkers -> ((1..MaxEpoch) \X {"save", "mark"} \X BOOLEAN) \cup {<<>>}]

CounterInv == rejected \in Nat /\ total \in [Orders -> 0..Word-1]

IndexInv == RowInv /\ IndexingInv /\ FillingInv /\ CancellingInv /\ CounterInv

\* The index starts empty.
LEMMA InitIndex == Init => IndexInv
BY AmountAssumption, BoundAssumption
   DEF Init, IndexInv, RowInv, IndexingInv, FillingInv, CancellingInv, CounterInv

\* The UPDATE of Save keeps the rows.
LEMMA UpdateRows ==
  ASSUME IndexInv, NEW o \in Orders, row[o] \in Rows, NEW r \in Rows, SoundRow(o, r), Update(o, r)
  PROVE  /\ RowInv' /\ row' = [row EXCEPT ![o] = [r EXCEPT !.cancelled = row[o].cancelled]]
         /\ \A x \in Orders : row[x] \in Rows => row'[x] \in Rows
<1> DEFINE u == [r EXCEPT !.cancelled = row[o].cancelled]
<1>1. row' = [row EXCEPT ![o] = u]
  BY DEF Update
<1>2. u \in Rows /\ u.filled = r.filled /\ u.status = r.status /\ u.makerRemaining = r.makerRemaining
  BY DEF Rows
<1>3. SoundRow(o, u)
  BY <1>2 DEF SoundRow
<1> HIDE DEF u
<1>4. RowInv'
  <2>1. row' \in [Orders -> Rows \cup {NoRow}]
    BY <1>1, <1>2 DEF IndexInv, RowInv
  <2>2. ASSUME NEW x \in Orders, row'[x] # NoRow PROVE SoundRow(x, row'[x])
    <3>1. CASE x = o
      BY <1>1, <1>3, <3>1 DEF IndexInv, RowInv
    <3>2. CASE x # o
      BY <1>1, <2>2, <3>2 DEF IndexInv, RowInv
    <3> QED BY <3>1, <3>2
  <2>3. ASSUME NEW x \in Orders PROVE SoundRow(x, row[x])' <=> SoundRow(x, row'[x])
    BY DEF SoundRow
  <2> QED BY <2>1, <2>2, <2>3 DEF RowInv
<1>5. \A x \in Orders : row[x] \in Rows => row'[x] \in Rows
  BY <1>1, <1>2 DEF IndexInv, RowInv
<1> QED BY <1>1, <1>4, <1>5 DEF u

\* Index.
LEMMA IndexKeeps ==
  ASSUME IndexInv, NEW w \in IndexWorkers, NEW o \in Orders, NEW filled \in 0..Word-1,
         NEW cancelled \in BOOLEAN, NEW status \in {StatusOpen, StatusUnfunded},
         Index(w, o, filled, cancelled, status)
  PROVE  IndexInv'
<1> DEFINE r == Populated(o, filled, cancelled, StatusOpen, status)
<1>1. r \in Rows /\ SoundRow(o, r)
  BY SavedSound DEF StatusOpen, StatusUnfunded
<1>2. CASE row[o] # NoRow
  <2>1. row[o] \in Rows /\ Update(o, r) /\ total' = [total EXCEPT ![o] = filled] /\ UNCHANGED indexing
    BY <1>2 DEF Index, IndexInv, RowInv
  <2> HIDE DEF r
  <2>2. RowInv' /\ \A x \in Orders : row[x] \in Rows => row'[x] \in Rows
    BY <1>1, <2>1, UpdateRows
  <2>3. FillingInv'
    BY <2>2 DEF Index, IndexInv, FillingInv
  <2>4. IndexingInv' /\ CancellingInv' /\ CounterInv'
    BY <2>1 DEF Index, IndexInv, IndexingInv, SoundRow, CancellingInv, CounterInv
  <2> QED BY <2>2, <2>3, <2>4 DEF IndexInv
<1>3. CASE row[o] = NoRow
  <2>1. indexing' = [indexing EXCEPT ![w] = <<o, r>>]
        /\ UNCHANGED <<row, total, epoch, filling, cancelling, rejected>>
    BY <1>3 DEF Index
  <2> HIDE DEF r
  <2>2. IndexingInv'
    <3>1. indexing' \in [IndexWorkers -> (Orders \X Rows) \cup {<<>>}]
      BY <1>1, <2>1 DEF IndexInv, IndexingInv
    <3>2. ASSUME NEW v \in IndexWorkers, indexing'[v] # <<>>
          PROVE  SoundRow(indexing'[v][1], indexing'[v][2])
      <4>1. CASE v = w
        <5>1. indexing'[v][1] = o /\ indexing'[v][2] = r
          BY <2>1, <4>1 DEF IndexInv, IndexingInv
        <5> QED BY <1>1, <5>1
      <4>2. CASE v # w
        BY <2>1, <3>2, <4>2 DEF IndexInv, IndexingInv
      <4> QED BY <4>1, <4>2
    <3> QED BY <3>1, <3>2 DEF IndexingInv, SoundRow
  <2>3. RowInv' /\ FillingInv' /\ CancellingInv' /\ CounterInv'
    BY <2>1 DEF IndexInv, RowInv, SoundRow, FillingInv, CancellingInv, CounterInv
  <2> QED BY <2>2, <2>3 DEF IndexInv
<1> QED BY <1>2, <1>3

\* Save's INSERT.
LEMMA InsertKeeps == ASSUME IndexInv, NEW w \in IndexWorkers, IndexInsert(w) PROVE IndexInv'
<1> DEFINE o == indexing[w][1]
           r == indexing[w][2]
<1>1. o \in Orders /\ r \in Rows /\ SoundRow(o, r)
  BY DEF IndexInsert, IndexInv, IndexingInv
<1>2. indexing' = [indexing EXCEPT ![w] = <<>>] /\ UNCHANGED <<epoch, filling, cancelling>>
  BY DEF IndexInsert
<1>3. IndexingInv' /\ CancellingInv'
  <2>1. IndexingInv'
    BY <1>2 DEF IndexInv, IndexingInv, SoundRow
  <2> QED BY <1>2, <2>1 DEF IndexInv, CancellingInv
<1>4. CASE row[o] = NoRow
  <2>1. row' = [row EXCEPT ![o] = r] /\ total' = [total EXCEPT ![o] = r.filled] /\ UNCHANGED rejected
    BY <1>4 DEF IndexInsert
  <2> HIDE DEF o, r
  <2>2. RowInv'
    <3>1. row' \in [Orders -> Rows \cup {NoRow}]
      BY <1>1, <2>1 DEF IndexInv, RowInv
    <3>2. ASSUME NEW x \in Orders, row'[x] # NoRow PROVE SoundRow(x, row'[x])
      <4>1. CASE x = o
        BY <1>1, <2>1, <4>1 DEF IndexInv, RowInv
      <4>2. CASE x # o
        BY <2>1, <3>2, <4>2 DEF IndexInv, RowInv
      <4> QED BY <4>1, <4>2
    <3> QED BY <3>1, <3>2 DEF RowInv, SoundRow
  <2>3. \A x \in Orders : row[x] \in Rows => row'[x] \in Rows
    BY <1>1, <2>1 DEF IndexInv, RowInv
  <2>4. FillingInv'
    BY <1>2, <2>3 DEF IndexInv, FillingInv
  <2>5. CounterInv'
    BY <1>1, <2>1 DEF IndexInv, CounterInv, Rows
  <2> QED BY <1>3, <2>2, <2>4, <2>5 DEF IndexInv
<1>5. CASE row[o] # NoRow
  <2>1. UNCHANGED <<row, total>> /\ rejected' = rejected + 1
    BY <1>5 DEF IndexInsert
  <2>2. RowInv' /\ FillingInv' /\ CounterInv'
    BY <1>2, <2>1 DEF IndexInv, RowInv, SoundRow, FillingInv, CounterInv
  <2> QED BY <1>3, <2>2 DEF IndexInv
<1> QED BY <1>4, <1>5

\* RecordFill's SELECT.
LEMMA FillReadKeeps ==
  ASSUME IndexInv, NEW w \in FillWorkers, NEW o \in Orders, NEW amount \in Fills \cup {0},
         NEW cancel \in BOOLEAN, RecordFill(w, o, amount, cancel)
  PROVE  IndexInv'
<1>1. UNCHANGED <<row, epoch, indexing, cancelling, rejected, total>>
  BY DEF RecordFill
<1>2. FillingInv'
  <2>1. CASE row[o] = NoRow
    BY <1>1, <2>1 DEF RecordFill, IndexInv, FillingInv
  <2>2. CASE row[o] # NoRow
    <3>1. filling' = [filling EXCEPT ![w] = <<o, amount, cancel, row[o]>>] /\ row[o] \in Rows
      BY <2>2 DEF RecordFill, IndexInv, RowInv
    <3> QED BY <1>1, <3>1 DEF IndexInv, FillingInv
  <2> QED BY <2>1, <2>2
<1>3. RowInv' /\ IndexingInv' /\ CancellingInv' /\ CounterInv'
  BY <1>1 DEF IndexInv, RowInv, IndexingInv, SoundRow, CancellingInv, CounterInv
<1> QED BY <1>2, <1>3 DEF IndexInv

\* RecordFill's UPDATE.
LEMMA FillWriteKeeps == ASSUME IndexInv, NEW w \in FillWorkers, FillUpdate(w) PROVE IndexInv'
<1> DEFINE o == filling[w][1]
           amount == filling[w][2]
           old == filling[w][4]
           r == Populated(o, Word256(old.filled + amount), old.cancelled \/ filling[w][3],
                          old.status, old.status)
<1>1. /\ o \in Orders /\ amount \in Fills \cup {0} /\ old \in Rows /\ filling[w][3] \in BOOLEAN
      /\ row[o] \in Rows
  BY DEF FillUpdate, IndexInv, FillingInv
<1>2. amount \in Nat /\ old.filled \in Nat /\ old.status \in 0..3 /\ old.cancelled \in BOOLEAN
  <2> HIDE DEF o, amount, old
  <2>1. amount \in Nat
    BY <1>1, AmountAssumption
  <2>2. old.filled \in 0..Word-1 /\ old.status \in 0..3 /\ old.cancelled \in BOOLEAN
    BY <1>1 DEF Rows
  <2> QED BY <2>1, <2>2
<1>3. Word256(old.filled + amount) \in 0..Word-1
  BY <1>2, Reduced
<1>4. r \in Rows /\ SoundRow(o, r)
  <2> DEFINE b == old.cancelled \/ filling[w][3]
             f == Word256(old.filled + amount)
  <2>1. b \in BOOLEAN
    OBVIOUS
  <2>2. r = Populated(o, f, b, old.status, old.status)
    OBVIOUS
  <2> HIDE DEF o, amount, old, b, f, r
  <2> QED BY <1>1, <1>2, <1>3, <2>1, <2>2, SavedSound DEF f
<1>5. /\ Update(o, r) /\ total' = [total EXCEPT ![o] = Word256(@ + amount)]
      /\ filling' = [filling EXCEPT ![w] = <<>>] /\ UNCHANGED <<epoch, indexing, cancelling, rejected>>
  BY DEF FillUpdate
<1> HIDE DEF r, o, amount, old
<1>6. RowInv' /\ \A x \in Orders : row[x] \in Rows => row'[x] \in Rows
  BY <1>1, <1>4, <1>5, UpdateRows
<1>7. FillingInv'
  BY <1>5, <1>6 DEF IndexInv, FillingInv
<1>8. CounterInv'
  <2>1. total[o] \in Nat /\ Word256(total[o] + amount) \in 0..Word-1
    BY <1>1, <1>2, Reduced DEF IndexInv, CounterInv
  <2> QED BY <1>1, <1>5, <2>1 DEF IndexInv, CounterInv
<1>9. IndexingInv' /\ CancellingInv'
  BY <1>5 DEF IndexInv, IndexingInv, SoundRow, CancellingInv
<1> QED BY <1>6, <1>7, <1>8, <1>9 DEF IndexInv

\* A statement that takes rows off the orderbook keeps them sound.
LEMMA CloseKeeps ==
  ASSUME IndexInv, NEW S, NEW status \in {StatusUnfunded, StatusCancelled},
         \A o \in Orders : S[o] => row[o] # NoRow,
         row' = [o \in Orders |-> IF S[o] THEN [row[o] EXCEPT !.status = status] ELSE row[o]]
  PROVE  RowInv' /\ \A x \in Orders : row[x] \in Rows => row'[x] \in Rows
<1>1. status \in 0..3 /\ status # StatusOpen
  BY DEF StatusUnfunded, StatusCancelled, StatusOpen
<1>2. ASSUME NEW o \in Orders
      PROVE  /\ row'[o] \in Rows \cup {NoRow} /\ (row'[o] # NoRow => SoundRow(o, row'[o]))
             /\ row[o] \in Rows => row'[o] \in Rows
  <2>1. CASE S[o]
    <3> DEFINE u == [row[o] EXCEPT !.status = status]
    <3>1. row'[o] = u /\ row[o] \in Rows /\ SoundRow(o, row[o])
      BY <2>1 DEF IndexInv, RowInv
    <3>2. u \in Rows /\ u.filled = row[o].filled /\ u.makerRemaining = row[o].makerRemaining
          /\ u.status = status
      BY <1>1, <3>1 DEF Rows
    <3> HIDE DEF u
    <3> QED BY <1>1, <3>1, <3>2 DEF SoundRow
  <2>2. CASE ~S[o]
    BY <2>2 DEF IndexInv, RowInv
  <2> QED BY <2>1, <2>2
<1>3. row' \in [Orders -> Rows \cup {NoRow}]
  <2>1. row' = [o \in Orders |-> row'[o]]
    OBVIOUS
  <2> QED BY <1>2, <2>1
<1> QED BY <1>2, <1>3 DEF RowInv, SoundRow

\* RecordSpend.
LEMMA SpendKeeps == ASSUME IndexInv, RecordSpend PROVE IndexInv'
<1>1. PICK balance \in Balances, tokens \in {{"maker"}, {"fee"}, {"maker", "fee"}} :
        row' = [o \in Orders |-> IF Underfunded(o, tokens, balance)
                                 THEN [row[o] EXCEPT !.status = StatusUnfunded] ELSE row[o]]
  BY DEF RecordSpend
<1> DEFINE S == [o \in Orders |-> Underfunded(o, tokens, balance)]
<1>2. \A o \in Orders : S[o] => row[o] # NoRow
  BY DEF Underfunded
<1>3. row' = [o \in Orders |-> IF S[o] THEN [row[o] EXCEPT !.status = StatusUnfunded] ELSE row[o]]
  BY <1>1
<1> HIDE DEF S
<1>4. RowInv' /\ \A x \in Orders : row[x] \in Rows => row'[x] \in Rows
  BY <1>2, <1>3, CloseKeeps
<1>5. UNCHANGED <<epoch, indexing, filling, cancelling, rejected, total>>
  BY DEF RecordSpend
<1>6. FillingInv'
  BY <1>4, <1>5 DEF IndexInv, FillingInv
<1>7. IndexingInv' /\ CancellingInv' /\ CounterInv'
  BY <1>5 DEF IndexInv, IndexingInv, SoundRow, CancellingInv, CounterInv
<1> QED BY <1>4, <1>6, <1>7 DEF IndexInv

\* RecordCancellation, up to its UPDATE.
LEMMA EpochKeeps ==
  ASSUME IndexInv, NEW w \in CancelWorkers,
         CancelSave(w) \/ \E e \in 1..MaxEpoch : RecordCancellation(w, e)
  PROVE  IndexInv'
<1>1. UNCHANGED <<row, indexing, filling, total>>
  BY DEF CancelSave, RecordCancellation
<1>2. RowInv' /\ IndexingInv' /\ FillingInv'
  BY <1>1 DEF IndexInv, RowInv, IndexingInv, SoundRow, FillingInv
<1>3. CASE CancelSave(w)
  <2>1. cancelling[w] \in (1..MaxEpoch) \X {"save", "mark"} \X BOOLEAN
    BY <1>3 DEF CancelSave, IndexInv, CancellingInv
  <2>2. CancellingInv'
    <3>1. CASE cancelling[w][3] /\ epoch # 0
      BY <1>3, <3>1 DEF CancelSave, IndexInv, CancellingInv
    <3>2. CASE ~(cancelling[w][3] /\ epoch # 0)
      <4>1. cancelling' = [cancelling EXCEPT ![w][2] = "mark"] /\ epoch' = cancelling[w][1]
        BY <1>3, <3>2 DEF CancelSave
      <4>2. [cancelling[w] EXCEPT ![2] = "mark"] = <<cancelling[w][1], "mark", cancelling[w][3]>>
        BY <2>1
      <4>3. <<cancelling[w][1], "mark", cancelling[w][3]>> \in (1..MaxEpoch) \X {"save", "mark"} \X BOOLEAN
        BY <2>1
      <4>4. cancelling[w][1] \in 0..MaxEpoch
        BY <2>1, BoundAssumption
      <4> QED BY <4>1, <4>2, <4>3, <4>4 DEF IndexInv, CancellingInv
    <3> QED BY <3>1, <3>2
  <2>3. CounterInv'
    BY <1>3 DEF CancelSave, IndexInv, CounterInv
  <2> QED BY <1>2, <2>2, <2>3 DEF IndexInv
<1>4. ASSUME NEW e \in 1..MaxEpoch, RecordCancellation(w, e) PROVE IndexInv'
  <2>1. CancellingInv'
    BY <1>4 DEF RecordCancellation, IndexInv, CancellingInv
  <2>2. CounterInv'
    BY <1>4 DEF RecordCancellation, IndexInv, CounterInv
  <2> QED BY <1>2, <2>1, <2>2 DEF IndexInv
<1> QED BY <1>3, <1>4

\* The UPDATE of RecordCancellation.
LEMMA MarkKeeps == ASSUME IndexInv, NEW w \in CancelWorkers, CancelMark(w) PROVE IndexInv'
<1> DEFINE S == [o \in Orders |-> /\ row[o] # NoRow
                                  /\ row[o].status = StatusOpen /\ Salt[o] < cancelling[w][1]]
<1>1. \A o \in Orders : S[o] => row[o] # NoRow
  OBVIOUS
<1>2. row' = [o \in Orders |-> IF S[o] THEN [row[o] EXCEPT !.status = StatusCancelled] ELSE row[o]]
  BY DEF CancelMark
<1> HIDE DEF S
<1>3. RowInv' /\ \A x \in Orders : row[x] \in Rows => row'[x] \in Rows
  BY <1>1, <1>2, CloseKeeps
<1>4. UNCHANGED <<epoch, indexing, filling, rejected, total>> /\ cancelling' = [cancelling EXCEPT ![w] = <<>>]
  BY DEF CancelMark
<1>5. FillingInv'
  BY <1>3, <1>4 DEF IndexInv, FillingInv
<1>6. CancellingInv'
  BY <1>4 DEF IndexInv, CancellingInv
<1>7. IndexingInv' /\ CounterInv'
  BY <1>4 DEF IndexInv, IndexingInv, SoundRow, CounterInv
<1> QED BY <1>3, <1>5, <1>6, <1>7 DEF IndexInv

\* What IndexInv says.
LEMMA IndexFacts == IndexInv => TypeOK /\ FilledNotOpen /\ RemainingAgrees
<1> SUFFICES ASSUME IndexInv PROVE TypeOK /\ FilledNotOpen /\ RemainingAgrees
  OBVIOUS
<1>1. TypeOK
  BY DEF IndexInv, RowInv, IndexingInv, FillingInv, CancellingInv, CounterInv, TypeOK
<1>2. FilledNotOpen
  BY DEF IndexInv, RowInv, SoundRow, FilledNotOpen
<1>3. RemainingAgrees
  BY DEF IndexInv, RowInv, SoundRow, RemainingAgrees
<1> QED BY <1>1, <1>2, <1>3

\* A service that loses what it has in hand writes nothing.
LEMMA FailKeeps ==
  ASSUME IndexInv,
         \/ \E w \in IndexWorkers : IndexFails(w)
         \/ \E w \in FillWorkers : FillFails(w)
         \/ \E w \in CancelWorkers : CancelFails(w)
  PROVE  IndexInv'
<1>1. UNCHANGED <<row, epoch, total, used>> /\ rejected' = rejected + 1
  BY DEF IndexFails, FillFails, CancelFails
<1>2. RowInv' /\ CounterInv' /\ epoch' \in 0..MaxEpoch
  BY <1>1 DEF IndexInv, RowInv, SoundRow, CounterInv, CancellingInv
<1>3. /\ UNCHANGED indexing \/ \E w \in IndexWorkers : indexing' = [indexing EXCEPT ![w] = <<>>]
      /\ UNCHANGED filling \/ \E w \in FillWorkers : filling' = [filling EXCEPT ![w] = <<>>]
      /\ UNCHANGED cancelling \/ \E w \in CancelWorkers : cancelling' = [cancelling EXCEPT ![w] = <<>>]
  BY DEF IndexFails, FillFails, CancelFails
<1>4. IndexingInv'
  BY <1>3 DEF IndexInv, IndexingInv, SoundRow
<1>5. FillingInv'
  BY <1>1, <1>3 DEF IndexInv, FillingInv
<1>6. CancellingInv'
  BY <1>2, <1>3 DEF IndexInv, CancellingInv
<1> QED BY <1>2, <1>4, <1>5, <1>6 DEF IndexInv

\* The index on its own: the services take what messages they like.
LEMMA IndexInductive == Spec => [](IndexInv /\ used.epoch \in Nat)
<1> DEFINE I == IndexInv /\ used.epoch \in Nat /\ "epoch" \in DOMAIN used
<1>1. Init => I
  BY InitIndex DEF Init
<1>2. ASSUME I, [Next]_vars PROVE I'
  <2>1. \A s, n : Take(s, n) => used'.epoch \in Nat /\ "epoch" \in DOMAIN used'
    BY <1>2 DEF Take
  <2>2. ASSUME NEW w \in IndexWorkers, IndexUpdate(w) PROVE I'
    <3>1. PICK o \in Orders, filled \in Fills \cup {0}, cancelled \in BOOLEAN,
               status \in {StatusOpen, StatusUnfunded} : Index(w, o, filled, cancelled, status)
      BY <2>2 DEF IndexUpdate
    <3>2. filled \in 0..Word-1
      BY AmountAssumption
    <3> QED BY <1>2, <2>1, <2>2, <3>1, <3>2, IndexKeeps DEF IndexUpdate
  <2>3. ASSUME NEW w \in IndexWorkers, IndexInsert(w) PROVE I'
    BY <1>2, <2>3, InsertKeeps DEF IndexInsert
  <2>4. ASSUME NEW w \in FillWorkers, FillSelect(w) PROVE I'
    <3>1. PICK o \in Orders, amount \in Fills, cancel \in BOOLEAN : RecordFill(w, o, amount, cancel)
      BY <2>4 DEF FillSelect
    <3> QED BY <1>2, <2>1, <2>4, <3>1, FillReadKeeps DEF FillSelect
  <2>5. ASSUME NEW w \in FillWorkers, FillUpdate(w) PROVE I'
    BY <1>2, <2>5, FillWriteKeeps DEF FillUpdate
  <2>6. CASE RecordSpend
    BY <1>2, <2>1, <2>6, SpendKeeps DEF RecordSpend
  <2>7. ASSUME NEW w \in CancelWorkers, CancelSelect(w) PROVE I'
    <3>1. used.epoch + 1 \in 1..MaxEpoch /\ RecordCancellation(w, used.epoch + 1)
      BY <1>2, <2>7, BoundAssumption DEF CancelSelect, Take
    <3> QED BY <1>2, <2>1, <2>7, <3>1, EpochKeeps DEF CancelSelect
  <2>8. ASSUME NEW w \in CancelWorkers, CancelSave(w) PROVE I'
    BY <1>2, <2>8, EpochKeeps DEF CancelSave
  <2>9. ASSUME NEW w \in CancelWorkers, CancelMark(w) PROVE I'
    BY <1>2, <2>9, MarkKeeps DEF CancelMark
  <2>10. CASE \/ \E w \in IndexWorkers : IndexFails(w)
              \/ \E w \in FillWorkers : FillFails(w)
              \/ \E w \in CancelWorkers : CancelFails(w)
    BY <1>2, <2>10, FailKeeps DEF IndexFails, FillFails, CancelFails
  <2>11. CASE UNCHANGED vars
    BY <1>2, <2>11 DEF vars, IndexInv, RowInv, IndexingInv, SoundRow, FillingInv, CancellingInv, CounterInv
  <2> QED BY <1>2, <2>2, <2>3, <2>4, <2>5, <2>6, <2>7, <2>8, <2>9, <2>10, <2>11 DEF Next
<1>3. I => IndexInv /\ used.epoch \in Nat
  OBVIOUS
<1> QED BY <1>1, <1>2, <1>3, PTL DEF Spec

\* Rows, workers and counters are well typed: in particular every amount a
\* row has is a 256-bit word, whatever fills were added to it (order.go).
THEOREM IndexTypes == Spec => []TypeOK
BY IndexInductive, IndexFacts, PTL

\* No row of an order that is filled to the threshold of Order.Save is on the
\* orderbook, whatever the order of the services' statements.
THEOREM FilledOrdersClosed == Spec => []FilledNotOpen
BY IndexInductive, IndexFacts, PTL

\* Each row's remaining amounts fit the fills in the same row, to one base unit.
THEOREM RemainingFitsFills == Spec => []RemainingAgrees
BY IndexInductive, IndexFacts, PTL

-----------------------------------------------------------------------------
(* The inductive invariant of the pipeline.                                *)

\* The chain has cancelled the order, or all orders of its maker up to it.
CancelledThere(o) == chain.cancelled[o] \/ Salt[o] < chain.epoch

ChainInv ==
  /\ used \in [index : Nat, fill : Nat, spend : Nat, epoch : Nat]
  /\ chain \in [filled : [Orders -> Nat], cancelled : [Orders -> BOOLEAN], epoch : 0..MaxEpoch]
  /\ \A o \in Orders : chain.filled[o] <= TakerAmount[o]
  /\ chain.epoch = used.epoch

\* Events the exchange has emitted, and the ones the fill monitor has heard.
Emitted == {e \in Orders \X (Fills \cup {0}) \X BOOLEAN : e[3] => CancelledThere(e[1])}
Published == {e \in Emitted : e[1] \in heard}

FeedInv ==
  /\ events \in Seq(Emitted)
  /\ records \in [in : Seq(Published), pg : Seq(Published)]
  /\ epochs \in Seq(1..chain.epoch)

BloomInv == /\ heard \subseteq Orders /\ topic \subseteq heard /\ bloom \subseteq heard
            /\ stored = NoFile \/ stored \subseteq heard

\* A copy is behind the chain, and is cancelled only if the chain says so.
CopyOf == {m \in [order : Orders, filled : Nat, cancelled : BOOLEAN,
                  looked : SUBSET {"filled", "cancelled"},
                  at : {"api", "exchange", "fillupdate", "fundcheck", "poolfilter", "pgindexer"}] :
             /\ m.filled <= TakerAmount[m.order]
             /\ m.at \in {"fundcheck", "poolfilter", "pgindexer"} => m.looked = {"filled", "cancelled"}
             /\ m.cancelled => CancelledThere(m.order)}

CopyInv == msg \in [Copies -> CopyOf \cup {<<>>}]

\* A row, or one that is being written, that says cancelled.
TrueRow(o, r) == r.status = StatusCancelled \/ r.cancelled => CancelledThere(o)

TrueInv ==
  /\ \A o \in Orders : row[o] # NoRow => TrueRow(o, row[o])
  /\ \A w \in IndexWorkers : indexing[w] # <<>> => TrueRow(indexing[w][1], indexing[w][2])
  /\ \A w \in FillWorkers : filling[w] # <<>> =>
       /\ TrueRow(filling[w][1], filling[w][4])
       /\ filling[w][3] => CancelledThere(filling[w][1])
  /\ \A w \in CancelWorkers : cancelling[w] # <<>> => cancelling[w][1] <= chain.epoch
  /\ epoch <= chain.epoch

PInv == IndexInv /\ ChainInv /\ FeedInv /\ BloomInv /\ CopyInv /\ TrueInv

\* All is empty at first.
LEMMA InitPipeline == PInit => PInv
<1> SUFFICES ASSUME PInit PROVE PInv
  OBVIOUS
<1> USE AmountAssumption, BoundAssumption DEF PInit
<1>1. IndexInv
  BY InitIndex
<1>2. ChainInv
  BY DEF ChainInv, Init
<1>3. FeedInv
  BY DEF FeedInv
<1>4. BloomInv
  BY DEF BloomInv
<1>5. CopyInv
  BY DEF CopyInv
<1>6. TrueInv
  BY DEF TrueInv, Init
<1> QED BY <1>1, <1>2, <1>3, <1>4, <1>5, <1>6 DEF PInv

\* Sequences over a larger set.
LEMMA SeqMonotone ==
  ASSUME NEW S, NEW T, S \subseteq T, NEW s \in Seq(S) PROVE s \in Seq(T)
OBVIOUS

\* What the chain has cancelled stays cancelled, and what is in the pipeline
\* stays true.
LEMMA ChainGrows ==
  ASSUME PInv, \A o \in Orders : CancelledThere(o) => CancelledThere(o)',
         chain.epoch <= chain.epoch', chain.epoch' \in Nat,
         heard \subseteq heard'
  PROVE  /\ Emitted \subseteq Emitted' /\ Published \subseteq Published'
         /\ 1..chain.epoch \subseteq 1..chain.epoch'
         /\ UNCHANGED msg => CopyInv'
         /\ UNCHANGED <<row, indexing, filling, cancelling, epoch>> => TrueInv'
<1>1. Emitted \subseteq Emitted'
  BY DEF Emitted
<1>2. Published \subseteq Published'
  BY <1>1 DEF Published
<1>3. chain.epoch \in Nat
  BY DEF PInv, ChainInv
<1>4. ASSUME UNCHANGED msg PROVE CopyInv'
  <2>1. CopyOf \subseteq CopyOf'
    BY DEF CopyOf
  <2> QED BY <1>4, <2>1 DEF PInv, CopyInv
<1>5. ASSUME UNCHANGED <<row, indexing, filling, cancelling, epoch>> PROVE TrueInv'
  <2>1. \A o \in Orders : \A r : TrueRow(o, r) => TrueRow(o, r)'
    BY DEF TrueRow
  <2>2. /\ \A o \in Orders : row[o] # NoRow => TrueRow(o, row[o])
        /\ \A w \in IndexWorkers : indexing[w] # <<>> => TrueRow(indexing[w][1], indexing[w][2])
        /\ \A w \in FillWorkers : filling[w] # <<>> =>
             /\ TrueRow(filling[w][1], filling[w][4])
             /\ filling[w][3] => CancelledThere(filling[w][1])
        /\ \A w \in CancelWorkers : cancelling[w] # <<>> => cancelling[w][1] <= chain.epoch
        /\ epoch <= chain.epoch
    BY DEF PInv, TrueInv
  <2>3. /\ \A w \in IndexWorkers : indexing[w] # <<>> => indexing[w][1] \in Orders
        /\ \A w \in FillWorkers : filling[w] # <<>> => filling[w][1] \in Orders
        /\ \A w \in CancelWorkers : cancelling[w] # <<>> => cancelling[w][1] \in Nat
        /\ epoch \in Nat
    BY DEF PInv, IndexInv, IndexingInv, FillingInv, CancellingInv
  <2>4. \A o \in Orders : row'[o] # NoRow => TrueRow(o, row[o])'
    BY <1>5, <2>2 DEF TrueRow
  <2>5. \A w \in IndexWorkers : indexing'[w] # <<>> => TrueRow(indexing[w][1], indexing[w][2])'
    BY <1>5, <2>2, <2>3 DEF TrueRow
  <2>6. \A w \in FillWorkers : filling'[w] # <<>> =>
             /\ TrueRow(filling[w][1], filling[w][4])'
             /\ filling'[w][3] => CancelledThere(filling[w][1])'
    <3> SUFFICES ASSUME NEW w \in FillWorkers, filling[w] # <<>>
                 PROVE  /\ TrueRow(filling[w][1], filling[w][4])'
                        /\ filling[w][3] => CancelledThere(filling[w][1])'
      BY <1>5
    <3>1. filling'[w] = filling[w]
      BY <1>5
    <3>2. CancelledThere(filling[w][1]) => CancelledThere(filling[w][1])'
      <4>1. PICK o \in Orders : o = filling[w][1]
        BY <2>3
      <4>2. CancelledThere(filling[w][1]) = CancelledThere(o) /\ CancelledThere(filling[w][1])' = CancelledThere(o)'
        BY <3>1, <4>1 DEF CancelledThere
      <4> QED BY <4>2
    <3> QED BY <2>2, <3>1, <3>2 DEF TrueRow
  <2>7. \A w \in CancelWorkers : cancelling'[w] # <<>> => cancelling'[w][1] <= chain.epoch'
    BY <1>3, <1>5, <2>2, <2>3
  <2>8. epoch' <= chain.epoch'
    BY <1>3, <1>5, <2>2, <2>3
  <2> QED BY <2>4, <2>5, <2>6, <2>7, <2>8 DEF TrueInv
<1> QED BY <1>1, <1>2, <1>3, <1>4, <1>5

-----------------------------------------------------------------------------
(* The index passes on what the chain says.                                *)

\* Index and RecordFill write a row whose status or whose cancelled is true.
LEMMA TrueUpdate ==
  ASSUME PInv, UNCHANGED <<chain, indexing, cancelling, epoch>>, NEW o \in Orders,
         NEW r \in Rows, SoundRow(o, r), row[o] \in Rows, row[o] # NoRow, Update(o, r),
         r.status = StatusCancelled => CancelledThere(o),
         \A w \in FillWorkers : filling'[w] # <<>> => filling[w] # <<>> /\ filling'[w] = filling[w]
  PROVE  TrueInv'
<1>1. \A x, y : CancelledThere(x)' = CancelledThere(x) /\ TrueRow(x, y)' = TrueRow(x, y)
  BY DEF CancelledThere, TrueRow
<1>2. row' = [row EXCEPT ![o] = [r EXCEPT !.cancelled = row[o].cancelled]]
  BY DEF Update
<1>3. ASSUME NEW x \in Orders, row'[x] # NoRow PROVE TrueRow(x, row'[x])
  <2>1. CASE x = o
    <3>1. row'[x] = [r EXCEPT !.cancelled = row[o].cancelled]
      BY <1>2, <2>1 DEF PInv, IndexInv, RowInv
    <3>2. row'[x].status = r.status /\ row'[x].cancelled = row[o].cancelled
      BY <3>1 DEF Rows
    <3>3. TrueRow(o, row[o])
      BY DEF PInv, TrueInv
    <3> QED BY <2>1, <3>2, <3>3 DEF TrueRow
  <2>2. CASE x # o
    BY <1>2, <1>3, <2>2 DEF PInv, TrueInv, IndexInv, RowInv
  <2> QED BY <2>1, <2>2
<1>4. \A w \in IndexWorkers : indexing[w] # <<>> => TrueRow(indexing[w][1], indexing[w][2])
  BY DEF PInv, TrueInv
<1>5. \A w \in FillWorkers : filling'[w] # <<>> =>
        /\ TrueRow(filling'[w][1], filling'[w][4])
        /\ filling'[w][3] => CancelledThere(filling'[w][1])
  BY DEF PInv, TrueInv
<1>6. (\A w \in CancelWorkers : cancelling[w] # <<>> => cancelling[w][1] <= chain.epoch)
      /\ epoch <= chain.epoch
  BY DEF PInv, TrueInv
<1>7. \A x \in Orders : TrueRow(x, row[x])' <=> TrueRow(x, row'[x])
  BY DEF TrueRow, CancelledThere
<1>8. \A w : /\ TrueRow(indexing[w][1], indexing[w][2])' <=> TrueRow(indexing'[w][1], indexing'[w][2])
             /\ TrueRow(filling[w][1], filling[w][4])' <=> TrueRow(filling'[w][1], filling'[w][4])
             /\ CancelledThere(filling[w][1])' <=> CancelledThere(filling'[w][1])
  BY DEF TrueRow, CancelledThere
<1> QED BY <1>3, <1>4, <1>5, <1>6, <1>7, <1>8 DEF TrueInv

\* Index.
LEMMA TrueIndex ==
  ASSUME PInv, UNCHANGED chain, NEW w \in IndexWorkers, NEW o \in Orders, NEW filled \in 0..Word-1,
         NEW cancelled \in BOOLEAN, cancelled => CancelledThere(o),
         Index(w, o, filled, cancelled, StatusOpen)
  PROVE  TrueInv'
<1> DEFINE r == Populated(o, filled, cancelled, StatusOpen, StatusOpen)
<1>1. /\ r \in Rows /\ SoundRow(o, r) /\ r.cancelled = cancelled
      /\ r.status = StatusCancelled => cancelled
  BY SavedSound DEF StatusOpen, StatusCancelled
<1>2. TrueRow(o, r) /\ (r.status = StatusCancelled => CancelledThere(o))
  BY <1>1 DEF TrueRow
<1>3. CASE row[o] # NoRow
  <2>1. /\ row[o] \in Rows /\ Update(o, r)
        /\ UNCHANGED <<indexing, epoch, filling, cancelling>>
    BY <1>3 DEF Index, PInv, IndexInv, RowInv
  <2> HIDE DEF r
  <2> QED BY <1>1, <1>2, <1>3, <2>1, TrueUpdate
<1>4. CASE row[o] = NoRow
  <2>1. indexing' = [indexing EXCEPT ![w] = <<o, r>>] /\ UNCHANGED <<row, epoch, filling, cancelling>>
    BY <1>4 DEF Index
  <2> HIDE DEF r
  <2>2. ASSUME NEW v \in IndexWorkers, indexing'[v] # <<>>
        PROVE  TrueRow(indexing'[v][1], indexing'[v][2])
    <3>1. CASE v = w
      <4>1. indexing'[v][1] = o /\ indexing'[v][2] = r
        BY <2>1, <3>1 DEF PInv, IndexInv, IndexingInv
      <4> QED BY <1>2, <4>1
    <3>2. CASE v # w
      BY <2>1, <2>2, <3>2 DEF PInv, TrueInv, IndexInv, IndexingInv
    <3> QED BY <3>1, <3>2
  <2>3. \A v : TrueRow(indexing[v][1], indexing[v][2])' <=> TrueRow(indexing'[v][1], indexing'[v][2])
    BY DEF TrueRow, CancelledThere
  <2> QED BY <2>1, <2>2, <2>3 DEF PInv, TrueInv, TrueRow, CancelledThere
<1> QED BY <1>3, <1>4

\* Save's INSERT.
LEMMA TrueInsert ==
  ASSUME PInv, UNCHANGED chain, NEW w \in IndexWorkers, IndexInsert(w) PROVE TrueInv'
<1> DEFINE o == indexing[w][1]
           r == indexing[w][2]
<1>1. o \in Orders /\ TrueRow(o, r)
  BY DEF IndexInsert, PInv, IndexInv, IndexingInv, TrueInv
<1>2. indexing' = [indexing EXCEPT ![w] = <<>>] /\ UNCHANGED <<epoch, filling, cancelling>>
      /\ (UNCHANGED row \/ row' = [row EXCEPT ![o] = r])
  BY DEF IndexInsert
<1>3. ASSUME NEW v \in IndexWorkers, indexing'[v] # <<>>
      PROVE  TrueRow(indexing'[v][1], indexing'[v][2])
  BY <1>2, <1>3 DEF PInv, IndexInv, IndexingInv, TrueInv
<1> HIDE DEF o, r
<1>4. ASSUME NEW x \in Orders, row'[x] # NoRow PROVE TrueRow(x, row'[x])
  <2>1. CASE row'[x] = row[x]
    BY <1>4, <2>1 DEF PInv, TrueInv
  <2>2. CASE row'[x] # row[x]
    <3>1. x = o /\ row'[x] = r
      BY <1>1, <1>2, <2>2 DEF PInv, IndexInv, RowInv
    <3> QED BY <1>1, <3>1
  <2> QED BY <2>1, <2>2
<1>5. /\ \A v : TrueRow(indexing[v][1], indexing[v][2])' <=> TrueRow(indexing'[v][1], indexing'[v][2])
      /\ \A x : TrueRow(x, row[x])' <=> TrueRow(x, row'[x])
  BY DEF TrueRow, CancelledThere
<1>6. /\ \A v \in FillWorkers : filling[v] # <<>> =>
           /\ TrueRow(filling[v][1], filling[v][4])'
           /\ filling[v][3] => CancelledThere(filling[v][1])'
      /\ \A v \in CancelWorkers : cancelling'[v] # <<>> => cancelling'[v][1] <= chain.epoch'
      /\ epoch' <= chain.epoch'
  BY <1>2 DEF PInv, TrueInv, TrueRow, CancelledThere
<1> QED BY <1>2, <1>3, <1>4, <1>5, <1>6 DEF TrueInv

\* RecordFill's SELECT, for a record of the exchange.
LEMMA TrueFillRead ==
  ASSUME PInv, UNCHANGED chain, NEW w \in FillWorkers, NEW o \in Orders, NEW amount,
         NEW cancel \in BOOLEAN, cancel => CancelledThere(o), RecordFill(w, o, amount, cancel)
  PROVE  TrueInv'
<1>1. UNCHANGED <<row, epoch, indexing, cancelling>>
      /\ (UNCHANGED filling \/ (row[o] # NoRow /\ filling' = [filling EXCEPT ![w] = <<o, amount, cancel, row[o]>>]))
  BY DEF RecordFill
<1>2. ASSUME NEW v \in FillWorkers, filling'[v] # <<>>
      PROVE  /\ TrueRow(filling'[v][1], filling'[v][4])
             /\ filling'[v][3] => CancelledThere(filling'[v][1])
  <2>1. CASE filling'[v] = filling[v]
    BY <1>2, <2>1 DEF PInv, TrueInv
  <2>2. CASE filling'[v] # filling[v]
    <3>1. filling'[v] = <<o, amount, cancel, row[o]>> /\ row[o] # NoRow
      BY <1>1, <2>2 DEF PInv, IndexInv, FillingInv
    <3>2. TrueRow(o, row[o])
      BY <3>1 DEF PInv, TrueInv
    <3> QED BY <3>1, <3>2
  <2> QED BY <2>1, <2>2
<1>3. \A v : /\ TrueRow(filling[v][1], filling[v][4])' <=> TrueRow(filling'[v][1], filling'[v][4])
             /\ CancelledThere(filling[v][1])' <=> CancelledThere(filling'[v][1])
  BY DEF TrueRow, CancelledThere
<1>4. /\ \A x \in Orders : row'[x] # NoRow => TrueRow(x, row[x])'
      /\ \A v \in IndexWorkers : indexing'[v] # <<>> => TrueRow(indexing[v][1], indexing[v][2])'
      /\ \A v \in CancelWorkers : cancelling'[v] # <<>> => cancelling'[v][1] <= chain.epoch'
      /\ epoch' <= chain.epoch'
  BY <1>1 DEF PInv, TrueInv, TrueRow, CancelledThere
<1> QED BY <1>2, <1>3, <1>4 DEF TrueInv

\* RecordFill's UPDATE.
LEMMA TrueFillWrite ==
  ASSUME PInv, UNCHANGED chain, NEW w \in FillWorkers, FillUpdate(w) PROVE TrueInv'
<1> DEFINE o == filling[w][1]
           amount == filling[w][2]
           old == filling[w][4]
           b == old.cancelled \/ filling[w][3]
           f == Word256(old.filled + amount)
           r == Populated(o, f, b, old.status, old.status)
<1>1. /\ o \in Orders /\ amount \in Fills \cup {0} /\ old \in Rows /\ filling[w][3] \in BOOLEAN
      /\ row[o] \in Rows
  BY DEF FillUpdate, PInv, IndexInv, FillingInv
<1>2. TrueRow(o, old) /\ (filling[w][3] => CancelledThere(o))
  BY DEF FillUpdate, PInv, TrueInv
<1>3. Update(o, r) /\ UNCHANGED <<epoch, indexing, cancelling>> /\ filling' = [filling EXCEPT ![w] = <<>>]
  BY DEF FillUpdate
<1>4. b \in BOOLEAN /\ (b => CancelledThere(o))
  BY <1>2 DEF TrueRow
<1>5. amount \in Nat /\ old.filled \in 0..Word-1 /\ old.status \in 0..3
  <2> HIDE DEF o, amount, old
  <2>1. amount \in Nat
    BY <1>1, AmountAssumption
  <2> QED BY <1>1, <2>1 DEF Rows
<1>6. old.status = StatusCancelled => CancelledThere(o)
  BY <1>2 DEF TrueRow
<1>7. f \in 0..Word-1
  BY <1>5, Reduced
<1>8. \A v \in FillWorkers : filling'[v] # <<>> => filling[v] # <<>> /\ filling'[v] = filling[v]
  BY <1>3 DEF PInv, IndexInv, FillingInv
<1> HIDE DEF o, amount, old, b, f
<1>9. r \in Rows /\ SoundRow(o, r) /\ (r.status = StatusCancelled => CancelledThere(o))
  BY <1>1, <1>4, <1>5, <1>6, <1>7, SavedSound
<1>10. row[o] # NoRow
  BY <1>1, RowAssumption
<1> HIDE DEF r
<1> QED BY <1>1, <1>3, <1>8, <1>9, <1>10, TrueUpdate

\* RecordCancellation, up to its UPDATE.
LEMMA TrueEpoch ==
  ASSUME PInv, UNCHANGED chain, NEW w \in CancelWorkers,
         CancelSave(w) \/ \E e \in 1..chain.epoch : RecordCancellation(w, e)
  PROVE  TrueInv'
<1>1. UNCHANGED <<row, indexing, filling>>
  BY DEF CancelSave, RecordCancellation
<1>2. (\A v \in CancelWorkers : cancelling'[v] # <<>> => cancelling'[v][1] <= chain.epoch)
      /\ epoch' <= chain.epoch
  <2>1. (\A v \in CancelWorkers : cancelling[v] # <<>> => cancelling[v][1] <= chain.epoch)
        /\ epoch <= chain.epoch
    BY DEF PInv, TrueInv
  <2>2. cancelling \in [CancelWorkers -> ((1..MaxEpoch) \X {"save", "mark"} \X BOOLEAN) \cup {<<>>}]
    BY DEF PInv, IndexInv, CancellingInv
  <2>3. CASE CancelSave(w)
    <3>1. CASE cancelling' = [cancelling EXCEPT ![w] = <<>>] /\ UNCHANGED epoch
      BY <2>1, <2>2, <3>1
    <3>2. CASE cancelling' = [cancelling EXCEPT ![w][2] = "mark"] /\ epoch' = cancelling[w][1]
      <4>1. cancelling[w] # <<>> /\ cancelling[w] \in (1..MaxEpoch) \X {"save", "mark"} \X BOOLEAN
        BY <2>2, <2>3 DEF CancelSave
      <4>2. [cancelling[w] EXCEPT ![2] = "mark"] = <<cancelling[w][1], "mark", cancelling[w][3]>>
        BY <4>1
      <4>3. \A v \in CancelWorkers : cancelling'[v] =
               IF v = w THEN <<cancelling[w][1], "mark", cancelling[w][3]>> ELSE cancelling[v]
        BY <2>2, <3>2, <4>2
      <4> QED BY <2>1, <3>2, <4>1, <4>3
    <3> QED BY <2>3, <3>1, <3>2 DEF CancelSave
  <2>4. ASSUME NEW e \in 1..chain.epoch, RecordCancellation(w, e)
        PROVE  (\A v \in CancelWorkers : cancelling'[v] # <<>> => cancelling'[v][1] <= chain.epoch)
               /\ epoch' <= chain.epoch
    <3>1. cancelling' = [cancelling EXCEPT ![w] = <<e, "save", epoch = 0>>] /\ UNCHANGED epoch
      BY <2>4 DEF RecordCancellation
    <3>2. e <= chain.epoch
      BY DEF PInv, ChainInv
    <3> QED BY <2>1, <2>2, <3>1, <3>2
  <2> QED BY <2>3, <2>4
<1>3. /\ \A x \in Orders : row'[x] # NoRow => TrueRow(x, row[x])'
      /\ \A v \in IndexWorkers : indexing'[v] # <<>> => TrueRow(indexing[v][1], indexing[v][2])'
      /\ \A v \in FillWorkers : filling'[v] # <<>> =>
           /\ TrueRow(filling[v][1], filling[v][4])'
           /\ filling'[v][3] => CancelledThere(filling[v][1])'
  BY <1>1 DEF PInv, TrueInv, TrueRow, CancelledThere
<1> QED BY <1>2, <1>3 DEF TrueInv

\* The UPDATE of RecordCancellation: it marks orders below an epoch of the chain.
LEMMA TrueMark == ASSUME PInv, UNCHANGED chain, NEW w \in CancelWorkers, CancelMark(w) PROVE TrueInv'
<1>1. UNCHANGED <<epoch, indexing, filling>> /\ cancelling' = [cancelling EXCEPT ![w] = <<>>]
  BY DEF CancelMark
<1>2. cancelling[w][1] \in Nat /\ cancelling[w][1] <= chain.epoch /\ chain.epoch \in Nat
  BY DEF CancelMark, PInv, IndexInv, CancellingInv, TrueInv, ChainInv
<1>3. ASSUME NEW x \in Orders, row'[x] # NoRow PROVE TrueRow(x, row'[x])
  <2>1. CASE row'[x] = row[x]
    BY <1>3, <2>1 DEF PInv, TrueInv
  <2>2. CASE row'[x] # row[x]
    <3>1. Salt[x] < cancelling[w][1]
      BY <2>2 DEF CancelMark
    <3>2. Salt[x] \in Nat
      BY AmountAssumption
    <3>3. CancelledThere(x)
      BY <1>2, <3>1, <3>2 DEF CancelledThere
    <3> QED BY <3>3 DEF TrueRow
  <2> QED BY <2>1, <2>2
<1>4. \A x : TrueRow(x, row[x])' <=> TrueRow(x, row'[x])
  BY DEF TrueRow, CancelledThere
<1>5. (\A v \in CancelWorkers : cancelling'[v] # <<>> => cancelling'[v][1] <= chain.epoch')
      /\ epoch' <= chain.epoch'
  BY <1>1 DEF PInv, TrueInv, IndexInv, CancellingInv
<1>6. /\ \A v \in IndexWorkers : indexing'[v] # <<>> => TrueRow(indexing[v][1], indexing[v][2])'
      /\ \A v \in FillWorkers : filling'[v] # <<>> =>
           /\ TrueRow(filling[v][1], filling[v][4])'
           /\ filling'[v][3] => CancelledThere(filling[v][1])'
  BY <1>1 DEF PInv, TrueInv, TrueRow, CancelledThere
<1> QED BY <1>3, <1>4, <1>5, <1>6 DEF TrueInv

-----------------------------------------------------------------------------
(* The steps of the pipeline.                                              *)

\* What keeps the parts that a step leaves alone.
LEMMA SameParts ==
  ASSUME PInv
  PROVE  /\ UNCHANGED index => IndexInv'
         /\ UNCHANGED <<chain, used>> => ChainInv'
         /\ UNCHANGED <<chain, events, records, epochs, heard>> => FeedInv'
         /\ UNCHANGED <<topic, heard, stored, bloom>> => BloomInv'
         /\ UNCHANGED <<chain, msg>> => CopyInv'
         /\ UNCHANGED <<chain, index>> => TrueInv'
<1>1. UNCHANGED index => IndexInv'
  BY DEF PInv, index, IndexInv, RowInv, IndexingInv, SoundRow, FillingInv, CancellingInv, CounterInv
<1>2. UNCHANGED <<chain, used>> => ChainInv'
  BY DEF PInv, ChainInv
<1>3. UNCHANGED <<chain, events, records, epochs, heard>> => FeedInv'
  BY DEF PInv, FeedInv, Emitted, Published, CancelledThere
<1>4. UNCHANGED <<topic, heard, stored, bloom>> => BloomInv'
  BY DEF PInv, BloomInv
<1>5. UNCHANGED <<chain, msg>> => CopyInv'
  BY DEF PInv, CopyInv, CopyOf, CancelledThere
<1>6. UNCHANGED <<chain, index>> => TrueInv'
  BY DEF PInv, TrueInv, index, TrueRow, CancelledThere
<1> QED BY <1>1, <1>2, <1>3, <1>4, <1>5, <1>6

\* The exchange.
LEMMA MineKeeps == ASSUME PInv, Mine \/ MineEpoch PROVE PInv'
<1>1. UNCHANGED <<row, epoch, indexing, filling, cancelling, rejected, total, msg, topic, heard, stored, bloom>>
  BY DEF Mine, MineEpoch, index, feed, updater
<1>2. IndexInv' /\ BloomInv'
  BY <1>1, SameParts DEF index
<1>3. CASE Mine
  <2>1. UNCHANGED <<records, epochs>> /\ Take("fill", MaxFill)
    BY <1>3 DEF Mine, feed
  <2>2. PICK o \in Orders :
          \/ \E a \in Fills \ {0} :
               /\ chain.filled[o] + a <= TakerAmount[o]
               /\ chain' = [chain EXCEPT !.filled[o] = @ + a]
               /\ events' = Append(events, <<o, a, FALSE>>)
          \/ /\ chain' = [chain EXCEPT !.cancelled[o] = TRUE]
             /\ events' = Append(events, <<o, 0, TRUE>>)
    BY <1>3 DEF Mine
  <2>3. used' \in [index : Nat, fill : Nat, spend : Nat, epoch : Nat] /\ used'.epoch = used.epoch
    BY <2>1 DEF Take, PInv, ChainInv
  <2>4. /\ chain' \in [filled : [Orders -> Nat], cancelled : [Orders -> BOOLEAN], epoch : 0..MaxEpoch]
        /\ chain'.epoch = chain.epoch
        /\ \A x \in Orders : chain'.filled[x] <= TakerAmount[x] /\ (chain.cancelled[x] => chain'.cancelled[x])
        /\ events' \in Seq(Emitted')
        /\ Emitted \subseteq Emitted'
    <3>1. chain \in [filled : [Orders -> Nat], cancelled : [Orders -> BOOLEAN], epoch : 0..MaxEpoch]
          /\ \A x \in Orders : chain.filled[x] <= TakerAmount[x]
      BY DEF PInv, ChainInv
    <3>2. events \in Seq(Emitted)
      BY DEF PInv, FeedInv
    <3>3. CASE \E a \in Fills \ {0} :
                 /\ chain.filled[o] + a <= TakerAmount[o]
                 /\ chain' = [chain EXCEPT !.filled[o] = @ + a]
                 /\ events' = Append(events, <<o, a, FALSE>>)
      <4>1. PICK a \in Fills \ {0} :
                 /\ chain.filled[o] + a <= TakerAmount[o]
                 /\ chain' = [chain EXCEPT !.filled[o] = @ + a]
                 /\ events' = Append(events, <<o, a, FALSE>>)
        BY <3>3
      <4>2. a \in Nat
        BY AmountAssumption
      <4>3. chain'.filled = [chain.filled EXCEPT ![o] = chain.filled[o] + a] /\ chain'.cancelled = chain.cancelled
            /\ chain'.epoch = chain.epoch
        BY <3>1, <4>1
      <4>4. chain' \in [filled : [Orders -> Nat], cancelled : [Orders -> BOOLEAN], epoch : 0..MaxEpoch]
        <5> DEFINE F == [chain.filled EXCEPT ![o] = chain.filled[o] + a]
        <5>1. F \in [Orders -> Nat] /\ chain.cancelled \in [Orders -> BOOLEAN] /\ chain.epoch \in 0..MaxEpoch
          BY <3>1, <4>2
        <5>2. chain' = [filled |-> F, cancelled |-> chain.cancelled, epoch |-> chain.epoch]
          BY <3>1, <4>1
        <5> HIDE DEF F
        <5> QED BY <5>1, <5>2
      <4>5. \A x \in Orders : chain'.filled[x] <= TakerAmount[x]
        BY <3>1, <4>1, <4>3
      <4>6. Emitted' = Emitted
        BY <4>3 DEF Emitted, CancelledThere
      <4>7. <<o, a, FALSE>> \in Emitted
        BY DEF Emitted
      <4>8. events' \in Seq(Emitted)
        BY <3>2, <4>1, <4>7
      <4> QED BY <4>3, <4>4, <4>5, <4>6, <4>8
    <3>4. CASE /\ chain' = [chain EXCEPT !.cancelled[o] = TRUE]
               /\ events' = Append(events, <<o, 0, TRUE>>)
      <4>1. chain'.filled = chain.filled /\ chain'.cancelled = [chain.cancelled EXCEPT ![o] = TRUE]
            /\ chain'.epoch = chain.epoch
        BY <3>1, <3>4
      <4>2. chain' \in [filled : [Orders -> Nat], cancelled : [Orders -> BOOLEAN], epoch : 0..MaxEpoch]
        BY <3>1, <3>4
      <4>3. chain'.cancelled[o] /\ \A x \in Orders : chain.cancelled[x] => chain'.cancelled[x]
        BY <3>1, <4>1
      <4>4. Emitted \subseteq Emitted'
        BY <4>1, <4>3 DEF Emitted, CancelledThere
      <4>5. <<o, 0, TRUE>> \in Emitted'
        BY <4>3 DEF Emitted, CancelledThere
      <4>6. events' \in Seq(Emitted')
        <5> DEFINE S == Emitted
                   T == Emitted'
                   x == <<o, 0, TRUE>>
        <5>1. x \in T /\ S \subseteq T /\ events \in Seq(S) /\ events' = Append(events, x)
          BY <3>2, <3>4, <4>4, <4>5
        <5> HIDE DEF S, T, x
        <5>2. events \in Seq(T)
          BY <5>1, SeqMonotone
        <5>3. Append(events, x) \in Seq(T)
          BY <5>1, <5>2
        <5> QED BY <5>1, <5>3 DEF T
      <4> QED BY <3>1, <4>1, <4>2, <4>3, <4>4, <4>6
    <3> QED BY <2>2, <3>3, <3>4
  <2>5. ChainInv'
    BY <2>3, <2>4 DEF PInv, ChainInv
  <2>6. /\ \A x \in Orders : CancelledThere(x) => CancelledThere(x)'
        /\ chain.epoch <= chain.epoch' /\ chain.epoch' \in Nat /\ heard \subseteq heard'
    BY <1>1, <2>4, BoundAssumption DEF CancelledThere, PInv, ChainInv
  <2>7. Published \subseteq Published' /\ CopyInv' /\ TrueInv'
    BY <1>1, <2>6, ChainGrows
  <2>8. FeedInv'
    <3>1. records.in \in Seq(Published) /\ records.pg \in Seq(Published) /\ epochs \in Seq(1..chain.epoch)
          /\ records \in [in : Seq(Published), pg : Seq(Published)]
      BY DEF PInv, FeedInv
    <3> DEFINE S == Published
               T == Published'
    <3> HIDE DEF S, T
    <3>2. records.in \in Seq(T) /\ records.pg \in Seq(T)
      BY <2>7, <3>1, SeqMonotone DEF S, T
    <3>3. records \in [in : Seq(T), pg : Seq(T)]
      BY <3>1, <3>2
    <3> QED BY <2>1, <2>4, <3>1, <3>3 DEF FeedInv, T
  <2> QED BY <1>2, <2>5, <2>7, <2>8 DEF PInv
<1>4. CASE MineEpoch
  <2>1. UNCHANGED <<records, events>> /\ Take("epoch", MaxEpoch) /\ chain' = [chain EXCEPT !.epoch = @ + 1]
        /\ epochs' = Append(epochs, chain.epoch + 1)
    BY <1>4 DEF MineEpoch
  <2>2. ChainInv' /\ chain'.epoch = chain.epoch + 1 /\ chain.epoch \in Nat /\ chain'.cancelled = chain.cancelled
    <3>1. chain \in [filled : [Orders -> Nat], cancelled : [Orders -> BOOLEAN], epoch : 0..MaxEpoch]
          /\ used \in [index : Nat, fill : Nat, spend : Nat, epoch : Nat]
          /\ (\A x \in Orders : chain.filled[x] <= TakerAmount[x]) /\ chain.epoch = used.epoch
      BY DEF PInv, ChainInv
    <3>2. chain.epoch \in Nat /\ chain.epoch + 1 \in 0..MaxEpoch
      BY <2>1, <3>1, BoundAssumption DEF Take
    <3>3. chain' = [filled |-> chain.filled, cancelled |-> chain.cancelled, epoch |-> chain.epoch + 1]
      BY <2>1, <3>1
    <3>4. used' = [index |-> used.index, fill |-> used.fill, spend |-> used.spend, epoch |-> used.epoch + 1]
      BY <2>1, <3>1 DEF Take
    <3> QED BY <3>1, <3>2, <3>3, <3>4 DEF ChainInv
  <2>3. /\ \A x \in Orders : CancelledThere(x) => CancelledThere(x)'
        /\ chain.epoch <= chain.epoch' /\ chain.epoch' \in Nat /\ heard \subseteq heard'
    BY <1>1, <2>2, AmountAssumption DEF CancelledThere
  <2>4. Emitted \subseteq Emitted' /\ Published \subseteq Published' /\ CopyInv' /\ TrueInv'
    BY <1>1, <2>3, ChainGrows
  <2>5. FeedInv'
    <3>1. events \in Seq(Emitted) /\ epochs \in Seq(1..chain.epoch)
          /\ records.in \in Seq(Published) /\ records.pg \in Seq(Published)
          /\ records \in [in : Seq(Published), pg : Seq(Published)]
      BY DEF PInv, FeedInv
    <3> DEFINE S == Published
               T == Published'
               E == Emitted
               F == Emitted'
               M == 1..chain.epoch
               N == 1..chain'.epoch
    <3>0. M \subseteq N /\ chain.epoch + 1 \in N
      BY <2>2
    <3> HIDE DEF S, T, E, F, M, N
    <3>2. records.in \in Seq(T) /\ records.pg \in Seq(T)
      BY <2>4, <3>1, SeqMonotone DEF S, T
    <3>3. records \in [in : Seq(T), pg : Seq(T)]
      BY <3>1, <3>2
    <3>4. events \in Seq(F)
      BY <2>4, <3>1, SeqMonotone DEF E, F
    <3>5. epochs \in Seq(N)
      BY <3>0, <3>1, SeqMonotone DEF M
    <3>6. epochs' \in Seq(N)
      BY <2>1, <3>0, <3>5
    <3> QED BY <2>1, <3>3, <3>4, <3>6 DEF FeedInv, T, F, N
  <2> QED BY <1>2, <2>2, <2>4, <2>5 DEF PInv
<1> QED BY <1>3, <1>4

\* The fill monitor, the relay and the topic.
LEMMA FeedKeeps ==
  ASSUME PInv, \/ MonitorFill \/ MonitorLoses \/ Save \/ Relay \/ RelayFails
               \/ TopicDeliver \/ TopicLose \/ RecordLost
  PROVE  PInv'
<1>1. UNCHANGED <<vars, chain, msg, epochs>>
  BY DEF MonitorFill, MonitorLoses, Save, Relay, RelayFails, TopicDeliver, TopicLose, RecordLost, exchange
<1>2. IndexInv' /\ ChainInv' /\ CopyInv' /\ TrueInv'
  BY <1>1, SameParts DEF vars, index
<1>3. /\ events \in Seq(Emitted) /\ epochs \in Seq(1..chain.epoch)
      /\ records \in [in : Seq(Published), pg : Seq(Published)]
      /\ records.in \in Seq(Published) /\ records.pg \in Seq(Published)
  BY DEF PInv, FeedInv
<1>4. \A e \in Emitted : e[1] \in Orders
  BY DEF Emitted
<1>5. \A e \in Published : e[1] \in heard
  BY DEF Published
<1>6. Emitted' = Emitted
  BY <1>1 DEF Emitted, CancelledThere
<1>7. CASE MonitorFill
  <2> DEFINE e == Head(events)
  <2>1. e \in Emitted /\ Tail(events) \in Seq(Emitted)
    BY <1>3, <1>7 DEF MonitorFill
  <2>2. /\ heard' = heard \cup {e[1]} /\ records' = [records EXCEPT !.in = Append(@, e)]
        /\ events' = Tail(events) /\ UNCHANGED <<topic, stored, bloom>>
    BY <1>7 DEF MonitorFill, updater
  <2> HIDE DEF e
  <2>3. BloomInv'
    BY <1>4, <2>1, <2>2 DEF PInv, BloomInv
  <2>4. Published \subseteq Published' /\ e \in Published'
    BY <1>6, <2>1, <2>2 DEF Published
  <2>5. records' \in [in : Seq(Published'), pg : Seq(Published')]
    <3> DEFINE S == Published
               T == Published'
    <3>1. records.in \in Seq(S) /\ records.pg \in Seq(S) /\ S \subseteq T /\ e \in T
      BY <1>3, <2>4
    <3> HIDE DEF S, T
    <3>2. records.in \in Seq(T) /\ records.pg \in Seq(T)
      BY <3>1, SeqMonotone
    <3>3. Append(records.in, e) \in Seq(T)
      BY <3>1, <3>2
    <3>4. records' = [in |-> Append(records.in, e), pg |-> records.pg]
      BY <1>3, <2>2
    <3>5. records' \in [in : Seq(T), pg : Seq(T)]
      BY <3>2, <3>3, <3>4
    <3> QED BY <3>5 DEF T
  <2>6. FeedInv'
    BY <1>1, <1>3, <1>6, <2>1, <2>2, <2>5 DEF FeedInv
  <2> QED BY <1>2, <2>3, <2>6 DEF PInv
<1>8. CASE Save
  <2>1. stored' = heard /\ UNCHANGED <<events, records, heard, topic, bloom>>
    BY <1>8 DEF Save, exchange, updater
  <2>2. BloomInv' /\ FeedInv'
    BY <1>1, <2>1, SameParts DEF PInv, BloomInv
  <2> QED BY <1>2, <2>2 DEF PInv
<1>9. CASE Relay \/ RelayFails
  <2> DEFINE e == Head(records.in)
  <2>1. e \in Published /\ Tail(records.in) \in Seq(Published)
    BY <1>3, <1>9 DEF Relay, RelayFails
  <2>2. /\ topic' = topic \cup {e[1]} \/ UNCHANGED topic
        /\ \/ records' = [in |-> Tail(records.in), pg |-> Append(records.pg, e)]
           \/ records' = [in |-> Tail(records.in), pg |-> records.pg]
        /\ UNCHANGED <<events, heard, stored, bloom>>
    BY <1>9 DEF Relay, RelayFails, exchange, updater
  <2> HIDE DEF e
  <2>3. BloomInv'
    BY <1>5, <2>1, <2>2 DEF PInv, BloomInv
  <2>4. Published' = Published
    BY <1>6, <2>2 DEF Published
  <2>5. records' \in [in : Seq(Published), pg : Seq(Published)]
    <3>1. records' = [in |-> Tail(records.in), pg |-> Append(records.pg, e)]
          \/ records' = [in |-> Tail(records.in), pg |-> records.pg]
      BY <1>3, <2>2
    <3>2. Append(records.pg, e) \in Seq(Published)
      BY <1>3, <2>1
    <3> DEFINE a == Tail(records.in)
               b == Append(records.pg, e)
               d == records.pg
    <3>3. a \in Seq(Published) /\ b \in Seq(Published) /\ d \in Seq(Published)
          /\ (records' = [in |-> a, pg |-> b] \/ records' = [in |-> a, pg |-> d])
      BY <1>3, <2>1, <3>1, <3>2
    <3> HIDE DEF a, b, d
    <3> QED BY <3>3
  <2>6. FeedInv'
    BY <1>1, <1>3, <1>6, <2>2, <2>4, <2>5 DEF FeedInv
  <2> QED BY <1>2, <2>3, <2>6 DEF PInv
<1>10. CASE TopicDeliver \/ TopicLose
  <2>1. topic' = {} /\ bloom' \in {bloom, bloom \cup topic} /\ UNCHANGED <<events, records, heard, stored>>
    BY <1>10 DEF TopicDeliver, TopicLose, exchange, updater
  <2>2. BloomInv' /\ FeedInv'
    BY <1>1, <2>1, SameParts DEF PInv, BloomInv
  <2> QED BY <1>2, <2>2 DEF PInv
<1>11. CASE MonitorLoses
  <2> DEFINE e == Head(events)
  <2>1. e \in Emitted /\ Tail(events) \in Seq(Emitted)
    BY <1>3, <1>11 DEF MonitorLoses
  <2>2. /\ heard' \in {heard, heard \cup {e[1]}} /\ events' = Tail(events)
        /\ UNCHANGED <<records, topic, stored, bloom>>
    BY <1>11 DEF MonitorLoses, updater
  <2> HIDE DEF e
  <2>3. BloomInv'
    BY <1>4, <2>1, <2>2 DEF PInv, BloomInv
  <2>4. Published \subseteq Published'
    BY <1>6, <2>2 DEF Published
  <2>5. records' \in [in : Seq(Published'), pg : Seq(Published')]
    <3> DEFINE S == Published
               T == Published'
    <3>1. records.in \in Seq(S) /\ records.pg \in Seq(S) /\ S \subseteq T
          /\ records' = [in |-> records.in, pg |-> records.pg]
      BY <1>3, <2>2, <2>4
    <3> HIDE DEF S, T
    <3>2. records.in \in Seq(T) /\ records.pg \in Seq(T)
      BY <3>1, SeqMonotone
    <3>3. records' \in [in : Seq(T), pg : Seq(T)]
      BY <3>1, <3>2
    <3> QED BY <3>3 DEF T
  <2>6. FeedInv'
    BY <1>1, <1>3, <1>6, <2>1, <2>2, <2>5 DEF FeedInv
  <2> QED BY <1>2, <2>3, <2>6 DEF PInv
<1>12. CASE RecordLost
  <2>1. /\ records.pg # <<>> /\ records' = [in |-> records.in, pg |-> Tail(records.pg)]
        /\ UNCHANGED <<events, topic, heard, stored, bloom>>
    BY <1>3, <1>12 DEF RecordLost, exchange, updater
  <2>2. Tail(records.pg) \in Seq(Published) /\ Published' = Published
    BY <1>3, <1>6, <2>1 DEF Published
  <2>3. records' \in [in : Seq(Published), pg : Seq(Published)]
    <3> DEFINE a == records.in
               b == Tail(records.pg)
    <3>1. a \in Seq(Published) /\ b \in Seq(Published) /\ records' = [in |-> a, pg |-> b]
      BY <1>3, <2>1, <2>2
    <3> HIDE DEF a, b
    <3> QED BY <3>1
  <2>4. FeedInv'
    BY <1>1, <1>3, <1>6, <2>1, <2>2, <2>3 DEF FeedInv
  <2>5. BloomInv'
    BY <2>1, SameParts
  <2> QED BY <1>2, <2>4, <2>5 DEF PInv
<1> QED BY <1>7, <1>8, <1>9, <1>10, <1>11, <1>12

\* A copy moves on, or leaves the pipeline.
LEMMA CopyMoves ==
  ASSUME PInv, NEW c \in Copies, NEW m \in CopyOf \cup {<<>>}, msg' = [msg EXCEPT ![c] = m],
         UNCHANGED chain
  PROVE  CopyInv'
<1>1. CopyOf' = CopyOf
  BY DEF CopyOf, CancelledThere
<1> HIDE DEF CopyOf
<1> QED BY <1>1 DEF PInv, CopyInv

\* The services between the API and the index.
LEMMA OrderKeeps ==
  ASSUME PInv, NEW c \in Copies,
         \/ Submit(c) \/ Split(c) \/ CancellationFilter(c) \/ CancellationFilterFails(c)
         \/ LookCancelled(c) \/ LookFilled(c) \/ \E what \in {"filled", "cancelled"} : LookFails(c, what)
         \/ Publish(c) \/ FundCheck(c) \/ PoolFilter(c)
  PROVE  PInv'
<1> DEFINE m == msg[c]
           Parts == [order : Orders, filled : Nat, cancelled : BOOLEAN,
                     looked : SUBSET {"filled", "cancelled"},
                     at : {"api", "exchange", "fillupdate", "fundcheck", "poolfilter", "pgindexer"}]
<1>1. UNCHANGED <<row, epoch, indexing, filling, cancelling, total>>
      /\ UNCHANGED <<chain, events, records, epochs, topic, heard, stored, bloom>>
  BY DEF Submit, Split, CancellationFilter, CancellationFilterFails, LookCancelled, LookFilled, LookFails,
     Publish, FundCheck, PoolFilter, vars, index, exchange, feed, updater
<1>2. FeedInv' /\ BloomInv'
  BY <1>1, SameParts
<1>3. IndexInv' /\ TrueInv'
  <2>1. rejected' = rejected \/ rejected' = rejected + 1
    BY DEF Submit, Split, CancellationFilter, CancellationFilterFails, LookCancelled, LookFilled, LookFails,
       Publish, FundCheck, PoolFilter, vars, index
  <2>2. CounterInv'
    BY <1>1, <2>1 DEF PInv, IndexInv, CounterInv
  <2>3. RowInv' /\ IndexingInv' /\ FillingInv' /\ CancellingInv'
    BY <1>1 DEF PInv, IndexInv, RowInv, IndexingInv, SoundRow, FillingInv, CancellingInv
  <2>4. TrueInv'
    BY <1>1 DEF PInv, TrueInv, TrueRow, CancelledThere
  <2> QED BY <2>2, <2>3, <2>4 DEF IndexInv
<1>4. ChainInv'
  <2>1. CASE Submit(c)
    <3>1. Take("index", MaxIndex)
      BY <2>1 DEF Submit
    <3>2. used' \in [index : Nat, fill : Nat, spend : Nat, epoch : Nat] /\ used'.epoch = used.epoch
      BY <3>1 DEF Take, PInv, ChainInv
    <3> QED BY <1>1, <3>2 DEF PInv, ChainInv
  <2>2. CASE ~Submit(c)
    <3>1. UNCHANGED used
      BY <2>2 DEF Split, CancellationFilter, CancellationFilterFails, LookCancelled, LookFilled, LookFails,
         Publish, FundCheck, PoolFilter, vars
    <3> QED BY <1>1, <3>1, SameParts
  <2> QED BY <2>1, <2>2
<1>5. chain \in [filled : [Orders -> Nat], cancelled : [Orders -> BOOLEAN], epoch : 0..MaxEpoch]
      /\ \A o \in Orders : chain.filled[o] <= TakerAmount[o] /\ TakerAmount[o] \in Nat
  BY AmountAssumption DEF PInv, ChainInv
<1>6. m # <<>> => /\ m \in Parts /\ m.filled <= TakerAmount[m.order]
                  /\ m.at \in {"fundcheck", "poolfilter", "pgindexer"} => m.looked = {"filled", "cancelled"}
                  /\ m.cancelled => CancelledThere(m.order)
  BY DEF PInv, CopyInv, CopyOf
<1>7. ASSUME NEW n, n \in Parts, n.filled <= TakerAmount[n.order],
             n.at \in {"fundcheck", "poolfilter", "pgindexer"} => n.looked = {"filled", "cancelled"},
             n.cancelled => CancelledThere(n.order), msg' = [msg EXCEPT ![c] = n]
      PROVE  CopyInv'
  <2>1. n \in CopyOf
    BY <1>7 DEF CopyOf
  <2> QED BY <1>1, <1>7, <2>1, CopyMoves
<1>8. ASSUME msg' = [msg EXCEPT ![c] = <<>>] PROVE CopyInv'
  BY <1>1, <1>8, CopyMoves
<1>9. CASE Submit(c)
  <2>1. PICK o \in Orders : msg' = [msg EXCEPT ![c] = [order |-> o, at |-> "api", filled |-> 0,
                                      cancelled |-> FALSE, looked |-> {}]]
    BY <1>9 DEF Submit
  <2> DEFINE n == [order |-> o, at |-> "api", filled |-> 0, cancelled |-> FALSE, looked |-> {}]
  <2>2. n \in Parts /\ n.filled = 0 /\ n.order = o /\ n.at = "api" /\ ~n.cancelled
    OBVIOUS
  <2>3. msg' = [msg EXCEPT ![c] = n] /\ 0 <= TakerAmount[o]
    BY <1>5, <2>1
  <2>4. CopyInv'
    <3> HIDE DEF n, Parts
    <3> QED BY <1>7, <2>2, <2>3
  <2> QED BY <1>2, <1>3, <1>4, <2>4 DEF PInv
<1>10. CASE Split(c)
  <2> DEFINE n == [m EXCEPT !.at = "exchange"]
  <2>1. m # <<>> /\ msg' = [msg EXCEPT ![c] = n]
    BY <1>10 DEF Split, At
  <2>2. n \in Parts /\ n.filled = m.filled /\ n.order = m.order /\ n.at = "exchange" /\ n.cancelled = m.cancelled
    BY <1>6, <2>1
  <2>3. CopyInv'
    <3> HIDE DEF n, Parts
    <3> QED BY <1>6, <1>7, <2>1, <2>2
  <2> QED BY <1>2, <1>3, <1>4, <2>3 DEF PInv
<1>11. CASE CancellationFilter(c)
  <2> DEFINE b == m.cancelled \/ BelowEpoch(m.order)
             n == [m EXCEPT !.at = "fillupdate", !.cancelled = b]
  <2>1. m # <<>> /\ msg' = [msg EXCEPT ![c] = n]
    BY <1>11 DEF CancellationFilter, At
  <2>2. b \in BOOLEAN /\ (b => CancelledThere(m.order))
    <3>1. m.order \in Orders /\ Salt[m.order] \in Nat
      BY <1>6, <2>1, AmountAssumption
    <3>2. epoch <= chain.epoch /\ epoch \in Nat /\ chain.epoch \in Nat
      BY <1>5 DEF PInv, TrueInv, IndexInv, CancellingInv
    <3>3. BelowEpoch(m.order) \in BOOLEAN /\ (BelowEpoch(m.order) => CancelledThere(m.order))
      BY <3>1, <3>2 DEF BelowEpoch, CancelledThere
    <3> QED BY <1>6, <2>1, <3>3
  <2> HIDE DEF b
  <2>3. n \in Parts /\ n.filled = m.filled /\ n.order = m.order /\ n.at = "fillupdate" /\ n.cancelled = b
    BY <1>6, <2>1, <2>2
  <2>4. CopyInv'
    <3> HIDE DEF n, Parts
    <3> QED BY <1>6, <1>7, <2>1, <2>2, <2>3
  <2> QED BY <1>2, <1>3, <1>4, <2>4 DEF PInv
<1>12. CASE LookCancelled(c)
  <2> DEFINE a == ~BloomMiss(m.order) /\ chain.cancelled[m.order]
             b == m.cancelled \/ a
             l == m.looked \cup {"cancelled"}
             n == [m EXCEPT !.looked = l, !.cancelled = b]
  <2>1. m # <<>> /\ m.at = "fillupdate" /\ msg' = [msg EXCEPT ![c] = n]
    BY <1>12 DEF LookCancelled, At
  <2>2. b \in BOOLEAN /\ (b => CancelledThere(m.order)) /\ l \in SUBSET {"filled", "cancelled"}
    <3>1. m.cancelled \in BOOLEAN /\ (m.cancelled => CancelledThere(m.order))
      BY <1>6, <2>1
    <3>2. a \in BOOLEAN /\ (a => CancelledThere(m.order))
      BY DEF CancelledThere
    <3>3. l \in SUBSET {"filled", "cancelled"}
      BY <1>6, <2>1
    <3> HIDE DEF a, m
    <3> QED BY <3>1, <3>2, <3>3
  <2> HIDE DEF b, l
  <2>3. n \in Parts /\ n.filled = m.filled /\ n.order = m.order /\ n.at = "fillupdate" /\ n.cancelled = b
    BY <1>6, <2>1, <2>2
  <2>4. CopyInv'
    <3> HIDE DEF n, Parts
    <3> QED BY <1>6, <1>7, <2>1, <2>2, <2>3
  <2> QED BY <1>2, <1>3, <1>4, <2>4 DEF PInv
<1>13. CASE LookFilled(c)
  <2> DEFINE a == IF BloomMiss(m.order) THEN 0 ELSE chain.filled[m.order]
             l == m.looked \cup {"filled"}
             n == [m EXCEPT !.looked = l, !.filled = a]
  <2>1. m # <<>> /\ m.at = "fillupdate" /\ msg' = [msg EXCEPT ![c] = n]
    BY <1>13 DEF LookFilled, At
  <2>2. a \in Nat /\ a <= TakerAmount[m.order] /\ l \in SUBSET {"filled", "cancelled"}
    BY <1>5, <1>6, <2>1
  <2> HIDE DEF a, l
  <2>3. n \in Parts /\ n.filled = a /\ n.order = m.order /\ n.at = "fillupdate" /\ n.cancelled = m.cancelled
    BY <1>6, <2>1, <2>2
  <2>4. CopyInv'
    <3> HIDE DEF n, Parts
    <3> QED BY <1>6, <1>7, <2>1, <2>2, <2>3
  <2> QED BY <1>2, <1>3, <1>4, <2>4 DEF PInv
<1>14. ASSUME NEW what \in {"filled", "cancelled"}, LookFails(c, what) PROVE PInv'
  <2> DEFINE l == m.looked \cup {what}
             n == [m EXCEPT !.looked = l]
  <2>1. m # <<>> /\ m.at = "fillupdate" /\ msg' = [msg EXCEPT ![c] = n]
    BY <1>14 DEF LookFails, At
  <2>2. l \in SUBSET {"filled", "cancelled"}
    BY <1>6, <2>1
  <2> HIDE DEF l
  <2>3. n \in Parts /\ n.filled = m.filled /\ n.order = m.order /\ n.at = "fillupdate" /\ n.cancelled = m.cancelled
    BY <1>6, <2>1, <2>2
  <2>4. CopyInv'
    <3> HIDE DEF n, Parts
    <3> QED BY <1>6, <1>7, <2>1, <2>2, <2>3
  <2> QED BY <1>2, <1>3, <1>4, <2>4 DEF PInv
<1>15. ASSUME NEW at \in {"fundcheck", "poolfilter", "pgindexer"}, m # <<>>,
              m.looked = {"filled", "cancelled"}, msg' = [msg EXCEPT ![c] = [m EXCEPT !.at = at]]
       PROVE  PInv'
  <2> DEFINE n == [m EXCEPT !.at = at]
  <2>1. n \in Parts /\ n.filled = m.filled /\ n.order = m.order /\ n.cancelled = m.cancelled /\ n.looked = m.looked
    BY <1>6, <1>15
  <2>2. CopyInv'
    <3> HIDE DEF n, Parts
    <3> QED BY <1>6, <1>7, <1>15, <2>1 DEF n
  <2> QED BY <1>2, <1>3, <1>4, <2>2 DEF PInv
<1>16. CASE Publish(c)
  BY <1>15, <1>16 DEF Publish, At
<1>17. CASE CancellationFilterFails(c)
  BY <1>2, <1>3, <1>4, <1>8, <1>17 DEF PInv, CancellationFilterFails
<1>18. CASE FundCheck(c)
  <2>1. CASE msg' = [msg EXCEPT ![c] = <<>>]
    BY <1>2, <1>3, <1>4, <1>8, <2>1 DEF PInv
  <2>2. CASE msg' = [msg EXCEPT ![c].at = "poolfilter"]
    BY <1>6, <1>15, <1>18, <2>2 DEF FundCheck, At
  <2> QED BY <1>18, <2>1, <2>2 DEF FundCheck
<1>19. CASE PoolFilter(c)
  <2>1. CASE msg' = [msg EXCEPT ![c] = <<>>]
    BY <1>2, <1>3, <1>4, <1>8, <2>1 DEF PInv
  <2>2. CASE msg' = [msg EXCEPT ![c] = [m EXCEPT !.at = "pgindexer"]]
    BY <1>6, <1>15, <1>19, <2>2 DEF PoolFilter, At
  <2> QED BY <1>19, <2>1, <2>2 DEF PoolFilter
<1> QED BY <1>9, <1>10, <1>11, <1>12, <1>13, <1>14, <1>16, <1>17, <1>18, <1>19

\* A copy that is lost is one of a set of one.
LEMMA CopyDropped ==
  ASSUME PInv, NEW c \in Copies, CopyLost(c)
  PROVE  \E S \in SUBSET Copies : msg' = [d \in Copies |-> IF d \in S THEN <<>> ELSE msg[d]]
<1>1. msg' = [msg EXCEPT ![c] = <<>>] /\ DOMAIN msg = Copies
  BY DEF CopyLost, PInv, CopyInv
<1>2. msg' = [d \in Copies |-> IF d \in {c} THEN <<>> ELSE msg[d]]
  BY <1>1 DEF PInv, CopyInv
<1> QED BY <1>2

\* Services that end and leave copies in their unacked lists.
LEMMA RestartKeeps ==
  ASSUME PInv, UpdaterRestart \/ PoolFilterEnds \/ \E c \in Copies : CopyLost(c) PROVE PInv'
<1>1. UNCHANGED <<vars, chain, events, records, epochs, heard, stored>>
  BY DEF UpdaterRestart, PoolFilterEnds, CopyLost, exchange, feed
<1>2. IndexInv' /\ ChainInv' /\ FeedInv' /\ TrueInv'
  BY <1>1, SameParts DEF vars, index
<1>3. BloomInv'
  <2>1. CASE UpdaterRestart
    BY <1>1, <2>1 DEF UpdaterRestart, PInv, BloomInv
  <2>2. CASE PoolFilterEnds \/ \E c \in Copies : CopyLost(c)
    BY <2>2, SameParts DEF PoolFilterEnds, CopyLost, feed, updater
  <2> QED BY <2>1, <2>2
<1>4. CopyInv'
  <2>1. \E S \in SUBSET Copies : msg' = [c \in Copies |-> IF c \in S THEN <<>> ELSE msg[c]]
    BY CopyDropped DEF UpdaterRestart, PoolFilterEnds
  <2>2. CopyOf' = CopyOf
    BY <1>1 DEF CopyOf, CancelledThere
  <2> HIDE DEF CopyOf
  <2>3. PICK S \in SUBSET Copies : msg' = [c \in Copies |-> IF c \in S THEN <<>> ELSE msg[c]]
    BY <2>1
  <2> QED BY <2>2, <2>3 DEF PInv, CopyInv
<1> QED BY <1>2, <1>3, <1>4 DEF PInv

\* The indexer takes a copy: it is at most filled and truly cancelled.
LEMMA IndexOrderKeeps ==
  ASSUME PInv, NEW w \in IndexWorkers, NEW c \in Copies, IndexOrder(w, c) PROVE PInv'
<1> DEFINE o == msg[c].order
           f == msg[c].filled
           b == msg[c].cancelled
<1>1. o \in Orders /\ f \in 0..Word-1 /\ b \in BOOLEAN /\ (b => CancelledThere(o))
  <2>1. msg[c] \in CopyOf
    BY DEF IndexOrder, At, PInv, CopyInv
  <2>2. o \in Orders /\ f \in Nat /\ f <= TakerAmount[o] /\ b \in BOOLEAN /\ (b => CancelledThere(o))
    BY <2>1 DEF CopyOf
  <2>3. TakerAmount[o] \in 1..Word-1 /\ Word \in Nat
    BY <2>2, AmountAssumption
  <2> QED BY <2>2, <2>3
<1>2. /\ Index(w, o, f, b, StatusOpen) /\ msg' = [msg EXCEPT ![c] = <<>>]
      /\ UNCHANGED <<used, chain, events, records, epochs, topic, heard, stored, bloom>>
  BY DEF IndexOrder, exchange, feed, updater
<1> HIDE DEF o, f, b
<1>3. IndexInv'
  BY <1>1, <1>2, IndexKeeps DEF PInv
<1>4. TrueInv'
  BY <1>1, <1>2, TrueIndex
<1>5. CopyInv'
  BY <1>2, CopyMoves
<1>6. ChainInv' /\ FeedInv' /\ BloomInv'
  BY <1>2, SameParts
<1> QED BY <1>3, <1>4, <1>5, <1>6 DEF PInv

\* The fill indexer takes a record of the exchange.
LEMMA RecordTakeKeeps == ASSUME PInv, NEW w \in FillWorkers, RecordTake(w) PROVE PInv'
<1> DEFINE e == Head(records.pg)
<1>1. records \in [in : Seq(Published), pg : Seq(Published)] /\ records.pg # <<>>
      /\ events \in Seq(Emitted) /\ epochs \in Seq(1..chain.epoch)
  BY DEF PInv, FeedInv, RecordTake
<1>2. e \in Published /\ Tail(records.pg) \in Seq(Published) /\ records.in \in Seq(Published)
  BY <1>1
<1>3. /\ RecordFill(w, e[1], e[2], e[3]) /\ records' = [records EXCEPT !.pg = Tail(@)]
      /\ UNCHANGED <<used, chain, events, epochs, topic, heard, stored, bloom, msg>>
  BY DEF RecordTake, exchange, updater
<1> HIDE DEF e
<1>4. /\ e[1] \in Orders /\ e[2] \in Fills \cup {0} /\ e[3] \in BOOLEAN
      /\ e[3] => CancelledThere(e[1])
  BY <1>2 DEF Published, Emitted
<1>5. IndexInv'
  BY <1>3, <1>4, FillReadKeeps DEF PInv
<1>6. TrueInv'
  BY <1>3, <1>4, TrueFillRead
<1>7. FeedInv'
  <2>1. Published' = Published /\ Emitted' = Emitted
    BY <1>3 DEF Published, Emitted, CancelledThere
  <2>2. records' = [in |-> records.in, pg |-> Tail(records.pg)]
    BY <1>1, <1>3
  <2>3. records' \in [in : Seq(Published), pg : Seq(Published)]
    BY <1>2, <2>2
  <2> QED BY <1>1, <1>3, <2>1, <2>3 DEF FeedInv
<1>8. ChainInv' /\ BloomInv' /\ CopyInv'
  BY <1>3, SameParts
<1> QED BY <1>5, <1>6, <1>7, <1>8 DEF PInv

\* The cancel-up-to indexer takes an epoch of the chain.
LEMMA EpochTakeKeeps == ASSUME PInv, NEW w \in CancelWorkers, EpochTake(w) PROVE PInv'
<1>1. epochs \in Seq(1..chain.epoch) /\ epochs # <<>> /\ chain.epoch \in 0..MaxEpoch
  BY DEF PInv, FeedInv, ChainInv, EpochTake
<1>2. Head(epochs) \in 1..chain.epoch /\ Tail(epochs) \in Seq(1..chain.epoch)
  BY <1>1
<1>3. Head(epochs) \in 1..MaxEpoch
  BY <1>1, <1>2, BoundAssumption
<1>4. /\ RecordCancellation(w, Head(epochs)) /\ epochs' = Tail(epochs)
      /\ UNCHANGED <<used, chain, events, records, topic, heard, stored, bloom, msg>>
  BY DEF EpochTake, exchange, updater
<1>5. IndexInv'
  BY <1>3, <1>4, EpochKeeps DEF PInv
<1>6. TrueInv'
  BY <1>2, <1>4, TrueEpoch
<1>7. FeedInv'
  <2>1. Published' = Published /\ Emitted' = Emitted
    BY <1>4 DEF Published, Emitted, CancelledThere
  <2> QED BY <1>2, <1>4, <2>1 DEF FeedInv, PInv
<1>8. ChainInv' /\ BloomInv' /\ CopyInv'
  BY <1>4, SameParts
<1> QED BY <1>5, <1>6, <1>7, <1>8 DEF PInv

\* The statements that end the operations of the index.
LEMMA WritesKeep ==
  ASSUME PInv,
         \/ \E w \in IndexWorkers : Insert(w)
         \/ \E w \in FillWorkers : RecordSave(w)
         \/ \E w \in CancelWorkers : EpochSave(w) \/ EpochMark(w)
  PROVE  PInv'
<1>1. UNCHANGED <<used, chain, events, records, epochs, topic, heard, stored, bloom, msg>>
  BY DEF Insert, RecordSave, EpochSave, EpochMark, IndexInsert, FillUpdate, CancelSave, CancelMark,
     exchange, feed, updater
<1>2. ChainInv' /\ FeedInv' /\ BloomInv' /\ CopyInv'
  BY <1>1, SameParts
<1>3. ASSUME NEW w \in IndexWorkers, Insert(w) PROVE IndexInv' /\ TrueInv'
  BY <1>1, <1>3, InsertKeeps, TrueInsert DEF PInv, Insert
<1>4. ASSUME NEW w \in FillWorkers, RecordSave(w) PROVE IndexInv' /\ TrueInv'
  BY <1>1, <1>4, FillWriteKeeps, TrueFillWrite DEF PInv, RecordSave
<1>5. ASSUME NEW w \in CancelWorkers, EpochSave(w) PROVE IndexInv' /\ TrueInv'
  BY <1>1, <1>5, EpochKeeps, TrueEpoch DEF PInv, EpochSave
<1>6. ASSUME NEW w \in CancelWorkers, EpochMark(w) PROVE IndexInv' /\ TrueInv'
  BY <1>1, <1>6, MarkKeeps, TrueMark DEF PInv, EpochMark
<1> QED BY <1>2, <1>3, <1>4, <1>5, <1>6 DEF PInv

\* The index's services lose what they have in hand, or what comes next.
LEMMA FaultKeeps == ASSUME PInv, IndexFault PROVE PInv'
<1>1. CASE RecordLost
  BY <1>1, FeedKeeps
<1>2. CASE EpochLost
  <2>1. /\ UNCHANGED <<vars, chain, events, records, topic, heard, stored, bloom, msg>>
        /\ epochs # <<>> /\ epochs' = Tail(epochs)
    BY <1>2 DEF EpochLost, exchange, updater
  <2>2. IndexInv' /\ ChainInv' /\ BloomInv' /\ CopyInv' /\ TrueInv'
    BY <2>1, SameParts DEF vars, index
  <2>3. Published' = Published /\ Emitted' = Emitted
    BY <2>1 DEF Published, Emitted, CancelledThere
  <2>4. FeedInv'
    BY <2>1, <2>3 DEF FeedInv, PInv
  <2> QED BY <2>2, <2>4 DEF PInv
<1>3. CASE \/ \E w \in IndexWorkers : InsertFails(w)
           \/ \E w \in FillWorkers : RecordFails(w)
           \/ \E w \in CancelWorkers : EpochFails(w)
  <2>1. \/ \E w \in IndexWorkers : IndexFails(w)
        \/ \E w \in FillWorkers : FillFails(w)
        \/ \E w \in CancelWorkers : CancelFails(w)
    BY <1>3 DEF InsertFails, RecordFails, EpochFails
  <2>2. UNCHANGED <<row, epoch, used, chain, events, records, epochs, topic, heard, stored, bloom, msg>>
    BY <1>3 DEF InsertFails, RecordFails, EpochFails, IndexFails, FillFails, CancelFails,
                exchange, feed, updater
  <2>3. IndexInv'
    BY <2>1, FailKeeps DEF PInv
  <2>4. ChainInv' /\ FeedInv' /\ BloomInv' /\ CopyInv'
    BY <2>2, SameParts
  <2>5. TrueInv'
    <3>1. /\ \A v \in IndexWorkers : indexing'[v] # <<>> => indexing'[v] = indexing[v]
          /\ \A v \in FillWorkers : filling'[v] # <<>> => filling'[v] = filling[v]
          /\ \A v \in CancelWorkers : cancelling'[v] # <<>> => cancelling'[v] = cancelling[v]
      BY <2>1 DEF IndexFails, FillFails, CancelFails, PInv, IndexInv, IndexingInv, FillingInv, CancellingInv
    <3> QED BY <2>2, <3>1 DEF PInv, TrueInv, TrueRow, CancelledThere
  <2> QED BY <2>3, <2>4, <2>5 DEF PInv
<1> QED BY <1>1, <1>2, <1>3 DEF IndexFault

\* PInv is inductive.
LEMMA PipelineInductive == PSpec => []PInv
<1>1. ASSUME PInv, [PNext]_pvars PROVE PInv'
  <2>1. CASE Mine \/ MineEpoch
    BY <1>1, <2>1, MineKeeps
  <2>2. CASE \/ MonitorFill \/ MonitorLoses \/ Save \/ Relay \/ RelayFails \/ TopicDeliver \/ TopicLose
    BY <1>1, <2>2, FeedKeeps
  <2>3. ASSUME NEW c \in Copies,
               \/ Submit(c) \/ OrderStep(c) \/ CancellationFilterFails(c)
               \/ \E what \in {"filled", "cancelled"} : LookFails(c, what)
        PROVE  PInv'
    <3>1. CASE \E w \in IndexWorkers : IndexOrder(w, c)
      BY <1>1, <3>1, IndexOrderKeeps
    <3>2. CASE ~\E w \in IndexWorkers : IndexOrder(w, c)
      BY <1>1, <2>3, <3>2, OrderKeeps DEF OrderStep
    <3> QED BY <3>1, <3>2
  <2>4. CASE UpdaterRestart \/ PoolFilterEnds \/ \E c \in Copies : CopyLost(c)
    BY <1>1, <2>4, RestartKeeps
  <2>5. CASE IndexStep
    BY <1>1, <2>5, WritesKeep, RecordTakeKeeps, EpochTakeKeeps DEF IndexStep
  <2>6. CASE IndexFault
    BY <1>1, <2>6, FaultKeeps
  <2>7. CASE UNCHANGED pvars
    <3>1. UNCHANGED <<index, used, chain, events, records, epochs, topic, heard, stored, bloom, msg>>
      BY <2>7 DEF pvars, vars, index, exchange, feed, updater
    <3> QED BY <1>1, <3>1, SameParts DEF PInv
  <2> QED BY <1>1, <2>1, <2>2, <2>3, <2>4, <2>5, <2>6, <2>7 DEF PNext
<1> QED BY <1>1, InitPipeline, PTL DEF PSpec

\* The pipeline is well typed: no copy says more is filled than the order has,
\* the fund check and all after it get orders that both lookups have answered
\* for (filled_consumer.go), and no bloom filter, the stored one and the one a
\* restarted updater reads included, is ahead of the fill monitor's.
THEOREM PipelineTypes == PSpec => []PTypeOK
<1>1. PInv => PTypeOK
  <2> SUFFICES ASSUME PInv PROVE PTypeOK
    OBVIOUS
  <2>1. TypeOK
    BY IndexFacts DEF PInv
  <2>2. /\ \A o \in Orders : chain.filled[o] \in 0..TakerAmount[o] /\ chain.cancelled[o] \in BOOLEAN
        /\ chain.epoch \in 0..MaxEpoch
    BY AmountAssumption DEF PInv, ChainInv
  <2>3. /\ topic \subseteq Orders /\ heard \subseteq Orders /\ bloom \subseteq heard
        /\ stored = NoFile \/ stored \subseteq heard
    BY DEF PInv, BloomInv
  <2>4. ASSUME NEW c \in Copies, msg[c] # <<>>
        PROVE  /\ msg[c].filled \in 0..TakerAmount[msg[c].order]
               /\ msg[c].at \in {"fundcheck", "poolfilter", "pgindexer"}
                    => msg[c].looked = {"filled", "cancelled"}
    <3>1. msg[c] \in CopyOf
      BY <2>4 DEF PInv, CopyInv
    <3> QED BY <3>1, AmountAssumption DEF CopyOf
  <2> QED BY <2>1, <2>2, <2>3, <2>4 DEF PTypeOK
<1> QED BY <1>1, PipelineInductive, PTL

\* The index never hides an order as cancelled that the exchange can still
\* fill, whatever overtakes what between the API, the monitors and the index
\* and whichever lookup, relay or service fails on the way.
THEOREM HiddenOnlyIfCancelled == PSpec => []CancelledOnChain
<1>1. PInv => CancelledOnChain
  BY DEF PInv, TrueInv, TrueRow, CancelledThere, CancelledOnChain
<1> QED BY <1>1, PipelineInductive, PTL

\* In the whole pipeline, as with arbitrary messages, no order that is filled
\* to the threshold is on the orderbook and remaining amounts fit the fills.
THEOREM PipelineRows == PSpec => [](FilledNotOpen /\ RemainingAgrees)
<1>1. PInv => FilledNotOpen /\ RemainingAgrees
  BY IndexFacts DEF PInv
<1> QED BY <1>1, PipelineInductive, PTL

-----------------------------------------------------------------------------
(* What closes an order.  ClosedLeavesBook is about quiet states only; the *)
(* invariant behind it says, of every state and every order not in missed, *)
(* that as long as the index could still show an order that the chain has  *)
(* closed, a record or an epoch that will close its row is on its way.     *)

\* x is in the queue q.
In(q, x) == \E i \in 1..Len(q) : q[i] = x

OpenRow(o) == row[o] # NoRow /\ row[o].status = StatusOpen

\* What an indexer is about to insert is not Open when it says cancelled.
SavedClosed == \A w \in IndexWorkers :
  indexing[w] # <<>> /\ indexing[w][2].cancelled => indexing[w][2].status # StatusOpen

\* A copy of the order that the cancel-up-to filter let pass as not cancelled.
Passed(o) ==
  \/ \E c \in Copies : /\ msg[c] # <<>> /\ msg[c].order = o /\ ~msg[c].cancelled
                       /\ msg[c].at \notin {"api", "exchange"}
  \/ \E w \in IndexWorkers : /\ indexing[w] # <<>> /\ indexing[w][1] = o
                             /\ ~indexing[w][2].cancelled

\* An epoch above the order's salt is on its way to the index's rows.
PendingEpoch(o) ==
  \/ \E e \in 1..chain.epoch : In(epochs, e) /\ e > Salt[o]
  \/ \E w \in CancelWorkers : cancelling[w] # <<>> /\ cancelling[w][1] > Salt[o]

\* An epoch of the chain is in the cancellations table, or will be.
SavedEpoch(e) ==
  \/ In(epochs, e)
  \/ \E w \in CancelWorkers : cancelling[w] # <<>> /\ cancelling[w][1] = e /\ cancelling[w][2] = "save"
  \/ e <= epoch

EpochOK(o) ==
  /\ \A e \in 1..chain.epoch : e > Salt[o] => SavedEpoch(e)
  /\ Salt[o] < chain.epoch /\ ~PendingEpoch(o) => ~OpenRow(o) /\ ~Passed(o)

\* A copy of the order that the fill updater let pass as not cancelled.
Blind(o) ==
  \/ \E c \in Copies : /\ msg[c] # <<>> /\ msg[c].order = o /\ ~msg[c].cancelled
                       /\ "cancelled" \in msg[c].looked
  \/ \E w \in IndexWorkers : /\ indexing[w] # <<>> /\ indexing[w][1] = o
                             /\ ~indexing[w][2].cancelled

\* A worker of the fill indexer has read the order's row.
Busy(w, o) == filling[w] # <<>> /\ filling[w][1] = o

\* The record of the order's cancellation is on its way.
Cancellation(o) == <<o, 0, TRUE>>
PendingCancel(o) ==
  \/ In(events, Cancellation(o)) \/ In(records.in, Cancellation(o)) \/ In(records.pg, Cancellation(o))
  \/ \E w \in FillWorkers : Busy(w, o) /\ filling[w][3]

CancelOK(o) ==
  chain.cancelled[o] /\ ~PendingCancel(o) => o \in recorded /\ ~OpenRow(o) /\ ~Blind(o)

\* The amounts of the order's records in q lead from lo to hi.
Part(e, o) == IF e[1] = o THEN e[2] ELSE 0
Spans(q, o, lo, hi) ==
  \E f \in [0..Len(q) -> Nat] :
    /\ f[0] = lo /\ f[Len(q)] = hi
    /\ \A i \in 1..Len(q) : f[i] = f[i-1] + Part(q[i], o)
    /\ \A i, j \in 0..Len(q) : i <= j => f[i] <= f[j]

\* A copy of the order that was looked up and says less than s.
Short(o, s) ==
  \/ \E c \in Copies : /\ msg[c] # <<>> /\ msg[c].order = o /\ "filled" \in msg[c].looked
                       /\ msg[c].filled < s
  \/ \E w \in IndexWorkers : /\ indexing[w] # <<>> /\ indexing[w][1] = o
                             /\ indexing[w][2].filled < s

\* The order's row has s of it as filled, or will: with the amount of the one
\* worker that has read the row as it is; or else the order will be in missed,
\* because a worker has read the row as it was, or two have read it as it is.
Covered(o, s) ==
  LET filled == row[o].filled
  IN  \/ s <= filled
      \/ \E w \in FillWorkers : Busy(w, o) /\ filling[w][4].filled < filled
      \/ \E w \in FillWorkers : /\ Busy(w, o) /\ filling[w][4].filled = filled
                                /\ s <= filled + filling[w][2]
      \/ \E w, v \in FillWorkers : /\ w # v /\ Busy(w, o) /\ Busy(v, o)
                                   /\ filling[w][2] > 0 /\ filling[v][2] > 0
                                   /\ filling[w][4].filled = filled
                                   /\ filling[v][4].filled = filled

\* s of the order is in records the fill indexer has taken: what is filled but
\* for the records that are still in the queues.
FillOK(o) ==
  \E s, m, n \in Nat :
    /\ Spans(records.pg, o, s, m) /\ Spans(records.in, o, m, n)
    /\ Spans(events, o, n, chain.filled[o])
    /\ o \notin recorded => s = 0
    /\ ~Short(o, s)
    /\ OpenRow(o) => Covered(o, s)
    /\ \A w \in FillWorkers : Busy(w, o) => filling[w][2] <= TakerAmount[o] /\ o \in recorded

ClosingInv == SavedClosed /\ \A o \in Orders \ missed : EpochOK(o) /\ CancelOK(o) /\ FillOK(o)

\* An amount at most doubled does not wrap.
HalfWord == \A o \in Orders : 2 * TakerAmount[o] <= Word

-----------------------------------------------------------------------------
(* Queues.                                                                 *)

\* Nothing is in an empty queue.
LEMMA InEmpty == ASSUME NEW x PROVE ~In(<<>>, x)
BY DEF In

\* What is sent is at the end of the queue, and what was there stays.
LEMMA InAppend ==
  ASSUME NEW E, NEW q \in Seq(E), NEW y \in E, NEW x
  PROVE  In(Append(q, y), x) <=> In(q, x) \/ x = y
<1> DEFINE p == Append(q, y)
<1>1. /\ Len(p) = Len(q) + 1 /\ Len(q) \in Nat /\ p[Len(q) + 1] = y
      /\ \A i \in 1..Len(q) : p[i] = q[i]
  OBVIOUS
<1> HIDE DEF p
<1>2. \A i \in 1..Len(p) : i \in 1..Len(q) \/ i = Len(q) + 1
  BY <1>1
<1>3. \A i \in 1..Len(q) : i \in 1..Len(p)
  BY <1>1
<1>4. Len(q) + 1 \in 1..Len(p)
  BY <1>1
<1> QED BY <1>1, <1>2, <1>3, <1>4 DEF In, p

\* What a queue holds is its first message or in the rest of it.
LEMMA InTail ==
  ASSUME NEW E, NEW q \in Seq(E), q # <<>>, NEW x
  PROVE  In(q, x) <=> x = Head(q) \/ In(Tail(q), x)
<1> DEFINE p == Tail(q)
<1>1. /\ Len(p) = Len(q) - 1 /\ Len(q) \in Nat \ {0} /\ q[1] = Head(q)
      /\ \A i \in 1..Len(p) : p[i] = q[i+1]
  OBVIOUS
<1> HIDE DEF p
<1>2. ASSUME In(q, x) PROVE x = Head(q) \/ In(p, x)
  <2>1. PICK i \in 1..Len(q) : q[i] = x
    BY <1>2 DEF In
  <2>2. CASE i = 1
    BY <1>1, <2>1, <2>2
  <2>3. CASE i # 1
    <3>1. i - 1 \in 1..Len(p) /\ (i - 1) + 1 = i
      BY <1>1, <2>3
    <3> QED BY <1>1, <2>1, <3>1 DEF In
  <2> QED BY <2>2, <2>3
<1>3. ASSUME In(p, x) PROVE In(q, x)
  <2>1. PICK i \in 1..Len(p) : p[i] = x
    BY <1>3 DEF In
  <2>2. i + 1 \in 1..Len(q)
    BY <1>1
  <2> QED BY <1>1, <2>1, <2>2 DEF In
<1>4. Head(q) = q[1] /\ 1 \in 1..Len(q)
  BY <1>1
<1> QED BY <1>2, <1>3, <1>4 DEF In, p

\* An empty queue leads nowhere.
LEMMA SpansEmpty ==
  ASSUME NEW o, NEW lo, NEW hi, Spans(<<>>, o, lo, hi) PROVE lo = hi
BY DEF Spans

\* An empty queue leads from an amount to itself.
LEMMA SpansNothing == ASSUME NEW o, NEW lo \in Nat PROVE Spans(<<>>, o, lo, lo)
<1> DEFINE f == [i \in 0..0 |-> lo]
<1>1. Len(<<>>) = 0 /\ f \in [0..0 -> Nat] /\ f[0] = lo
  OBVIOUS
<1>2. \A i, j \in 0..0 : f[i] <= f[j]
  OBVIOUS
<1> HIDE DEF f
<1>3. \A i \in 1..0 : FALSE
  OBVIOUS
<1> QED BY <1>1, <1>2, <1>3 DEF Spans

\* A queue never leads back, and its first record leads no further than all.
LEMMA SpansUp ==
  ASSUME NEW E, NEW q \in Seq(E), NEW o, NEW lo, NEW hi, Spans(q, o, lo, hi)
  PROVE  lo \in Nat /\ hi \in Nat /\ lo <= hi /\ (q # <<>> => lo + Part(Head(q), o) <= hi)
<1>1. PICK f \in [0..Len(q) -> Nat] :
        /\ f[0] = lo /\ f[Len(q)] = hi
        /\ \A i \in 1..Len(q) : f[i] = f[i-1] + Part(q[i], o)
        /\ \A i, j \in 0..Len(q) : i <= j => f[i] <= f[j]
  BY DEF Spans
<1>2. Len(q) \in Nat
  OBVIOUS
<1>3. 0 \in 0..Len(q) /\ Len(q) \in 0..Len(q) /\ 0 <= Len(q)
  BY <1>2
<1>4. ASSUME q # <<>> PROVE lo + Part(Head(q), o) <= hi
  <2>1. Len(q) # 0 /\ Head(q) = q[1]
    BY <1>4
  <2>2. 1 \in 1..Len(q) /\ 1 \in 0..Len(q) /\ 1 <= Len(q) /\ 1 - 1 = 0
    BY <1>2, <2>1
  <2>3. f[1] = f[1 - 1] + Part(q[1], o) /\ f[1] <= f[Len(q)]
    BY <1>1, <1>3, <2>2
  <2> QED BY <1>1, <2>1, <2>2, <2>3
<1> QED BY <1>1, <1>3, <1>4

\* A record that is sent leads on by its amount.
LEMMA SpansAppend ==
  ASSUME NEW E, NEW q \in Seq(E), NEW e \in E, NEW o, Part(e, o) \in Nat,
         NEW lo, NEW hi, Spans(q, o, lo, hi)
  PROVE  Spans(Append(q, e), o, lo, hi + Part(e, o))
<1>1. PICK f \in [0..Len(q) -> Nat] :
        /\ f[0] = lo /\ f[Len(q)] = hi
        /\ \A i \in 1..Len(q) : f[i] = f[i-1] + Part(q[i], o)
        /\ \A i, j \in 0..Len(q) : i <= j => f[i] <= f[j]
  BY DEF Spans
<1> DEFINE p == Append(q, e)
           N == Len(q)
           a == Part(e, o)
           g == [i \in 0..N+1 |-> IF i = N + 1 THEN hi + a ELSE f[i]]
<1>2. /\ Len(p) = N + 1 /\ N \in Nat /\ p[N + 1] = e
      /\ \A i \in 1..N : p[i] = q[i]
  OBVIOUS
<1>3. hi \in Nat /\ a \in Nat /\ N \in 0..N /\ f \in [0..N -> Nat]
  BY <1>1, <1>2
<1> HIDE DEF p, a
<1>4. g \in [0..N+1 -> Nat] /\ g[N+1] = hi + a /\ g[0] = lo /\ \A i \in 0..N : g[i] = f[i]
  BY <1>1, <1>2, <1>3
<1>5. ASSUME NEW i \in 1..N+1 PROVE g[i] = g[i-1] + Part(p[i], o)
  <2>1. CASE i = N + 1
    <3>1. g[i-1] = hi /\ i - 1 = N
      BY <1>1, <1>2, <1>3, <1>4, <2>1
    <3> QED BY <1>2, <1>4, <2>1, <3>1 DEF a
  <2>2. CASE i # N + 1
    <3>1. i \in 1..N /\ i \in 0..N /\ i - 1 \in 0..N
      BY <1>2, <2>2
    <3>2. g[i] = f[i] /\ g[i-1] = f[i-1] /\ p[i] = q[i] /\ f[i] = f[i-1] + Part(q[i], o)
      BY <1>1, <1>2, <1>4, <3>1
    <3> QED BY <3>2
  <2> QED BY <2>1, <2>2
<1>6. ASSUME NEW i \in 0..N+1, NEW j \in 0..N+1, i <= j PROVE g[i] <= g[j]
  <2>1. CASE j \in 0..N
    <3>1. i \in 0..N
      BY <1>2, <1>6, <2>1
    <3> QED BY <1>1, <1>4, <1>6, <2>1, <3>1
  <2>2. CASE j = N + 1
    <3>1. CASE i = N + 1
      BY <1>3, <1>4, <2>2, <3>1
    <3>2. CASE i \in 0..N
      <4>1. f[i] <= hi /\ f[i] \in Nat /\ g[i] = f[i]
        BY <1>1, <1>2, <1>3, <1>4, <3>2
      <4> QED BY <1>3, <1>4, <2>2, <4>1
    <3> QED BY <1>2, <3>1, <3>2
  <2> QED BY <1>2, <2>1, <2>2
<1> HIDE DEF g, N
<1>7. Spans(p, o, lo, hi + a)
  BY <1>2, <1>4, <1>5, <1>6 DEF Spans
<1> QED BY <1>7 DEF p, a

\* Once the first record is taken, the rest leads on from its amount.
LEMMA SpansTail ==
  ASSUME NEW E, NEW q \in Seq(E), q # <<>>, NEW o, Part(Head(q), o) \in Nat,
         NEW lo, NEW hi, Spans(q, o, lo, hi)
  PROVE  Spans(Tail(q), o, lo + Part(Head(q), o), hi)
<1>1. PICK f \in [0..Len(q) -> Nat] :
        /\ f[0] = lo /\ f[Len(q)] = hi
        /\ \A i \in 1..Len(q) : f[i] = f[i-1] + Part(q[i], o)
        /\ \A i, j \in 0..Len(q) : i <= j => f[i] <= f[j]
  BY DEF Spans
<1> DEFINE p == Tail(q)
           N == Len(q)
           a == Part(Head(q), o)
           g == [i \in 0..N-1 |-> f[i+1]]
<1>2. /\ Len(p) = N - 1 /\ N \in Nat \ {0} /\ Head(q) = q[1]
      /\ \A i \in 1..N-1 : p[i] = q[i+1]
  OBVIOUS
<1>3. f \in [0..N -> Nat] /\ \A i \in 0..N-1 : i + 1 \in 0..N /\ i + 1 \in 1..N
  BY <1>1, <1>2
<1> HIDE DEF p, a
<1>4. g \in [0..N-1 -> Nat] /\ \A i \in 0..N-1 : g[i] = f[i+1]
  BY <1>3
<1>5. g[0] = lo + a /\ g[N-1] = hi
  <2>1. 0 \in 0..N-1 /\ N - 1 \in 0..N-1 /\ (N - 1) + 1 = N /\ 0 + 1 = 1 /\ 1 \in 1..N /\ 1 - 1 = 0
    BY <1>2
  <2>2. g[0] = f[1] /\ g[N-1] = f[N]
    BY <1>4, <2>1
  <2>3. f[1] = f[1 - 1] + Part(q[1], o)
    BY <1>1, <2>1
  <2> QED BY <1>1, <1>2, <2>1, <2>2, <2>3 DEF a
<1>6. ASSUME NEW i \in 1..N-1 PROVE g[i] = g[i-1] + Part(p[i], o)
  <2>1. i \in 0..N-1 /\ i - 1 \in 0..N-1 /\ i + 1 \in 1..N /\ (i - 1) + 1 = i /\ (i + 1) - 1 = i
    BY <1>2
  <2>2. g[i] = f[i+1] /\ g[i-1] = f[i] /\ p[i] = q[i+1]
    BY <1>2, <1>4, <2>1
  <2>3. f[i+1] = f[(i+1)-1] + Part(q[i+1], o)
    BY <1>1, <2>1
  <2> QED BY <2>1, <2>2, <2>3
<1>7. ASSUME NEW i \in 0..N-1, NEW j \in 0..N-1, i <= j PROVE g[i] <= g[j]
  <2>1. i + 1 \in 0..N /\ j + 1 \in 0..N /\ i + 1 <= j + 1
    BY <1>2, <1>7
  <2> QED BY <1>1, <1>4, <2>1
<1> HIDE DEF g, N
<1>8. Spans(p, o, lo + a, hi)
  BY <1>2, <1>4, <1>5, <1>6, <1>7 DEF Spans
<1> QED BY <1>8 DEF p, a

-----------------------------------------------------------------------------
(* Steps that leave the chain's events where they are.                     *)

\* Epochs: a step that moves no epoch may make an order Open, or let a copy of
\* it pass, only if its salt is not below the epoch saved so far.
LEMMA EpochFrame ==
  ASSUME PInv, NEW o \in Orders, EpochOK(o), UNCHANGED <<epochs, cancelling, epoch>>,
         chain'.epoch = chain.epoch,
         OpenRow(o)' \/ Passed(o)' => OpenRow(o) \/ Passed(o) \/ ~BelowEpoch(o)
  PROVE  EpochOK(o)'
<1>1. /\ \A e : SavedEpoch(e)' <=> SavedEpoch(e)
      /\ PendingEpoch(o)' <=> PendingEpoch(o)
  BY DEF SavedEpoch, PendingEpoch, In
<1>2. chain.epoch \in Nat /\ Salt[o] \in Nat /\ epoch \in Nat
  BY AmountAssumption, BoundAssumption DEF PInv, ChainInv, IndexInv, CancellingInv
<1>3. ASSUME Salt[o] < chain.epoch, ~BelowEpoch(o) PROVE PendingEpoch(o)
  <2>1. chain.epoch \in 1..chain.epoch
    BY <1>2, <1>3
  <2>2. SavedEpoch(chain.epoch) /\ ~(chain.epoch <= epoch)
    BY <1>2, <1>3, <2>1 DEF EpochOK, BelowEpoch
  <2> QED BY <1>3, <2>1, <2>2 DEF SavedEpoch, PendingEpoch
<1> QED BY <1>1, <1>3 DEF EpochOK

\* Cancellations: a step that moves no record may not make the order Open or
\* let a copy of it pass as not cancelled once its cancellation is recorded.
LEMMA CancelFrame ==
  ASSUME NEW o \in Orders, CancelOK(o), UNCHANGED <<events, records, filling>>,
         chain'.cancelled[o] = chain.cancelled[o], recorded \subseteq recorded',
         chain.cancelled[o] /\ o \in recorded /\ (OpenRow(o)' \/ Blind(o)') => OpenRow(o) \/ Blind(o)
  PROVE  CancelOK(o)'
<1>1. PendingCancel(o)' <=> PendingCancel(o)
  BY DEF PendingCancel, In, Busy, Cancellation
<1> QED BY <1>1 DEF CancelOK

\* Fills: a step that moves no record may open or change the order's row only
\* with an amount that covers the records taken.
LEMMA FillFrame ==
  ASSUME PInv, NEW o \in Orders, FillOK(o), UNCHANGED <<events, records, filling>>,
         chain'.filled[o] = chain.filled[o], recorded \subseteq recorded',
         \A s \in Nat : /\ s <= chain.filled[o] /\ (o \notin recorded => s = 0) /\ ~Short(o, s)
                        => /\ ~Short(o, s)'
                           /\ OpenRow(o)' => \/ OpenRow(o) /\ row'[o].filled = row[o].filled
                                             \/ s <= row'[o].filled
  PROVE  FillOK(o)'
<1>1. PICK s, m, n \in Nat :
    /\ Spans(records.pg, o, s, m) /\ Spans(records.in, o, m, n)
    /\ Spans(events, o, n, chain.filled[o])
    /\ o \notin recorded => s = 0
    /\ ~Short(o, s)
    /\ OpenRow(o) => Covered(o, s)
    /\ \A w \in FillWorkers : Busy(w, o) => filling[w][2] <= TakerAmount[o] /\ o \in recorded
  BY DEF FillOK
<1>2. s <= chain.filled[o]
  <2>1. events \in Seq(Emitted) /\ records.in \in Seq(Published) /\ records.pg \in Seq(Published)
    BY DEF PInv, FeedInv
  <2>2. s <= m /\ m <= n /\ n <= chain.filled[o] /\ chain.filled[o] \in Nat
    BY <1>1, <2>1, SpansUp
  <2> QED BY <2>2
<1>3. ~Short(o, s)' /\ (OpenRow(o)' => \/ OpenRow(o) /\ row'[o].filled = row[o].filled
                                       \/ s <= row'[o].filled)
  BY <1>1, <1>2
<1>4. OpenRow(o)' => Covered(o, s)'
  BY <1>1, <1>3 DEF Covered, Busy
<1>5. \A w \in FillWorkers : Busy(w, o)' => filling'[w][2] <= TakerAmount[o] /\ o \in recorded'
  BY <1>1 DEF Busy
<1>6. /\ Spans(records.pg, o, s, m)' /\ Spans(records.in, o, m, n)'
      /\ Spans(events, o, n, chain.filled[o])'
  <2>1. \A q, lo, hi : Spans(q, o, lo, hi)' <=> Spans(q, o, lo, hi)
    BY DEF Spans, Part
  <2> QED BY <1>1, <2>1
<1>7. o \notin recorded' => s = 0
  BY <1>1
<1> QED BY <1>3, <1>4, <1>5, <1>6, <1>7 DEF FillOK

-----------------------------------------------------------------------------
(* The services between the API and the index.                             *)

\* A copy is taken, looked up, passed on or dropped.
LEMMA CopyChanges ==
  ASSUME PInv, ClosingInv, NEW c \in Copies, NEW n, msg' = [msg EXCEPT ![c] = n],
         UNCHANGED <<row, epoch, indexing, filling, cancelling, chain, events, records, epochs, recorded>>,
         missed \subseteq missed',
         ASSUME n # <<>>, n.order \in Orders \ missed'
         PROVE  LET m == msg[c]
                    o == n.order
                IN  /\ ~n.cancelled /\ n.at \notin {"api", "exchange"} =>
                         \/ m # <<>> /\ m.order = o /\ ~m.cancelled /\ m.at \notin {"api", "exchange"}
                         \/ ~BelowEpoch(o)
                    /\ "cancelled" \in n.looked /\ ~n.cancelled /\ chain.cancelled[o] /\ o \in recorded =>
                         m # <<>> /\ m.order = o /\ ~m.cancelled /\ "cancelled" \in m.looked
                    /\ "filled" \in n.looked =>
                         \/ m # <<>> /\ m.order = o /\ "filled" \in m.looked /\ n.filled = m.filled
                         \/ n.filled = chain.filled[o]
                         \/ n.filled \in Nat /\ (o \in recorded => chain.filled[o] = 0)
  PROVE  ClosingInv'
<1>1. msg'[c] = n /\ \A d \in Copies : d # c => msg'[d] = msg[d]
  BY DEF PInv, CopyInv
<1>2. SavedClosed'
  BY DEF ClosingInv, SavedClosed
<1>3. ASSUME NEW o \in Orders \ missed' PROVE EpochOK(o)' /\ CancelOK(o)' /\ FillOK(o)'
  <2>1. EpochOK(o) /\ CancelOK(o) /\ FillOK(o) /\ o \in Orders
    BY DEF ClosingInv
  <2>2. OpenRow(o)' <=> OpenRow(o)
    BY DEF OpenRow
  <2>3. Passed(o)' => Passed(o) \/ ~BelowEpoch(o)
    BY <1>1 DEF Passed
  <2>4. EpochOK(o)'
    BY <2>1, <2>2, <2>3, EpochFrame
  <2>5. chain.cancelled[o] /\ o \in recorded /\ Blind(o)' => Blind(o)
    BY <1>1 DEF Blind
  <2>6. CancelOK(o)'
    BY <2>1, <2>2, <2>5, CancelFrame
  <2>7. ASSUME NEW s \in Nat, s <= chain.filled[o], o \notin recorded => s = 0, ~Short(o, s)
        PROVE  ~Short(o, s)'
    <3>1. chain.filled[o] \in Nat
      BY <2>1 DEF PInv, ChainInv
    <3>2. ASSUME n # <<>>, n.order = o, "filled" \in n.looked, n.filled < s
          PROVE  msg[c] # <<>> /\ msg[c].order = o /\ "filled" \in msg[c].looked /\ msg[c].filled < s
      BY <2>7, <3>1, <3>2
    <3> QED BY <1>1, <2>7, <3>2 DEF Short
  <2>8. FillOK(o)'
    BY <2>1, <2>2, <2>7, FillFrame
  <2> QED BY <2>4, <2>6, <2>8
<1> QED BY <1>2, <1>3 DEF ClosingInv

\* The services between the API and the index keep the closing of orders.
LEMMA OrderCloses ==
  ASSUME PInv, ClosingInv, NEW c \in Copies,
         \/ Submit(c) \/ Split(c) \/ CancellationFilter(c) \/ CancellationFilterFails(c)
         \/ LookCancelled(c) \/ LookFilled(c) \/ \E what \in {"filled", "cancelled"} : LookFails(c, what)
         \/ Publish(c) \/ FundCheck(c) \/ PoolFilter(c)
  PROVE  ClosingInv'
<1> DEFINE m == msg[c]
<1>1. /\ UNCHANGED <<row, epoch, indexing, filling, cancelling, chain, events, records, epochs, recorded>>
      /\ missed \subseteq missed'
  BY DEF Submit, Split, CancellationFilter, CancellationFilterFails, LookCancelled, LookFilled, LookFails,
     Publish, FundCheck, PoolFilter, vars, index, exchange, feed, updater, history, Miss
<1>2. msg \in [Copies -> CopyOf \cup {<<>>}]
  BY DEF PInv, CopyInv
<1>3. m # <<>> => /\ m.order \in Orders /\ m.filled \in Nat /\ m.cancelled \in BOOLEAN
                  /\ m \in [order : Orders, filled : Nat, cancelled : BOOLEAN,
                            looked : SUBSET {"filled", "cancelled"},
                            at : {"api", "exchange", "fillupdate", "fundcheck", "poolfilter", "pgindexer"}]
                  /\ m.at \in {"fundcheck", "poolfilter", "pgindexer"} => m.looked = {"filled", "cancelled"}
  BY <1>2 DEF CopyOf
<1>4. \A o \in Orders : chain.filled[o] \in Nat /\ chain.cancelled[o] \in BOOLEAN
  BY DEF PInv, ChainInv
<1>5. CASE Submit(c)
  <2>1. PICK o \in Orders : msg' = [msg EXCEPT ![c] = [order |-> o, at |-> "api", filled |-> 0,
                                  cancelled |-> FALSE, looked |-> {}]]
    BY <1>5 DEF Submit
  <2> QED BY <1>1, <2>1, CopyChanges
<1>6. ASSUME msg' = [msg EXCEPT ![c] = <<>>] PROVE ClosingInv'
  BY <1>1, <1>6, CopyChanges
<1>7. ASSUME NEW n, msg' = [msg EXCEPT ![c] = n], m # <<>>, n.order = m.order, n.cancelled = m.cancelled,
             n.filled = m.filled, n.looked = m.looked,
             n.at \in {"api", "exchange"} \/ m.at \notin {"api", "exchange"}
      PROVE  ClosingInv'
  BY <1>1, <1>3, <1>7, CopyChanges
<1>8. CASE Split(c) \/ Publish(c) \/ (FundCheck(c) /\ msg' # [msg EXCEPT ![c] = <<>>]) \/ PoolFilter(c)
  <2>1. m # <<>> /\ \E q \in {"exchange", "fundcheck", "poolfilter", "pgindexer"} :
          /\ msg' = [msg EXCEPT ![c] = [m EXCEPT !.at = q]]
          /\ q = "exchange" \/ m.at \notin {"api", "exchange"}
    BY <1>2, <1>8 DEF Split, Publish, FundCheck, PoolFilter, At, CheckFilter, FilterAddresses
  <2>2. PICK q \in {"exchange", "fundcheck", "poolfilter", "pgindexer"} :
          /\ msg' = [msg EXCEPT ![c] = [m EXCEPT !.at = q]]
          /\ q = "exchange" \/ m.at \notin {"api", "exchange"}
    BY <2>1
  <2> DEFINE n == [m EXCEPT !.at = q]
  <2>3. n.order = m.order /\ n.cancelled = m.cancelled /\ n.filled = m.filled /\ n.looked = m.looked /\ n.at = q
    BY <1>3, <2>1
  <2> HIDE DEF n
  <2>4. msg' = [msg EXCEPT ![c] = n]
    BY <2>2 DEF n
  <2> QED BY <1>7, <2>1, <2>2, <2>3, <2>4
<1>9. CASE CancellationFilterFails(c) \/ (FundCheck(c) /\ msg' = [msg EXCEPT ![c] = <<>>])
  BY <1>6, <1>9 DEF CancellationFilterFails
<1>10. CASE CancellationFilter(c)
  <2> DEFINE n == [m EXCEPT !.at = "fillupdate", !.cancelled = @ \/ BelowEpoch(m.order)]
  <2>1. m # <<>> /\ msg' = [msg EXCEPT ![c] = n]
    BY <1>2, <1>10 DEF CancellationFilter, At
  <2>2. n.order = m.order /\ n.cancelled = (m.cancelled \/ BelowEpoch(m.order)) /\ n.filled = m.filled
        /\ n.looked = m.looked
    BY <1>3, <2>1
  <2> HIDE DEF n
  <2> QED BY <1>1, <1>3, <2>1, <2>2, CopyChanges
<1>11. CASE LookCancelled(c)
  <2> DEFINE answer == ~BloomMiss(m.order) /\ chain.cancelled[m.order]
             n == [m EXCEPT !.looked = @ \cup {"cancelled"}, !.cancelled = @ \/ answer]
  <2>1. m # <<>> /\ msg' = [msg EXCEPT ![c] = n] /\ m.at = "fillupdate"
        /\ Miss(IF answer # chain.cancelled[m.order] THEN {m.order} \cap recorded ELSE {})
    BY <1>2, <1>11 DEF LookCancelled, At
  <2>2. n.order = m.order /\ n.cancelled = (m.cancelled \/ answer) /\ n.filled = m.filled
        /\ n.looked = m.looked \cup {"cancelled"} /\ n.at = m.at
    BY <1>3, <2>1
  <2>3. m.order \notin missed' /\ m.order \in recorded => answer = chain.cancelled[m.order]
    BY <2>1 DEF Miss
  <2> HIDE DEF n, answer
  <2>4. m.order \notin missed' /\ m.order \in recorded /\ chain.cancelled[m.order] => n.cancelled
    BY <2>2, <2>3
  <2> QED BY <1>1, <1>3, <2>1, <2>2, <2>4, CopyChanges
<1>12. CASE LookFilled(c)
  <2> DEFINE answer == IF BloomMiss(m.order) THEN 0 ELSE chain.filled[m.order]
             n == [m EXCEPT !.looked = @ \cup {"filled"}, !.filled = answer]
  <2>1. m # <<>> /\ msg' = [msg EXCEPT ![c] = n] /\ m.at = "fillupdate"
        /\ Miss(IF answer # chain.filled[m.order] THEN {m.order} \cap recorded ELSE {})
    BY <1>2, <1>12 DEF LookFilled, At
  <2>2. n.order = m.order /\ n.cancelled = m.cancelled /\ n.filled = answer
        /\ n.looked = m.looked \cup {"filled"} /\ n.at = m.at
    BY <1>3, <2>1
  <2>3. m.order \notin missed' /\ m.order \in recorded => answer = chain.filled[m.order]
    BY <2>1 DEF Miss
  <2>4. answer \in Nat
    BY <1>3, <1>4, <2>1
  <2> HIDE DEF n, answer
  <2> QED BY <1>1, <1>3, <2>1, <2>2, <2>3, <2>4, CopyChanges
<1>13. ASSUME NEW what \in {"filled", "cancelled"}, LookFails(c, what) PROVE ClosingInv'
  <2> DEFINE n == [m EXCEPT !.looked = @ \cup {what}]
             lost == IF what = "filled" THEN chain.filled[m.order] # 0 ELSE chain.cancelled[m.order]
  <2>1. m # <<>> /\ msg' = [msg EXCEPT ![c] = n] /\ m.at = "fillupdate"
        /\ Miss(IF lost THEN {m.order} \cap recorded ELSE {})
    BY <1>2, <1>13 DEF LookFails, At
  <2>2. n.order = m.order /\ n.cancelled = m.cancelled /\ n.filled = m.filled
        /\ n.looked = m.looked \cup {what} /\ n.at = m.at
    BY <1>3, <2>1
  <2>3. m.order \notin missed' /\ m.order \in recorded => ~lost
    BY <2>1 DEF Miss
  <2> HIDE DEF n
  <2>4. CASE what = "filled"
    BY <1>1, <1>3, <2>1, <2>2, <2>3, <2>4, CopyChanges
  <2>5. CASE what = "cancelled"
    BY <1>1, <1>3, <2>1, <2>2, <2>3, <2>5, CopyChanges
  <2> QED BY <2>4, <2>5
<1> QED BY <1>5, <1>8, <1>9, <1>10, <1>11, <1>12, <1>13

\* A step that changes only the copies, by dropping some, or the filters.
LEMMA DropCloses ==
  ASSUME PInv, ClosingInv, NEW S, msg' = [c \in Copies |-> IF c \in S THEN <<>> ELSE msg[c]],
         UNCHANGED <<row, epoch, indexing, filling, cancelling, chain, events, records, epochs, recorded, missed>>
  PROVE  ClosingInv'
<1>1. \A c \in Copies : msg'[c] = <<>> \/ msg'[c] = msg[c]
  OBVIOUS
<1>2. SavedClosed'
  BY DEF ClosingInv, SavedClosed
<1>3. ASSUME NEW o \in Orders \ missed' PROVE EpochOK(o)' /\ CancelOK(o)' /\ FillOK(o)'
  <2>1. EpochOK(o) /\ CancelOK(o) /\ FillOK(o) /\ o \in Orders
    BY DEF ClosingInv
  <2>2. /\ OpenRow(o)' <=> OpenRow(o)
        /\ Passed(o)' => Passed(o)
        /\ Blind(o)' => Blind(o)
        /\ \A s \in Nat : Short(o, s)' => Short(o, s)
    BY <1>1 DEF OpenRow, Passed, Blind, Short
  <2>3. EpochOK(o)'
    BY <2>1, <2>2, EpochFrame
  <2>4. CancelOK(o)'
    BY <2>1, <2>2, CancelFrame
  <2>5. FillOK(o)'
    BY <2>1, <2>2, FillFrame
  <2> QED BY <2>3, <2>4, <2>5
<1> QED BY <1>2, <1>3 DEF ClosingInv

\* Services that end, and steps that the closing of orders does not depend on.
LEMMA OtherCloses ==
  ASSUME PInv, ClosingInv,
         \/ UpdaterRestart \/ PoolFilterEnds \/ \E c \in Copies : CopyLost(c)
         \/ Save \/ TopicDeliver \/ TopicLose \/ UNCHANGED pvars
  PROVE  ClosingInv'
<1>1. UNCHANGED <<row, epoch, indexing, filling, cancelling, chain, events, records, epochs, recorded, missed>>
  BY DEF UpdaterRestart, PoolFilterEnds, CopyLost, Save, TopicDeliver, TopicLose, pvars, vars, exchange,
         feed, history
<1>2. \E S : msg' = [c \in Copies |-> IF c \in S THEN <<>> ELSE msg[c]]
  <2>1. CASE UpdaterRestart \/ PoolFilterEnds \/ \E c \in Copies : CopyLost(c)
    BY <2>1, CopyDropped DEF UpdaterRestart, PoolFilterEnds
  <2>2. CASE UNCHANGED msg
    <3>1. msg' = [c \in Copies |-> IF c \in {} THEN <<>> ELSE msg[c]]
      BY <2>2 DEF PInv, CopyInv
    <3> QED BY <3>1
  <2> QED BY <2>1, <2>2 DEF Save, TopicDeliver, TopicLose, pvars
<1> QED BY <1>1, <1>2, DropCloses

-----------------------------------------------------------------------------
(* The exchange, and its records on their way.                             *)

\* A step that leaves the index and the copies alone.
LEMMA SameCopies ==
  ASSUME UNCHANGED <<row, indexing, msg>>
  PROVE  /\ SavedClosed => SavedClosed'
         /\ \A o \in Orders : /\ OpenRow(o)' <=> OpenRow(o)
                              /\ Passed(o)' <=> Passed(o)
                              /\ Blind(o)' <=> Blind(o)
                              /\ \A s \in Nat : Short(o, s)' <=> Short(o, s)
BY DEF SavedClosed, OpenRow, Passed, Blind, Short

\* Records move on: of every order none is lost, or the order is in missed.
LEMMA RecordsMove ==
  ASSUME PInv, ClosingInv, NEW o \in Orders \ missed',
         UNCHANGED <<row, epoch, indexing, filling, cancelling, msg, epochs>>,
         chain'.epoch = chain.epoch, missed \subseteq missed', recorded \subseteq recorded',
         chain'.cancelled[o] => chain.cancelled[o] \/ In(events', Cancellation(o)),
         \/ In(events, Cancellation(o)) \/ In(records.in, Cancellation(o)) \/ In(records.pg, Cancellation(o))
         => \/ In(events', Cancellation(o)) \/ In(records'.in, Cancellation(o)) \/ In(records'.pg, Cancellation(o)),
         \A s, m, n \in Nat :
           /\ Spans(records.pg, o, s, m) /\ Spans(records.in, o, m, n)
           /\ Spans(events, o, n, chain.filled[o])
           => \E k, l \in Nat : /\ Spans(records'.pg, o, s, k) /\ Spans(records'.in, o, k, l)
                                /\ Spans(events', o, l, chain'.filled[o])
  PROVE  EpochOK(o)' /\ CancelOK(o)' /\ FillOK(o)'
<1>1. EpochOK(o) /\ CancelOK(o) /\ FillOK(o) /\ o \in Orders
  BY DEF ClosingInv
<1>2. OpenRow(o)' = OpenRow(o) /\ Passed(o)' = Passed(o) /\ Blind(o)' = Blind(o)
      /\ \A s \in Nat : Short(o, s)' <=> Short(o, s)
  BY <1>1, SameCopies DEF OpenRow, Passed, Blind
<1>3. EpochOK(o)'
  BY <1>1, <1>2, EpochFrame
<1>4. CancelOK(o)'
  <2>1. /\ In(events, Cancellation(o))' <=> In(events', Cancellation(o))
        /\ In(records.in, Cancellation(o))' <=> In(records'.in, Cancellation(o))
        /\ In(records.pg, Cancellation(o))' <=> In(records'.pg, Cancellation(o))
        /\ \A w \in FillWorkers : Busy(w, o)' <=> Busy(w, o)
    BY DEF In, Cancellation, Busy
  <2>2. PendingCancel(o) => PendingCancel(o)'
    BY <2>1 DEF PendingCancel
  <2>3. chain'.cancelled[o] /\ ~PendingCancel(o)' => chain.cancelled[o]
    BY <2>1 DEF PendingCancel
  <2> QED BY <1>1, <1>2, <2>2, <2>3 DEF CancelOK
<1>5. FillOK(o)'
  <2>1. PICK s, m, n \in Nat :
      /\ Spans(records.pg, o, s, m) /\ Spans(records.in, o, m, n)
      /\ Spans(events, o, n, chain.filled[o])
      /\ o \notin recorded => s = 0
      /\ ~Short(o, s)
      /\ OpenRow(o) => Covered(o, s)
      /\ \A w \in FillWorkers : Busy(w, o) => filling[w][2] <= TakerAmount[o] /\ o \in recorded
    BY <1>1 DEF FillOK
  <2>2. PICK k, l \in Nat : /\ Spans(records'.pg, o, s, k) /\ Spans(records'.in, o, k, l)
                            /\ Spans(events', o, l, chain'.filled[o])
    BY <2>1
  <2>3. \A q, lo, hi : Spans(q, o, lo, hi)' <=> Spans(q, o, lo, hi)
    BY DEF Spans, Part
  <2>4. /\ Spans(records.pg, o, s, k)' /\ Spans(records.in, o, k, l)'
        /\ Spans(events, o, l, chain.filled[o])'
    BY <2>2, <2>3
  <2>5. (OpenRow(o)' => Covered(o, s)') /\ ~Short(o, s)'
    BY <1>2, <2>1 DEF Covered, Busy
  <2>6. \A w \in FillWorkers : Busy(w, o)' => filling'[w][2] <= TakerAmount[o] /\ o \in recorded'
    BY <2>1 DEF Busy
  <2>7. o \notin recorded' => s = 0
    BY <2>1
  <2> QED BY <2>4, <2>5, <2>6, <2>7 DEF FillOK
<1> QED BY <1>3, <1>4, <1>5

\* The parts of the exchange's records are amounts.
LEMMA RecordParts ==
  ASSUME NEW e \in Emitted, NEW o
  PROVE  Part(e, o) \in Nat
<1>1. e[2] \in Fills \cup {0}
  BY DEF Emitted
<1>2. Fills \cup {0} \subseteq Nat
  BY AmountAssumption
<1>3. e[2] \in Nat
  BY <1>1, <1>2
<1> QED BY <1>3 DEF Part

\* The exchange's records on their way to the fill indexer.
LEMMA FeedCloses ==
  ASSUME PInv, ClosingInv, MonitorFill \/ MonitorLoses \/ Relay \/ RelayFails \/ RecordLost
  PROVE  ClosingInv'
<1>1. UNCHANGED <<row, epoch, indexing, filling, cancelling, msg, epochs, chain>>
      /\ missed \subseteq missed' /\ recorded \subseteq recorded'
  BY DEF MonitorFill, MonitorLoses, Relay, RelayFails, RecordLost, vars, exchange, history, Miss
<1>2. SavedClosed'
  BY <1>1, SameCopies DEF ClosingInv
<1>3. /\ events \in Seq(Emitted) /\ records.in \in Seq(Emitted) /\ records.pg \in Seq(Emitted)
      /\ records \in [in : Seq(Published), pg : Seq(Published)]
  <2>1. Published \subseteq Emitted
    BY DEF Published
  <2>2. /\ events \in Seq(Emitted) /\ records \in [in : Seq(Published), pg : Seq(Published)]
        /\ records.in \in Seq(Published) /\ records.pg \in Seq(Published)
    BY DEF PInv, FeedInv
  <2> QED BY <2>1, <2>2, SeqMonotone
<1>4. ASSUME NEW o \in Orders \ missed' PROVE EpochOK(o)' /\ CancelOK(o)' /\ FillOK(o)'
  <2> DEFINE x == Cancellation(o)
  <2>1. CASE MonitorFill
    <3> DEFINE e == Head(events)
    <3>1. /\ events # <<>> /\ events' = Tail(events)
          /\ records'.in = Append(records.in, e) /\ records'.pg = records.pg
      BY <1>3, <2>1 DEF MonitorFill
    <3>2. e \in Emitted /\ Part(e, o) \in Nat
      BY <1>3, <3>1, RecordParts
    <3> HIDE DEF e
    <3>3. In(events, x) => x = e \/ In(events', x)
      BY <1>3, <3>1, InTail DEF e
    <3>4. In(records.in, x) \/ x = e => In(records'.in, x)
      BY <1>3, <3>1, <3>2, InAppend
    <3>5. ASSUME NEW s \in Nat, NEW m \in Nat, NEW n \in Nat,
                 Spans(records.pg, o, s, m), Spans(records.in, o, m, n), Spans(events, o, n, chain.filled[o])
          PROVE  /\ n + Part(e, o) \in Nat
                 /\ Spans(records'.pg, o, s, m) /\ Spans(records'.in, o, m, n + Part(e, o))
                 /\ Spans(events', o, n + Part(e, o), chain'.filled[o])
      <4>1. Spans(Append(records.in, e), o, m, n + Part(e, o))
        BY <1>3, <3>2, <3>5, SpansAppend
      <4>2. Spans(Tail(events), o, n + Part(e, o), chain.filled[o])
        BY <1>3, <3>1, <3>2, <3>5, SpansTail DEF e
      <4> QED BY <1>1, <3>1, <3>2, <3>5, <4>1, <4>2
    <3>6. \A s, m, n \in Nat :
           /\ Spans(records.pg, o, s, m) /\ Spans(records.in, o, m, n)
           /\ Spans(events, o, n, chain.filled[o])
           => \E k, l \in Nat : /\ Spans(records'.pg, o, s, k) /\ Spans(records'.in, o, k, l)
                                /\ Spans(events', o, l, chain'.filled[o])
      BY <3>5
    <3> QED BY <1>1, <3>1, <3>3, <3>4, <3>6, RecordsMove
  <2>2. CASE Relay \/ RelayFails
    <3> DEFINE e == Head(records.in)
    <3>1. /\ records.in # <<>> /\ events' = events /\ records'.in = Tail(records.in)
          /\ \/ records'.pg = Append(records.pg, e)
             \/ records'.pg = records.pg /\ e[1] \in missed'
      <4>1. CASE Relay
        BY <1>3, <4>1 DEF Relay, exchange
      <4>2. CASE RelayFails
        <5>1. PICK reached \in {{}, {"queue"}, {"topic"}} :
                /\ records' = [in |-> Tail(records.in),
                               pg |-> IF (IF "queue" \in reached THEN {} ELSE {e[1]}) = {}
                                      THEN Append(records.pg, e) ELSE records.pg]
                /\ missed' = missed \cup (IF "queue" \in reached THEN {} ELSE {e[1]})
          BY <4>2 DEF RelayFails, Miss
        <5> HIDE DEF e
        <5>2. CASE "queue" \in reached
          BY <1>3, <4>2, <5>1, <5>2 DEF RelayFails, exchange, e
        <5>3. CASE "queue" \notin reached
          BY <1>3, <4>2, <5>1, <5>3 DEF RelayFails, exchange, e
        <5> QED BY <5>2, <5>3
      <4> QED BY <2>2, <4>1, <4>2
    <3>2. e \in Emitted /\ Part(e, o) \in Nat
      BY <1>3, <3>1, RecordParts
    <3>3. records'.pg # Append(records.pg, e) => e # x /\ Part(e, o) = 0
      <4>1. x[1] = o /\ o \notin missed'
        BY DEF Cancellation
      <4>2. e[1] \in missed' => e[1] # o
        BY <4>1
      <4> HIDE DEF e, x
      <4> QED BY <3>1, <4>1, <4>2 DEF Part
    <3> HIDE DEF e
    <3>4. In(records.in, x) => x = e \/ In(records'.in, x)
      BY <1>3, <3>1, InTail DEF e
    <3>5. In(records.pg, x) \/ x = e => In(records'.pg, x)
      <4>1. In(Append(records.pg, e), x) <=> In(records.pg, x) \/ x = e
        BY <1>3, <3>2, InAppend
      <4> QED BY <3>1, <3>3, <4>1
    <3>6. ASSUME NEW s \in Nat, NEW m \in Nat, NEW n \in Nat,
                 Spans(records.pg, o, s, m), Spans(records.in, o, m, n), Spans(events, o, n, chain.filled[o])
          PROVE  /\ m + Part(e, o) \in Nat
                 /\ Spans(records'.pg, o, s, m + Part(e, o)) /\ Spans(records'.in, o, m + Part(e, o), n)
                 /\ Spans(events', o, n, chain'.filled[o])
      <4>1. Spans(Append(records.pg, e), o, s, m + Part(e, o))
        BY <1>3, <3>2, <3>6, SpansAppend
      <4>2. Spans(Tail(records.in), o, m + Part(e, o), n)
        BY <1>3, <3>1, <3>2, <3>6, SpansTail DEF e
      <4>3. Part(e, o) = 0 => m + Part(e, o) = m
        OBVIOUS
      <4>4. Spans(records'.pg, o, s, m + Part(e, o))
        BY <3>1, <3>3, <3>6, <4>1, <4>3
      <4> QED BY <1>1, <3>1, <3>2, <3>6, <4>2, <4>4
    <3>7. \A s, m, n \in Nat :
           /\ Spans(records.pg, o, s, m) /\ Spans(records.in, o, m, n)
           /\ Spans(events, o, n, chain.filled[o])
           => \E k, l \in Nat : /\ Spans(records'.pg, o, s, k) /\ Spans(records'.in, o, k, l)
                                /\ Spans(events', o, l, chain'.filled[o])
      BY <3>6
    <3> QED BY <1>1, <3>1, <3>4, <3>5, <3>7, RecordsMove
  <2>3. CASE MonitorLoses \/ RecordLost
    <3>1. \/ /\ events # <<>> /\ events' = Tail(events) /\ records' = records
             /\ Head(events)[1] \in missed'
          \/ /\ records.pg # <<>> /\ records'.pg = Tail(records.pg) /\ records'.in = records.in
             /\ events' = events /\ Head(records.pg)[1] \in missed'
      BY <1>3, <2>3 DEF MonitorLoses, RecordLost, exchange, Miss
    <3>2. CASE events # <<>> /\ events' = Tail(events) /\ records' = records /\ Head(events)[1] \in missed'
      <4> DEFINE e == Head(events)
      <4>1. e \in Emitted /\ e # x /\ Part(e, o) = 0
        <5>1. e \in Emitted /\ e[1] \in missed'
          BY <1>3, <3>2
        <5>2. x[1] = o /\ o \notin missed'
          BY DEF Cancellation
        <5> HIDE DEF e, x
        <5> QED BY <5>1, <5>2 DEF Part
      <4>2. In(events, x) => In(events', x)
        BY <1>3, <3>2, <4>1, InTail
      <4>3. ASSUME NEW n \in Nat, Spans(events, o, n, chain.filled[o])
            PROVE  Spans(events', o, n, chain'.filled[o])
        <5>1. Spans(Tail(events), o, n + Part(e, o), chain.filled[o])
          BY <1>3, <3>2, <4>1, <4>3, SpansTail
        <5> QED BY <1>1, <3>2, <4>1, <5>1
      <4> QED BY <1>1, <3>2, <4>2, <4>3, RecordsMove
    <3>3. CASE /\ records.pg # <<>> /\ records'.pg = Tail(records.pg) /\ records'.in = records.in
               /\ events' = events /\ Head(records.pg)[1] \in missed'
      <4> DEFINE e == Head(records.pg)
      <4>1. e \in Emitted /\ e # x /\ Part(e, o) = 0
        <5>1. e \in Emitted /\ e[1] \in missed'
          BY <1>3, <3>3
        <5>2. x[1] = o /\ o \notin missed'
          BY DEF Cancellation
        <5> HIDE DEF e, x
        <5> QED BY <5>1, <5>2 DEF Part
      <4>2. In(records.pg, x) => In(records'.pg, x)
        BY <1>3, <3>3, <4>1, InTail
      <4>3. ASSUME NEW s \in Nat, NEW m \in Nat, Spans(records.pg, o, s, m)
            PROVE  Spans(records'.pg, o, s, m)
        <5>1. Spans(Tail(records.pg), o, s + Part(e, o), m)
          BY <1>3, <3>3, <4>1, <4>3, SpansTail
        <5> QED BY <3>3, <4>1, <5>1
      <4> QED BY <1>1, <3>3, <4>2, <4>3, RecordsMove
    <3> QED BY <3>1, <3>2, <3>3
  <2> QED BY <2>1, <2>2, <2>3
<1> QED BY <1>2, <1>4 DEF ClosingInv

\* The exchange: every change of an order comes with its event.
LEMMA MineCloses == ASSUME PInv, ClosingInv, Mine PROVE ClosingInv'
<1>1. UNCHANGED <<row, epoch, indexing, filling, cancelling, msg, epochs, records, missed, recorded>>
  BY DEF Mine, index, feed, history
<1>2. SavedClosed'
  BY <1>1, SameCopies DEF ClosingInv
<1>3. /\ events \in Seq(Emitted)
      /\ chain \in [filled : [Orders -> Nat], cancelled : [Orders -> BOOLEAN], epoch : 0..MaxEpoch]
  BY DEF PInv, FeedInv, ChainInv
<1>4. PICK y \in Orders, a \in Fills \cup {0}, b \in BOOLEAN :
        /\ events' = Append(events, <<y, a, b>>)
        /\ b => a = 0 /\ chain' = [chain EXCEPT !.cancelled[y] = TRUE]
        /\ ~b => chain' = [chain EXCEPT !.filled[y] = @ + a]
  <2>1. PICK y \in Orders :
          \/ \E a \in Fills \ {0} :
               /\ chain.filled[y] + a <= TakerAmount[y]
               /\ chain' = [chain EXCEPT !.filled[y] = @ + a]
               /\ events' = Append(events, <<y, a, FALSE>>)
          \/ /\ chain' = [chain EXCEPT !.cancelled[y] = TRUE]
             /\ events' = Append(events, <<y, 0, TRUE>>)
    BY DEF Mine
  <2>2. CASE \E a \in Fills \ {0} :
               /\ chain.filled[y] + a <= TakerAmount[y]
               /\ chain' = [chain EXCEPT !.filled[y] = @ + a]
               /\ events' = Append(events, <<y, a, FALSE>>)
    BY <2>2
  <2>3. CASE /\ chain' = [chain EXCEPT !.cancelled[y] = TRUE]
             /\ events' = Append(events, <<y, 0, TRUE>>)
    BY <2>3
  <2> QED BY <2>1, <2>2, <2>3
<1> DEFINE e == <<y, a, b>>
           All == Orders \X (Fills \cup {0}) \X BOOLEAN
<1>5. e \in All /\ events \in Seq(All) /\ e[1] = y /\ e[2] = a /\ e[3] = b
  <2>1. Emitted \subseteq All
    BY DEF Emitted
  <2> QED BY <1>3, <2>1, SeqMonotone
<1>6. a \in Nat
  BY AmountAssumption
<1>7. chain'.epoch = chain.epoch
      /\ \A o \in Orders : /\ chain'.cancelled[o] => chain.cancelled[o] \/ e = Cancellation(o)
                           /\ chain'.filled[o] = chain.filled[o] + Part(e, o)
                           /\ Part(e, o) \in Nat
  <2>1. CASE b
    <3>1. chain'.epoch = chain.epoch /\ chain'.filled = chain.filled
          /\ \A o \in Orders : chain'.cancelled[o] => chain.cancelled[o] \/ o = y
      BY <1>3, <1>4, <2>1
    <3>2. e = Cancellation(y) /\ \A o \in Orders : Part(e, o) = 0
      BY <1>4, <1>5, <2>1 DEF Cancellation, Part
    <3>3. \A o \in Orders : chain.filled[o] + 0 = chain.filled[o]
      BY <1>3
    <3> QED BY <3>1, <3>2, <3>3
  <2>2. CASE ~b
    <3>1. chain' = [chain EXCEPT !.filled[y] = @ + a]
      BY <1>4, <2>2
    <3>2. chain'.epoch = chain.epoch /\ chain'.cancelled = chain.cancelled
          /\ \A o \in Orders : chain'.filled[o] = IF o = y THEN chain.filled[o] + a ELSE chain.filled[o]
      BY <1>3, <3>1
    <3>3. \A o \in Orders : Part(e, o) = IF o = y THEN a ELSE 0
      BY <1>5 DEF Part
    <3>4. \A o \in Orders : chain.filled[o] + 0 = chain.filled[o]
      BY <1>3
    <3> QED BY <1>6, <3>2, <3>3, <3>4
  <2> QED BY <2>1, <2>2
<1>8. events' = Append(events, e)
  BY <1>4
<1> HIDE DEF e, All
<1>9. ASSUME NEW o \in Orders \ missed' PROVE EpochOK(o)' /\ CancelOK(o)' /\ FillOK(o)'
  <2>1. In(events', Cancellation(o)) <=> In(events, Cancellation(o)) \/ Cancellation(o) = e
    BY <1>5, <1>8, InAppend
  <2>2. ASSUME NEW n \in Nat, Spans(events, o, n, chain.filled[o])
        PROVE  Spans(events', o, n, chain'.filled[o])
    <3>1. o \in Orders /\ Part(e, o) \in Nat
      BY <1>7
    <3>2. Spans(Append(events, e), o, n, chain.filled[o] + Part(e, o))
      BY <1>5, <2>2, <3>1, SpansAppend
    <3> QED BY <1>7, <1>8, <3>1, <3>2
  <2>3. chain'.cancelled[o] => chain.cancelled[o] \/ In(events', Cancellation(o))
    BY <1>7, <2>1
  <2>4. \A s, m, n \in Nat :
           /\ Spans(records.pg, o, s, m) /\ Spans(records.in, o, m, n)
           /\ Spans(events, o, n, chain.filled[o])
           => \E k, l \in Nat : /\ Spans(records'.pg, o, s, k) /\ Spans(records'.in, o, k, l)
                                /\ Spans(events', o, l, chain'.filled[o])
    BY <1>1, <2>2
  <2> QED BY <1>1, <1>7, <2>1, <2>3, <2>4, RecordsMove
<1> QED BY <1>2, <1>9 DEF ClosingInv

\* The exchange: a new epoch comes with its event.
LEMMA MineEpochCloses == ASSUME PInv, ClosingInv, MineEpoch PROVE ClosingInv'
<1>1. UNCHANGED <<row, epoch, indexing, filling, cancelling, msg, events, records, missed, recorded>>
  BY DEF MineEpoch, index, history
<1>2. SavedClosed'
  BY <1>1, SameCopies DEF ClosingInv
<1>3. /\ epochs \in Seq(1..chain.epoch) /\ chain.epoch \in Nat
      /\ chain \in [filled : [Orders -> Nat], cancelled : [Orders -> BOOLEAN], epoch : 0..MaxEpoch]
  BY BoundAssumption DEF PInv, FeedInv, ChainInv
<1>4. /\ chain'.epoch = chain.epoch + 1 /\ chain'.filled = chain.filled /\ chain'.cancelled = chain.cancelled
      /\ epochs' = Append(epochs, chain.epoch + 1)
  BY <1>3 DEF MineEpoch
<1>5. \A e : In(epochs', e) <=> In(epochs, e) \/ e = chain.epoch + 1
  <2>1. epochs \in Seq(Nat) /\ chain.epoch + 1 \in Nat
    BY <1>3, SeqMonotone
  <2> QED BY <1>4, <2>1, InAppend
<1>6. ASSUME NEW o \in Orders \ missed' PROVE EpochOK(o)' /\ CancelOK(o)' /\ FillOK(o)'
  <2>1. EpochOK(o) /\ CancelOK(o) /\ FillOK(o) /\ o \in Orders /\ Salt[o] \in Nat
    BY <1>1, AmountAssumption DEF ClosingInv
  <2>2. OpenRow(o)' = OpenRow(o) /\ Blind(o)' = Blind(o) /\ \A s \in Nat : Short(o, s)' <=> Short(o, s)
    BY <1>1, SameCopies DEF OpenRow, Blind
  <2>3. CancelOK(o)'
    BY <1>1, <1>4, <2>1, <2>2, CancelFrame
  <2>4. FillOK(o)'
    BY <1>1, <1>4, <2>1, <2>2, FillFrame
  <2>5. EpochOK(o)'
    <3>1. \A e : In(epochs, e)' <=> In(epochs', e)
      BY DEF In
    <3>2. ASSUME NEW e \in 1..chain'.epoch, e > Salt[o] PROVE SavedEpoch(e)'
      <4>1. CASE e = chain.epoch + 1
        BY <1>5, <3>1, <4>1 DEF SavedEpoch
      <4>2. CASE e \in 1..chain.epoch
        <5>1. SavedEpoch(e)
          BY <2>1, <3>2, <4>2 DEF EpochOK
        <5> QED BY <1>1, <1>5, <3>1, <5>1 DEF SavedEpoch
      <4> QED BY <1>3, <1>4, <4>1, <4>2
    <3>3. ASSUME Salt[o] < chain'.epoch PROVE PendingEpoch(o)'
      <4>1. chain'.epoch \in 1..chain'.epoch /\ In(epochs', chain'.epoch)
        BY <1>3, <1>4, <1>5
      <4> QED BY <3>1, <3>3, <4>1 DEF PendingEpoch
    <3> QED BY <3>2, <3>3 DEF EpochOK
  <2> QED BY <2>3, <2>4, <2>5
<1> QED BY <1>2, <1>6 DEF ClosingInv

-----------------------------------------------------------------------------
(* The index's statements.                                                 *)

\* Save leaves a row Open only if nothing it was given says otherwise.
LEMMA SavedOpen ==
  ASSUME NEW o, NEW filled, NEW cancelled, NEW status, NEW default,
         Populated(o, filled, cancelled, status, default).status = StatusOpen
  PROVE  ~cancelled /\ status = StatusOpen /\ default = StatusOpen
<1>1. Populated(o, filled, cancelled, status, default).status =
        IF PopulateStatus(o, filled, cancelled, status) = StatusOpen THEN default
        ELSE PopulateStatus(o, filled, cancelled, status)
  BY DEF Populated
<1> QED BY <1>1 DEF PopulateStatus, StatusOpen, StatusFilled, StatusCancelled

\* The indexer writes a row, or takes it to its INSERT, from a copy that says
\* the same.
LEMMA IndexOrderCloses ==
  ASSUME PInv, ClosingInv, NEW w \in IndexWorkers, NEW c \in Copies, IndexOrder(w, c)
  PROVE  ClosingInv'
<1> DEFINE m == msg[c]
           x == m.order
           saved == Populated(x, m.filled, m.cancelled, StatusOpen, StatusOpen)
           u == [saved EXCEPT !.cancelled = row[x].cancelled]
<1>1. /\ UNCHANGED <<epoch, filling, cancelling, chain, events, records, epochs, recorded, missed>>
      /\ indexing[w] = <<>> /\ msg' = [msg EXCEPT ![c] = <<>>]
      /\ m # <<>> /\ m.at = "pgindexer"
      /\ \/ row[x] # NoRow /\ row' = [row EXCEPT ![x] = u] /\ UNCHANGED indexing
         \/ row[x] = NoRow /\ indexing' = [indexing EXCEPT ![w] = <<x, saved>>] /\ UNCHANGED row
  BY DEF IndexOrder, Index, Update, At, exchange, feed, history
<1>2. msg \in [Copies -> CopyOf \cup {<<>>}] /\ row \in [Orders -> Rows \cup {NoRow}]
      /\ indexing \in [IndexWorkers -> (Orders \X Rows) \cup {<<>>}]
  BY DEF PInv, CopyInv, IndexInv, RowInv, IndexingInv
<1>3. /\ x \in Orders /\ m.filled \in Nat /\ m.cancelled \in BOOLEAN /\ m.looked = {"filled", "cancelled"}
      /\ m.filled \in 0..Word-1
  <2>1. m \in CopyOf
    BY <1>1, <1>2
  <2>2. x \in Orders /\ m.filled \in Nat /\ m.cancelled \in BOOLEAN /\ m.looked = {"filled", "cancelled"}
        /\ m.filled <= TakerAmount[x]
    BY <1>1, <2>1 DEF CopyOf
  <2>3. TakerAmount[x] \in 1..Word-1 /\ Word \in Nat
    BY <2>2, AmountAssumption
  <2> QED BY <2>2, <2>3
<1>4. /\ saved.filled = m.filled /\ saved.cancelled = m.cancelled
      /\ saved.status = StatusOpen => ~m.cancelled
      /\ u.filled = m.filled /\ u.status = saved.status
  <2>1. saved \in Rows /\ saved.filled = m.filled /\ saved.cancelled = m.cancelled
    BY <1>3, SavedSound DEF StatusOpen
  <2>2. saved.status = StatusOpen => ~m.cancelled
    BY SavedOpen
  <2> HIDE DEF saved
  <2> QED BY <2>1, <2>2 DEF Rows
<1> HIDE DEF saved, u
<1>5. /\ msg'[c] = <<>> /\ \A d \in Copies : d # c => msg'[d] = msg[d]
      /\ \A v \in IndexWorkers : indexing'[v] = indexing[v] \/ indexing'[v] = <<x, saved>>
      /\ \A o \in Orders : row'[o] = row[o] \/ (o = x /\ row'[o] = u)
  BY <1>1, <1>2, <1>3
<1>6. SavedClosed'
  <2>1. <<x, saved>>[2] = saved
    OBVIOUS
  <2> QED BY <1>4, <1>5, <2>1 DEF ClosingInv, SavedClosed
<1>7. ASSUME NEW o \in Orders \ missed' PROVE EpochOK(o)' /\ CancelOK(o)' /\ FillOK(o)'
  <2>1. EpochOK(o) /\ CancelOK(o) /\ FillOK(o) /\ o \in Orders
    BY <1>1 DEF ClosingInv
  <2>2. o = x /\ ~m.cancelled => Passed(o) /\ Blind(o)
    BY <1>1, <1>3 DEF Passed, Blind
  <2>3. OpenRow(o)' => \/ OpenRow(o) /\ row'[o] = row[o]
                       \/ o = x /\ ~m.cancelled /\ row'[o].filled = m.filled
    BY <1>4, <1>5 DEF OpenRow
  <2>4. <<x, saved>>[1] = x /\ <<x, saved>>[2] = saved
    OBVIOUS
  <2>5. (Passed(o)' => Passed(o)) /\ (Blind(o)' => Blind(o))
    <3>1. ASSUME NEW v \in IndexWorkers, indexing'[v] # <<>>, indexing'[v][1] = o, ~indexing'[v][2].cancelled
          PROVE  Passed(o) /\ Blind(o)
      <4>1. CASE indexing'[v] = indexing[v]
        BY <3>1, <4>1 DEF Passed, Blind
      <4>2. CASE indexing'[v] = <<x, saved>>
        BY <1>4, <2>2, <2>4, <3>1, <4>2
      <4> QED BY <1>5, <4>1, <4>2
    <3> QED BY <1>5, <3>1 DEF Passed, Blind
  <2>6. EpochOK(o)'
    BY <1>1, <2>1, <2>2, <2>3, <2>5, EpochFrame
  <2>7. CancelOK(o)'
    BY <1>1, <2>1, <2>2, <2>3, <2>5, CancelFrame
  <2>8. ASSUME NEW s \in Nat, ~Short(o, s)
        PROVE  /\ ~Short(o, s)'
               /\ OpenRow(o)' => (OpenRow(o) /\ row'[o].filled = row[o].filled) \/ s <= row'[o].filled
    <3>1. o = x => ~(m.filled < s)
      BY <1>1, <1>3, <2>8 DEF Short
    <3>2. ASSUME NEW v \in IndexWorkers, indexing'[v] # <<>>, indexing'[v][1] = o, indexing'[v][2].filled < s
          PROVE  FALSE
      <4>1. CASE indexing'[v] = indexing[v]
        BY <2>8, <3>2, <4>1 DEF Short
      <4>2. CASE indexing'[v] = <<x, saved>>
        BY <1>4, <2>4, <3>1, <3>2, <4>2
      <4> QED BY <1>5, <4>1, <4>2
    <3>3. ~Short(o, s)'
      BY <1>5, <2>8, <3>2 DEF Short
    <3> QED BY <1>3, <2>3, <3>1, <3>3
  <2>9. FillOK(o)'
    BY <1>1, <2>1, <2>8, FillFrame
  <2> QED BY <2>6, <2>7, <2>9
<1> QED BY <1>6, <1>7 DEF ClosingInv

\* Save's INSERT.
LEMMA InsertCloses ==
  ASSUME PInv, ClosingInv, NEW w \in IndexWorkers, Insert(w) PROVE ClosingInv'
<1> DEFINE x == indexing[w][1]
           saved == indexing[w][2]
<1>1. /\ UNCHANGED <<epoch, filling, cancelling, chain, events, records, epochs, recorded, missed, msg>>
      /\ indexing[w] # <<>> /\ indexing' = [indexing EXCEPT ![w] = <<>>]
      /\ row' = [row EXCEPT ![x] = saved] \/ UNCHANGED row
  BY DEF Insert, IndexInsert, exchange, feed, history
<1>2. row \in [Orders -> Rows \cup {NoRow}] /\ indexing \in [IndexWorkers -> (Orders \X Rows) \cup {<<>>}]
  BY DEF PInv, IndexInv, RowInv, IndexingInv
<1>3. x \in Orders /\ saved.filled \in Nat
  <2>1. x \in Orders /\ saved \in Rows
    BY <1>1, <1>2
  <2> HIDE DEF saved
  <2> QED BY <2>1 DEF Rows
<1>4. saved.status = StatusOpen => ~saved.cancelled
  BY <1>1 DEF ClosingInv, SavedClosed
<1>5. /\ \A v \in IndexWorkers : indexing'[v] = indexing[v] \/ indexing'[v] = <<>>
      /\ \A o \in Orders : row'[o] = row[o] \/ (o = x /\ row'[o] = saved)
  BY <1>1, <1>2, <1>3
<1>6. SavedClosed'
  BY <1>5 DEF ClosingInv, SavedClosed
<1>7. ASSUME NEW o \in Orders \ missed' PROVE EpochOK(o)' /\ CancelOK(o)' /\ FillOK(o)'
  <2>1. EpochOK(o) /\ CancelOK(o) /\ FillOK(o) /\ o \in Orders
    BY <1>1 DEF ClosingInv
  <2>2. o = x /\ ~saved.cancelled => Passed(o) /\ Blind(o)
    BY <1>1 DEF Passed, Blind
  <2>3. OpenRow(o)' => \/ OpenRow(o) /\ row'[o] = row[o]
                       \/ o = x /\ ~saved.cancelled /\ row'[o].filled = saved.filled
    BY <1>4, <1>5 DEF OpenRow
  <2>4. /\ Passed(o)' => Passed(o)
        /\ Blind(o)' => Blind(o)
        /\ \A s \in Nat : Short(o, s)' => Short(o, s)
    BY <1>1, <1>5 DEF Passed, Blind, Short
  <2>5. EpochOK(o)'
    BY <1>1, <2>1, <2>2, <2>3, <2>4, EpochFrame
  <2>6. CancelOK(o)'
    BY <1>1, <2>1, <2>2, <2>3, <2>4, CancelFrame
  <2>7. ASSUME NEW s \in Nat, ~Short(o, s)
        PROVE  OpenRow(o)' => (OpenRow(o) /\ row'[o].filled = row[o].filled) \/ s <= row'[o].filled
    <3>1. o = x => ~(saved.filled < s)
      BY <1>1, <2>7 DEF Short
    <3> QED BY <1>3, <2>3, <3>1
  <2>8. FillOK(o)'
    BY <1>1, <2>1, <2>4, <2>7, FillFrame
  <2> QED BY <2>5, <2>6, <2>8
<1> QED BY <1>6, <1>7 DEF ClosingInv

\* The cancel-up-to indexer takes an epoch.
LEMMA EpochTakeCloses ==
  ASSUME PInv, ClosingInv, NEW w \in CancelWorkers, EpochTake(w) PROVE ClosingInv'
<1> DEFINE h == Head(epochs)
<1>1. /\ UNCHANGED <<row, epoch, indexing, filling, chain, events, records, recorded, missed, msg>>
      /\ epochs # <<>> /\ epochs' = Tail(epochs)
      /\ cancelling[w] = <<>> /\ cancelling' = [cancelling EXCEPT ![w] = <<h, "save", epoch = 0>>]
  BY DEF EpochTake, RecordCancellation, exchange, history
<1>2. epochs \in Seq(1..chain.epoch)
      /\ cancelling \in [CancelWorkers -> ((1..MaxEpoch) \X {"save", "mark"} \X BOOLEAN) \cup {<<>>}]
  BY DEF PInv, FeedInv, IndexInv, CancellingInv
<1>3. \A e : In(epochs, e) => e = h \/ In(epochs', e)
  BY <1>1, <1>2, InTail
<1>4. /\ cancelling'[w] # <<>> /\ cancelling'[w][1] = h /\ cancelling'[w][2] = "save"
      /\ \A v \in CancelWorkers : cancelling[v] # <<>> => cancelling'[v] = cancelling[v]
  BY <1>1, <1>2
<1>5. SavedClosed'
  BY <1>1, SameCopies DEF ClosingInv
<1> HIDE DEF h
<1>6. ASSUME NEW o \in Orders \ missed' PROVE EpochOK(o)' /\ CancelOK(o)' /\ FillOK(o)'
  <2>1. EpochOK(o) /\ CancelOK(o) /\ FillOK(o) /\ o \in Orders
    BY <1>1 DEF ClosingInv
  <2>2. OpenRow(o)' = OpenRow(o) /\ Passed(o)' = Passed(o) /\ Blind(o)' = Blind(o)
        /\ \A s \in Nat : Short(o, s)' <=> Short(o, s)
    BY <1>1, <2>1, SameCopies DEF OpenRow, Passed, Blind
  <2>3. CancelOK(o)'
    BY <1>1, <2>1, <2>2, CancelFrame
  <2>4. FillOK(o)'
    BY <1>1, <2>1, <2>2, FillFrame
  <2>5. EpochOK(o)'
    <3>1. \A e : In(epochs, e)' <=> In(epochs', e)
      BY DEF In
    <3>2. ASSUME NEW e \in 1..chain'.epoch, e > Salt[o] PROVE SavedEpoch(e)'
      <4>1. SavedEpoch(e)
        BY <1>1, <2>1, <3>2 DEF EpochOK
      <4>2. CASE e = h
        BY <1>4, <4>2 DEF SavedEpoch
      <4>3. CASE e # h
        BY <1>1, <1>3, <1>4, <3>1, <4>1, <4>3 DEF SavedEpoch
      <4> QED BY <4>2, <4>3
    <3>3. PendingEpoch(o) => PendingEpoch(o)'
      <4>1. ASSUME NEW e \in 1..chain.epoch, In(epochs, e), e > Salt[o] PROVE PendingEpoch(o)'
        <5>1. CASE e = h
          BY <1>4, <4>1, <5>1 DEF PendingEpoch
        <5>2. CASE e # h
          BY <1>1, <1>3, <3>1, <4>1, <5>2 DEF PendingEpoch
        <5> QED BY <5>1, <5>2
      <4> QED BY <1>4, <4>1 DEF PendingEpoch
    <3> QED BY <1>1, <2>1, <2>2, <3>2, <3>3 DEF EpochOK
  <2> QED BY <2>3, <2>4, <2>5
<1> QED BY <1>5, <1>6 DEF ClosingInv

\* An epoch that a worker loses does not matter to orders above it.
LEMMA EpochDropped ==
  ASSUME PInv, NEW o \in Orders, EpochOK(o), NEW w \in CancelWorkers,
         cancelling[w] # <<>>, ~(Salt[o] < cancelling[w][1]),
         cancelling' = [cancelling EXCEPT ![w] = <<>>],
         UNCHANGED <<epochs, epoch, chain>>, OpenRow(o)' = OpenRow(o), Passed(o)' = Passed(o)
  PROVE  EpochOK(o)'
<1>1. /\ cancelling \in [CancelWorkers -> ((1..MaxEpoch) \X {"save", "mark"} \X BOOLEAN) \cup {<<>>}]
      /\ cancelling[w][1] \in Nat /\ Salt[o] \in Nat
  BY AmountAssumption DEF PInv, IndexInv, CancellingInv
<1>2. \A v \in CancelWorkers : v # w => cancelling'[v] = cancelling[v]
  BY <1>1
<1>3. \A e : In(epochs, e)' <=> In(epochs, e)
  BY DEF In
<1>4. ASSUME NEW e \in 1..chain'.epoch, e > Salt[o] PROVE SavedEpoch(e)'
  <2>1. SavedEpoch(e) /\ e # cancelling[w][1]
    BY <1>1, <1>4 DEF EpochOK
  <2> QED BY <1>2, <1>3, <2>1 DEF SavedEpoch
<1>5. PendingEpoch(o) => PendingEpoch(o)'
  <2>1. \A v \in CancelWorkers : cancelling[v] # <<>> /\ cancelling[v][1] > Salt[o] => v # w
    BY <1>1
  <2> QED BY <1>2, <1>3, <2>1 DEF PendingEpoch
<1> QED BY <1>4, <1>5 DEF EpochOK

\* FirstOrCreate: an epoch that is saved does not take the table back, unless
\* every order is in missed.
LEMMA EpochSaveCloses ==
  ASSUME PInv, ClosingInv, NEW w \in CancelWorkers, EpochSave(w) PROVE ClosingInv'
<1>1. /\ UNCHANGED <<row, indexing, filling, chain, events, records, epochs, recorded, msg>>
      /\ cancelling[w] # <<>> /\ missed \subseteq missed'
  BY DEF EpochSave, CancelSave, exchange, feed, Miss
<1>2. cancelling \in [CancelWorkers -> ((1..MaxEpoch) \X {"save", "mark"} \X BOOLEAN) \cup {<<>>}]
      /\ epoch \in Nat /\ rejected \in Nat
  BY BoundAssumption DEF PInv, IndexInv, CancellingInv, CounterInv
<1>3. SavedClosed'
  BY <1>1, SameCopies DEF ClosingInv
<1>4. ASSUME NEW o \in Orders \ missed' PROVE EpochOK(o)' /\ CancelOK(o)' /\ FillOK(o)'
  <2>1. EpochOK(o) /\ CancelOK(o) /\ FillOK(o) /\ o \in Orders
    BY <1>1 DEF ClosingInv
  <2>2. OpenRow(o)' = OpenRow(o) /\ Passed(o)' = Passed(o) /\ Blind(o)' = Blind(o)
        /\ \A s \in Nat : Short(o, s)' <=> Short(o, s)
    BY <1>1, <2>1, SameCopies DEF OpenRow, Passed, Blind
  <2>3. CancelOK(o)'
    BY <1>1, <2>1, <2>2, CancelFrame
  <2>4. FillOK(o)'
    BY <1>1, <2>1, <2>2, FillFrame
  <2>5. /\ epoch' < epoch => ~(Salt[o] < epoch)
        /\ rejected' # rejected => ~(Salt[o] < cancelling[w][1])
    BY <1>4, <2>1 DEF EpochSave, Miss
  <2> CASE rejected' # rejected
    <3>1. cancelling' = [cancelling EXCEPT ![w] = <<>>] /\ epoch' = epoch
      BY <1>2 DEF EpochSave, CancelSave
    <3> QED BY <1>1, <1>2, <2>1, <2>2, <2>3, <2>4, <2>5, <3>1, EpochDropped
  <2> SUFFICES ASSUME rejected' = rejected PROVE EpochOK(o)' /\ CancelOK(o)' /\ FillOK(o)'
    OBVIOUS
  <2>6. cancelling' = [cancelling EXCEPT ![w][2] = "mark"] /\ epoch' = cancelling[w][1]
    BY <1>2 DEF EpochSave, CancelSave
  <2>7. /\ cancelling'[w] # <<>> /\ cancelling'[w][1] = cancelling[w][1]
        /\ \A v \in CancelWorkers : v # w => cancelling'[v] = cancelling[v]
        /\ epoch' \in Nat
    BY <1>1, <1>2, <2>6
  <2>8. EpochOK(o)'
    <3>1. \A e : In(epochs, e)' <=> In(epochs, e)
      BY <1>1 DEF In
    <3>2. ASSUME NEW e \in 1..chain'.epoch, e > Salt[o] PROVE SavedEpoch(e)'
      <4>1. SavedEpoch(e)
        BY <1>1, <2>1, <3>2 DEF EpochOK
      <4>2. CASE e = cancelling[w][1]
        BY <2>6, <2>7, <4>2 DEF SavedEpoch
      <4>3. CASE e # cancelling[w][1] /\ ~(e <= epoch)
        BY <2>7, <3>1, <4>1, <4>3 DEF SavedEpoch
      <4>4. CASE e <= epoch
        <5>1. ~(epoch' < epoch)
          BY <1>2, <2>1, <2>5, <3>2, <4>4, AmountAssumption
        <5> QED BY <1>2, <2>7, <4>4, <5>1 DEF SavedEpoch
      <4> QED BY <4>2, <4>3, <4>4
    <3>3. PendingEpoch(o) => PendingEpoch(o)'
      BY <1>1, <2>7, <3>1 DEF PendingEpoch
    <3> QED BY <1>1, <2>1, <2>2, <3>2, <3>3 DEF EpochOK
  <2> QED BY <2>3, <2>4, <2>8
<1> QED BY <1>3, <1>4 DEF ClosingInv

\* The UPDATE of RecordCancellation closes every open row below its epoch; an
\* order with a copy that has passed the filter is in missed.
LEMMA EpochMarkCloses ==
  ASSUME PInv, ClosingInv, NEW w \in CancelWorkers, EpochMark(w) PROVE ClosingInv'
<1> DEFINE h == cancelling[w][1]
<1>1. /\ UNCHANGED <<epoch, indexing, filling, chain, events, records, epochs, recorded, msg>>
      /\ cancelling[w] # <<>> /\ cancelling[w][2] = "mark"
      /\ cancelling' = [cancelling EXCEPT ![w] = <<>>]
      /\ missed' = missed \cup StaleEpoch
  BY DEF EpochMark, CancelMark, exchange, feed, Miss
<1>2. /\ cancelling \in [CancelWorkers -> ((1..MaxEpoch) \X {"save", "mark"} \X BOOLEAN) \cup {<<>>}]
      /\ row \in [Orders -> Rows \cup {NoRow}]
      /\ chain.epoch \in Nat
  BY BoundAssumption DEF PInv, IndexInv, CancellingInv, RowInv, ChainInv
<1>3. \A v \in CancelWorkers : v # w => cancelling'[v] = cancelling[v]
  BY <1>1, <1>2
<1>4. ASSUME NEW o \in Orders
      PROVE  OpenRow(o)' => OpenRow(o) /\ row'[o] = row[o] /\ ~(Salt[o] < h)
  <2>1. row'[o] = IF row[o] # NoRow /\ row[o].status = StatusOpen /\ Salt[o] < h
                  THEN [row[o] EXCEPT !.status = StatusCancelled] ELSE row[o]
    BY DEF EpochMark, CancelMark
  <2>2. row[o] \in Rows => [row[o] EXCEPT !.status = StatusCancelled].status = StatusCancelled
    BY DEF Rows
  <2> QED BY <1>2, <2>1, <2>2 DEF OpenRow, StatusOpen, StatusCancelled
<1>5. SavedClosed'
  BY <1>1 DEF ClosingInv, SavedClosed
<1>6. ASSUME NEW o \in Orders \ missed' PROVE EpochOK(o)' /\ CancelOK(o)' /\ FillOK(o)'
  <2>1. EpochOK(o) /\ CancelOK(o) /\ FillOK(o) /\ o \in Orders /\ Salt[o] \in Nat
    BY <1>1, AmountAssumption DEF ClosingInv
  <2>2. /\ Passed(o)' <=> Passed(o)
        /\ Blind(o)' <=> Blind(o)
        /\ \A s \in Nat : Short(o, s)' <=> Short(o, s)
    BY <1>1 DEF Passed, Blind, Short
  <2>3. CancelOK(o)'
    BY <1>1, <1>4, <2>1, <2>2, CancelFrame
  <2>4. FillOK(o)'
    BY <1>1, <1>4, <2>1, <2>2, FillFrame
  <2>5. Salt[o] < chain.epoch => ~Passed(o)
    BY <1>1, <2>1 DEF StaleEpoch, Passed
  <2>6. EpochOK(o)'
    <3>1. \A e : In(epochs, e)' <=> In(epochs, e)
      BY <1>1 DEF In
    <3>2. ASSUME NEW e \in 1..chain'.epoch, e > Salt[o] PROVE SavedEpoch(e)'
      <4>1. SavedEpoch(e)
        BY <1>1, <2>1, <3>2 DEF EpochOK
      <4>2. ASSUME NEW v \in CancelWorkers, cancelling[v] # <<>>, cancelling[v][1] = e, cancelling[v][2] = "save"
            PROVE  SavedEpoch(e)'
        <5>1. v # w
          BY <1>1, <4>2
        <5> QED BY <1>3, <4>2, <5>1 DEF SavedEpoch
      <4> QED BY <1>1, <3>1, <4>1, <4>2 DEF SavedEpoch
    <3>3. PendingEpoch(o) /\ ~(Salt[o] < h) => PendingEpoch(o)'
      <4>1. h \in Nat
        BY <1>1, <1>2
      <4>2. ASSUME NEW v \in CancelWorkers, cancelling[v] # <<>>, cancelling[v][1] > Salt[o], ~(Salt[o] < h)
            PROVE  PendingEpoch(o)'
        <5>1. v # w
          BY <2>1, <4>1, <4>2
        <5> QED BY <1>3, <4>2, <5>1 DEF PendingEpoch
      <4> QED BY <1>1, <3>1, <4>2 DEF PendingEpoch
    <3>4. Salt[o] < chain'.epoch /\ ~PendingEpoch(o)' => ~OpenRow(o)' /\ ~Passed(o)'
      BY <1>1, <1>4, <2>1, <2>2, <2>5, <3>3 DEF EpochOK
    <3> QED BY <3>2, <3>4 DEF EpochOK
  <2> QED BY <2>3, <2>4, <2>6
<1> QED BY <1>5, <1>6 DEF ClosingInv

\* No copy of an order that is not stale says less than the chain.
LEMMA NotStale ==
  ASSUME NEW o \in Orders, o \notin StaleFill, NEW s \in Nat, s <= chain.filled[o], chain.filled[o] \in Nat
  PROVE  ~Short(o, s) /\ (chain.cancelled[o] => ~Blind(o))
BY DEF StaleFill, Short, Blind

\* The fill indexer takes a record: what it is of goes from the queue to the
\* worker, or was never in the index.
LEMMA RecordTakeCloses ==
  ASSUME PInv, ClosingInv, NEW w \in FillWorkers, RecordTake(w) PROVE ClosingInv'
<1> DEFINE e == Head(records.pg)
           x == e[1]
<1>1. /\ UNCHANGED <<row, epoch, indexing, cancelling, chain, events, epochs, msg>>
      /\ records.pg # <<>> /\ filling[w] = <<>>
      /\ filling' = IF row[x] = NoRow THEN filling ELSE [filling EXCEPT ![w] = <<x, e[2], e[3], row[x]>>]
      /\ recorded' = recorded \cup {x} /\ missed' = missed \cup (StaleFill \cap {x})
  BY DEF RecordTake, RecordFill, exchange, Miss
<1>2. /\ records \in [in : Seq(Published), pg : Seq(Published)] /\ events \in Seq(Emitted)
      /\ records.pg \in Seq(Published) /\ records.in \in Seq(Published)
      /\ filling \in [FillWorkers -> (Orders \X (Fills \cup {0}) \X BOOLEAN \X Rows) \cup {<<>>}]
  BY DEF PInv, FeedInv, IndexInv, FillingInv
<1>3. records'.in = records.in /\ records'.pg = Tail(records.pg)
  BY <1>2 DEF RecordTake
<1>4. e \in Emitted /\ x \in Orders /\ e[2] \in Nat /\ e[3] \in BOOLEAN
  <2>1. e \in Emitted
    BY <1>1, <1>2 DEF Published
  <2>2. x \in Orders /\ e[3] \in BOOLEAN /\ Part(e, x) \in Nat
    BY <2>1, RecordParts DEF Emitted
  <2> QED BY <2>1, <2>2 DEF Part
<1>5. /\ \A v \in FillWorkers : filling[v] # <<>> => v # w /\ filling'[v] = filling[v]
      /\ \A v \in FillWorkers : filling'[v] # <<>> =>
           filling'[v] = filling[v] \/ (v = w /\ row[x] # NoRow)
      /\ row[x] # NoRow => /\ filling'[w] # <<>> /\ filling'[w][1] = x /\ filling'[w][2] = e[2]
                           /\ filling'[w][3] = e[3] /\ filling'[w][4] = row[x]
  BY <1>1, <1>2
<1>6. SavedClosed'
  BY <1>1, SameCopies DEF ClosingInv
<1>7. \A y : In(records.pg, y) => y = e \/ In(records'.pg, y)
  BY <1>1, <1>2, <1>3, InTail
<1> HIDE DEF e
<1>8. ASSUME NEW o \in Orders \ missed' PROVE EpochOK(o)' /\ CancelOK(o)' /\ FillOK(o)'
  <2>1. EpochOK(o) /\ CancelOK(o) /\ FillOK(o) /\ o \in Orders
    BY <1>1 DEF ClosingInv
  <2>2. OpenRow(o)' = OpenRow(o) /\ Passed(o)' = Passed(o) /\ Blind(o)' = Blind(o)
        /\ \A s \in Nat : Short(o, s)' <=> Short(o, s)
    BY <1>1, <2>1, SameCopies DEF OpenRow, Passed, Blind
  <2>3. EpochOK(o)'
    BY <1>1, <2>1, <2>2, EpochFrame
  <2>4. o = x => o \notin StaleFill /\ o \in recorded'
    BY <1>1
  <2>5. chain.filled[o] \in Nat /\ chain.filled[o] <= TakerAmount[o] /\ TakerAmount[o] \in Nat
    BY <2>1, AmountAssumption DEF PInv, ChainInv
  <2>6. \A v \in FillWorkers : Busy(v, o) => Busy(v, o)' /\ v # w /\ filling'[v] = filling[v]
    BY <1>5 DEF Busy
  <2>7. CancelOK(o)'
    <3>1. /\ In(events, Cancellation(o))' <=> In(events, Cancellation(o))
          /\ In(records.in, Cancellation(o))' <=> In(records.in, Cancellation(o))
          /\ In(records.pg, Cancellation(o))' <=> In(records'.pg, Cancellation(o))
      BY <1>1, <1>3 DEF In, Cancellation
    <3>2. In(records.pg, Cancellation(o)) => e = Cancellation(o) \/ In(records'.pg, Cancellation(o))
      BY <1>7
    <3>3. PendingCancel(o) => PendingCancel(o)' \/ e = Cancellation(o)
      BY <2>6, <3>1, <3>2 DEF PendingCancel
    <3>4. e = Cancellation(o) => x = o /\ e[3]
      BY DEF Cancellation
    <3>5. e = Cancellation(o) /\ row[o] # NoRow => PendingCancel(o)'
      BY <1>5, <3>4 DEF PendingCancel, Busy
    <3>6. o = x /\ chain.cancelled[o] => ~Blind(o)
      BY <2>1, <2>4, <2>5, NotStale
    <3>7. ASSUME chain'.cancelled[o], ~PendingCancel(o)' PROVE o \in recorded' /\ ~OpenRow(o)' /\ ~Blind(o)'
      <4>1. CASE e = Cancellation(o)
        BY <1>1, <2>2, <2>4, <3>4, <3>5, <3>6, <3>7, <4>1 DEF OpenRow
      <4>2. CASE e # Cancellation(o)
        BY <1>1, <2>1, <2>2, <3>3, <3>7, <4>2 DEF CancelOK
      <4> QED BY <4>1, <4>2
    <3> QED BY <3>7 DEF CancelOK
  <2>8. FillOK(o)'
    <3>1. PICK s, m, n \in Nat :
        /\ Spans(records.pg, o, s, m) /\ Spans(records.in, o, m, n)
        /\ Spans(events, o, n, chain.filled[o])
        /\ o \notin recorded => s = 0
        /\ ~Short(o, s)
        /\ OpenRow(o) => Covered(o, s)
        /\ \A v \in FillWorkers : Busy(v, o) => filling[v][2] <= TakerAmount[o] /\ o \in recorded
      BY <2>1 DEF FillOK
    <3>11. PICK a \in Nat : a = Part(e, o)
      BY <1>4 DEF Part
    <3>12. PICK t \in Nat : t = s + a
      OBVIOUS
    <3>2. a \in Nat /\ t \in Nat /\ (o = x => a = e[2]) /\ (o # x => a = 0)
      BY <3>11 DEF Part
    <3>3. t <= chain.filled[o]
      <4>1. s + a <= m
        BY <1>1, <1>2, <3>1, <3>11, SpansUp DEF e
      <4>2. m <= n /\ n <= chain.filled[o]
        BY <1>2, <3>1, SpansUp
      <4> QED BY <2>5, <3>12, <4>1, <4>2
    <3>4. Spans(Tail(records.pg), o, t, m)
      <4>1. Part(Head(records.pg), o) = a
        BY <3>11 DEF e
      <4>2. Spans(Tail(records.pg), o, s + Part(Head(records.pg), o), m)
        BY <1>1, <1>2, <3>1, <4>1, SpansTail
      <4> QED BY <3>12, <4>1, <4>2
    <3>5. \A q, lo, hi : Spans(q, o, lo, hi)' <=> Spans(q, o, lo, hi)
      BY DEF Spans, Part
    <3>6. /\ Spans(records.pg, o, t, m)' /\ Spans(records.in, o, m, n)'
          /\ Spans(events, o, n, chain.filled[o])'
      BY <1>1, <1>3, <3>1, <3>4, <3>5
    <3>7. ~Short(o, t)'
      <4>1. CASE o = x
        BY <2>2, <2>4, <2>5, <3>2, <3>3, <4>1, NotStale
      <4>2. CASE o # x
        <5>1. t = s
          BY <3>2, <3>12, <4>2
        <5> QED BY <2>2, <3>1, <5>1
      <4> QED BY <4>1, <4>2
    <3>8. o \notin recorded' => t = 0
      <4>1. CASE o = x
        BY <1>1, <4>1
      <4>2. CASE o # x
        BY <1>1, <3>1, <3>2, <3>12, <4>2
      <4> QED BY <4>1, <4>2
    <3>9. \A v \in FillWorkers : Busy(v, o)' => filling'[v][2] <= TakerAmount[o] /\ o \in recorded'
      <4> SUFFICES ASSUME NEW v \in FillWorkers, Busy(v, o)'
                   PROVE  filling'[v][2] <= TakerAmount[o] /\ o \in recorded'
        OBVIOUS
      <4>1. CASE filling'[v] = filling[v]
        <5>1. Busy(v, o)
          BY <4>1 DEF Busy
        <5>2. filling[v][2] <= TakerAmount[o] /\ o \in recorded
          BY <3>1, <5>1
        <5> QED BY <1>1, <4>1, <5>2
      <4>2. CASE v = w /\ row[x] # NoRow
        <5>1. filling'[v][1] = x /\ filling'[v][2] = e[2] /\ x = o
          BY <1>5, <4>2 DEF Busy
        <5>2. e[2] <= TakerAmount[o]
          BY <1>4, <2>5, <3>2, <3>3, <3>12, <5>1
        <5> QED BY <1>1, <5>1, <5>2
      <4> QED BY <1>5, <4>1, <4>2 DEF Busy
    <3>10. OpenRow(o)' => Covered(o, t)'
      <4> DEFINE r == row[o].filled
      <4> SUFFICES ASSUME OpenRow(o) PROVE Covered(o, t)'
        BY <2>2
      <4>1. row'[o].filled = r /\ r \in Nat
        <5>1. row[o] \in Rows
          BY <2>1 DEF OpenRow, PInv, IndexInv, RowInv
        <5> QED BY <1>1, <5>1 DEF Rows
      <4>2. Covered(o, s)
        BY <3>1
      <4>3. CASE o # x
        <5>1. t = s
          BY <3>2, <3>12, <4>3
        <5> QED BY <2>6, <4>1, <4>2, <5>1 DEF Covered
      <4>4. CASE o = x
        <5>1. /\ Busy(w, o)' /\ filling'[w][2] = a /\ filling'[w][4].filled = r
          BY <1>5, <3>2, <4>4 DEF Busy, OpenRow
        <5>2. CASE s <= r
          <6>1. t <= r + a
            BY <3>12, <4>1, <5>2
          <6> QED BY <4>1, <5>1, <6>1 DEF Covered
        <5>3. CASE \E v \in FillWorkers : Busy(v, o) /\ filling[v][4].filled < r
          BY <2>6, <4>1, <5>3 DEF Covered
        <5>4. ASSUME NEW v \in FillWorkers, Busy(v, o), filling[v][4].filled = r, s <= r + filling[v][2]
              PROVE  Covered(o, t)'
          <6>1. Busy(v, o)' /\ v # w /\ filling'[v] = filling[v] /\ filling[v][2] \in Nat
            <7>1. filling[v][2] \in Fills \cup {0}
              BY <1>2, <5>4 DEF Busy
            <7>2. Fills \cup {0} \subseteq Nat
              BY AmountAssumption
            <7> QED BY <2>6, <5>4, <7>1, <7>2
          <6>2. CASE filling[v][2] = 0
            BY <4>1, <5>2, <5>4, <6>2
          <6>3. CASE a = 0
            <7>1. t = s
              BY <3>12, <6>3
            <7> QED BY <4>1, <5>4, <6>1, <7>1 DEF Covered
          <6>4. CASE filling[v][2] > 0 /\ a > 0
            BY <4>1, <5>1, <5>4, <6>1, <6>4 DEF Covered
          <6> QED BY <3>2, <6>1, <6>2, <6>3, <6>4
        <5>5. CASE \E v, u \in FillWorkers : /\ v # u /\ Busy(v, o) /\ Busy(u, o)
                                   /\ filling[v][2] > 0 /\ filling[u][2] > 0
                                   /\ filling[v][4].filled = r /\ filling[u][4].filled = r
          BY <2>6, <4>1, <5>5 DEF Covered
        <5> QED BY <4>2, <5>2, <5>3, <5>4, <5>5 DEF Covered
      <4> QED BY <4>3, <4>4
    <3> QED BY <3>2, <3>6, <3>7, <3>8, <3>9, <3>10 DEF FillOK
  <2> QED BY <2>3, <2>7, <2>8
<1> QED BY <1>6, <1>8 DEF ClosingInv

\* RecordFill's UPDATE: an order that is not in missed has the row that the
\* worker has read, and no copy that says less than the chain.
LEMMA RecordSaveCloses ==
  ASSUME HalfWord, PInv, ClosingInv, NEW w \in FillWorkers, RecordSave(w) PROVE ClosingInv'
<1> DEFINE x == filling[w][1]
           a == filling[w][2]
           b == filling[w][3]
           old == filling[w][4]
           saved == Populated(x, Word256(old.filled + a), old.cancelled \/ b, old.status, old.status)
           u == [saved EXCEPT !.cancelled = row[x].cancelled]
<1>1. /\ UNCHANGED <<epoch, indexing, cancelling, chain, events, records, epochs, msg, recorded>>
      /\ filling[w] # <<>> /\ filling' = [filling EXCEPT ![w] = <<>>]
      /\ row' = [row EXCEPT ![x] = u]
      /\ missed' = missed \cup (StaleFill \cap {x}) \cup (IF row[x] # old THEN {x} ELSE {})
  <2>1. FillUpdate(w) /\ UNCHANGED <<exchange, feed, msg, recorded>>
        /\ Miss((StaleFill \cap {x}) \cup (IF row[x] # old THEN {x} ELSE {}))
    BY DEF RecordSave
  <2>2. Update(x, saved) /\ filling[w] # <<>> /\ filling' = [filling EXCEPT ![w] = <<>>]
        /\ UNCHANGED <<epoch, indexing, cancelling>>
    BY <2>1 DEF FillUpdate
  <2>3. row' = [row EXCEPT ![x] = u]
    BY <2>2 DEF Update
  <2>4. missed' = missed \cup (StaleFill \cap {x}) \cup (IF row[x] # old THEN {x} ELSE {})
    BY <2>1 DEF Miss
  <2> QED BY <2>1, <2>2, <2>3, <2>4 DEF exchange, feed
<1>2. /\ filling \in [FillWorkers -> (Orders \X (Fills \cup {0}) \X BOOLEAN \X Rows) \cup {<<>>}]
      /\ row \in [Orders -> Rows \cup {NoRow}]
  BY DEF PInv, IndexInv, FillingInv, RowInv
<1>3. /\ x \in Orders /\ a \in Nat /\ b \in BOOLEAN /\ old \in Rows
      /\ old.filled \in Nat /\ old.cancelled \in BOOLEAN /\ old.status \in 0..3
  <2>1. x \in Orders /\ a \in Fills \cup {0} /\ b \in BOOLEAN /\ old \in Rows
    BY <1>1, <1>2
  <2>2. Fills \cup {0} \subseteq Nat
    BY AmountAssumption
  <2> HIDE DEF x, a, b, old
  <2> QED BY <2>1, <2>2 DEF Rows
<1>4. /\ u.filled = Word256(old.filled + a) /\ u.status = saved.status
      /\ saved.status = StatusOpen => ~b /\ old.status = StatusOpen
  <2> DEFINE d == old.cancelled \/ b
             f == Word256(old.filled + a)
  <2>1. d \in BOOLEAN /\ f \in 0..Word-1
    BY <1>3, Reduced
  <2>2. saved = Populated(x, f, d, old.status, old.status)
    OBVIOUS
  <2> HIDE DEF x, a, b, old, saved
  <2>3. saved \in Rows /\ saved.filled = f
    <3> HIDE DEF d, f
    <3> QED BY <1>3, <2>1, <2>2, SavedSound
  <2>4. saved.status = StatusOpen => ~d /\ old.status = StatusOpen
    <3> HIDE DEF d, f
    <3> QED BY <2>2, SavedOpen
  <2>5. u.filled = saved.filled /\ u.status = saved.status
    BY <2>3 DEF Rows
  <2> QED BY <2>3, <2>4, <2>5
<1> HIDE DEF saved, u
<1>5. /\ \A v \in FillWorkers : v # w => filling'[v] = filling[v]
      /\ filling'[w] = <<>>
      /\ \A o \in Orders : row'[o] = IF o = x THEN u ELSE row[o]
  BY <1>1, <1>2, <1>3
<1>6. SavedClosed'
  BY <1>1 DEF ClosingInv, SavedClosed
<1>7. ASSUME NEW o \in Orders \ missed' PROVE EpochOK(o)' /\ CancelOK(o)' /\ FillOK(o)'
  <2>1. EpochOK(o) /\ CancelOK(o) /\ FillOK(o) /\ o \in Orders
    BY <1>1 DEF ClosingInv
  <2>2. o = x => o \notin StaleFill /\ row[o] = old
    BY <1>1
  <2>3. OpenRow(o)' => OpenRow(o) /\ (o = x => ~b)
    <3>1. NoRow \notin Rows
      BY RowAssumption
    <3> QED BY <1>3, <1>4, <1>5, <2>2, <3>1 DEF OpenRow
  <2>4. /\ Passed(o)' <=> Passed(o)
        /\ Blind(o)' <=> Blind(o)
        /\ \A s \in Nat : Short(o, s)' <=> Short(o, s)
    BY <1>1 DEF Passed, Blind, Short
  <2>5. EpochOK(o)'
    BY <1>1, <2>1, <2>3, <2>4, EpochFrame
  <2>6. chain.filled[o] \in Nat /\ TakerAmount[o] \in Nat
    BY <2>1, AmountAssumption DEF PInv, ChainInv
  <2>7. \A v \in FillWorkers : /\ v # w => filling'[v] = filling[v] /\ (Busy(v, o)' <=> Busy(v, o))
                               /\ Busy(v, o)' => v # w
    BY <1>5 DEF Busy
  <2>8. PICK s, m, n \in Nat :
        /\ Spans(records.pg, o, s, m) /\ Spans(records.in, o, m, n)
        /\ Spans(events, o, n, chain.filled[o])
        /\ o \notin recorded => s = 0
        /\ ~Short(o, s)
        /\ OpenRow(o) => Covered(o, s)
        /\ \A v \in FillWorkers : Busy(v, o) => filling[v][2] <= TakerAmount[o] /\ o \in recorded
    BY <2>1 DEF FillOK
  <2>9. CancelOK(o)'
    <3>1. /\ In(events, Cancellation(o))' <=> In(events, Cancellation(o))
          /\ In(records.in, Cancellation(o))' <=> In(records.in, Cancellation(o))
          /\ In(records.pg, Cancellation(o))' <=> In(records.pg, Cancellation(o))
      BY <1>1 DEF In, Cancellation
    <3>2. PendingCancel(o) => PendingCancel(o)' \/ (Busy(w, o) /\ b)
      BY <2>7, <3>1 DEF PendingCancel
    <3>3. Busy(w, o) => o = x /\ o \in recorded
      BY <2>8 DEF Busy
    <3>4. o = x /\ chain.cancelled[o] => ~Blind(o)
      BY <2>1, <2>2, <2>6, NotStale
    <3>5. ASSUME chain'.cancelled[o], ~PendingCancel(o)' PROVE o \in recorded' /\ ~OpenRow(o)' /\ ~Blind(o)'
      <4>1. CASE PendingCancel(o)
        BY <1>1, <2>3, <2>4, <3>2, <3>3, <3>4, <3>5, <4>1
      <4>2. CASE ~PendingCancel(o)
        BY <1>1, <2>1, <2>3, <2>4, <3>5, <4>2 DEF CancelOK
      <4> QED BY <4>1, <4>2
    <3> QED BY <3>5 DEF CancelOK
  <2>10. OpenRow(o)' => Covered(o, s)'
    <3> DEFINE r == row[o].filled
    <3> SUFFICES ASSUME OpenRow(o)' PROVE Covered(o, s)'
      OBVIOUS
    <3>1. OpenRow(o) /\ Covered(o, s)
      BY <2>3, <2>8
    <3>2. CASE o # x
      <4>1. row'[o] = row[o]
        BY <1>5, <3>2
      <4>2. \A v \in FillWorkers : Busy(v, o) => Busy(v, o)' /\ filling'[v] = filling[v]
        BY <2>7, <3>2 DEF Busy
      <4> QED BY <3>1, <4>1, <4>2 DEF Covered
    <3>3. CASE o = x
      <4>1. row[o] = old /\ r \in Nat
        BY <1>3, <2>2, <3>3
      <4>2. r < TakerAmount[o]
        <5>1. SoundRow(o, row[o])
          BY <2>1, <3>1 DEF OpenRow, PInv, IndexInv, RowInv
        <5>2. ~(IF TakerAmount[o] > 100 THEN 100 * r >= 99 * TakerAmount[o] ELSE r >= TakerAmount[o])
          BY <3>1, <5>1 DEF SoundRow, OpenRow
        <5> HIDE DEF r
        <5> QED BY <2>6, <4>1, <5>2
      <4>3. a <= TakerAmount[o]
        BY <1>1, <2>8, <3>3 DEF Busy
      <4>4. r + a \in 0..Word-1
        <5>1. 2 * TakerAmount[o] <= Word /\ Word \in Nat
          BY <2>1, AmountAssumption DEF HalfWord
        <5> HIDE DEF r, a
        <5> QED BY <1>3, <2>6, <4>1, <4>2, <4>3, <5>1
      <4>5. row'[o].filled = r + a
        <5>1. row'[o].filled = Word256(old.filled + a) /\ old.filled = r
          BY <1>4, <1>5, <3>3, <4>1
        <5>2. Word256(r + a) = r + a
          <6>1. r + a \in Int
            BY <1>3, <4>1
          <6> QED BY <4>4, <6>1, Reduced
        <5> QED BY <5>1, <5>2
      <4>6. filling[w][4].filled = r
        BY <4>1
      <4> HIDE DEF r, a
      <4>7. CASE s <= r
        <5>1. s <= r + a
          BY <1>3, <4>1, <4>7
        <5> QED BY <4>5, <5>1 DEF Covered
      <4>8. ASSUME NEW v \in FillWorkers, v # w, Busy(v, o), filling[v][4].filled = r, a > 0
            PROVE  Covered(o, s)'
        <5>1. Busy(v, o)' /\ filling'[v][4].filled < r + a
          BY <1>3, <2>7, <4>1, <4>8
        <5> QED BY <4>5, <5>1 DEF Covered
      <4>9. ASSUME NEW v \in FillWorkers, Busy(v, o), filling[v][4].filled < r PROVE Covered(o, s)'
        <5>1. v # w
          BY <4>1, <4>6, <4>9
        <5>2. filling[v][4].filled \in Nat
          <6>1. filling[v][4] \in Rows
            BY <1>2, <4>9 DEF Busy
          <6> QED BY <6>1 DEF Rows
        <5>3. Busy(v, o)' /\ filling'[v][4].filled < r + a
          BY <1>3, <2>7, <4>1, <4>9, <5>1, <5>2
        <5> QED BY <4>5, <5>3 DEF Covered
      <4>10. ASSUME NEW v \in FillWorkers, Busy(v, o), filling[v][4].filled = r, s <= r + filling[v][2]
             PROVE  Covered(o, s)'
        <5>1. CASE v = w
          BY <4>5, <4>10, <5>1 DEF Covered, a
        <5>2. CASE v # w /\ a = 0
          <6>1. Busy(v, o)' /\ filling'[v] = filling[v] /\ r + a = r
            BY <2>7, <4>1, <4>10, <5>2
          <6> QED BY <4>5, <4>10, <6>1 DEF Covered
        <5>3. CASE v # w /\ a > 0
          BY <4>8, <4>10, <5>3
        <5> QED BY <1>3, <5>1, <5>2, <5>3
      <4>11. ASSUME NEW v \in FillWorkers, NEW z \in FillWorkers, v # z, Busy(v, o), Busy(z, o),
                    filling[v][2] > 0, filling[z][2] > 0,
                    filling[v][4].filled = r, filling[z][4].filled = r
             PROVE  Covered(o, s)'
        <5>1. CASE a > 0
          <6>1. v # w \/ z # w
            BY <4>11
          <6> QED BY <4>8, <4>11, <5>1, <6>1
        <5>2. CASE a = 0
          <6>1. v # w /\ z # w /\ r + a = r
            BY <4>1, <4>11, <5>2 DEF a
          <6>2. Busy(v, o)' /\ Busy(z, o)' /\ filling'[v] = filling[v] /\ filling'[z] = filling[z]
            BY <2>7, <4>11, <6>1
          <6> QED BY <4>5, <4>11, <6>1, <6>2 DEF Covered
        <5> QED BY <1>3, <5>1, <5>2
      <4> QED BY <3>1, <4>7, <4>9, <4>10, <4>11 DEF Covered, r
    <3> QED BY <3>2, <3>3
  <2>11. FillOK(o)'
    <3>1. \A q, lo, hi : Spans(q, o, lo, hi)' <=> Spans(q, o, lo, hi)
      BY DEF Spans, Part
    <3>2. /\ Spans(records.pg, o, s, m)' /\ Spans(records.in, o, m, n)'
          /\ Spans(events, o, n, chain.filled[o])'
      BY <1>1, <2>8, <3>1
    <3>3. \A v \in FillWorkers : Busy(v, o)' => filling'[v][2] <= TakerAmount[o] /\ o \in recorded'
      BY <1>1, <2>7, <2>8
    <3>4. ~Short(o, s)' /\ (o \notin recorded' => s = 0)
      BY <1>1, <2>4, <2>8
    <3> QED BY <2>10, <3>2, <3>3, <3>4 DEF FillOK
  <2> QED BY <2>5, <2>9, <2>11
<1> QED BY <1>6, <1>7 DEF ClosingInv

\* The index's services lose what they have in hand: the orders it would have
\* closed are in missed.
LEMMA FaultCloses ==
  ASSUME PInv, ClosingInv,
         \/ EpochLost
         \/ \E w \in IndexWorkers : InsertFails(w)
         \/ \E w \in FillWorkers : RecordFails(w)
         \/ \E w \in CancelWorkers : EpochFails(w)
  PROVE  ClosingInv'
<1>1. /\ UNCHANGED <<row, epoch, chain, events, records, recorded, msg>>
      /\ missed \subseteq missed'
  BY DEF EpochLost, InsertFails, RecordFails, EpochFails, IndexFails, FillFails, CancelFails,
         vars, exchange, feed, history, Miss
<1>2. CASE EpochLost
  <2>1. /\ UNCHANGED <<indexing, filling, cancelling>> /\ epochs # <<>> /\ epochs' = Tail(epochs)
        /\ \A o \in Orders : Salt[o] < Head(epochs) => o \in missed'
    BY <1>2 DEF EpochLost, vars, Miss
  <2>2. epochs \in Seq(1..chain.epoch) /\ Head(epochs) \in Nat
    <3>1. epochs \in Seq(1..chain.epoch) /\ chain.epoch \in Nat
      BY BoundAssumption DEF PInv, FeedInv, ChainInv
    <3>2. Head(epochs) \in 1..chain.epoch
      BY <2>1, <3>1
    <3> QED BY <3>1, <3>2
  <2>3. \A e : In(epochs, e) => e = Head(epochs) \/ In(epochs, e)'
    <3>1. \A e : In(epochs, e)' <=> In(epochs', e)
      BY DEF In
    <3> QED BY <2>1, <2>2, <3>1, InTail
  <2>4. SavedClosed'
    BY <1>1, <2>1, SameCopies DEF ClosingInv
  <2>5. ASSUME NEW o \in Orders \ missed' PROVE EpochOK(o)' /\ CancelOK(o)' /\ FillOK(o)'
    <3>1. EpochOK(o) /\ CancelOK(o) /\ FillOK(o) /\ o \in Orders /\ Salt[o] \in Nat
      BY <1>1, AmountAssumption DEF ClosingInv
    <3>2. OpenRow(o)' = OpenRow(o) /\ Passed(o)' = Passed(o) /\ Blind(o)' = Blind(o)
          /\ \A s \in Nat : Short(o, s)' <=> Short(o, s)
      BY <1>1, <2>1, <3>1, SameCopies DEF OpenRow, Passed, Blind
    <3>3. CancelOK(o)'
      BY <1>1, <2>1, <3>1, <3>2, CancelFrame
    <3>4. FillOK(o)'
      BY <1>1, <2>1, <3>1, <3>2, FillFrame
    <3>5. ~(Head(epochs) > Salt[o])
      BY <2>1, <2>2, <2>5, <3>1
    <3>6. ASSUME NEW e \in 1..chain'.epoch, e > Salt[o] PROVE SavedEpoch(e)'
      <4>1. SavedEpoch(e) /\ e # Head(epochs)
        BY <1>1, <3>1, <3>5, <3>6 DEF EpochOK
      <4> QED BY <1>1, <2>1, <2>3, <4>1 DEF SavedEpoch
    <3>7. PendingEpoch(o) => PendingEpoch(o)'
      BY <1>1, <2>1, <2>3, <3>5 DEF PendingEpoch
    <3>8. EpochOK(o)'
      BY <1>1, <3>1, <3>2, <3>6, <3>7 DEF EpochOK
    <3> QED BY <3>3, <3>4, <3>8
  <2> QED BY <2>4, <2>5 DEF ClosingInv
<1>3. ASSUME NEW w \in IndexWorkers, InsertFails(w) PROVE ClosingInv'
  <2>1. /\ indexing' = [indexing EXCEPT ![w] = <<>>]
        /\ UNCHANGED <<filling, cancelling, epochs, missed>>
    BY <1>3 DEF InsertFails, IndexFails, feed, history
  <2>2. \A v \in IndexWorkers : indexing'[v] = <<>> \/ indexing'[v] = indexing[v]
    BY <2>1 DEF PInv, IndexInv, IndexingInv
  <2>3. SavedClosed'
    BY <2>2 DEF ClosingInv, SavedClosed
  <2>4. ASSUME NEW o \in Orders \ missed' PROVE EpochOK(o)' /\ CancelOK(o)' /\ FillOK(o)'
    <3>1. EpochOK(o) /\ CancelOK(o) /\ FillOK(o) /\ o \in Orders
      BY <1>1 DEF ClosingInv
    <3>2. /\ OpenRow(o)' <=> OpenRow(o)
          /\ Passed(o)' => Passed(o)
          /\ Blind(o)' => Blind(o)
          /\ \A s \in Nat : Short(o, s)' => Short(o, s)
      BY <1>1, <2>2 DEF OpenRow, Passed, Blind, Short
    <3>3. EpochOK(o)'
      BY <1>1, <2>1, <3>1, <3>2, EpochFrame
    <3>4. CancelOK(o)'
      BY <1>1, <2>1, <3>1, <3>2, CancelFrame
    <3>5. FillOK(o)'
      BY <1>1, <2>1, <3>1, <3>2, FillFrame
    <3> QED BY <3>3, <3>4, <3>5
  <2> QED BY <2>3, <2>4 DEF ClosingInv
<1>4. ASSUME NEW w \in FillWorkers, RecordFails(w) PROVE ClosingInv'
  <2>1. /\ filling' = [filling EXCEPT ![w] = <<>>] /\ filling[w][1] \in missed'
        /\ UNCHANGED <<indexing, cancelling, epochs>>
    BY <1>4 DEF RecordFails, FillFails, feed, Miss
  <2>2. SavedClosed'
    BY <1>1, <2>1, SameCopies DEF ClosingInv
  <2>3. ASSUME NEW o \in Orders \ missed' PROVE EpochOK(o)' /\ CancelOK(o)' /\ FillOK(o)'
    <3>1. EpochOK(o) /\ CancelOK(o) /\ FillOK(o) /\ o \in Orders
      BY <1>1 DEF ClosingInv
    <3>2. OpenRow(o)' = OpenRow(o) /\ Passed(o)' = Passed(o) /\ Blind(o)' = Blind(o)
          /\ \A s \in Nat : Short(o, s)' <=> Short(o, s)
      BY <1>1, <2>1, <3>1, SameCopies DEF OpenRow, Passed, Blind
    <3>3. EpochOK(o)'
      BY <1>1, <2>1, <3>1, <3>2, EpochFrame
    <3>4. \A v \in FillWorkers : /\ Busy(v, o)' <=> Busy(v, o)
                                 /\ Busy(v, o) => filling'[v] = filling[v]
      <4>1. \A v \in FillWorkers : v # w => filling'[v] = filling[v]
        BY <2>1 DEF PInv, IndexInv, FillingInv
      <4>2. filling'[w] = <<>> /\ filling[w][1] # o
        BY <2>1, <2>3 DEF PInv, IndexInv, FillingInv
      <4> QED BY <4>1, <4>2 DEF Busy
    <3>5. CancelOK(o)'
      <4>1. PendingCancel(o) <=> PendingCancel(o)'
        <5>1. /\ In(events, Cancellation(o))' <=> In(events, Cancellation(o))
              /\ In(records.in, Cancellation(o))' <=> In(records.in, Cancellation(o))
              /\ In(records.pg, Cancellation(o))' <=> In(records.pg, Cancellation(o))
          BY <1>1 DEF In, Cancellation
        <5> QED BY <3>4, <5>1 DEF PendingCancel
      <4> QED BY <1>1, <3>1, <3>2, <4>1 DEF CancelOK
    <3>6. FillOK(o)'
      <4>1. \A q, lo, hi : Spans(q, o, lo, hi)' <=> Spans(q, o, lo, hi)
        BY DEF Spans, Part
      <4>2. \A s \in Nat : Covered(o, s) => Covered(o, s)'
        BY <1>1, <3>4 DEF Covered
      <4> QED BY <1>1, <3>1, <3>2, <3>4, <4>1, <4>2 DEF FillOK
    <3> QED BY <3>3, <3>5, <3>6
  <2> QED BY <2>2, <2>3 DEF ClosingInv
<1>5. ASSUME NEW w \in CancelWorkers, EpochFails(w) PROVE ClosingInv'
  <2>1. /\ cancelling[w] # <<>> /\ cancelling' = [cancelling EXCEPT ![w] = <<>>]
        /\ UNCHANGED <<indexing, filling, epochs>>
        /\ \A o \in Orders : Salt[o] < cancelling[w][1] => o \in missed'
    BY <1>5 DEF EpochFails, CancelFails, feed, Miss
  <2>2. SavedClosed'
    BY <1>1, <2>1, SameCopies DEF ClosingInv
  <2>3. ASSUME NEW o \in Orders \ missed' PROVE EpochOK(o)' /\ CancelOK(o)' /\ FillOK(o)'
    <3>1. EpochOK(o) /\ CancelOK(o) /\ FillOK(o) /\ o \in Orders
      BY <1>1 DEF ClosingInv
    <3>2. OpenRow(o)' = OpenRow(o) /\ Passed(o)' = Passed(o) /\ Blind(o)' = Blind(o)
          /\ \A s \in Nat : Short(o, s)' <=> Short(o, s)
      BY <1>1, <2>1, <3>1, SameCopies DEF OpenRow, Passed, Blind
    <3>3. EpochOK(o)'
      BY <1>1, <2>1, <2>3, <3>1, <3>2, EpochDropped
    <3>4. CancelOK(o)'
      BY <1>1, <2>1, <3>1, <3>2, CancelFrame
    <3>5. FillOK(o)'
      BY <1>1, <2>1, <3>1, <3>2, FillFrame
    <3> QED BY <3>3, <3>4, <3>5
  <2> QED BY <2>2, <2>3 DEF ClosingInv
<1> QED BY <1>2, <1>3, <1>4, <1>5

\* Nothing is filled or cancelled at first.
LEMMA InitCloses == PInit => ClosingInv
<1> SUFFICES ASSUME PInit PROVE ClosingInv
  OBVIOUS
<1>1. /\ \A w \in IndexWorkers : indexing[w] = <<>>
      /\ \A w \in FillWorkers : filling[w] = <<>>
      /\ \A o \in Orders : row[o] = NoRow
      /\ \A c \in Copies : msg[c] = <<>>
      /\ events = <<>> /\ records.in = <<>> /\ records.pg = <<>> /\ chain.epoch = 0
      /\ \A o \in Orders : chain.filled[o] = 0 /\ chain.cancelled[o] = FALSE
  BY DEF PInit, Init
<1>2. SavedClosed
  BY <1>1 DEF SavedClosed
<1>3. ASSUME NEW o \in Orders PROVE EpochOK(o) /\ CancelOK(o) /\ FillOK(o)
  <2>1. Salt[o] \in Nat
    BY AmountAssumption
  <2>2. ~OpenRow(o) /\ ~Passed(o) /\ ~Short(o, 0)
    BY <1>1 DEF OpenRow, Passed, Short
  <2>3. EpochOK(o)
    BY <1>1, <2>1, <2>2 DEF EpochOK
  <2>4. CancelOK(o)
    BY <1>1 DEF CancelOK
  <2>5. Spans(<<>>, o, 0, 0)
    BY SpansNothing
  <2>6. \A w \in FillWorkers : ~Busy(w, o)
    BY <1>1 DEF Busy
  <2>7. FillOK(o)
    BY <1>1, <2>2, <2>5, <2>6 DEF FillOK
  <2> QED BY <2>3, <2>4, <2>7
<1> QED BY <1>2, <1>3 DEF ClosingInv

\* A quiet pipeline has nothing on its way any more.
LEMMA QuietIsClosed == ASSUME PInv, ClosingInv PROVE ClosedLeavesBook
<1> SUFFICES ASSUME Quiet, NEW o \in Orders, row[o] # NoRow, row[o].status = StatusOpen, ~Live(o),
                    o \notin missed
             PROVE  FALSE
  BY DEF ClosedLeavesBook
<1>1. EpochOK(o) /\ CancelOK(o) /\ FillOK(o) /\ OpenRow(o)
  BY DEF ClosingInv, OpenRow
<1>2. /\ events = <<>> /\ records.in = <<>> /\ records.pg = <<>> /\ epochs = <<>>
      /\ \A w \in FillWorkers : ~Busy(w, o)
      /\ \A w \in CancelWorkers : cancelling[w] = <<>>
  BY DEF Quiet, Busy
<1>3. \A x : ~In(<<>>, x)
  BY InEmpty
<1>4. ~PendingEpoch(o) /\ ~PendingCancel(o)
  BY <1>2, <1>3 DEF PendingEpoch, PendingCancel
<1>5. ~(Salt[o] < chain.epoch) /\ ~chain.cancelled[o]
  BY <1>1, <1>4 DEF EpochOK, CancelOK
<1>6. chain.filled[o] \in Nat /\ TakerAmount[o] \in Nat /\ Salt[o] \in Nat /\ chain.epoch \in Nat
  BY AmountAssumption, BoundAssumption DEF PInv, ChainInv
<1>7. chain.filled[o] >= TakerAmount[o]
  BY <1>5, <1>6 DEF Live
<1>8. PICK s \in Nat : s = chain.filled[o] /\ Covered(o, s)
  <2>1. PICK s, m, n \in Nat :
    /\ Spans(records.pg, o, s, m) /\ Spans(records.in, o, m, n)
    /\ Spans(events, o, n, chain.filled[o])
    /\ OpenRow(o) => Covered(o, s)
    BY <1>1 DEF FillOK
  <2>2. s = m /\ m = n /\ n = chain.filled[o]
    BY <1>2, <2>1, SpansEmpty
  <2> QED BY <1>1, <2>1, <2>2
<1>9. s <= row[o].filled
  BY <1>2, <1>8 DEF Covered
<1>10. row[o].filled \in Nat /\ SoundRow(o, row[o])
  <2>1. row[o] \in Rows /\ SoundRow(o, row[o])
    BY DEF PInv, IndexInv, RowInv
  <2> QED BY <2>1 DEF Rows
<1>11. row[o].filled >= TakerAmount[o]
  BY <1>6, <1>7, <1>8, <1>9, <1>10
<1>12. IF TakerAmount[o] > 100 THEN 100 * row[o].filled >= 99 * TakerAmount[o]
                               ELSE row[o].filled >= TakerAmount[o]
  BY <1>6, <1>10, <1>11
<1> QED BY <1>10, <1>12 DEF SoundRow

\* What the pipeline is for, with any number of orders, copies, workers and
\* faults: once all queues are empty and all workers idle, an order that the
\* exchange can no longer fill is not Open in the index, unless one of the
\* races or losses that put it in missed has happened.  The hypothesis is
\* needed: abi.U256 wraps the sum (db/indexer.go:53), and an indexer that adds
\* a fill to an amount that has it already could otherwise wrap past the
\* threshold and leave a filled order Open.
THEOREM ClosedOrdersLeaveBook == HalfWord => (PSpec => []ClosedLeavesBook)
<1>1. ASSUME HalfWord, PInv, ClosingInv, [PNext]_pvars PROVE ClosingInv'
  <2>1. CASE Mine \/ MineEpoch
    BY <1>1, <2>1, MineCloses, MineEpochCloses
  <2>2. CASE MonitorFill \/ MonitorLoses \/ Relay \/ RelayFails
    BY <1>1, <2>2, FeedCloses
  <2>3. ASSUME NEW c \in Copies,
               \/ Submit(c) \/ OrderStep(c) \/ CancellationFilterFails(c)
               \/ \E what \in {"filled", "cancelled"} : LookFails(c, what)
        PROVE  ClosingInv'
    <3>1. CASE \E w \in IndexWorkers : IndexOrder(w, c)
      BY <1>1, <3>1, IndexOrderCloses
    <3>2. CASE ~\E w \in IndexWorkers : IndexOrder(w, c)
      BY <1>1, <2>3, <3>2, OrderCloses DEF OrderStep
    <3> QED BY <3>1, <3>2
  <2>4. CASE \/ UpdaterRestart \/ PoolFilterEnds \/ \E c \in Copies : CopyLost(c)
             \/ Save \/ TopicDeliver \/ TopicLose \/ UNCHANGED pvars
    BY <1>1, <2>4, OtherCloses
  <2>5. CASE IndexStep
    <3>1. ASSUME NEW w \in IndexWorkers, Insert(w) PROVE ClosingInv'
      BY <1>1, <3>1, InsertCloses
    <3>2. ASSUME NEW w \in FillWorkers, RecordTake(w) \/ RecordSave(w) PROVE ClosingInv'
      BY <1>1, <3>2, RecordTakeCloses, RecordSaveCloses
    <3>3. ASSUME NEW w \in CancelWorkers, EpochTake(w) \/ EpochSave(w) \/ EpochMark(w) PROVE ClosingInv'
      BY <1>1, <3>3, EpochTakeCloses, EpochSaveCloses, EpochMarkCloses
    <3> QED BY <2>5, <3>1, <3>2, <3>3 DEF IndexStep
  <2>6. CASE IndexFault
    BY <1>1, <2>6, FaultCloses, FeedCloses DEF IndexFault
  <2> QED BY <1>1, <2>1, <2>2, <2>3, <2>4, <2>5, <2>6 DEF PNext
<1> SUFFICES ASSUME HalfWord PROVE PSpec => []ClosedLeavesBook
  OBVIOUS
<1>2. PInv /\ ClosingInv /\ [PNext]_pvars => ClosingInv'
  BY <1>1
<1>3. PInv /\ ClosingInv => ClosedLeavesBook
  BY QuietIsClosed
<1> QED BY <1>2, <1>3, InitCloses, PipelineInductive, PTL DEF PSpec

=============================================================================
