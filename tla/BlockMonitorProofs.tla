------------------------- MODULE BlockMonitorProofs -------------------------
(***************************************************************************)
(* Proofs about BlockMonitor, for every block tree, ring buffer size and   *)
(* bound on the faults.                                                    *)
(***************************************************************************)
EXTENDS BlockMonitor, FiniteSetTheorems, WellFoundedInduction, TLAPS

\* Blocks that were emitted or that the monitor has a reason not to emit.
Known == published \cup fresh \cup resumed \cup lost

\* A block whose absent parent is explained.
Attached(b) == b \in cut \/ Number[b] = 0 \/ Parent[b] \in Known

Running == {"poll", "walk", "publish", "record"}

\* A running process has added a block; a walking one has a header.
HasBlock == /\ pc \in Running => ring[rhead] \in Blocks
            /\ pc = "walk" => header \in Blocks

\* Everything in the ring buffer is known, but for the block about to be
\* emitted; that one is attached.
RingKnown == \A i \in 0..Size-1 :
               \/ ring[i] \in Known \cup {NoBlock}
               \/ pc = "publish" /\ i = rhead

PendingAttached == pc = "publish" => Attached(ring[rhead])

PendingEmitted == pc = "record" => ring[rhead] \in published \cup lost

AllAttached == \A b \in published : Attached(b)

\* The inductive invariant.  NoGap alone is not inductive: that the parent of
\* a block about to be emitted is known follows from its being found in the
\* ring buffer, hence RingKnown; and the number Record writes is that of a
\* block emitted one step earlier, hence PendingEmitted.
IInv == /\ TypeOK /\ HasBlock /\ RingKnown /\ PendingAttached /\ PendingEmitted
        /\ AllAttached /\ RecordedWasPublished

\* A set of numbers has a least one: the intervals up to its members are
\* finite, and inclusion is well founded on finite sets.
LEMMA LeastNumber == ASSUME NEW T \in SUBSET Nat, T # {} PROVE \E n \in T : \A k \in T : n <= k
<1> DEFINE U == {0..n : n \in T}
<1>1. U \subseteq FiniteSubsetsOf(Nat) /\ U # {}
  <2>1. \A n \in T : IsFiniteSet(0..n)
    BY FS_Interval
  <2>2. \A n \in T : 0..n \in SUBSET Nat
    OBVIOUS
  <2> QED BY <2>1, <2>2 DEF FiniteSubsetsOf
<1>2. PICK x \in U : \A y \in U : <<y, x>> \notin StrictSubsetOrdering(Nat)
  <2> HIDE DEF U
  <2> QED BY <1>1, FS_StrictSubsetOrderingWellFounded, WFMin
<1>3. PICK n \in T : x = 0..n
  BY <1>2
<1>4. ASSUME NEW k \in T, k < n PROVE FALSE
  <2>1. 0..k \in U /\ 0..k \subseteq 0..n /\ n \in 0..n /\ n \notin 0..k /\ 0..n \subseteq Nat
    BY <1>4
  <2>2. <<0..k, 0..n>> \in StrictSubsetOrdering(Nat)
    BY <2>1 DEF StrictSubsetOrdering
  <2> QED BY <1>2, <1>3, <2>1, <2>2
<1> QED BY <1>4

USE SizeAssumption, TreeAssumption, NoBlockAssumption, BoundAssumption

\* Get(0) is the slot the head points to (block_ring_buffer.go:31-39).
LEMMA GetLast == ASSUME TypeOK PROVE Get(0) = ring[rhead]
BY DEF Get, TypeOK

\* What HashIndex finds is in some slot (block_ring_buffer.go:41-52).
LEMMA InRingSlot ==
  ASSUME TypeOK, NEW b, InRing(b)
  PROVE  \E k \in 0..Size-1 : ring[k] = b
<1>1. PICK i \in 0..Size-1 : Get(i) = b
  BY DEF InRing
<1>2. CASE rhead - i < 0
  <2>1. rhead - i + Size \in 0..Size-1
    BY <1>2 DEF TypeOK
  <2> QED BY <1>1, <1>2, <2>1 DEF Get
<1>3. CASE ~(rhead - i < 0)
  <2>1. rhead - i \in 0..Size-1
    BY <1>3 DEF TypeOK
  <2> QED BY <1>1, <1>3, <2>1 DEF Get
<1> QED BY <1>2, <1>3

\* The slot Add writes is one of the buffer's (block_ring_buffer.go:26-29).
LEMMA AddSlot ==
  ASSUME TypeOK
  PROVE  (rhead + 1) % Size \in 0..Size-1
BY DEF TypeOK

\* Process starts with nothing emitted and nothing recorded.
LEMMA InitIInv == Init => IInv
BY DEF Init, IInv, TypeOK, HasBlock, Running, RingKnown, PendingAttached,
       PendingEmitted, AllAttached, RecordedWasPublished, Attached, Known,
       EmptyRing, NoNumber

\* An ended process leaves an empty ring buffer and nothing pending.
LEMMA ExitIInv ==
  ASSUME IInv, NEW final \in {"down", "fatal"}, Exit(final),
         head' \in Blocks, UNCHANGED <<recorded, history, ignored>>,
         faults' \in 0..MaxFaults,
         published' = published \/ published' = published \cup {ring[rhead]},
         published' # published => ring[rhead] \in Blocks /\ pc = "publish"
  PROVE  IInv'
<1> USE DEF history
<1>1. TypeOK'
  BY DEF IInv, TypeOK, Exit, EmptyRing
<1>2. HasBlock' /\ PendingAttached' /\ PendingEmitted'
  BY DEF IInv, HasBlock, Running, PendingAttached, PendingEmitted, Exit
<1>3. RingKnown'
  BY DEF RingKnown, Exit, EmptyRing
<1>4. AllAttached'
  BY DEF IInv, AllAttached, PendingAttached, Attached, Known
<1>5. RecordedWasPublished'
  BY DEF IInv, RecordedWasPublished
<1> QED BY <1>1, <1>2, <1>3, <1>4, <1>5 DEF IInv

\* A start at a block of the node's chain keeps the invariant.
LEMMA StartIInv ==
  ASSUME IInv, NEW b \in Blocks, pc \in {"down", "fatal"}, StartAt(b),
         \/ fresh' = fresh \cup {b} /\ resumed' = resumed
         \/ resumed' = resumed \cup {b} /\ fresh' = fresh,
         ignored' \in 0..MaxIgnored
  PROVE  IInv'
<1> DEFINE k == (rhead + 1) % Size
<1>k. k \in 0..Size-1
  BY AddSlot DEF IInv
<1>r. rhead' = k /\ ring' = [ring EXCEPT ![k] = b]
  BY DEF StartAt, Add
<1>v. ring'[rhead'] = b
  BY <1>k, <1>r DEF IInv, TypeOK
<1> HIDE DEF k
<1>1. TypeOK'
  BY <1>k, <1>r DEF IInv, TypeOK, StartAt
<1>2. HasBlock' /\ PendingEmitted'
  BY <1>v DEF HasBlock, PendingEmitted, StartAt
<1>3. RingKnown'
  <2> SUFFICES ASSUME NEW i \in 0..Size-1
               PROVE  ring'[i] \in Known' \cup {NoBlock} \/ (pc' = "publish" /\ i = rhead')
    BY DEF RingKnown
  <2>1. CASE i = k
    BY <2>1, <1>v, <1>r DEF Known
  <2>2. CASE i # k
    <3>1. ring'[i] = ring[i]
      BY <2>2, <1>r, <1>k DEF IInv, TypeOK
    <3>2. ring[i] \in Known \cup {NoBlock} \/ (pc = "publish" /\ i = rhead)
      BY DEF IInv, RingKnown
    <3>3. Known \subseteq Known'
      BY DEF Known, StartAt
    <3> QED BY <3>1, <3>2, <3>3
  <2> QED BY <2>1, <2>2
<1>4. PendingAttached'
  BY <1>v DEF PendingAttached, Attached, StartAt
<1>5. AllAttached'
  BY DEF IInv, AllAttached, Attached, Known, StartAt
<1>6. RecordedWasPublished'
  BY DEF IInv, TypeOK, RecordedWasPublished, StartAt
<1> QED BY <1>1, <1>2, <1>3, <1>4, <1>5, <1>6 DEF IInv

\* Adding the header the walk ended at: its parent was found in the ring
\* buffer and is known, or it is the root, or it goes to cut.
LEMMA AddNextIInv == ASSUME IInv, AddNext PROVE IInv'
<1> DEFINE k == (rhead + 1) % Size
<1>k. k \in 0..Size-1
  BY AddSlot DEF IInv
<1>r. rhead' = k /\ ring' = [ring EXCEPT ![k] = header]
  BY DEF AddNext, Add
<1>h. header \in Blocks
  BY DEF AddNext, IInv, HasBlock
<1>v. ring'[rhead'] = header
  BY <1>k, <1>r DEF IInv, TypeOK
<1> HIDE DEF k
<1>s. Known' = Known /\ cut \subseteq cut'
  BY DEF AddNext, Known
<1>1. TypeOK'
  BY <1>k, <1>r, <1>h DEF IInv, TypeOK, AddNext
<1>2. HasBlock' /\ PendingEmitted'
  BY <1>v, <1>h DEF HasBlock, PendingEmitted, AddNext
<1>3. RingKnown'
  <2> SUFFICES ASSUME NEW i \in 0..Size-1, i # k
               PROVE  ring'[i] \in Known' \cup {NoBlock}
    BY <1>r DEF RingKnown, AddNext
  <2>1. ring'[i] = ring[i]
    BY <1>r, <1>k DEF IInv, TypeOK
  <2> QED BY <2>1, <1>s DEF IInv, RingKnown, AddNext
<1>4. PendingAttached'
  <2>1. CASE InRing(Parent[header])
    <3>1. Parent[header] \in Known
      <4>1. PICK j \in 0..Size-1 : ring[j] = Parent[header]
        BY <2>1, InRingSlot DEF IInv
      <4> QED BY <4>1, <1>h DEF IInv, RingKnown, AddNext
    <3> QED BY <3>1, <1>s, <1>v DEF PendingAttached, Attached
  <2>2. CASE ~InRing(Parent[header])
    BY <2>2, <1>v DEF PendingAttached, Attached, AddNext
  <2> QED BY <2>1, <2>2
<1>5. AllAttached'
  BY <1>s DEF IInv, AllAttached, Attached, AddNext
<1>6. RecordedWasPublished'
  BY DEF IInv, RecordedWasPublished, AddNext
<1> QED BY <1>1, <1>2, <1>3, <1>4, <1>5, <1>6 DEF IInv

\* The block about to be emitted is emitted, or lost to an ignored error.
LEMMA PublishIInv == ASSUME IInv, Publish \/ PublishIgnored PROVE IInv'
<1>g. Get(0) = ring[rhead] /\ ring[rhead] \in Blocks
  BY GetLast DEF IInv, HasBlock, Running, Publish, PublishIgnored
<1>s. /\ Known' = Known \cup {ring[rhead]}
      /\ UNCHANGED <<ring, rhead, cut, recorded>>
      /\ published \subseteq published' /\ lost \subseteq lost'
      /\ pc = "publish" /\ pc' = "record"
  BY <1>g DEF Publish, PublishIgnored, Known, history
<1>1. TypeOK'
  BY <1>g DEF IInv, TypeOK, Publish, PublishIgnored, Ignored, history
<1>2. HasBlock' /\ PendingEmitted' /\ PendingAttached'
  BY <1>g, <1>s DEF HasBlock, PendingEmitted, PendingAttached, Publish, PublishIgnored
<1>3. RingKnown'
  BY <1>s DEF IInv, RingKnown
<1>4. AllAttached'
  BY <1>g, <1>s DEF IInv, AllAttached, PendingAttached, Attached, Publish, PublishIgnored
<1>5. RecordedWasPublished'
  BY <1>s DEF IInv, RecordedWasPublished
<1> QED BY <1>1, <1>2, <1>3, <1>4, <1>5 DEF IInv

\* Every step of the node and of the monitor preserves the invariant.
LEMMA NextIInv == IInv /\ [Next]_vars => IInv'
<1> SUFFICES ASSUME IInv, [Next]_vars PROVE IInv'
  OBVIOUS
<1> USE DEF procVars, history
<1>1. CASE NewHead
  BY <1>1 DEF NewHead, IInv, TypeOK, HasBlock, RingKnown, PendingAttached, PendingEmitted,
              AllAttached, RecordedWasPublished, Attached, Known
<1>2. CASE StartRecorded
  <2>1. PICK b \in Blocks : StartAt(b) /\ resumed' = resumed \cup {b}
    BY <1>2 DEF StartRecorded, HeaderByNumber
  <2> QED BY <1>2, <2>1, StartIInv DEF StartRecorded, IInv, TypeOK
<1>3. CASE StartLatest
  <2>1. ignored' \in 0..MaxIgnored /\ head \in Blocks
    BY <1>3 DEF StartLatest, Ignored, IInv, TypeOK
  <2> QED BY <1>3, <2>1, StartIInv DEF StartLatest
<1>4. CASE Poll
  <2>1. header' \in Blocks
    BY <1>4 DEF Poll, HeaderByNumber
  <2> QED BY <1>4, <2>1 DEF Poll, IInv, TypeOK, HasBlock, Running, RingKnown,
             PendingAttached, PendingEmitted, AllAttached, RecordedWasPublished,
             Attached, Known
<1>5. CASE WalkBack
  <2>1. header \in Blocks /\ Parent[header] \in Blocks /\ counter + 1 \in 0..Size
    BY <1>5 DEF WalkBack, MustWalkBack, IInv, TypeOK, HasBlock
  <2> QED BY <1>5, <2>1 DEF WalkBack, IInv, TypeOK, HasBlock, Running, RingKnown,
             PendingAttached, PendingEmitted, AllAttached, RecordedWasPublished,
             Attached, Known
<1>6. CASE AlreadyExists
  <2>1. head' \in Blocks /\ faults' \in 0..MaxFaults
    BY <1>6 DEF AlreadyExists, IInv, TypeOK
  <2> QED BY <1>6, <2>1, ExitIInv DEF AlreadyExists
<1>7. CASE AddNext
  BY <1>7, AddNextIInv
<1>8. CASE Publish \/ PublishIgnored
  BY <1>8, PublishIInv
<1>9. CASE Record
  <2>1. Get(0) = ring[rhead] /\ ring[rhead] \in Blocks /\ Number[ring[rhead]] \in Nat
    BY <1>9, GetLast DEF Record, IInv, HasBlock, Running
  <2>2. RecordedWasPublished'
    BY <1>9, <2>1 DEF Record, RecordedWasPublished, PendingEmitted, IInv
  <2> QED BY <1>9, <2>1, <2>2 DEF Record, IInv, TypeOK, HasBlock, Running, RingKnown,
             PendingAttached, PendingEmitted, AllAttached, Attached, Known
<1>10. CASE PublishFails
  <2>1. /\ head' \in Blocks /\ faults' \in 0..MaxFaults
        /\ Get(0) = ring[rhead] /\ ring[rhead] \in Blocks
    BY <1>10, GetLast DEF PublishFails, Fault, IInv, TypeOK, HasBlock, Running
  <2> QED BY <1>10, <2>1, ExitIInv DEF PublishFails
<1>11. CASE Crash
  <2>1. head' \in Blocks /\ faults' \in 0..MaxFaults
    BY <1>11 DEF Crash, Fault, IInv, TypeOK
  <2> QED BY <1>11, <2>1, ExitIInv DEF Crash
<1>12. CASE UNCHANGED vars
  BY <1>12 DEF vars, IInv, TypeOK, HasBlock, RingKnown, PendingAttached, PendingEmitted,
               AllAttached, RecordedWasPublished, Attached, Known
<1> QED
  BY <1>1, <1>2, <1>3, <1>4, <1>5, <1>6, <1>7, <1>8, <1>9, <1>10, <1>11, <1>12
  DEF Next, Step

\* IInv is an invariant of the monitor.
THEOREM Invariance == Spec => []IInv
BY InitIInv, NextIInv, PTL DEF Spec

\* The ring buffer, the walk back and the recorder stay well typed: the walk
\* never counts past the buffer and Get never reads outside it.
THEOREM TypeCorrect == Spec => []TypeOK
<1>1. IInv => TypeOK
  BY DEF IInv
<1> QED BY <1>1, Invariance, PTL

\* The emitted chain has no gap, whatever the block tree, the reorgs, the
\* size of the buffer, and wherever the process dies (blocks.go:63-168).
THEOREM EmitsNoGap == Spec => []NoGap
<1>1. IInv => NoGap
  BY DEF IInv, AllAttached, Attached, Known, NoGap
<1> QED BY <1>1, Invariance, PTL

\* The number a restart resumes from is that of a block that was emitted, or
\* lost by a Redis error the code ignores (blocks.go:155-168), wherever the
\* process dies.
THEOREM RecorderBehindQueue == Spec => []RecordedWasPublished
<1>1. IInv => RecordedWasPublished
  BY DEF IInv
<1> QED BY <1>1, Invariance, PTL

-----------------------------------------------------------------------------
(* The walk back.  A ring buffer of Size blocks holds no block whose       *)
(* number is more than Size - 1 below its newest one, so a walk of Size    *)
(* parents has passed below all of them.                                   *)

\* The chain that ends in b, as the least set with b that is closed under
\* Parent: what a function that satisfies Chain's equation can be taken from.
Closed(b, S) == b \in S /\ \A x \in S : Number[x] > 0 => Parent[x] \in S
Least == [b \in Blocks |-> {c \in Blocks : \A S \in SUBSET Blocks : Closed(b, S) => c \in S}]

\* Least satisfies the equation that defines Chain.
LEMMA LeastEquation ==
  ASSUME NEW b \in Blocks
  PROVE  Least[b] = IF Number[b] = 0 THEN {b} ELSE {b} \cup Least[Parent[b]]
<1>p. Parent[b] \in Blocks /\ Number[b] \in Nat
  OBVIOUS
<1>b. b \in Least[b]
  BY DEF Least, Closed
<1>1. CASE Number[b] = 0
  <2>1. {b} \in SUBSET Blocks /\ Closed(b, {b})
    BY <1>1 DEF Closed
  <2>2. Least[b] \subseteq {b}
    BY <2>1 DEF Least
  <2> QED BY <1>1, <1>b, <2>2
<1>2. CASE Number[b] # 0
  <2> DEFINE S == {b} \cup Least[Parent[b]]
  <2>1. Least[Parent[b]] \subseteq Least[b]
    <3>1. ASSUME NEW T \in SUBSET Blocks, Closed(b, T) PROVE Closed(Parent[b], T)
      BY <1>2, <1>p, <3>1 DEF Closed
    <3> QED BY <1>p, <3>1 DEF Least
  <2>2. S \in SUBSET Blocks
    BY <1>p DEF Least
  <2>3. Closed(b, S)
    <3> SUFFICES ASSUME NEW x \in S, Number[x] > 0 PROVE Parent[x] \in S
      BY DEF Closed
    <3>1. CASE x = b
      BY <1>p, <3>1 DEF Least, Closed
    <3>2. CASE x \in Least[Parent[b]]
      <4>1. x \in Blocks /\ Parent[x] \in Blocks
        BY <1>p, <3>2 DEF Least
      <4>2. ASSUME NEW T \in SUBSET Blocks, Closed(Parent[b], T) PROVE Parent[x] \in T
        <5>1. x \in T
          BY <1>p, <3>2, <4>2 DEF Least
        <5> QED BY <4>2, <5>1 DEF Closed
      <4> QED BY <1>p, <4>1, <4>2 DEF Least
    <3> QED BY <3>1, <3>2
  <2>4. Least[b] \subseteq S
    BY <2>2, <2>3 DEF Least
  <2> QED BY <1>2, <1>b, <2>1, <2>4
<1> QED BY <1>1, <1>2

\* So Chain's recursion has a solution, and Chain is one.
LEMMA ChainEquation ==
  ASSUME NEW b \in Blocks
  PROVE  Chain[b] = IF Number[b] = 0 THEN {b} ELSE {b} \cup Chain[Parent[b]]
<1> DEFINE Solves(f) ==
      f = [x \in Blocks |-> IF Number[x] = 0 THEN {x} ELSE {x} \cup f[Parent[x]]]
<1>1. Least = [x \in Blocks |-> Least[x]]
  BY DEF Least
<1>2. Solves(Least)
  BY <1>1, LeastEquation
<1>3. Solves(CHOOSE f : Solves(f))
  BY <1>2
<1>4. Chain = CHOOSE f : Solves(f)
  BY DEF Chain
<1>5. Solves(Chain)
  BY <1>3, <1>4
<1> QED BY <1>5

\* The ancestors of a block have smaller numbers: a counterexample of least
\* number would have a parent that is one too.
LEMMA AncestorsBelow ==
  ASSUME NEW b \in Blocks, NEW c \in Chain[b], c # b
  PROVE  c \in Blocks /\ Number[c] < Number[b]
<1> DEFINE Below(x) == \A y \in Chain[x] : y = x \/ (y \in Blocks /\ Number[y] < Number[x])
           Bad == {n \in Nat : \E x \in Blocks : Number[x] = n /\ ~Below(x)}
<1>1. ASSUME Bad # {} PROVE FALSE
  <2>1. PICK n \in Bad : \A k \in Bad : n <= k
    <3> HIDE DEF Bad
    <3>1. Bad \in SUBSET Nat
      BY DEF Bad
    <3> QED BY <1>1, <3>1, LeastNumber
  <2>2. PICK x \in Blocks : Number[x] = n /\ ~Below(x)
    BY <2>1
  <2>3. n # 0 /\ Parent[x] \in Blocks /\ Number[x] = Number[Parent[x]] + 1 /\ Number[Parent[x]] \in Nat
    <3>1. Number[x] \in Nat /\ Parent[x] \in Blocks /\ Number[Parent[x]] \in Nat
      BY <2>2
    <3>2. Number[x] = 0 => Chain[x] = {x}
      BY <2>2, ChainEquation
    <3>3. Number[x] # 0
      BY <2>2, <3>2
    <3> QED BY <2>2, <3>1, <3>3
  <2>4. Below(Parent[x])
    BY <2>1, <2>2, <2>3
  <2>5. Chain[x] = {x} \cup Chain[Parent[x]]
    BY <2>2, <2>3, ChainEquation
  <2>6. Below(x)
    BY <2>3, <2>4, <2>5
  <2> QED BY <2>2, <2>6
<1>2. Below(b)
  <2>1. Number[b] \in Nat
    OBVIOUS
  <2> QED BY <1>1, <2>1
<1> QED BY <1>2

\* An ended process has no block.
EndedEmpty == pc \in {"down", "fatal"} => ring = EmptyRing

\* The number of the i-th last block is at most i below that of the last one.
RingBound == \A i \in 0..Size-1 :
               Get(i) # NoBlock => Number[Get(i)] >= Number[Get(0)] - i

\* The walk started above the last block and went down one number a step.
WalkNumber == pc = "walk" => Number[header] = Number[Get(0)] + 1 - counter

\* The inductive invariant of the walk back, on top of IInv.
WInv == EndedEmpty /\ RingBound /\ WalkNumber

\* Add makes b the last block and every other one the next older
\* (block_ring_buffer.go:26-39).
LEMMA AddShifts ==
  ASSUME TypeOK, NEW b \in Blocks, Add(b)
  PROVE  Get(0)' = b /\ \A i \in 1..Size-1 : Get(i)' = Get(i-1)
<1> DEFINE k == (rhead + 1) % Size
<1>1. k = IF rhead + 1 = Size THEN 0 ELSE rhead + 1
  <2>1. CASE rhead + 1 = Size
    <3>1. Size % Size = 0
      OBVIOUS
    <3> QED BY <2>1, <3>1
  <2>2. CASE rhead + 1 # Size
    <3>1. rhead + 1 \in 0..Size-1
      BY <2>2 DEF TypeOK
    <3>2. \A n \in 0..Size-1 : n % Size = n
      OBVIOUS
    <3> QED BY <2>2, <3>1, <3>2
  <2> QED BY <2>1, <2>2
<1>2. rhead' = k /\ ring' = [ring EXCEPT ![k] = b]
  BY DEF Add
<1> HIDE DEF k
<1>3. k \in 0..Size-1
  BY <1>1 DEF TypeOK
<1>4. Get(0)' = b
  BY <1>2, <1>3 DEF Get, TypeOK
<1>5. ASSUME NEW i \in 1..Size-1 PROVE Get(i)' = Get(i-1)
  <2> DEFINE j == IF k - i < 0 THEN k - i + Size ELSE k - i
  <2>1. j \in 0..Size-1 /\ j # k
    BY <1>3
  <2>2. j = IF rhead - (i-1) < 0 THEN rhead - (i-1) + Size ELSE rhead - (i-1)
    BY <1>1 DEF TypeOK
  <2>3. Get(i)' = ring'[j] /\ Get(i-1) = ring[j]
    BY <1>2, <2>2 DEF Get
  <2>4. ring'[j] = ring[j]
    <3> HIDE DEF j
    <3> QED BY <1>2, <1>3, <2>1 DEF TypeOK
  <2> QED BY <2>3, <2>4
<1> QED BY <1>4, <1>5

\* The index Get computes is one of the buffer's (block_ring_buffer.go:31-39).
LEMMA SlotIndex ==
  ASSUME NEW r \in 0..Size-1, NEW i \in 0..Size-1
  PROVE  (IF r - i < 0 THEN r - i + Size ELSE r - i) \in 0..Size-1
OBVIOUS

\* What Get reads is a slot's.
LEMMA GetSlot ==
  ASSUME TypeOK, NEW i \in 0..Size-1
  PROVE  Get(i) \in Blocks \cup {NoBlock}
BY DEF Get, TypeOK

\* Adding a block at most one above the last keeps the bound.
LEMMA AddKeepsBound ==
  ASSUME TypeOK, NEW b \in Blocks, Add(b), RingBound,
         ring = EmptyRing \/ (Get(0) \in Blocks /\ Number[b] <= Number[Get(0)] + 1)
  PROVE  RingBound'
<1>s. Get(0)' = b /\ \A i \in 1..Size-1 : Get(i)' = Get(i-1)
  BY AddShifts
<1> SUFFICES ASSUME NEW i \in 0..Size-1, Get(i)' # NoBlock
             PROVE  Number[Get(i)'] >= Number[Get(0)'] - i
  BY DEF RingBound
<1>1. CASE i = 0
  BY <1>1, <1>s
<1>2. CASE i # 0
  <2>1. i \in 1..Size-1 /\ i - 1 \in 0..Size-1
    BY <1>2
  <2>2. Get(i)' = Get(i-1) /\ Get(i-1) \in Blocks
    BY <1>s, <2>1, GetSlot
  <2>3. ring # EmptyRing
    BY <2>1, <2>2 DEF EmptyRing, Get, TypeOK
  <2>4. Number[Get(i-1)] >= Number[Get(0)] - (i-1)
    BY <2>1, <2>2 DEF RingBound
  <2>5. Number[Get(i-1)] \in Nat /\ Number[Get(0)] \in Nat /\ Number[b] \in Nat
    BY <2>2, <2>3
  <2>6. Number[Get(i-1)] >= Number[b] - i
    BY <2>3, <2>4, <2>5
  <2> QED BY <1>s, <2>2, <2>6
<1> QED BY <1>1, <1>2

\* An empty ring buffer keeps any bound.
LEMMA EmptyBound == ASSUME TypeOK, ring = EmptyRing PROVE RingBound
BY DEF RingBound, Get, EmptyRing, TypeOK

\* Every step of the node and of the monitor preserves the walk's invariant.
LEMMA NextWInv == IInv /\ IInv' /\ WInv /\ [Next]_vars => WInv'
<1> SUFFICES ASSUME IInv, IInv', WInv, [Next]_vars PROVE WInv'
  OBVIOUS
<1> USE DEF procVars, history
<1>t. TypeOK /\ TypeOK' /\ EndedEmpty /\ RingBound /\ WalkNumber
  BY DEF IInv, WInv
<1>g. pc \in Running => Get(0) \in Blocks
  BY <1>t, GetLast DEF IInv, HasBlock
<1>0. ASSUME UNCHANGED <<ring, rhead>>, pc' \in {"down", "fatal"} => pc \in {"down", "fatal"},
             pc' = "walk" => pc = "walk" /\ UNCHANGED <<header, counter>>
      PROVE  WInv'
  BY <1>t, <1>0 DEF WInv, EndedEmpty, RingBound, WalkNumber, Get
<1>e. ASSUME NEW final \in {"down", "fatal"}, Exit(final) PROVE WInv'
  <2>1. ring' = EmptyRing /\ pc' # "walk"
    BY <1>e DEF Exit, EmptyRing
  <2>2. RingBound'
    <3>1. rhead' \in 0..Size-1 /\ ring' = [i \in 0..Size-1 |-> NoBlock]
      BY <1>t, <2>1 DEF TypeOK, EmptyRing
    <3>2. ASSUME NEW i \in 0..Size-1 PROVE Get(i)' = NoBlock
      <4> DEFINE k == IF rhead' - i < 0 THEN rhead' - i + Size ELSE rhead' - i
      <4>1. k \in 0..Size-1
        BY <3>1, SlotIndex
      <4>2. Get(i)' = ring'[k]
        BY DEF Get
      <4> HIDE DEF k
      <4> QED BY <3>1, <4>1, <4>2
    <3> QED BY <3>2 DEF RingBound
  <2> QED BY <2>1, <2>2 DEF WInv, EndedEmpty, WalkNumber, EmptyRing
<1>s. ASSUME NEW b \in Blocks, pc \in {"down", "fatal"}, StartAt(b) PROVE WInv'
  <2>1. Add(b) /\ ring = EmptyRing /\ pc' \in {"publish", "poll"}
    BY <1>s, <1>t DEF StartAt, EndedEmpty
  <2>2. RingBound'
    BY <1>t, <2>1, AddKeepsBound
  <2> QED BY <2>1, <2>2 DEF WInv, EndedEmpty, WalkNumber
<1>1. CASE NewHead
  BY <1>1, <1>0 DEF NewHead
<1>2. CASE StartRecorded
  BY <1>2, <1>s DEF StartRecorded, HeaderByNumber
<1>3. CASE StartLatest
  BY <1>3, <1>s, <1>t DEF StartLatest, TypeOK
<1>4. CASE Poll
  <2>1. Number[header'] = Number[Get(0)] + 1 /\ counter' = 0 /\ pc' = "walk"
        /\ UNCHANGED <<ring, rhead>>
    BY <1>4 DEF Poll, HeaderByNumber
  <2>2. Number[Get(0)] \in Nat
    BY <1>4, <1>g DEF Poll, Running
  <2> QED BY <1>t, <2>1, <2>2 DEF WInv, EndedEmpty, RingBound, WalkNumber, Get
<1>5. CASE WalkBack
  <2>1. /\ pc = "walk" /\ pc' = "walk" /\ counter' = counter + 1 /\ header' = Parent[header]
        /\ header \in Blocks /\ Number[header] > 0 /\ UNCHANGED <<ring, rhead>>
    BY <1>5 DEF WalkBack, MustWalkBack, IInv, HasBlock
  <2>2. Number[header'] = Number[header] - 1 /\ counter \in Nat /\ Number[Get(0)] \in Nat
    BY <2>1, <1>t, <1>g DEF Running, TypeOK
  <2>3. Number[header'] = Number[Get(0)] + 1 - counter'
    BY <2>1, <2>2, <1>t DEF WalkNumber
  <2> QED BY <1>t, <2>1, <2>3 DEF WInv, EndedEmpty, RingBound, WalkNumber, Get
<1>6. CASE AlreadyExists
  BY <1>6, <1>e DEF AlreadyExists
<1>7. CASE AddNext
  <2>1. Add(header) /\ header \in Blocks /\ pc = "walk" /\ pc' = "publish"
    BY <1>7 DEF AddNext, IInv, HasBlock
  <2>2. Get(0) \in Blocks /\ Number[header] <= Number[Get(0)] + 1
    BY <2>1, <1>t, <1>g DEF Running, WalkNumber, TypeOK
  <2>3. RingBound'
    BY <1>t, <2>1, <2>2, AddKeepsBound
  <2> QED BY <2>1, <2>3 DEF WInv, EndedEmpty, WalkNumber
<1>8. CASE Publish \/ PublishIgnored \/ Record
  BY <1>8, <1>0 DEF Publish, PublishIgnored, Record
<1>9. CASE PublishFails \/ Crash
  BY <1>9, <1>e DEF PublishFails, Crash
<1>10. CASE UNCHANGED vars
  BY <1>10, <1>0 DEF vars
<1> QED BY <1>1, <1>2, <1>3, <1>4, <1>5, <1>6, <1>7, <1>8, <1>9, <1>10 DEF Next, Step

\* The walk's invariant, from the start on.
LEMMA WalkInvariance == Spec => [](IInv /\ WInv)
<1>1. Init => WInv
  <2> SUFFICES ASSUME Init PROVE WInv
    OBVIOUS
  <2>1. TypeOK /\ ring = EmptyRing /\ pc = "down"
    BY InitIInv DEF IInv, Init
  <2> QED BY <2>1, EmptyBound DEF WInv, EndedEmpty, WalkNumber
<1> QED BY <1>1, InitIInv, NextIInv, NextWInv, PTL DEF Spec

\* For every block tree and every size of the ring buffer, a walk back that
\* ends without a known parent has no ancestor of its header in the buffer
\* (blocks.go:45-47, 104-138): Size parents lead below every block the buffer
\* can hold, also after earlier reorganisations made it hold several forks.
THEOREM WalkBackIsLongEnough == Spec => []WalkFindsAncestor
<1>1. ASSUME IInv, WInv PROVE WalkFindsAncestor
  <2> SUFFICES ASSUME pc = "walk", ~MustWalkBack, ~InRing(Parent[header]),
                      NEW b \in Chain[header], b # header, InRing(b)
               PROVE  FALSE
    BY DEF WalkFindsAncestor
  <2>1. header \in Blocks /\ counter \in 0..Size /\ Get(0) \in Blocks
    BY <1>1, GetLast DEF IInv, HasBlock, TypeOK, Running
  <2>2. b \in Blocks /\ Number[b] < Number[header]
    BY <2>1, AncestorsBelow
  <2>3. Number[header] # 0
    BY <2>1, <2>2
  <2>4. counter = Size
    BY <2>1, <2>3 DEF MustWalkBack
  <2>5. PICK i \in 0..Size-1 : Get(i) = b
    BY DEF InRing
  <2>6. Number[b] >= Number[Get(0)] - i
    BY <1>1, <2>2, <2>5 DEF WInv, RingBound
  <2>7. Number[header] = Number[Get(0)] + 1 - Size
    BY <1>1, <2>4 DEF WInv, WalkNumber
  <2>8. Number[b] \in Nat /\ Number[Get(0)] \in Nat /\ Number[header] \in Nat
    BY <2>1, <2>2
  <2> QED BY <2>2, <2>6, <2>7, <2>8
<1> QED BY <1>1, WalkInvariance, PTL

=============================================================================
