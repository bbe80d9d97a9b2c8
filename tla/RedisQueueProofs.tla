-------------------------- MODULE RedisQueueProofs --------------------------
(***************************************************************************)
(* RedisQueue for any number of processes, workers, messages, destinations *)
(* and faults: its state is well typed, every delivery in memory is backed *)
(* by the unacked list, every message that passes the filter is delivered  *)
(* at least once and, with one worker, in the order of publication.        *)
(***************************************************************************)
EXTENDS RedisQueue, SequenceTheorems, FiniteSetTheorems, TLAPS

-----------------------------------------------------------------------------
(* Counting in a list.                                                     *)

\* One copy of m, or none.
One(x, m) == IF x = m THEN 1 ELSE 0

\* The places of m in a list are finitely many.
LEMMA CountNat == ASSUME NEW S, NEW s \in Seq(S), NEW m
                  PROVE  /\ IsFiniteSet({i \in DOMAIN s : s[i] = m})
                         /\ Count(s, m) \in Nat
<1>1. IsFiniteSet(1..Len(s))
  BY FS_Interval
<1>2. IsFiniteSet({i \in DOMAIN s : s[i] = m})
  BY <1>1, FS_Subset
<1> QED BY <1>2, FS_CardinalityType DEF Count

\* Every nonempty set of naturals has a least element.
LEMMA LeastNatural == ASSUME NEW T \in SUBSET Nat, T # {} PROVE \E n \in T : \A k \in T : n <= k
<1> DEFINE U == {0..n : n \in T}
<1>1. U \subseteq FiniteSubsetsOf(Nat) /\ U # {}
  <2>1. \A n \in T : IsFiniteSet(0..n)
    BY FS_Interval
  <2>2. \A n \in T : 0..n \in SUBSET Nat
    OBVIOUS
  <2> QED BY <2>1, <2>2 DEF FiniteSubsetsOf
<1>2. PICK x \in U : \A y \in U : <<y, x>> \notin StrictSubsetOrdering(Nat)
  <2> HIDE DEF U
  <2> QED BY <1>1, FS_StrictSubsetOrderingWellFounded, WFMin
<1>3. PICK n \in T : x = 0..n
  BY <1>2
<1>4. ASSUME NEW k \in T, k < n PROVE FALSE
  <2>1. 0..k \in U /\ 0..k \subseteq 0..n /\ n \in 0..n /\ n \notin 0..k /\ 0..n \subseteq Nat
    BY <1>4
  <2>2. <<0..k, 0..n>> \in StrictSubsetOrdering(Nat)
    BY <2>1 DEF StrictSubsetOrdering
  <2> QED BY <1>2, <1>3, <2>1, <2>2
<1> QED BY <1>4

\* The copies in a concatenation are those of its parts.
LEMMA CountConcat == ASSUME NEW S, NEW s \in Seq(S), NEW t \in Seq(S), NEW m
                     PROVE  Count(s \o t, m) = Count(s, m) + Count(t, m)
<1> DEFINE I == {i \in DOMAIN s : s[i] = m}
           J == {j \in DOMAIN t : t[j] = m}
           K == {j + Len(s) : j \in J}
           f == [j \in J |-> j + Len(s)]
<1>1. s \o t \in Seq(S) /\ Len(s \o t) = Len(s) + Len(t) /\ Len(s) \in Nat /\ Len(t) \in Nat
  OBVIOUS
<1>2. {i \in DOMAIN (s \o t) : (s \o t)[i] = m} = I \cup K
  BY <1>1
<1>3. IsFiniteSet(I) /\ IsFiniteSet(J)
  BY CountNat
<1>4. f \in Bijection(J, K)
  <2>1. J \subseteq Nat
    OBVIOUS
  <2>2. f \in Surjection(J, K)
    BY DEF Surjection
  <2>3. f \in Injection(J, K)
    BY <1>1, <2>1 DEF Injection, IsInjective
  <2> QED BY <2>2, <2>3 DEF Bijection
<1>5. IsFiniteSet(K) /\ Cardinality(K) = Cardinality(J)
  BY <1>3, <1>4, FS_Bijection DEF ExistsBijection
<1>6. I \cap K = {}
  BY <1>1
<1>7. Cardinality(I) \in Nat /\ Cardinality(K) \in Nat
  BY <1>3, <1>5, FS_CardinalityType
<1> HIDE DEF I, J, K, f
<1>8. Cardinality(I \cup K) = Cardinality(I) + Cardinality(K) - Cardinality(I \cap K)
  BY <1>3, <1>5, FS_Union
<1>9. Cardinality(I \cap K) = 0
  BY <1>6, FS_EmptySet
<1>10. Cardinality(I \cup K) = Cardinality(I) + Cardinality(J)
  BY <1>5, <1>7, <1>8, <1>9
<1> QED BY <1>2, <1>10 DEF Count, I, J

\* A list of one message.
LEMMA CountSingle == ASSUME NEW x, NEW m PROVE Count(<<x>>, m) = One(x, m)
<1>1. {i \in DOMAIN <<x>> : <<x>>[i] = m} = IF x = m THEN {1} ELSE {}
  OBVIOUS
<1> QED BY <1>1, FS_EmptySet, FS_Singleton DEF Count, One

\* LPUSH and RPUSH.
LEMMA CountPush == ASSUME NEW S, NEW s \in Seq(S), NEW x \in S, NEW m
                   PROVE  /\ Count(<<x>> \o s, m) = Count(s, m) + One(x, m)
                          /\ Count(Append(s, x), m) = Count(s, m) + One(x, m)
<1>1. <<x>> \in Seq(S) /\ Append(s, x) = s \o <<x>>
  OBVIOUS
<1>2. Count(s, m) \in Nat
  BY CountNat
<1>3. Count(<<x>> \o s, m) = Count(<<x>>, m) + Count(s, m)
  BY <1>1, CountConcat
<1>4. Count(s \o <<x>>, m) = Count(s, m) + Count(<<x>>, m)
  BY <1>1, CountConcat
<1>5. Count(<<x>>, m) = One(x, m)
  BY CountSingle
<1> QED BY <1>1, <1>2, <1>3, <1>4, <1>5 DEF One

\* RPOP.
LEMMA CountPop == ASSUME NEW S, NEW s \in Seq(S), s # <<>>, NEW m
                  PROVE  /\ Front(s) \in Seq(S) /\ Last(s) \in S
                         /\ Count(Front(s), m) + One(Last(s), m) = Count(s, m)
<1>1. Len(s) \in Nat \ {0} /\ Last(s) \in S
  BY DEF Last
<1>2. Front(s) \in Seq(S)
  BY <1>1 DEF Front
<1>3. s = Append(Front(s), Last(s))
  BY <1>1, <1>2 DEF Front, Last
<1>4. Count(Append(Front(s), Last(s)), m) = Count(Front(s), m) + One(Last(s), m)
  BY <1>1, <1>2, CountPush
<1> QED BY <1>1, <1>2, <1>3, <1>4

\* LTRIM.
LEMMA CountSplit == ASSUME NEW S, NEW s \in Seq(S), NEW k \in 0..Len(s), NEW m
                    PROVE  /\ SubSeq(s, 1, k) \in Seq(S) /\ SubSeq(s, k+1, Len(s)) \in Seq(S)
                           /\ Count(SubSeq(s, 1, k), m) + Count(SubSeq(s, k+1, Len(s)), m)
                                = Count(s, m)
<1>1. SubSeq(s, 1, k) \in Seq(S) /\ SubSeq(s, k+1, Len(s)) \in Seq(S)
  OBVIOUS
<1>2. SubSeq(s, 1, k) \o SubSeq(s, k+1, Len(s)) = s
  <2>1. 1 \in 1..Len(s)+1 /\ k \in 1-1..Len(s) /\ Len(s) \in k..Len(s)
    OBVIOUS
  <2>2. SubSeq(s, 1, k) \o SubSeq(s, k+1, Len(s)) = SubSeq(s, 1, Len(s))
    BY <2>1, ConcatAdjacentSubSeq
  <2> QED BY <2>2, SubSeqFull
<1>3. Count(SubSeq(s, 1, k) \o SubSeq(s, k+1, Len(s)), m)
        = Count(SubSeq(s, 1, k), m) + Count(SubSeq(s, k+1, Len(s)), m)
  BY <1>1, CountConcat
<1> QED BY <1>1, <1>2, <1>3

\* LREM.
LEMMA CountRemove == ASSUME NEW S, NEW s \in Seq(S), NEW x, NEW m
                     PROVE  /\ RemoveFirst(s, x) \in Seq(S)
                            /\ Count(RemoveFirst(s, x), m) =
                                 IF x = m /\ Count(s, m) > 0 THEN Count(s, m) - 1 ELSE Count(s, m)
<1>1. CASE \E i \in 1..Len(s) : s[i] = x
  <2> DEFINE I == {i \in 1..Len(s) : s[i] = x}
             k == SelectInSeq(s, LAMBDA v : v = x)
  <2>1. I # {} /\ I \subseteq 1..Len(s)
    BY <1>1
  <2>2. \E i \in I : \A j \in I : i <= j
    <3>1. I \in SUBSET Nat
      OBVIOUS
    <3> HIDE DEF I
    <3> QED BY <2>1, <3>1, LeastNatural
  <2>3. k = Min(I)
    BY <2>1 DEF SelectInSeq
  <2>4. k \in I
    BY <2>2, <2>3 DEF Min
  <2>5. RemoveFirst(s, x) = SubSeq(s, 1, k-1) \o SubSeq(s, k+1, Len(s))
    BY <1>1 DEF RemoveFirst, RemoveAt
  <2> HIDE DEF k
  <2>6. k \in 1..Len(s) /\ s[k] = x /\ x \in S
    BY <2>4
  <2>7. SubSeq(s, 1, k-1) \in Seq(S) /\ SubSeq(s, k+1, Len(s)) \in Seq(S)
    BY <2>6
  <2>8. Count(s, m) = Count(SubSeq(s, 1, k), m) + Count(SubSeq(s, k+1, Len(s)), m)
    BY <2>6, CountSplit
  <2>9. SubSeq(s, 1, k) = Append(SubSeq(s, 1, k-1), s[k])
    BY <2>6
  <2>10. Count(SubSeq(s, 1, k), m) = Count(SubSeq(s, 1, k-1), m) + One(x, m)
    <3> DEFINE t == SubSeq(s, 1, k-1)
    <3>1. t \in Seq(S) /\ x \in S
      BY <2>6, <2>7
    <3> HIDE DEF t
    <3>2. Count(Append(t, x), m) = Count(t, m) + One(x, m)
      BY <3>1, CountPush
    <3> QED BY <2>6, <2>9, <3>2 DEF t
  <2>11. Count(RemoveFirst(s, x), m)
           = Count(SubSeq(s, 1, k-1), m) + Count(SubSeq(s, k+1, Len(s)), m)
    <3> DEFINE t == SubSeq(s, 1, k-1)
               u == SubSeq(s, k+1, Len(s))
    <3>1. t \in Seq(S) /\ u \in Seq(S)
      BY <2>7
    <3> HIDE DEF t, u
    <3>2. Count(t \o u, m) = Count(t, m) + Count(u, m)
      BY <3>1, CountConcat
    <3> QED BY <2>5, <3>2 DEF t, u
  <2>12. Count(SubSeq(s, 1, k-1), m) \in Nat /\ Count(SubSeq(s, k+1, Len(s)), m) \in Nat
    BY <2>7, CountNat
  <2> QED BY <2>5, <2>7, <2>8, <2>10, <2>11, <2>12 DEF One
<1>2. CASE ~\E i \in 1..Len(s) : s[i] = x
  <2>1. RemoveFirst(s, x) = s
    BY <1>2 DEF RemoveFirst
  <2>2. x = m => {i \in DOMAIN s : s[i] = m} = {}
    BY <1>2
  <2>3. x = m => Count(s, m) = 0
    BY <2>2, FS_EmptySet DEF Count
  <2> QED BY <2>1, <2>3
<1> QED BY <1>1, <1>2
-----------------------------------------------------------------------------
(* The inductive invariant.                                                *)

\* The lists and the counters; a purge in progress is of entries that exist.
ListShapes ==
  /\ ready \in Seq(Deliveries) /\ unacked \in Seq(Deliveries) /\ rejected \in Seq(Deliveries)
  /\ dest \in [Dests -> Seq(Msgs)]
  /\ sent \in Seq(Msgs) /\ purged \in Seq(Deliveries)
  /\ sweep \in Nat /\ purge \in 0..Len(rejected)
  /\ exits \in Nat /\ errors \in Nat /\ admin \in Nat
  /\ sweep > 0 => admin > 0

\* consume() and the goroutine after it; the former has a delivery exactly
\* while it sends.
ProcShapes ==
  /\ loop \in [Procs -> {"down", "fetch", "send", "ended"}]
  /\ fetched \in [Procs -> Deliveries \cup {None}]
  /\ \A p \in Procs : loop[p] = "send" <=> fetched[p] # None
  /\ chan \in [Procs -> Seq(Deliveries)]
  /\ \A p \in Procs : Len(chan[p]) <= Prefetch
  /\ held \in [Procs -> Deliveries \cup {None}]
  /\ stop \in [Procs -> BOOLEAN]

\* A worker is idle, or has a delivery and a destination, at first the first.
WorkerShapes ==
  {r \in WorkerStates : r = Idle \/ (/\ r.at # "idle" /\ r.msg # None /\ r.to # 0
                                     /\ r.at = "filter" => r.to = 1)}

WorkShapes == work \in [Procs -> [Workers -> WorkerShapes]]

Shapes == ListShapes /\ ProcShapes /\ WorkShapes

\* A worker with a copy of m that destination d has, or that is in another
\* list of the queue: the copy in the unacked list may go.
Settled(r, m, d) ==
  /\ r.msg = m
  /\ r.at \in {"ack", "rejecting", "returning"} \/ (r.at = "publish" /\ r.to > d)

SettledWorkers(m, d) == {x \in Procs \X Workers : Settled(work[x[1]][x[2]], m, d)}

\* The copies of m that are in Redis, as destination d sees them.
Kept(m, d) == Count(ready, m) + Count(unacked, m) + Count(rejected, m)
              + Count(purged, m) + Count(dest[d], m)

\* AtLeastOnce, counting the copies that are about to be acked twice.
StrictlyKept ==
  \A m \in Passes, d \in Dests :
    Count(sent, m) + Cardinality(SettledWorkers(m, d)) <= Kept(m, d) + errors

IInv == Shapes /\ InFlightBacked /\ StrictlyKept

USE SetAssumption, CapacityAssumption

\* The queue starts empty, and every process waiting for a message.
LEMMA InitIInv == Init => IInv
<1> SUFFICES ASSUME Init PROVE IInv
  OBVIOUS
<1>1. Shapes
  BY DEF Init, Shapes, ListShapes, ProcShapes, WorkShapes, WorkerShapes, WorkerStates, Idle
<1>2. \A m \in Msgs : InMemory(m) = {}
  BY DEF Init, InMemory, Places, DeliveryAt, Idle
<1>3. \A m \in Msgs, d \in Dests : SettledWorkers(m, d) = {}
  BY DEF Init, SettledWorkers, Settled, Idle
<1>4. Cardinality({}) = 0
  BY FS_EmptySet
<1>5. \A m : Count(<<>>, m) = 0
  <2>1. \A m : {i \in DOMAIN <<>> : <<>>[i] = m} = {}
    OBVIOUS
  <2> QED BY <1>4, <2>1 DEF Count
<1>6. InFlightBacked
  <2>1. \A m \in Msgs : Cardinality(InMemory(m)) = 0 /\ Count(unacked, m) = 0
    BY <1>2, <1>4, <1>5 DEF Init
  <2> QED BY <2>1 DEF InFlightBacked
<1>7. StrictlyKept
  <2>1. \A m \in Passes, d \in Dests : Cardinality(SettledWorkers(m, d)) = 0
    BY <1>3, <1>4
  <2>2. \A m \in Passes, d \in Dests : Count(sent, m) = 0 /\ Kept(m, d) = 0
    BY <1>5 DEF Init, Kept
  <2> QED BY <2>1, <2>2 DEF Init, StrictlyKept
<1> QED BY <1>1, <1>6, <1>7 DEF IInv

-----------------------------------------------------------------------------
(* The types.                                                              *)

\* The one worker that moves becomes r.
Moves(p, w, r) == work' = [work EXCEPT ![p][w] = r]

\* The record of a worker that goes on to `at`.
At(p, w, at) == [work[p][w] EXCEPT !.at = at]

\* Where a relay goes after a destination.
Advanced(p, w) == IF work[p][w].to = NDest THEN At(p, w, "ack")
                  ELSE [work[p][w] EXCEPT !.to = work[p][w].to + 1]

\* The moves of the workers, one record each.
LEMMA WorkerMoves ==
  ASSUME Shapes, NEW p \in Procs, NEW w \in Workers
  PROVE  /\ work[p][w] \in WorkerShapes
         /\ \A at : Goto(p, w, at) => Moves(p, w, At(p, w, at))
         /\ Advance(p, w) => Moves(p, w, Advanced(p, w))
         /\ Idle \in WorkerShapes
         /\ work[p][w].at # "idle" =>
              \A at \in {"publish", "ack", "rejecting", "returning"} : At(p, w, at) \in WorkerShapes
         /\ work[p][w].at = "publish" => Advanced(p, w) \in WorkerShapes
<1>1. work[p][w] \in WorkerShapes
  BY DEF Shapes, WorkShapes
<1>2. \A at : Goto(p, w, at) => Moves(p, w, At(p, w, at))
  BY DEF Goto, Moves, At
<1>3. Advance(p, w) => Moves(p, w, Advanced(p, w))
  BY DEF Advance, Moves, Advanced, At
<1>4. Idle \in WorkerShapes
  BY DEF WorkerShapes, WorkerStates, Idle
<1>5. work[p][w].at # "idle" =>
        \A at \in {"publish", "ack", "rejecting", "returning"} : At(p, w, at) \in WorkerShapes
  BY <1>1 DEF WorkerShapes, WorkerStates, Idle, At
<1>6. work[p][w].at = "publish" => Advanced(p, w) \in WorkerShapes
  BY <1>1 DEF WorkerShapes, WorkerStates, Idle, At, Advanced
<1> QED BY <1>1, <1>2, <1>3, <1>4, <1>5, <1>6

\* A worker that takes a well-typed record keeps the types.
LEMMA MoveShapes ==
  ASSUME WorkShapes, NEW p \in Procs, NEW w \in Workers, NEW r \in WorkerShapes, Moves(p, w, r)
  PROVE  WorkShapes'
BY DEF WorkShapes, Moves

\* What an end of a process leaves.
LEMMA EndShapes ==
  ASSUME Shapes, NEW p \in Procs, ProcessEnds(p)
  PROVE  ProcShapes' /\ WorkShapes'
<1>1. Idle \in WorkerShapes
  BY DEF WorkerShapes, WorkerStates, Idle
<1>2. WorkShapes'
  BY <1>1 DEF Shapes, WorkShapes, ProcessEnds
<1>3. ProcShapes'
  BY DEF Shapes, ProcShapes, ProcessEnds, Deliveries
<1> QED BY <1>2, <1>3

\* What BRPOPLPUSH and LREM do to the lists.
LEMMA ListTypes ==
  ASSUME ListShapes
  PROVE  /\ \A x : LRem(x) \in Seq(Deliveries)
         /\ ready # <<>> => Front(ready) \in Seq(Deliveries) /\ Last(ready) \in Deliveries
         /\ unacked # <<>> => Front(unacked) \in Seq(Deliveries) /\ Last(unacked) \in Deliveries
<1>1. ready \in Seq(Deliveries) /\ unacked \in Seq(Deliveries)
  BY DEF ListShapes
<1> QED BY <1>1, CountRemove, CountPop DEF LRem

\* Every step of the environment keeps the types.
LEMMA ShapesEnvironment == ASSUME Shapes, Environment PROVE Shapes'
<1> USE DEF Shapes
<1>1. ASSUME NEW m \in Msgs, Publish(m) PROVE Shapes'
  BY <1>1 DEF ListShapes, ProcShapes, WorkShapes, Publish, Deliveries, local, tools
<1>2. ASSUME NEW p \in Procs, FetchError(p) PROVE Shapes'
  <2>1. ListShapes'
    <3>1. ready' \in Seq(Deliveries) /\ unacked' \in Seq(Deliveries) /\ UNCHANGED rejected
      <4>1. CASE BRPopLPush
        <5>1. ready \in Seq(Deliveries) /\ unacked \in Seq(Deliveries)
              /\ Front(ready) \in Seq(Deliveries) /\ Last(ready) \in Deliveries
          BY <4>1, ListTypes DEF ListShapes, BRPopLPush
        <5> QED BY <4>1, <5>1 DEF BRPopLPush
      <4>2. CASE UNCHANGED lists
        BY <4>2 DEF ListShapes, lists
      <4> QED BY <1>2, <4>1, <4>2 DEF FetchError
    <3> QED BY <1>2, <3>1 DEF ListShapes, FetchError, RedisError, tools
  <2>2. ProcShapes' /\ WorkShapes'
    BY <1>2 DEF ProcShapes, WorkShapes, FetchError, NextLoop, Deliveries
  <2> QED BY <2>1, <2>2
<1>3. ASSUME NEW p \in Procs, Crash(p) \/ Shutdown(p) PROVE Shapes'
  <2>1. ListShapes'
    BY <1>3 DEF ListShapes, Crash, Shutdown, MayEnd, lists, tools
  <2> QED BY <1>3, <2>1, EndShapes DEF Crash, Shutdown
<1>4. ASSUME NEW p \in Procs, StopConsuming(p) PROVE Shapes'
  BY <1>4 DEF ListShapes, ProcShapes, WorkShapes, StopConsuming, MayEnd, lists, tools
<1>5. ASSUME NEW p \in Procs, NEW w \in Workers, RelayPublishError(p, w) PROVE Shapes'
  <2>1. WorkShapes'
    BY <1>5, WorkerMoves, MoveShapes DEF RelayPublishError
  <2>2. ListShapes' /\ ProcShapes'
    BY <1>5 DEF ListShapes, ProcShapes, RelayPublishError, RedisError, lists, tools
  <2> QED BY <2>1, <2>2
<1>6. ASSUME NEW p \in Procs, NEW w \in Workers, AckError(p, w) PROVE Shapes'
  <2>1. WorkShapes'
    <3>1. CASE Goto(p, w, "rejecting") /\ work[p][w].at = "filter"
      BY <3>1, WorkerMoves, MoveShapes
    <3>2. CASE work' = [work EXCEPT ![p][w] = Idle]
      BY <3>2, WorkerMoves, MoveShapes DEF Moves
    <3> QED BY <1>6, <3>1, <3>2 DEF AckError
  <2>2. /\ UNCHANGED <<ready, unacked, rejected, dest, loop, fetched, chan, held, stop>>
        /\ UNCHANGED <<sent, purged, sweep, purge, admin, exits>> /\ errors' = errors + 1
    BY <1>6 DEF AckError, RedisError, lists, tools
  <2>3. ListShapes'
    BY <2>2 DEF ListShapes
  <2>4. ProcShapes'
    BY <2>2 DEF ProcShapes
  <2> QED BY <2>1, <2>3, <2>4
<1>7. ASSUME NEW p \in Procs, NEW w \in Workers, ReturnPush(p, w) PROVE Shapes'
  <2>1. WorkShapes'
    BY <1>7, WorkerMoves, MoveShapes DEF ReturnPush
  <2>2. work[p][w].msg \in Deliveries
    BY <1>7, WorkerMoves DEF ReturnPush, WorkerShapes, WorkerStates, Idle
  <2>3. ListShapes' /\ ProcShapes'
    BY <1>7, <2>2 DEF ListShapes, ProcShapes, ReturnPush, MayEnd, tools
  <2> QED BY <2>1, <2>3
<1>8. ASSUME NEW p \in Procs, NEW w \in Workers, ReturnError(p, w) PROVE Shapes'
  <2>1. ListShapes'
    BY <1>8 DEF ListShapes, ReturnError, RedisError, MayEnd, lists, tools
  <2>2. CASE ProcessEnds(p)
    BY <2>1, <2>2, EndShapes
  <2>3. CASE Goto(p, w, "returning") /\ UNCHANGED <<loop, fetched, chan, held, stop>>
    <3>1. WorkShapes'
      BY <1>8, <2>3, WorkerMoves, MoveShapes DEF ReturnError
    <3>2. ProcShapes'
      BY <2>3 DEF ProcShapes
    <3> QED BY <2>1, <3>1, <3>2
  <2> QED BY <1>8, <2>2, <2>3 DEF ReturnError
<1>9. CASE SweepStart
  BY <1>9 DEF ListShapes, ProcShapes, WorkShapes, SweepStart, lists, local
<1>10. CASE SweepMove
  <2>1. ProcShapes' /\ WorkShapes'
    BY <1>10 DEF ProcShapes, WorkShapes, SweepMove, local
  <2>2. CASE unacked = <<>>
    BY <1>10, <2>1, <2>2 DEF ListShapes, SweepMove, lists
  <2>3. CASE unacked # <<>>
    <3>1. ready' \in Seq(Deliveries) /\ unacked' \in Seq(Deliveries)
      <4>1. ready \in Seq(Deliveries) /\ Front(unacked) \in Seq(Deliveries)
            /\ Last(unacked) \in Deliveries
        BY <2>3, ListTypes DEF ListShapes
      <4> QED BY <1>10, <2>3, <4>1 DEF SweepMove
    <3> QED BY <1>10, <2>1, <2>3, <3>1 DEF ListShapes, SweepMove
  <2> QED BY <2>2, <2>3
<1>11. CASE PurgeStart
  BY <1>11 DEF ListShapes, ProcShapes, WorkShapes, PurgeStart, lists, local
<1>12. CASE PurgeTrim
  <2> DEFINE k == Len(rejected) - purge
  <2>1. k \in 0..Len(rejected)
    BY DEF ListShapes
  <2>2. SubSeq(rejected, 1, k) \in Seq(Deliveries)
        /\ SubSeq(rejected, k + 1, Len(rejected)) \in Seq(Deliveries)
    BY <2>1 DEF ListShapes
  <2>3. ListShapes'
    BY <1>12, <2>2 DEF ListShapes, PurgeTrim
  <2> QED BY <1>12, <2>3 DEF ProcShapes, WorkShapes, PurgeTrim, local
<1> QED BY <1>1, <1>2, <1>3, <1>4, <1>5, <1>6, <1>7, <1>8, <1>9, <1>10, <1>11, <1>12
        DEF Environment

\* So does every step of a process.
LEMMA ShapesProcess ==
  ASSUME Shapes, NEW p \in Procs, Loop(p) \/ \E w \in Workers : Work(p, w) PROVE Shapes'
<1> USE DEF Shapes
<1>1. CASE Fetch(p)
  <2>1. ListShapes'
    BY <1>1, ListTypes DEF ListShapes, Fetch, BRPopLPush, tools
  <2>2. ProcShapes' /\ WorkShapes'
    BY <1>1, ListTypes DEF ProcShapes, WorkShapes, Fetch, BRPopLPush, Deliveries
  <2> QED BY <2>1, <2>2
<1>2. CASE Send(p)
  BY <1>2 DEF ListShapes, ProcShapes, WorkShapes, Send, NextLoop, lists, tools
<1>3. CASE FetchTimeout(p) \/ Restart(p)
  BY <1>3 DEF ListShapes, ProcShapes, WorkShapes, FetchTimeout, Restart, NextLoop, lists, tools
<1>4. CASE Dispatch(p)
  BY <1>4 DEF ListShapes, ProcShapes, WorkShapes, Dispatch, lists, tools
<1>5. ASSUME NEW w \in Workers, Acquire(p, w) PROVE Shapes'
  <2>1. [at |-> "filter", msg |-> held[p], to |-> 1] \in WorkerShapes
    BY <1>5 DEF ProcShapes, Acquire, WorkerShapes, WorkerStates, Idle
  <2>2. WorkShapes'
    BY <1>5, <2>1, MoveShapes DEF Acquire, Moves
  <2>3. ListShapes' /\ ProcShapes'
    BY <1>5 DEF ListShapes, ProcShapes, Acquire, lists, tools
  <2> QED BY <2>2, <2>3
<1>6. ASSUME NEW w \in Workers, Filter(p, w) PROVE Shapes'
  <2>1. WorkShapes'
    BY <1>6, WorkerMoves, MoveShapes DEF Filter
  <2>2. ListShapes' /\ ProcShapes'
    BY <1>6 DEF ListShapes, ProcShapes, Filter, lists, tools
  <2> QED BY <2>1, <2>2
<1>7. ASSUME NEW w \in Workers, RelayPublish(p, w) PROVE Shapes'
  <2>1. WorkShapes'
    BY <1>7, WorkerMoves, MoveShapes DEF RelayPublish
  <2>2. work[p][w].msg \in Deliveries /\ work[p][w].to \in Dests
    BY <1>7, WorkerMoves DEF RelayPublish, WorkerShapes, WorkerStates, Idle, Dests
  <2>3. dest' \in [Dests -> Seq(Msgs)]
    BY <1>7, <2>2 DEF RelayPublish, ListShapes, Deliveries
  <2>4. ListShapes' /\ ProcShapes'
    BY <1>7, <2>3 DEF ListShapes, ProcShapes, RelayPublish, lists, tools
  <2> QED BY <2>1, <2>4
<1>8. ASSUME NEW w \in Workers, Ack(p, w) \/ RejectRem(p, w) PROVE Shapes'
  <2>1. WorkShapes'
    BY <1>8, WorkerMoves, MoveShapes DEF Ack, RejectRem, Moves
  <2>2. ListShapes' /\ ProcShapes'
    <3>1. unacked' \in Seq(Deliveries)
      BY <1>8, ListTypes DEF Ack, RejectRem
    <3> QED BY <1>8, <3>1 DEF ListShapes, ProcShapes, Ack, RejectRem, tools
  <2> QED BY <2>1, <2>2
<1>9. ASSUME NEW w \in Workers, RejectPush(p, w) PROVE Shapes'
  <2>1. WorkShapes'
    BY <1>9, WorkerMoves, MoveShapes DEF RejectPush
  <2>2. work[p][w].msg \in Deliveries
    BY <1>9, WorkerMoves DEF RejectPush, WorkerShapes, WorkerStates, Idle
  <2>3. ListShapes' /\ ProcShapes'
    BY <1>9, <2>2 DEF ListShapes, ProcShapes, RejectPush, tools
  <2> QED BY <2>1, <2>3
<1>10. ASSUME NEW w \in Workers, ReturnRem(p, w) PROVE Shapes'
  <2>1. ListShapes'
    BY <1>10, ListTypes DEF ListShapes, ReturnRem, tools
  <2> QED BY <1>10, <2>1, EndShapes DEF ReturnRem
<1> QED BY <1>1, <1>2, <1>3, <1>4, <1>5, <1>6, <1>7, <1>8, <1>9, <1>10 DEF Loop, Work

-----------------------------------------------------------------------------
(* Copies of a message: how each step changes their numbers.               *)

Bit(b) == IF b THEN 1 ELSE 0

\* The sets and the numbers of the invariant are finite.
LEMMA Finite ==
  ASSUME NEW m, NEW d
  PROVE  /\ IsFiniteSet(Procs \X Workers)
         /\ IsFiniteSet(SettledWorkers(m, d)) /\ Cardinality(SettledWorkers(m, d)) \in Nat
<1>1. IsFiniteSet(Workers)
  BY FS_Interval DEF Workers
<1>2. IsFiniteSet(Procs \X Workers)
  BY <1>1, FS_Product
<1>3. SettledWorkers(m, d) \subseteq Procs \X Workers
  BY DEF SettledWorkers
<1>4. IsFiniteSet(SettledWorkers(m, d))
  BY <1>2, <1>3, FS_Subset
<1> QED BY <1>2, <1>4, FS_CardinalityType

\* Every count of copies is a natural number.
LEMMA Numbers ==
  ASSUME ListShapes, NEW m, NEW d \in Dests
  PROVE  /\ Count(sent, m) \in Nat /\ Count(ready, m) \in Nat /\ Count(unacked, m) \in Nat
         /\ Count(rejected, m) \in Nat /\ Count(purged, m) \in Nat /\ Count(dest[d], m) \in Nat
         /\ errors \in Nat
<1>1. dest[d] \in Seq(Msgs)
  BY DEF ListShapes
<1> QED BY <1>1, CountNat DEF ListShapes

\* One element of a finite set joins or leaves.
LEMMA OneElement ==
  ASSUME NEW S, NEW T, NEW x, IsFiniteSet(S), \A y : y # x => (y \in S <=> y \in T)
  PROVE  /\ IsFiniteSet(T) /\ Cardinality(S) \in Nat /\ Cardinality(T) \in Nat
         /\ Cardinality(T) + Bit(x \in S) = Cardinality(S) + Bit(x \in T)
<1> DEFINE U == S \ {x}
<1>1. IsFiniteSet(U) /\ Cardinality(U) = IF x \in S THEN Cardinality(S) - 1 ELSE Cardinality(S)
  BY FS_RemoveElement
<1>2. Cardinality(S) \in Nat /\ Cardinality(U) \in Nat
  BY <1>1, FS_CardinalityType
<1>3. T = IF x \in T THEN U \cup {x} ELSE U
  OBVIOUS
<1>4. x \notin U
  OBVIOUS
<1> HIDE DEF U
<1>5. IsFiniteSet(U \cup {x}) /\ Cardinality(U \cup {x}) = Cardinality(U) + 1
  BY <1>1, <1>4, FS_AddElement
<1> QED BY <1>1, <1>2, <1>3, <1>5 DEF Bit

\* A worker moves.
LEMMA SettledMove ==
  ASSUME Shapes, NEW p \in Procs, NEW w \in Workers, NEW r, Moves(p, w, r), NEW m, NEW d
  PROVE  Cardinality(SettledWorkers(m, d)') + Bit(Settled(work[p][w], m, d))
           = Cardinality(SettledWorkers(m, d)) + Bit(Settled(r, m, d))
<1> DEFINE S == SettledWorkers(m, d)
           T == SettledWorkers(m, d)'
           x == <<p, w>>
<1>1. IsFiniteSet(S)
  BY Finite
<1>2. \A y : y # x => (y \in S <=> y \in T)
  <2> SUFFICES ASSUME NEW q \in Procs, NEW v \in Workers, <<q, v>> # <<p, w>>
               PROVE  <<q, v>> \in S <=> <<q, v>> \in T
    BY DEF SettledWorkers
  <2>1. work'[q][v] = work[q][v]
    BY DEF Moves, Shapes, WorkShapes
  <2> QED BY <2>1 DEF SettledWorkers
<1>3. (x \in S <=> Settled(work[p][w], m, d)) /\ (x \in T <=> Settled(r, m, d))
  <2>1. work'[p][w] = r
    BY DEF Moves, Shapes, WorkShapes
  <2> QED BY <2>1 DEF SettledWorkers
<1> HIDE DEF S, T, x
<1>4. Cardinality(T) + Bit(x \in S) = Cardinality(S) + Bit(x \in T)
  BY <1>1, <1>2, OneElement
<1> QED BY <1>3, <1>4 DEF S, T, Bit

\* A process ends with all its workers.
LEMMA SettledEnd ==
  ASSUME Shapes, NEW p \in Procs, NEW w \in Workers, ProcessEnds(p), NEW m \in Msgs, NEW d
  PROVE  Cardinality(SettledWorkers(m, d)') + Bit(Settled(work[p][w], m, d))
           <= Cardinality(SettledWorkers(m, d))
<1> DEFINE S == SettledWorkers(m, d)
           T == SettledWorkers(m, d)'
           U == S \ {<<p, w>>}
<1>1. IsFiniteSet(S) /\ Cardinality(S) \in Nat
  BY Finite
<1>2. T \subseteq U
  <2> SUFFICES ASSUME NEW q \in Procs, NEW v \in Workers, <<q, v>> \in T
               PROVE  <<q, v>> \in U
    BY DEF SettledWorkers
  <2>1. q # p
    BY DEF SettledWorkers, Settled, ProcessEnds, Shapes, WorkShapes, Idle
  <2>2. work'[q][v] = work[q][v]
    BY <2>1 DEF ProcessEnds, Shapes, WorkShapes
  <2> QED BY <2>1, <2>2 DEF SettledWorkers
<1>3. <<p, w>> \in S <=> Settled(work[p][w], m, d)
  BY DEF SettledWorkers
<1> HIDE DEF S, T
<1>4. IsFiniteSet(U) /\ Cardinality(U) = IF <<p, w>> \in S THEN Cardinality(S) - 1 ELSE Cardinality(S)
  BY <1>1, FS_RemoveElement
<1> HIDE DEF U
<1>5. IsFiniteSet(T) /\ Cardinality(T) <= Cardinality(U)
  BY <1>2, <1>4, FS_Subset
<1>6. Cardinality(T) \in Nat
  BY <1>5, FS_CardinalityType
<1> QED BY <1>1, <1>3, <1>4, <1>5, <1>6 DEF S, T, Bit

\* A step that publishes, or settles a worker, adds as many copies or errors.
Balance(m, d) ==
  Count(sent, m)' + Cardinality(SettledWorkers(m, d)') + Kept(m, d) + errors
    <= Count(sent, m) + Cardinality(SettledWorkers(m, d)) + Kept(m, d)' + errors'

\* Balanced steps keep StrictlyKept.
LEMMA KeptByBalance ==
  ASSUME Shapes, Shapes', StrictlyKept, \A m \in Passes, d \in Dests : Balance(m, d)
  PROVE  StrictlyKept'
<1> SUFFICES ASSUME NEW m \in Passes, NEW d \in Dests
             PROVE  Count(sent, m)' + Cardinality(SettledWorkers(m, d)') <= Kept(m, d)' + errors'
  BY DEF StrictlyKept
<1>1. Count(sent, m) + Cardinality(SettledWorkers(m, d)) <= Kept(m, d) + errors
  BY DEF StrictlyKept
<1>2. Balance(m, d)
  OBVIOUS
<1>3. Count(sent, m) \in Nat /\ Kept(m, d) \in Nat /\ errors \in Nat
  <2>1. /\ Count(sent, m) \in Nat /\ Count(ready, m) \in Nat /\ Count(unacked, m) \in Nat
        /\ Count(rejected, m) \in Nat /\ Count(purged, m) \in Nat /\ Count(dest[d], m) \in Nat
        /\ errors \in Nat
    BY Numbers DEF Shapes
  <2> QED BY <2>1 DEF Kept
<1>4. Count(sent, m)' \in Nat /\ Kept(m, d)' \in Nat /\ errors' \in Nat
  <2>1. Count(sent, m)' \in Nat /\ errors' \in Nat
    BY CountNat DEF Shapes, ListShapes
  <2>2. Count(ready, m)' \in Nat /\ Count(unacked, m)' \in Nat /\ Count(rejected, m)' \in Nat
        /\ Count(purged, m)' \in Nat
    BY CountNat DEF Shapes, ListShapes
  <2>3. Count(dest'[d], m) \in Nat
    <3>1. dest'[d] \in Seq(Msgs)
      BY DEF Shapes, ListShapes
    <3> QED BY <3>1, CountNat
  <2> QED BY <2>1, <2>2, <2>3 DEF Kept
<1>5. Cardinality(SettledWorkers(m, d)) \in Nat
  BY Finite
<1>6. Cardinality(SettledWorkers(m, d)') \in Nat
  <2>1. SettledWorkers(m, d)' \subseteq Procs \X Workers
    BY DEF SettledWorkers
  <2>2. IsFiniteSet(Procs \X Workers)
    BY Finite
  <2>3. IsFiniteSet(SettledWorkers(m, d)')
    BY <2>1, <2>2, FS_Subset
  <2> QED BY <2>3, FS_CardinalityType
<1> QED BY <1>1, <1>2, <1>3, <1>4, <1>5, <1>6 DEF Balance

\* BRPOPLPUSH moves one copy.
LEMMA CountBRPopLPush ==
  ASSUME ListShapes, BRPopLPush, NEW m
  PROVE  Count(ready, m)' + Count(unacked, m)' = Count(ready, m) + Count(unacked, m)
<1>1. ready \in Seq(Deliveries) /\ unacked \in Seq(Deliveries) /\ ready # <<>>
  BY DEF ListShapes, BRPopLPush
<1> DEFINE x == Last(ready)
           s == Front(ready)
<1>2. x \in Deliveries /\ s \in Seq(Deliveries) /\ Count(s, m) + One(x, m) = Count(ready, m)
  BY <1>1, CountPop
<1>3. ready' = s /\ unacked' = <<x>> \o unacked
  BY DEF BRPopLPush
<1> HIDE DEF x, s
<1>4. Count(<<x>> \o unacked, m) = Count(unacked, m) + One(x, m)
  BY <1>1, <1>2, CountPush
<1>5. Count(s, m) \in Nat /\ Count(unacked, m) \in Nat /\ One(x, m) \in Nat
  BY <1>1, <1>2, CountNat DEF One
<1> QED BY <1>2, <1>3, <1>4, <1>5

\* The steps that move no copy in or out of the unacked list's workers.
LEMMA BalanceLists ==
  ASSUME Shapes, NEW m \in Passes, NEW d \in Dests, UNCHANGED <<work, dest>>, errors' \in Nat,
         errors <= errors',
         \/ \E x \in Msgs : Publish(x)
         \/ BRPopLPush /\ UNCHANGED <<sent, purged>>
         \/ SweepMove
         \/ PurgeTrim
         \/ UNCHANGED <<lists, sent, purged>>
  PROVE  Balance(m, d)
<1> DEFINE c == Cardinality(SettledWorkers(m, d))
<1>1. Cardinality(SettledWorkers(m, d)') = c /\ c \in Nat
  BY Finite DEF SettledWorkers
<1>2. /\ Count(sent, m) \in Nat /\ Count(ready, m) \in Nat /\ Count(unacked, m) \in Nat
      /\ Count(rejected, m) \in Nat /\ Count(purged, m) \in Nat /\ Count(dest[d], m) \in Nat
      /\ errors \in Nat
  BY Numbers DEF Shapes
<1>3. Count(dest[d], m)' = Count(dest[d], m)
  OBVIOUS
<1> HIDE DEF c
<1>4. CASE \E x \in Msgs : Publish(x)
  <2>1. PICK x \in Msgs : Publish(x)
    BY <1>4
  <2>2. ready \in Seq(Deliveries) /\ sent \in Seq(Msgs) /\ x \in Deliveries
    BY DEF Shapes, ListShapes, Deliveries
  <2>3. Count(<<x>> \o ready, m) = Count(ready, m) + One(x, m)
    BY <2>2, CountPush
  <2>4. Count(<<x>> \o sent, m) = Count(sent, m) + One(x, m)
    BY <2>2, CountPush
  <2>5. Count(ready, m)' = Count(ready, m) + One(x, m) /\ Count(sent, m)' = Count(sent, m) + One(x, m)
    BY <2>1, <2>3, <2>4 DEF Publish
  <2>6. UNCHANGED <<unacked, rejected, purged>>
    BY <2>1 DEF Publish, tools
  <2>7. One(x, m) \in Nat
    BY DEF One
  <2> QED BY <1>1, <1>2, <1>3, <2>5, <2>6, <2>7 DEF Balance, Kept, c
<1>5. CASE BRPopLPush /\ UNCHANGED <<sent, purged>>
  <2>1. Count(ready, m)' + Count(unacked, m)' = Count(ready, m) + Count(unacked, m)
    BY <1>5, CountBRPopLPush DEF Shapes
  <2>2. UNCHANGED <<rejected, sent, purged>>
    BY <1>5 DEF BRPopLPush
  <2>3. Count(ready, m)' \in Nat /\ Count(unacked, m)' \in Nat
    <3>1. ready' \in Seq(Deliveries) /\ unacked' \in Seq(Deliveries)
      <4>1. ready \in Seq(Deliveries) /\ unacked \in Seq(Deliveries)
            /\ Front(ready) \in Seq(Deliveries) /\ Last(ready) \in Deliveries
        BY <1>5, ListTypes DEF Shapes, ListShapes, BRPopLPush
      <4> QED BY <1>5, <4>1 DEF BRPopLPush
    <3> QED BY <3>1, CountNat
  <2> QED BY <1>1, <1>2, <1>3, <2>1, <2>2, <2>3 DEF Balance, Kept, c
<1>6. CASE UNCHANGED <<lists, sent, purged>>
  BY <1>1, <1>2, <1>3, <1>6 DEF Balance, Kept, c, lists
<1>7. CASE SweepMove
  <2>1. CASE unacked = <<>>
    BY <1>6, <1>7, <2>1 DEF SweepMove
  <2>2. CASE unacked # <<>>
    <3> DEFINE x == Last(unacked)
               s == Front(unacked)
    <3>1. unacked \in Seq(Deliveries) /\ ready \in Seq(Deliveries)
      BY DEF Shapes, ListShapes
    <3>2. x \in Deliveries /\ s \in Seq(Deliveries) /\ Count(s, m) + One(x, m) = Count(unacked, m)
      BY <2>2, <3>1, CountPop
    <3>3. ready' = <<x>> \o ready /\ unacked' = s /\ UNCHANGED <<rejected, sent, purged>>
      BY <1>7, <2>2 DEF SweepMove
    <3> HIDE DEF x, s
    <3>4. Count(<<x>> \o ready, m) = Count(ready, m) + One(x, m)
      BY <3>1, <3>2, CountPush
    <3>5. Count(s, m) \in Nat /\ One(x, m) \in Nat
      BY <3>2, CountNat DEF One
    <3>6. Count(ready, m)' = Count(ready, m) + One(x, m) /\ Count(unacked, m)' = Count(s, m)
      BY <3>3, <3>4
    <3>7. /\ Count(rejected, m)' = Count(rejected, m) /\ Count(sent, m)' = Count(sent, m)
          /\ Count(purged, m)' = Count(purged, m)
      BY <3>3
    <3>8. Count(s, m) + One(x, m) = Count(unacked, m)
      BY <3>2
    <3> QED BY <1>1, <1>2, <1>3, <3>5, <3>6, <3>7, <3>8 DEF Balance, Kept, c
  <2> QED BY <2>1, <2>2
<1>8. CASE PurgeTrim
  <2> DEFINE k == Len(rejected) - purge
             s == SubSeq(rejected, 1, k)
             t == SubSeq(rejected, k + 1, Len(rejected))
  <2>1. rejected \in Seq(Deliveries) /\ purged \in Seq(Deliveries) /\ k \in 0..Len(rejected)
    BY DEF Shapes, ListShapes
  <2>2. rejected' = s /\ purged' = t \o purged /\ UNCHANGED <<ready, unacked, sent>>
    BY <1>8 DEF PurgeTrim
  <2> HIDE DEF k
  <2>3. s \in Seq(Deliveries) /\ t \in Seq(Deliveries) /\ Count(s, m) + Count(t, m) = Count(rejected, m)
    BY <2>1, CountSplit
  <2> HIDE DEF s, t
  <2>4. Count(t \o purged, m) = Count(t, m) + Count(purged, m)
    BY <2>1, <2>3, CountConcat
  <2>5. Count(s, m) \in Nat /\ Count(t, m) \in Nat
    BY <2>3, CountNat
  <2>6. Count(rejected, m)' = Count(s, m) /\ Count(purged, m)' = Count(t, m) + Count(purged, m)
    BY <2>2, <2>4
  <2>7. /\ Count(ready, m)' = Count(ready, m) /\ Count(unacked, m)' = Count(unacked, m)
        /\ Count(sent, m)' = Count(sent, m)
    BY <2>2
  <2>8. Count(s, m) + Count(t, m) = Count(rejected, m)
    BY <2>3
  <2> QED BY <1>1, <1>2, <1>3, <2>5, <2>6, <2>7, <2>8 DEF Balance, Kept, c
<1> QED BY <1>4, <1>5, <1>6, <1>7, <1>8

\* A worker moves: it settles a copy, adds one, or takes one.
LEMMA BalanceMove ==
  ASSUME Shapes, NEW m \in Passes, NEW d \in Dests, NEW p \in Procs, NEW w \in Workers,
         NEW r, Moves(p, w, r), UNCHANGED sent,
         Kept(m, d) \in Nat, Kept(m, d)' \in Nat, errors \in Nat, errors' \in Nat,
         Bit(Settled(r, m, d)) + Kept(m, d) + errors
           <= Bit(Settled(work[p][w], m, d)) + Kept(m, d)' + errors'
  PROVE  Balance(m, d)
<1>1. Cardinality(SettledWorkers(m, d)') + Bit(Settled(work[p][w], m, d))
        = Cardinality(SettledWorkers(m, d)) + Bit(Settled(r, m, d))
  BY SettledMove
<1>2. Cardinality(SettledWorkers(m, d)) \in Nat
  BY Finite
<1>3. Cardinality(SettledWorkers(m, d)') \in Nat
  <2>1. SettledWorkers(m, d)' \subseteq Procs \X Workers /\ IsFiniteSet(Procs \X Workers)
    BY Finite DEF SettledWorkers
  <2>2. IsFiniteSet(SettledWorkers(m, d)')
    BY <2>1, FS_Subset
  <2> QED BY <2>2, FS_CardinalityType
<1>4. Bit(Settled(r, m, d)) \in Nat /\ Bit(Settled(work[p][w], m, d)) \in Nat
  BY DEF Bit
<1>5. Count(sent, m)' = Count(sent, m) /\ Count(sent, m) \in Nat
  BY Numbers DEF Shapes
<1> QED BY <1>1, <1>2, <1>3, <1>4, <1>5 DEF Balance

\* No list changes.
LEMMA KeptSame ==
  ASSUME Shapes, NEW m, NEW d \in Dests, UNCHANGED <<lists, purged, dest>>
  PROVE  Kept(m, d) \in Nat /\ Kept(m, d)' = Kept(m, d) /\ errors \in Nat
<1>1. /\ Count(ready, m) \in Nat /\ Count(unacked, m) \in Nat /\ errors \in Nat
      /\ Count(rejected, m) \in Nat /\ Count(purged, m) \in Nat /\ Count(dest[d], m) \in Nat
  BY Numbers DEF Shapes
<1> QED BY <1>1 DEF Kept, lists

\* LREM takes at most one copy.
LEMMA KeptLRem ==
  ASSUME Shapes, NEW m, NEW d \in Dests, NEW x,
         unacked' = LRem(x), UNCHANGED <<ready, rejected, purged, dest>>
  PROVE  /\ Kept(m, d) \in Nat /\ Kept(m, d)' \in Nat /\ errors \in Nat
         /\ Kept(m, d) <= Kept(m, d)' + One(x, m)
<1>1. /\ Count(ready, m) \in Nat /\ Count(unacked, m) \in Nat /\ errors \in Nat
      /\ Count(rejected, m) \in Nat /\ Count(purged, m) \in Nat /\ Count(dest[d], m) \in Nat
  BY Numbers DEF Shapes
<1>2. unacked \in Seq(Deliveries)
  BY DEF Shapes, ListShapes
<1>3. Count(unacked, m)' = IF x = m /\ Count(unacked, m) > 0 THEN Count(unacked, m) - 1
                           ELSE Count(unacked, m)
  BY <1>2, CountRemove DEF LRem
<1> QED BY <1>1, <1>3 DEF Kept, One

\* LPUSH to the rejected list, RPUSH to the ready list and LPUSH to a
\* destination add one copy.
LEMMA KeptPush ==
  ASSUME Shapes, NEW m, NEW d \in Dests, NEW x, UNCHANGED <<unacked, purged>>,
         \/ x \in Deliveries /\ rejected' = <<x>> \o rejected /\ UNCHANGED <<ready, dest>>
         \/ x \in Deliveries /\ ready' = Append(ready, x) /\ UNCHANGED <<rejected, dest>>
         \/ x \in Msgs /\ dest' = [dest EXCEPT ![d] = <<x>> \o @] /\ UNCHANGED <<ready, rejected>>
  PROVE  Kept(m, d) \in Nat /\ Kept(m, d)' = Kept(m, d) + One(x, m) /\ errors \in Nat
<1>1. /\ Count(ready, m) \in Nat /\ Count(unacked, m) \in Nat /\ errors \in Nat
      /\ Count(rejected, m) \in Nat /\ Count(purged, m) \in Nat /\ Count(dest[d], m) \in Nat
  BY Numbers DEF Shapes
<1>2. /\ ready \in Seq(Deliveries) /\ rejected \in Seq(Deliveries) /\ dest \in [Dests -> Seq(Msgs)]
      /\ dest[d] \in Seq(Msgs)
  BY DEF Shapes, ListShapes
<1>3. One(x, m) \in Nat
  BY DEF One
<1>4. CASE x \in Deliveries /\ rejected' = <<x>> \o rejected /\ UNCHANGED <<ready, dest>>
  <2>1. Count(rejected, m)' = Count(rejected, m) + One(x, m)
    BY <1>2, <1>4, CountPush
  <2> QED BY <1>1, <1>3, <1>4, <2>1 DEF Kept
<1>5. CASE x \in Deliveries /\ ready' = Append(ready, x) /\ UNCHANGED <<rejected, dest>>
  <2>1. Count(ready, m)' = Count(ready, m) + One(x, m)
    BY <1>2, <1>5, CountPush
  <2> QED BY <1>1, <1>3, <1>5, <2>1 DEF Kept
<1>6. CASE x \in Msgs /\ dest' = [dest EXCEPT ![d] = <<x>> \o @] /\ UNCHANGED <<ready, rejected>>
  <2>1. dest'[d] = <<x>> \o dest[d]
    BY <1>2, <1>6
  <2>2. Count(<<x>> \o dest[d], m) = Count(dest[d], m) + One(x, m)
    BY <1>2, <1>6, CountPush
  <2>3. Count(dest[d], m)' = Count(dest[d], m) + One(x, m)
    BY <2>1, <2>2
  <2>4. /\ Count(ready, m)' = Count(ready, m) /\ Count(unacked, m)' = Count(unacked, m)
        /\ Count(rejected, m)' = Count(rejected, m) /\ Count(purged, m)' = Count(purged, m)
    BY <1>6
  <2> QED BY <1>1, <1>3, <2>3, <2>4 DEF Kept
<1> QED BY <1>4, <1>5, <1>6

\* The steps of a worker that touch the unacked list or add a copy, one each.
LEMMA BalanceWork ==
  ASSUME Shapes, NEW m \in Passes, NEW d \in Dests, NEW p \in Procs, NEW w \in Workers,
         errors' \in Nat,
         Acquire(p, w) \/ Filter(p, w) \/ Ack(p, w) \/ RejectPush(p, w) \/ RejectRem(p, w)
           \/ AckError(p, w) \/ ReturnPush(p, w)
  PROVE  Balance(m, d)
<1> DEFINE o == work[p][w]
<1>1. o \in WorkerShapes
  BY WorkerMoves
<1>2. m \in Msgs /\ m # None /\ m # Empty /\ d > 0
  BY DEF Dests
<1>3. ~Settled(Idle, m, d)
  BY <1>2 DEF Settled, Idle
<1>4. CASE Acquire(p, w)
  <2> DEFINE r == [at |-> "filter", msg |-> held[p], to |-> 1]
  <2>1. Moves(p, w, r) /\ UNCHANGED <<lists, purged, dest, sent, errors>>
    BY <1>4 DEF Acquire, Moves, tools
  <2>2. ~Settled(r, m, d)
    BY DEF Settled
  <2>3. ~Settled(o, m, d)
    BY <1>3, <1>4 DEF Acquire
  <2>4. Kept(m, d) \in Nat /\ Kept(m, d)' = Kept(m, d) /\ errors \in Nat
    BY <2>1, KeptSame
  <2>5. Bit(Settled(r, m, d)) = 0 /\ Bit(Settled(o, m, d)) = 0
    BY <2>2, <2>3 DEF Bit
  <2> HIDE DEF r
  <2> QED BY <2>1, <2>4, <2>5, BalanceMove
<1>5. CASE Filter(p, w)
  <2> DEFINE r == At(p, w, IF o.msg \in Passes \cup {Empty} THEN "publish" ELSE "ack")
  <2>1. Moves(p, w, r) /\ UNCHANGED <<lists, purged, dest, sent, errors>>
    BY <1>5, WorkerMoves DEF Filter, tools
  <2>2. ~Settled(r, m, d) /\ ~Settled(o, m, d)
    BY <1>1, <1>2, <1>5 DEF Settled, Filter, At, WorkerShapes, WorkerStates, Idle, Dests
  <2>3. Kept(m, d) \in Nat /\ Kept(m, d)' = Kept(m, d) /\ errors \in Nat
    BY <2>1, KeptSame
  <2>4. Bit(Settled(r, m, d)) = 0 /\ Bit(Settled(o, m, d)) = 0
    BY <2>2 DEF Bit
  <2> HIDE DEF r
  <2> QED BY <2>1, <2>3, <2>4, BalanceMove
<1>6. CASE Ack(p, w) \/ RejectRem(p, w)
  <2>1. Moves(p, w, Idle) /\ UNCHANGED <<ready, rejected, purged, dest, sent, errors>>
        /\ unacked' = LRem(o.msg)
    BY <1>6 DEF Ack, RejectRem, Moves, tools
  <2>2. /\ Kept(m, d) \in Nat /\ Kept(m, d)' \in Nat /\ errors \in Nat
        /\ Kept(m, d) <= Kept(m, d)' + One(o.msg, m)
    BY <2>1, KeptLRem
  <2>3. o.msg = m => Settled(o, m, d)
    BY <1>6 DEF Ack, RejectRem, Settled
  <2>4. Bit(Settled(Idle, m, d)) = 0 /\ One(o.msg, m) <= Bit(Settled(o, m, d))
        /\ Bit(Settled(o, m, d)) \in Nat /\ One(o.msg, m) \in Nat
    BY <1>3, <2>3 DEF Bit, One
  <2>5. errors' = errors
    BY <2>1
  <2>6. Bit(Settled(Idle, m, d)) + Kept(m, d) + errors
          <= Bit(Settled(o, m, d)) + Kept(m, d)' + errors'
    BY <2>2, <2>4, <2>5
  <2> QED BY <2>1, <2>2, <2>6, BalanceMove
<1>7. CASE RejectPush(p, w) \/ ReturnPush(p, w)
  <2> DEFINE r == At(p, w, IF RejectPush(p, w) THEN "rejecting" ELSE "returning")
  <2>1. Moves(p, w, r) /\ UNCHANGED <<sent, errors>>
    BY <1>7, WorkerMoves DEF RejectPush, ReturnPush
  <2>2. o.msg \in Deliveries
    BY <1>1, <1>7 DEF RejectPush, ReturnPush, WorkerShapes, WorkerStates, Idle
  <2>3. Kept(m, d) \in Nat /\ Kept(m, d)' = Kept(m, d) + One(o.msg, m) /\ errors \in Nat
    <3>1. /\ UNCHANGED <<unacked, purged>>
          /\ \/ rejected' = <<o.msg>> \o rejected /\ UNCHANGED <<ready, dest>>
             \/ ready' = Append(ready, o.msg) /\ UNCHANGED <<rejected, dest>>
      BY <1>7 DEF RejectPush, ReturnPush, tools
    <3> QED BY <2>2, <3>1, KeptPush
  <2>4. Settled(r, m, d) => o.msg = m
    BY <1>1 DEF Settled, At, WorkerShapes, WorkerStates
  <2>5. Bit(Settled(r, m, d)) <= One(o.msg, m) /\ Bit(Settled(o, m, d)) \in Nat
        /\ Bit(Settled(r, m, d)) \in Nat /\ One(o.msg, m) \in Nat
    BY <2>4 DEF Bit, One
  <2>6. errors' = errors
    BY <2>1
  <2> HIDE DEF r
  <2>7. Bit(Settled(r, m, d)) + Kept(m, d) + errors
          <= Bit(Settled(o, m, d)) + Kept(m, d)' + errors'
    BY <2>3, <2>5, <2>6
  <2>8. Kept(m, d)' \in Nat
    BY <2>3, <2>5
  <2> QED BY <2>1, <2>3, <2>7, <2>8, BalanceMove
<1>8. CASE AckError(p, w)
  <2>1. PICK r : Moves(p, w, r)
    <3>1. CASE work' = [work EXCEPT ![p][w] = Idle]
      BY <3>1 DEF Moves
    <3>2. CASE Goto(p, w, "rejecting")
      BY <3>2, WorkerMoves
    <3> QED BY <1>8, <3>1, <3>2 DEF AckError
  <2>2. UNCHANGED <<lists, purged, dest, sent>> /\ errors' = errors + 1
    BY <1>8 DEF AckError, RedisError, tools
  <2>3. Kept(m, d) \in Nat /\ Kept(m, d)' = Kept(m, d) /\ errors \in Nat
    BY <2>2, KeptSame
  <2>4. Bit(Settled(r, m, d)) <= 1 /\ Bit(Settled(o, m, d)) \in Nat /\ Bit(Settled(r, m, d)) \in Nat
    BY DEF Bit
  <2>5. errors' = errors + 1
    BY <2>2
  <2>6. Bit(Settled(r, m, d)) + Kept(m, d) + errors
          <= Bit(Settled(o, m, d)) + Kept(m, d)' + errors'
    BY <2>3, <2>4, <2>5
  <2> QED BY <2>1, <2>2, <2>3, <2>6, BalanceMove
<1> QED BY <1>4, <1>5, <1>6, <1>7, <1>8

\* A relay that goes on to the next destination has settled the last one.
LEMMA BalancePublish ==
  ASSUME Shapes, NEW m \in Passes, NEW d \in Dests, NEW p \in Procs, NEW w \in Workers,
         errors' \in Nat, RelayPublish(p, w) \/ RelayPublishError(p, w)
  PROVE  Balance(m, d)
<1> DEFINE o == work[p][w]
           r == Advanced(p, w)
<1>1. o \in WorkerShapes /\ o.at = "publish" /\ o.to \in Dests /\ o.msg \in Deliveries
  <2>1. o \in WorkerShapes /\ o.at = "publish"
    BY WorkerMoves DEF RelayPublish, RelayPublishError
  <2> HIDE DEF o
  <2> QED BY <2>1 DEF WorkerShapes, WorkerStates, Idle, Dests
<1>2. m \in Msgs /\ m # Empty
  OBVIOUS
<1>3. Moves(p, w, r) /\ UNCHANGED sent
  BY WorkerMoves DEF RelayPublish, RelayPublishError
<1>4. (Settled(o, m, d) => Settled(r, m, d)) /\ (Settled(r, m, d) => o.msg = m)
      /\ (Settled(r, m, d) /\ ~Settled(o, m, d) => o.to = d)
  <2>1. CASE o.to = NDest
    <3>1. r = [o EXCEPT !.at = "ack"]
      BY <2>1 DEF Advanced, At
    <3>2. r.msg = o.msg /\ r.at = "ack"
      BY <1>1, <3>1 DEF WorkerShapes, WorkerStates
    <3> QED BY <1>1, <2>1, <3>2 DEF Settled, Dests
  <2>2. CASE o.to # NDest
    <3>1. r = [o EXCEPT !.to = o.to + 1]
      BY <2>2 DEF Advanced
    <3>2. r.msg = o.msg /\ r.at = "publish" /\ r.to = o.to + 1
      BY <1>1, <3>1 DEF WorkerShapes, WorkerStates
    <3> HIDE DEF o, r
    <3> QED BY <1>1, <3>2 DEF Settled, Dests
  <2> QED BY <2>1, <2>2
<1>5. Bit(Settled(o, m, d)) \in Nat /\ Bit(Settled(r, m, d)) \in Nat
      /\ Bit(Settled(r, m, d)) <= 1
  BY DEF Bit
<1> HIDE DEF r
<1>6. CASE RelayPublishError(p, w)
  <2>1. UNCHANGED <<lists, purged, dest>> /\ errors' = errors + 1
    BY <1>6 DEF RelayPublishError, RedisError, tools
  <2>2. Kept(m, d) \in Nat /\ Kept(m, d)' = Kept(m, d) /\ errors \in Nat
    BY <2>1, KeptSame
  <2>3. errors' = errors + 1
    BY <2>1
  <2>4. Bit(Settled(r, m, d)) + Kept(m, d) + errors
          <= Bit(Settled(o, m, d)) + Kept(m, d)' + errors'
    BY <1>5, <2>2, <2>3
  <2> QED BY <1>3, <2>2, <2>4, BalanceMove
<1>7. CASE RelayPublish(p, w)
  <2>1. UNCHANGED <<lists, purged, errors>>
    BY <1>7 DEF RelayPublish, tools
  <2>2. CASE o.msg = Empty \/ o.to # d
    <3>1. Kept(m, d) \in Nat /\ Kept(m, d)' = Kept(m, d) /\ errors \in Nat
      <4>1. dest'[d] = dest[d]
        BY <1>1, <1>7, <2>2 DEF RelayPublish, Shapes, ListShapes
      <4>2. /\ Count(ready, m) \in Nat /\ Count(unacked, m) \in Nat /\ errors \in Nat
            /\ Count(rejected, m) \in Nat /\ Count(purged, m) \in Nat /\ Count(dest[d], m) \in Nat
        BY Numbers DEF Shapes
      <4> QED BY <2>1, <4>1, <4>2 DEF Kept, lists
    <3>2. Settled(r, m, d) => Settled(o, m, d)
      BY <1>2, <1>4, <2>2
    <3>3. Bit(Settled(r, m, d)) <= Bit(Settled(o, m, d))
      BY <3>2 DEF Bit
    <3>4. errors' = errors
      BY <2>1
    <3>5. Bit(Settled(r, m, d)) + Kept(m, d) + errors
            <= Bit(Settled(o, m, d)) + Kept(m, d)' + errors'
      BY <1>5, <3>1, <3>3, <3>4
    <3> QED BY <1>3, <3>1, <3>5, BalanceMove
  <2>3. CASE o.msg # Empty /\ o.to = d
    <3>1. o.msg \in Msgs /\ dest' = [dest EXCEPT ![d] = <<o.msg>> \o @]
      BY <1>1, <1>7, <2>3 DEF RelayPublish, Deliveries
    <3>2. Kept(m, d) \in Nat /\ Kept(m, d)' = Kept(m, d) + One(o.msg, m) /\ errors \in Nat
      <4>1. UNCHANGED <<unacked, purged>> /\ UNCHANGED <<ready, rejected>>
        BY <2>1 DEF lists
      <4> QED BY <3>1, <4>1, KeptPush
    <3>3. Bit(Settled(r, m, d)) <= One(o.msg, m) /\ One(o.msg, m) \in Nat
      BY <1>4 DEF Bit, One
    <3>4. errors' = errors
      BY <2>1
    <3>5. Bit(Settled(r, m, d)) + Kept(m, d) + errors
            <= Bit(Settled(o, m, d)) + Kept(m, d)' + errors'
      BY <1>5, <3>2, <3>3, <3>4
    <3>6. Kept(m, d)' \in Nat
      BY <3>2, <3>3
    <3> QED BY <1>3, <3>2, <3>5, <3>6, BalanceMove
  <2> QED BY <2>2, <2>3
<1> QED BY <1>6, <1>7

\* An end of a process settles no copy.
LEMMA BalanceEnd ==
  ASSUME Shapes, NEW m \in Passes, NEW d \in Dests, NEW p \in Procs, errors' \in Nat,
         Crash(p) \/ Shutdown(p) \/ \E w \in Workers : ReturnRem(p, w) \/ ReturnError(p, w)
  PROVE  Balance(m, d)
<1>1. Cardinality(SettledWorkers(m, d)) \in Nat
  BY Finite
<1>2. Cardinality(SettledWorkers(m, d)') \in Nat
  <2>1. SettledWorkers(m, d)' \subseteq Procs \X Workers /\ IsFiniteSet(Procs \X Workers)
    BY Finite DEF SettledWorkers
  <2>2. IsFiniteSet(SettledWorkers(m, d)')
    BY <2>1, FS_Subset
  <2> QED BY <2>2, FS_CardinalityType
<1>3. Count(sent, m)' = Count(sent, m) /\ Count(sent, m) \in Nat
  BY Numbers DEF Shapes, Crash, Shutdown, ReturnRem, ReturnError
<1>4. CASE ProcessEnds(p) /\ UNCHANGED <<lists, purged, dest>> /\ errors <= errors'
  <2>1. Kept(m, d) \in Nat /\ Kept(m, d)' = Kept(m, d) /\ errors \in Nat
    BY <1>4, KeptSame
  <2>2. 1 \in Workers /\ m \in Msgs
    BY DEF Workers
  <2>3. Cardinality(SettledWorkers(m, d)') + Bit(Settled(work[p][1], m, d))
          <= Cardinality(SettledWorkers(m, d))
    BY <1>4, <2>2, SettledEnd
  <2>4. Bit(Settled(work[p][1], m, d)) \in Nat
    BY DEF Bit
  <2>5. errors <= errors'
    BY <1>4
  <2> QED BY <1>1, <1>2, <1>3, <2>1, <2>3, <2>4, <2>5 DEF Balance
<1>5. CASE Crash(p) \/ Shutdown(p)
  BY <1>4, <1>5 DEF Crash, Shutdown, tools, Shapes, ListShapes
<1>6. ASSUME NEW w \in Workers, ReturnRem(p, w) PROVE Balance(m, d)
  <2> DEFINE o == work[p][w]
  <2>1. ProcessEnds(p) /\ UNCHANGED <<ready, rejected, purged, dest, errors>> /\ unacked' = LRem(o.msg)
    BY <1>6 DEF ReturnRem, tools
  <2>2. /\ Kept(m, d) \in Nat /\ Kept(m, d)' \in Nat /\ errors \in Nat
        /\ Kept(m, d) <= Kept(m, d)' + One(o.msg, m)
    BY <2>1, KeptLRem
  <2>3. Cardinality(SettledWorkers(m, d)') + Bit(Settled(o, m, d))
          <= Cardinality(SettledWorkers(m, d))
    BY <2>1, SettledEnd
  <2>4. o.msg = m => Settled(o, m, d)
    BY <1>6 DEF ReturnRem, Settled
  <2>5. One(o.msg, m) <= Bit(Settled(o, m, d)) /\ Bit(Settled(o, m, d)) \in Nat
        /\ One(o.msg, m) \in Nat
    BY <2>4 DEF Bit, One
  <2>6. errors' = errors
    BY <2>1
  <2> QED BY <1>1, <1>2, <1>3, <2>2, <2>3, <2>5, <2>6 DEF Balance
<1>7. ASSUME NEW w \in Workers, ReturnError(p, w) PROVE Balance(m, d)
  <2>1. UNCHANGED <<lists, purged, dest, sent>> /\ errors' = errors + 1 /\ errors \in Nat
    BY <1>7 DEF ReturnError, RedisError, tools, Shapes, ListShapes
  <2>2. CASE ProcessEnds(p)
    BY <1>4, <2>1, <2>2
  <2>3. CASE Goto(p, w, "returning")
    <3> DEFINE r == At(p, w, "returning")
    <3>1. Moves(p, w, r)
      BY <2>3, WorkerMoves
    <3>2. Kept(m, d) \in Nat /\ Kept(m, d)' = Kept(m, d)
      BY <2>1, KeptSame
    <3> HIDE DEF r
    <3>3. Bit(Settled(r, m, d)) <= 1 /\ Bit(Settled(work[p][w], m, d)) \in Nat
          /\ Bit(Settled(r, m, d)) \in Nat
      BY DEF Bit
    <3>4. errors' = errors + 1 /\ errors \in Nat
      BY <2>1
    <3>5. Bit(Settled(r, m, d)) + Kept(m, d) + errors
            <= Bit(Settled(work[p][w], m, d)) + Kept(m, d)' + errors'
      BY <3>2, <3>3, <3>4
    <3> QED BY <2>1, <3>1, <3>2, <3>5, BalanceMove
  <2> QED BY <1>7, <2>2, <2>3 DEF ReturnError
<1> QED BY <1>5, <1>6, <1>7

\* No step loses a copy.
LEMMA KeptNext == ASSUME Shapes, Shapes', StrictlyKept, [Next]_vars PROVE StrictlyKept'
<1> SUFFICES ASSUME NEW m \in Passes, NEW d \in Dests PROVE Balance(m, d)
  BY KeptByBalance
<1>1. errors' \in Nat /\ errors \in Nat
  BY DEF Shapes, ListShapes
<1>2. ASSUME UNCHANGED <<work, dest>>, errors <= errors',
             \/ \E x \in Msgs : Publish(x)
             \/ BRPopLPush /\ UNCHANGED <<sent, purged>>
             \/ SweepMove \/ PurgeTrim
             \/ UNCHANGED <<lists, sent, purged>>
      PROVE  Balance(m, d)
  BY <1>1, <1>2, BalanceLists
<1>3. CASE \/ \E x \in Msgs : Publish(x)
           \/ SweepStart \/ SweepMove \/ PurgeStart \/ PurgeTrim
  <2>1. UNCHANGED <<work, dest, errors>>
    BY <1>3 DEF Publish, SweepStart, SweepMove, PurgeStart, PurgeTrim, local
  <2>2. CASE SweepStart \/ PurgeStart
    BY <1>1, <1>2, <2>1, <2>2 DEF SweepStart, PurgeStart
  <2> QED BY <1>1, <1>2, <1>3, <2>1, <2>2
<1>4. ASSUME NEW p \in Procs, FetchError(p) \/ StopConsuming(p) PROVE Balance(m, d)
  <2>1. UNCHANGED <<work, dest, sent, purged>> /\ errors <= errors'
    BY <1>1, <1>4 DEF FetchError, RedisError, StopConsuming, tools
  <2>2. BRPopLPush \/ UNCHANGED lists
    BY <1>4 DEF FetchError, StopConsuming
  <2> QED BY <1>2, <2>1, <2>2
<1>5. ASSUME NEW p \in Procs, Loop(p) PROVE Balance(m, d)
  <2>1. UNCHANGED <<work, dest, sent, purged, errors>>
    BY <1>5 DEF Loop, Fetch, Send, FetchTimeout, Dispatch, Restart, tools
  <2>2. BRPopLPush \/ UNCHANGED lists
    BY <1>5 DEF Loop, Fetch, Send, FetchTimeout, Dispatch, Restart
  <2> QED BY <1>1, <1>2, <2>1, <2>2
<1>6. CASE UNCHANGED vars
  BY <1>1, <1>2, <1>6 DEF vars, local, tools
<1>7. ASSUME NEW p \in Procs, Crash(p) \/ Shutdown(p) PROVE Balance(m, d)
  BY <1>1, <1>7, BalanceEnd
<1>8. ASSUME NEW p \in Procs, NEW w \in Workers, Work(p, w) PROVE Balance(m, d)
  BY <1>1, <1>8, BalanceWork, BalancePublish, BalanceEnd DEF Work
<1>9. ASSUME NEW p \in Procs, NEW w \in Workers,
             RelayPublishError(p, w) \/ AckError(p, w) \/ ReturnPush(p, w) \/ ReturnError(p, w)
      PROVE  Balance(m, d)
  BY <1>1, <1>9, BalanceWork, BalancePublish, BalanceEnd
<1> QED BY <1>3, <1>4, <1>5, <1>6, <1>7, <1>8, <1>9 DEF Next, Environment

-----------------------------------------------------------------------------
(* Deliveries in memory.                                                   *)

\* The places of deliveries are finitely many.
LEMMA FinitePlaces == IsFiniteSet(Procs \X Places)
<1> DEFINE F == {"fetched"}
           H == {"held"}
           C == {"chan"}
           W == {"work"}
           P == 1..Prefetch
<1>1. IsFiniteSet(F) /\ IsFiniteSet(H) /\ IsFiniteSet(C) /\ IsFiniteSet(W) /\ IsFiniteSet({1})
  BY FS_Singleton
<1>2. IsFiniteSet(P) /\ IsFiniteSet(Workers)
  BY FS_Interval DEF Workers
<1>3. Places = ((F \cup H) \X {1}) \cup (C \X P) \cup (W \X Workers)
  <2>1. {"fetched", "held"} = F \cup H
    OBVIOUS
  <2> QED BY <2>1 DEF Places
<1> HIDE DEF F, H, C, W, P
<1>4. IsFiniteSet(F \cup H)
  BY <1>1, FS_Union
<1>5. IsFiniteSet((F \cup H) \X {1}) /\ IsFiniteSet(C \X P) /\ IsFiniteSet(W \X Workers)
  BY <1>1, <1>2, <1>4, FS_Product
<1>6. IsFiniteSet(((F \cup H) \X {1}) \cup (C \X P))
  BY <1>5, FS_Union
<1>7. IsFiniteSet(Places)
  BY <1>3, <1>5, <1>6, FS_Union
<1> QED BY <1>7, FS_Product

\* The sets of copies are finite, before and after a step.
LEMMA FiniteMemory ==
  ASSUME NEW m
  PROVE  /\ IsFiniteSet(InMemory(m)) /\ Cardinality(InMemory(m)) \in Nat
         /\ IsFiniteSet(InMemory(m)') /\ Cardinality(InMemory(m)') \in Nat
<1>1. InMemory(m) \subseteq Procs \X Places /\ InMemory(m)' \subseteq Procs \X Places
  BY DEF InMemory, Places
<1>2. IsFiniteSet(Procs \X Places)
  BY FinitePlaces
<1>3. IsFiniteSet(InMemory(m)) /\ IsFiniteSet(InMemory(m)')
  BY <1>1, <1>2, FS_Subset
<1> QED BY <1>3, FS_CardinalityType

\* What each kind of place holds.
Holdings ==
  \A q \in Procs :
    /\ DeliveryAt(q, <<"fetched", 1>>) = fetched[q] /\ DeliveryAt(q, <<"held", 1>>) = held[q]
    /\ \A i \in 1..Prefetch :
         DeliveryAt(q, <<"chan", i>>) = IF i <= Len(chan[q]) THEN chan[q][i] ELSE None
    /\ \A w \in Workers : DeliveryAt(q, <<"work", w>>) = work[q][w].msg

\* Every place is of one of the four kinds.
LEMMA PlaceKinds ==
  /\ <<"fetched", 1>> \in Places /\ <<"held", 1>> \in Places
  /\ \A i \in 1..Prefetch : <<"chan", i>> \in Places
  /\ \A w \in Workers : <<"work", w>> \in Places
  /\ \A x \in Places : \/ x = <<"fetched", 1>> \/ x = <<"held", 1>>
                       \/ \E i \in 1..Prefetch : x = <<"chan", i>>
                       \/ \E w \in Workers : x = <<"work", w>>
  /\ Holdings /\ Holdings'
<1>1. \A x \in Places : \/ x = <<"fetched", 1>> \/ x = <<"held", 1>>
                       \/ \E i \in 1..Prefetch : x = <<"chan", i>>
                       \/ \E w \in Workers : x = <<"work", w>>
  BY DEF Places
<1>2. /\ <<"fetched", 1>> \in Places /\ <<"held", 1>> \in Places
      /\ \A i \in 1..Prefetch : <<"chan", i>> \in Places
      /\ \A w \in Workers : <<"work", w>> \in Places
  BY DEF Places
<1>3. Holdings
  BY DEF DeliveryAt, Holdings
<1>4. Holdings'
  BY DEF DeliveryAt, Holdings
<1> QED BY <1>1, <1>2, <1>3, <1>4

\* Only one place changes.
LEMMA MemoryPlace ==
  ASSUME NEW m, NEW p \in Procs, NEW x \in Places,
         \A q \in Procs, y \in Places : <<q, y>> # <<p, x>> => DeliveryAt(q, y)' = DeliveryAt(q, y)
  PROVE  Cardinality(InMemory(m)') + Bit(DeliveryAt(p, x) = m)
           = Cardinality(InMemory(m)) + Bit(DeliveryAt(p, x)' = m)
<1> DEFINE S == InMemory(m)
           T == InMemory(m)'
           z == <<p, x>>
<1>1. \A y : y # z => (y \in S <=> y \in T)
  BY DEF InMemory, Places
<1>2. (z \in S <=> DeliveryAt(p, x) = m) /\ (z \in T <=> DeliveryAt(p, x)' = m)
  BY DEF InMemory, Places
<1>3. IsFiniteSet(S)
  BY FiniteMemory
<1> HIDE DEF S, T, z
<1>4. Cardinality(T) + Bit(z \in S) = Cardinality(S) + Bit(z \in T)
  BY <1>1, <1>3, OneElement
<1> QED BY <1>2, <1>4 DEF S, T, Bit

\* A delivery goes from one place to another that was free.
LEMMA MemoryMoves ==
  ASSUME NEW m \in Msgs, NEW p \in Procs, NEW x \in Places, NEW z \in Places, x # z,
         \A q \in Procs, y \in Places :
            <<q, y>> # <<p, x>> /\ <<q, y>> # <<p, z>> => DeliveryAt(q, y)' = DeliveryAt(q, y),
         DeliveryAt(p, z) = None, DeliveryAt(p, x)' = None, DeliveryAt(p, z)' = DeliveryAt(p, x)
  PROVE  Cardinality(InMemory(m)') = Cardinality(InMemory(m))
<1> DEFINE S == InMemory(m)
           T == InMemory(m)'
           U == S \ {<<p, x>>}
           a == <<p, x>>
           b == <<p, z>>
<1>1. (\A y : y # a => (y \in S <=> y \in U)) /\ a \notin U
  OBVIOUS
<1>2. \A y : y # b => (y \in U <=> y \in T)
  BY DEF InMemory, Places
<1>3. b \notin U /\ (b \in T <=> a \in S)
  BY DEF InMemory, Places
<1>4. IsFiniteSet(S)
  BY FiniteMemory
<1> HIDE DEF S, T, U, a, b
<1>5. /\ IsFiniteSet(U) /\ Cardinality(S) \in Nat /\ Cardinality(U) \in Nat
      /\ Cardinality(U) + Bit(a \in S) = Cardinality(S) + Bit(a \in U)
  BY <1>1, <1>4, OneElement
<1>6. /\ Cardinality(T) \in Nat
      /\ Cardinality(T) + Bit(b \in U) = Cardinality(U) + Bit(b \in T)
  BY <1>2, <1>5, OneElement
<1> QED BY <1>1, <1>3, <1>5, <1>6 DEF S, T, Bit

\* A process ends, and so do the copies it has, that of a worker among them.
LEMMA MemoryEnd ==
  ASSUME Shapes, NEW p \in Procs, NEW w \in Workers, ProcessEnds(p), NEW m \in Msgs
  PROVE  Cardinality(InMemory(m)') + Bit(work[p][w].msg = m) <= Cardinality(InMemory(m))
<1> DEFINE S == InMemory(m)
           T == InMemory(m)'
           z == <<p, <<"work", w>>>>
           U == S \ {z}
<1>1. T \subseteq U
  <2> SUFFICES ASSUME NEW q \in Procs, NEW y \in Places, DeliveryAt(q, y)' = m
               PROVE  q # p /\ DeliveryAt(q, y) = m
    BY DEF InMemory, Places
  <2>1. q # p
    <3> SUFFICES ASSUME q = p PROVE FALSE
      OBVIOUS
    <3>1. fetched'[p] = None /\ held'[p] = None /\ chan'[p] = <<>>
          /\ \A v \in Workers : work'[p][v].msg = None
      BY DEF ProcessEnds, Shapes, ProcShapes, WorkShapes, Idle
    <3>2. DeliveryAt(p, y)' = None
      <4>1. \A i \in 1..Prefetch : ~(i <= Len(chan'[p]))
        BY <3>1
      <4> QED BY <3>1, <4>1, PlaceKinds DEF Holdings
    <3> QED BY <3>2
  <2>2. fetched'[q] = fetched[q] /\ held'[q] = held[q] /\ chan'[q] = chan[q] /\ work'[q] = work[q]
    BY <2>1 DEF ProcessEnds, Shapes, ProcShapes, WorkShapes
  <2>3. DeliveryAt(q, y)' = DeliveryAt(q, y)
    BY <2>2, PlaceKinds DEF Holdings
  <2> QED BY <2>1, <2>3
<1>2. z \in S <=> work[p][w].msg = m
  BY PlaceKinds DEF InMemory, Holdings
<1>3. IsFiniteSet(S) /\ Cardinality(S) \in Nat /\ Cardinality(T) \in Nat
  BY FiniteMemory
<1> HIDE DEF S, T, z
<1>4. IsFiniteSet(U) /\ Cardinality(U) = IF z \in S THEN Cardinality(S) - 1 ELSE Cardinality(S)
  BY <1>3, FS_RemoveElement
<1> HIDE DEF U
<1>5. Cardinality(T) <= Cardinality(U)
  BY <1>1, <1>4, FS_Subset
<1> QED BY <1>2, <1>3, <1>4, <1>5 DEF S, T, Bit

\* Nothing in memory changes but the worker, whose record becomes r.
LEMMA MemoryWork ==
  ASSUME Shapes, NEW m, NEW p \in Procs, NEW w \in Workers, NEW r, Moves(p, w, r),
         UNCHANGED <<fetched, chan, held>>
  PROVE  Cardinality(InMemory(m)') + Bit(work[p][w].msg = m)
           = Cardinality(InMemory(m)) + Bit(r.msg = m)
<1> DEFINE x == <<"work", w>>
<1>1. x \in Places /\ DeliveryAt(p, x) = work[p][w].msg /\ DeliveryAt(p, x)' = work'[p][w].msg
  BY PlaceKinds DEF Holdings
<1>2. work'[p][w] = r
  BY DEF Moves, Shapes, WorkShapes
<1>3. \A q \in Procs, y \in Places : <<q, y>> # <<p, x>> => DeliveryAt(q, y)' = DeliveryAt(q, y)
  <2> SUFFICES ASSUME NEW q \in Procs, NEW y \in Places, <<q, y>> # <<p, x>>
               PROVE  DeliveryAt(q, y)' = DeliveryAt(q, y)
    OBVIOUS
  <2>1. CASE \E v \in Workers : y = <<"work", v>>
    <3>1. PICK v \in Workers : y = <<"work", v>>
      BY <2>1
    <3>2. work'[q][v] = work[q][v]
      BY <3>1 DEF Moves, Shapes, WorkShapes
    <3> QED BY <3>1, <3>2, PlaceKinds DEF Holdings
  <2>2. CASE ~\E v \in Workers : y = <<"work", v>>
    BY <2>2, PlaceKinds DEF Holdings
  <2> QED BY <2>1, <2>2
<1> HIDE DEF x
<1>4. Cardinality(InMemory(m)') + Bit(DeliveryAt(p, x) = m)
        = Cardinality(InMemory(m)) + Bit(DeliveryAt(p, x)' = m)
  BY <1>1, <1>3, MemoryPlace
<1> QED BY <1>1, <1>2, <1>4

\* The send to deliveryChan.
LEMMA MemorySend ==
  ASSUME Shapes, NEW m \in Msgs, NEW p \in Procs, Send(p)
  PROVE  Cardinality(InMemory(m)') = Cardinality(InMemory(m))
<1>0. PICK k \in 1..Prefetch : k = Len(chan[p]) + 1
  BY DEF Send, Shapes, ProcShapes
<1> DEFINE x == <<"fetched", 1>>
           z == <<"chan", k>>
<1>1. k = Len(chan[p]) + 1 /\ chan[p] \in Seq(Deliveries) /\ Len(chan[p]) \in Nat
  BY <1>0 DEF Send, Shapes, ProcShapes
<1>2. x \in Places /\ z \in Places /\ x # z
  BY <1>1, PlaceKinds
<1>3. chan'[p] = Append(chan[p], fetched[p]) /\ fetched'[p] = None /\ UNCHANGED <<held, work>>
  BY DEF Send, Shapes, ProcShapes
<1>4. Len(chan'[p]) = k /\ chan'[p][k] = fetched[p] /\ \A i \in 1..Len(chan[p]) : chan'[p][i] = chan[p][i]
  BY <1>1, <1>3
<1>5. DeliveryAt(p, z) = None /\ DeliveryAt(p, x)' = None /\ DeliveryAt(p, z)' = DeliveryAt(p, x)
  <2>1. ~(k <= Len(chan[p])) /\ k <= Len(chan'[p])
    BY <1>1, <1>4
  <2>2. /\ DeliveryAt(p, z) = IF k <= Len(chan[p]) THEN chan[p][k] ELSE None
        /\ DeliveryAt(p, z)' = IF k <= Len(chan'[p]) THEN chan'[p][k] ELSE None
    BY <1>1, PlaceKinds DEF Holdings
  <2>3. DeliveryAt(p, x) = fetched[p] /\ DeliveryAt(p, x)' = fetched'[p]
    BY PlaceKinds DEF Holdings
  <2> HIDE DEF x, z
  <2> QED BY <1>3, <1>4, <2>1, <2>2, <2>3
<1>6. \A q \in Procs, y \in Places :
        <<q, y>> # <<p, x>> /\ <<q, y>> # <<p, z>> => DeliveryAt(q, y)' = DeliveryAt(q, y)
  <2> SUFFICES ASSUME NEW q \in Procs, NEW y \in Places, <<q, y>> # <<p, x>>, <<q, y>> # <<p, z>>
               PROVE  DeliveryAt(q, y)' = DeliveryAt(q, y)
    OBVIOUS
  <2>1. CASE q # p
    <3>1. fetched'[q] = fetched[q] /\ chan'[q] = chan[q]
      BY <2>1 DEF Send, Shapes, ProcShapes
    <3> QED BY <1>3, <3>1, PlaceKinds DEF Holdings
  <2>2. CASE q = p /\ \E i \in 1..Prefetch : y = <<"chan", i>>
    <3>1. PICK i \in 1..Prefetch : y = <<"chan", i>>
      BY <2>2
    <3>2. i # k
      BY <2>2, <3>1
    <3>3. CASE i <= Len(chan[p])
      <4>1. i <= Len(chan'[p]) /\ chan'[p][i] = chan[p][i]
        BY <1>1, <1>4, <3>3
      <4> QED BY <2>2, <3>1, <3>3, <4>1, PlaceKinds DEF Holdings
    <3>4. CASE ~(i <= Len(chan[p]))
      <4>1. ~(i <= Len(chan'[p]))
        BY <1>1, <1>4, <3>2, <3>4
      <4> QED BY <2>2, <3>1, <3>4, <4>1, PlaceKinds DEF Holdings
    <3> QED BY <3>3, <3>4
  <2>3. CASE q = p /\ ~\E i \in 1..Prefetch : y = <<"chan", i>>
    <3>1. y = <<"held", 1>> \/ \E v \in Workers : y = <<"work", v>>
      BY <2>3, PlaceKinds
    <3>2. held'[q] = held[q] /\ work'[q] = work[q]
      BY <1>3
    <3> QED BY <3>1, <3>2, PlaceKinds DEF Holdings
  <2> QED BY <2>1, <2>2, <2>3
<1> HIDE DEF x, z
<1> QED BY <1>2, <1>5, <1>6, MemoryMoves

\* s.Acquire().
LEMMA MemoryAcquire ==
  ASSUME Shapes, NEW m \in Msgs, NEW p \in Procs, NEW w \in Workers, Acquire(p, w)
  PROVE  Cardinality(InMemory(m)') = Cardinality(InMemory(m))
<1> DEFINE x == <<"held", 1>>
           z == <<"work", w>>
<1>1. x \in Places /\ z \in Places /\ x # z
  BY PlaceKinds
<1>2. /\ work[p][w].msg = None /\ work'[p][w].msg = held[p] /\ held'[p] = None
      /\ UNCHANGED <<fetched, chan>>
  BY DEF Acquire, Shapes, ProcShapes, WorkShapes, Idle
<1>3. DeliveryAt(p, z) = None /\ DeliveryAt(p, x)' = None /\ DeliveryAt(p, z)' = DeliveryAt(p, x)
  BY <1>2, PlaceKinds DEF Holdings
<1>4. \A q \in Procs, y \in Places :
        <<q, y>> # <<p, x>> /\ <<q, y>> # <<p, z>> => DeliveryAt(q, y)' = DeliveryAt(q, y)
  <2> SUFFICES ASSUME NEW q \in Procs, NEW y \in Places, <<q, y>> # <<p, x>>, <<q, y>> # <<p, z>>
               PROVE  DeliveryAt(q, y)' = DeliveryAt(q, y)
    OBVIOUS
  <2>1. CASE \E v \in Workers : y = <<"work", v>>
    <3>1. PICK v \in Workers : y = <<"work", v>>
      BY <2>1
    <3>2. work'[q][v] = work[q][v]
      BY <3>1 DEF Acquire, Shapes, WorkShapes
    <3> QED BY <3>1, <3>2, PlaceKinds DEF Holdings
  <2>2. CASE y = <<"held", 1>>
    <3>1. held'[q] = held[q]
      BY <2>2 DEF Acquire, Shapes, ProcShapes
    <3> QED BY <2>2, <3>1, PlaceKinds DEF Holdings
  <2>3. CASE y # <<"held", 1>> /\ ~\E v \in Workers : y = <<"work", v>>
    BY <1>2, <2>3, PlaceKinds DEF Holdings
  <2> QED BY <2>1, <2>2, <2>3
<1> HIDE DEF x, z
<1> QED BY <1>1, <1>3, <1>4, MemoryMoves

\* range deliveryChan: each copy after the step was one before it.
LEMMA MemoryDispatch ==
  ASSUME Shapes, NEW m \in Msgs, NEW p \in Procs, Dispatch(p)
  PROVE  Cardinality(InMemory(m)') <= Cardinality(InMemory(m))
<1> DEFINE S == InMemory(m)
           T == InMemory(m)'
           From(q, y) == IF q # p THEN y
                         ELSE IF y = <<"held", 1>> THEN <<"chan", 1>>
                         ELSE IF y[1] = "chan" THEN <<"chan", y[2] + 1>> ELSE y
           f == [z \in T |-> <<z[1], From(z[1], z[2])>>]
<1>1. /\ chan[p] \in Seq(Deliveries) /\ chan[p] # <<>> /\ Len(chan[p]) \in 1..Prefetch
      /\ chan'[p] = Tail(chan[p]) /\ held'[p] = Head(chan[p]) /\ held[p] = None
      /\ UNCHANGED <<fetched, work>>
      /\ \A q \in Procs : q # p => chan'[q] = chan[q] /\ held'[q] = held[q]
  BY DEF Dispatch, Shapes, ProcShapes
<1>2. Len(chan'[p]) = Len(chan[p]) - 1 /\ \A i \in 1..Len(chan[p])-1 : chan'[p][i] = chan[p][i+1]
  BY <1>1
<1>3. ASSUME NEW q \in Procs, NEW y \in Places, DeliveryAt(q, y)' = m
      PROVE  From(q, y) \in Places /\ DeliveryAt(q, From(q, y)) = m
  <2>1. CASE q # p
    BY <1>1, <1>3, <2>1, PlaceKinds DEF Holdings
  <2>2. CASE q = p /\ y = <<"held", 1>>
    <3>1. m = chan[p][1] /\ 1 \in 1..Prefetch /\ 1 <= Len(chan[p])
      BY <1>1, <1>3, <2>2, PlaceKinds DEF Holdings
    <3> QED BY <2>2, <3>1, PlaceKinds DEF Holdings
  <2>3. CASE q = p /\ \E i \in 1..Prefetch : y = <<"chan", i>>
    <3>1. PICK i \in 1..Prefetch : y = <<"chan", i>>
      BY <2>3
    <3>2. i <= Len(chan'[p]) /\ m = chan'[p][i]
      BY <1>3, <2>3, <3>1, PlaceKinds DEF Holdings
    <3>3. i + 1 \in 1..Prefetch /\ i + 1 <= Len(chan[p]) /\ m = chan[p][i+1]
      BY <1>1, <1>2, <3>2
    <3>4. From(q, y) = <<"chan", i + 1>>
      BY <2>3, <3>1
    <3> QED BY <2>3, <3>3, <3>4, PlaceKinds DEF Holdings
  <2>4. CASE q = p /\ y # <<"held", 1>> /\ ~\E i \in 1..Prefetch : y = <<"chan", i>>
    <3>1. y[1] # "chan"
      BY <2>4, PlaceKinds
    <3> QED BY <1>1, <1>3, <2>4, <3>1, PlaceKinds DEF Holdings
  <2> QED BY <2>1, <2>2, <2>3, <2>4
<1>4. ASSUME NEW q \in Procs, NEW y \in Places, NEW z \in Places, From(q, y) = From(q, z)
      PROVE  y = z
  <2>1. \A u \in Places : \/ u = <<"fetched", 1>> \/ u = <<"held", 1>>
                         \/ \E i \in 1..Prefetch : u = <<"chan", i>>
                         \/ \E w \in Workers : u = <<"work", w>>
    BY PlaceKinds
  <2> QED BY <1>4, <2>1
<1>5. f \in [T -> S]
  <2>1. \A z \in T : z[1] \in Procs /\ z[2] \in Places /\ DeliveryAt(z[1], z[2])' = m
    BY DEF InMemory, Places
  <2> HIDE DEF From
  <2>2. \A z \in T : <<z[1], From(z[1], z[2])>> \in S
    BY <1>3, <2>1 DEF InMemory
  <2> QED BY <2>2
<1>6. f \in Injection(T, S)
  <2>1. \A z \in T : z = <<z[1], z[2]>> /\ z[1] \in Procs /\ z[2] \in Places
    BY DEF InMemory, Places
  <2> HIDE DEF From
  <2>2. ASSUME NEW a \in T, NEW b \in T, f[a] = f[b] PROVE a = b
    <3>1. a[1] = b[1] /\ From(a[1], a[2]) = From(b[1], b[2])
      BY <2>2
    <3>2. a[2] = b[2]
      BY <1>4, <2>1, <3>1
    <3> QED BY <2>1, <3>1, <3>2
  <2> HIDE DEF f, S, T
  <2> QED BY <1>5, <2>2 DEF Injection, IsInjective
<1>7. IsFiniteSet(S)
  BY FiniteMemory
<1> HIDE DEF f, S, T
<1>8. Cardinality(T) <= Cardinality(S)
  BY <1>6, <1>7, FS_Injection
<1> QED BY <1>8 DEF S, T

\* What consume() does: BRPOPLPUSH adds to the unacked list before memory has
\* the delivery.
LEMMA BackedLoop ==
  ASSUME Shapes, NEW m \in Msgs, NEW p \in Procs, Loop(p) \/ FetchError(p),
         Count(unacked, m) >= Cardinality(InMemory(m))
  PROVE  Count(unacked, m)' >= Cardinality(InMemory(m)')
<1> DEFINE c == Cardinality(InMemory(m))
           e == Cardinality(InMemory(m)')
           x == <<"fetched", 1>>
<1>1. Count(unacked, m) \in Nat /\ c \in Nat /\ e \in Nat /\ unacked \in Seq(Deliveries)
  BY CountNat, FiniteMemory DEF Shapes, ListShapes
<1>2. ASSUME BRPopLPush
      PROVE  Count(unacked, m)' = Count(unacked, m) + One(Last(ready), m) /\ One(Last(ready), m) \in Nat
  <2>1. Last(ready) \in Deliveries
    BY <1>2, ListTypes DEF Shapes, BRPopLPush
  <2> DEFINE l == Last(ready)
  <2> HIDE DEF l
  <2>2. l \in Deliveries /\ unacked' = <<l>> \o unacked
    BY <1>2, <2>1 DEF BRPopLPush, l
  <2>3. Count(<<l>> \o unacked, m) = Count(unacked, m) + One(l, m)
    BY <1>1, <2>2, CountPush
  <2> QED BY <2>2, <2>3 DEF l, One
<1>3. ASSUME loop[p] = "fetch", UNCHANGED <<chan, held, work>>, NEW v, fetched' = [fetched EXCEPT ![p] = v]
      PROVE  e = c + Bit(v = m)
  <2>1. fetched[p] = None /\ fetched'[p] = v
    BY <1>3 DEF Shapes, ProcShapes
  <2>2. x \in Places /\ DeliveryAt(p, x) = None /\ DeliveryAt(p, x)' = v
    BY <2>1, PlaceKinds DEF Holdings
  <2>3. \A q \in Procs, y \in Places : <<q, y>> # <<p, x>> => DeliveryAt(q, y)' = DeliveryAt(q, y)
    <3> SUFFICES ASSUME NEW q \in Procs, NEW y \in Places, <<q, y>> # <<p, x>>
                 PROVE  DeliveryAt(q, y)' = DeliveryAt(q, y)
      OBVIOUS
    <3>1. CASE y = x
      <4>1. fetched'[q] = fetched[q]
        BY <1>3, <3>1 DEF Shapes, ProcShapes
      <4> QED BY <3>1, <4>1, PlaceKinds DEF Holdings
    <3>2. CASE y # x
      <4>1. held'[q] = held[q] /\ chan'[q] = chan[q] /\ work'[q] = work[q]
        BY <1>3
      <4> QED BY <3>2, <4>1, PlaceKinds DEF Holdings
    <3> QED BY <3>1, <3>2
  <2> HIDE DEF x
  <2>4. e + Bit(DeliveryAt(p, x) = m) = c + Bit(DeliveryAt(p, x)' = m)
    BY <2>2, <2>3, MemoryPlace
  <2>5. DeliveryAt(p, x) # m
    BY <2>2
  <2> HIDE DEF c, e
  <2> QED BY <1>1, <2>2, <2>4, <2>5 DEF Bit
<1>4. ASSUME UNCHANGED <<fetched, chan, held, work>> PROVE e = c
  BY <1>4 DEF InMemory, DeliveryAt, Places
<1> HIDE DEF c, e
<1>5. CASE Fetch(p)
  <2>1. e = c + Bit(Last(ready) = m)
    BY <1>3, <1>5 DEF Fetch
  <2>2. Count(unacked, m)' = Count(unacked, m) + One(Last(ready), m)
    BY <1>2, <1>5 DEF Fetch
  <2> QED BY <1>1, <2>1, <2>2 DEF Bit, One, c, e
<1>6. CASE FetchError(p)
  <2>1. Count(unacked, m)' >= Count(unacked, m) /\ Count(unacked, m)' \in Nat
    <3>1. CASE BRPopLPush
      BY <1>1, <1>2, <3>1
    <3>2. CASE UNCHANGED lists
      BY <1>1, <3>2 DEF lists
    <3> QED BY <1>6, <3>1, <3>2 DEF FetchError
  <2>2. e = c
    <3>1. CASE UNCHANGED fetched
      BY <1>4, <1>6, <3>1 DEF FetchError
    <3>2. CASE fetched' = [fetched EXCEPT ![p] = Empty]
      <4>1. e = c + Bit(Empty = m)
        BY <1>3, <1>6, <3>2 DEF FetchError
      <4> QED BY <1>1, <4>1 DEF Bit
    <3> QED BY <1>6, <3>1, <3>2 DEF FetchError
  <2> QED BY <1>1, <2>1, <2>2 DEF c, e
<1>7. CASE FetchTimeout(p) \/ Restart(p)
  <2>1. e = c
    BY <1>4, <1>7 DEF FetchTimeout, Restart
  <2> QED BY <1>1, <1>7, <2>1 DEF FetchTimeout, Restart, lists, c, e
<1>8. CASE Send(p)
  <2>1. e = c
    BY <1>8, MemorySend DEF c, e
  <2> QED BY <1>1, <1>8, <2>1 DEF Send, lists, c, e
<1>9. CASE Dispatch(p)
  <2>1. e <= c
    BY <1>9, MemoryDispatch DEF c, e
  <2>2. Count(unacked, m)' = Count(unacked, m)
    BY <1>9 DEF Dispatch, lists
  <2> QED BY <1>1, <2>1, <2>2 DEF c, e
<1> QED BY <1>5, <1>6, <1>7, <1>8, <1>9 DEF Loop

\* What the workers do: LREM takes a copy only when the worker gives its own up.
LEMMA BackedWork ==
  ASSUME Shapes, NEW m \in Msgs, NEW p \in Procs, NEW w \in Workers,
         Work(p, w) \/ RelayPublishError(p, w) \/ AckError(p, w) \/ ReturnPush(p, w) \/ ReturnError(p, w),
         Count(unacked, m) >= Cardinality(InMemory(m))
  PROVE  Count(unacked, m)' >= Cardinality(InMemory(m)')
<1> DEFINE c == Cardinality(InMemory(m))
           e == Cardinality(InMemory(m)')
           o == work[p][w]
<1>1. Count(unacked, m) \in Nat /\ c \in Nat /\ e \in Nat /\ unacked \in Seq(Deliveries)
  BY CountNat, FiniteMemory DEF Shapes, ListShapes
<1>2. o \in WorkerShapes
  BY WorkerMoves
<1>3. \A r : Moves(p, w, r) /\ UNCHANGED <<fetched, chan, held>> => e + Bit(o.msg = m) = c + Bit(r.msg = m)
  BY MemoryWork
<1>4. ProcessEnds(p) => e + Bit(o.msg = m) <= c
  BY MemoryEnd
<1>5. Bit(o.msg = m) = One(o.msg, m) /\ One(o.msg, m) \in Nat
  BY DEF Bit, One
<1>6. Bit(Idle.msg = m) = 0
  BY DEF Bit, Idle
<1>7. ASSUME unacked' = LRem(o.msg)
      PROVE  Count(unacked, m)' = IF o.msg = m /\ Count(unacked, m) > 0 THEN Count(unacked, m) - 1
                                  ELSE Count(unacked, m)
  BY <1>1, <1>7, CountRemove DEF LRem
<1> HIDE DEF c, e
<1>8. ASSUME NEW r, Moves(p, w, r), r.msg = o.msg, UNCHANGED <<fetched, chan, held, unacked>>
      PROVE  Count(unacked, m)' >= e
  <2>1. e + Bit(o.msg = m) = c + Bit(r.msg = m)
    BY <1>3, <1>8
  <2>2. e = c /\ Count(unacked, m)' = Count(unacked, m)
    BY <1>1, <1>5, <1>8, <2>1
  <2> QED BY <2>2 DEF c
<1>9. ASSUME NEW at, Goto(p, w, at), UNCHANGED <<fetched, chan, held, unacked>>
      PROVE  Count(unacked, m)' >= e
  <2>1. Moves(p, w, At(p, w, at)) /\ At(p, w, at).msg = o.msg
    BY <1>2, <1>9, WorkerMoves DEF At, WorkerShapes, WorkerStates
  <2> QED BY <1>8, <1>9, <2>1
<1>10. ASSUME Moves(p, w, Idle), UNCHANGED <<fetched, chan, held>>, unacked' = LRem(o.msg) \/ UNCHANGED unacked
       PROVE  Count(unacked, m)' >= e
  <2>1. e + One(o.msg, m) = c
    BY <1>1, <1>3, <1>5, <1>6, <1>10
  <2>2. Count(unacked, m) >= c
    BY DEF c
  <2>3. CASE UNCHANGED unacked
    <3>1. Count(unacked, m)' = Count(unacked, m)
      BY <2>3
    <3> QED BY <1>1, <1>5, <2>1, <2>2, <3>1
  <2>4. CASE unacked' = LRem(o.msg)
    <3>1. Count(unacked, m)' = IF o.msg = m /\ Count(unacked, m) > 0 THEN Count(unacked, m) - 1
                               ELSE Count(unacked, m)
      BY <1>7, <2>4
    <3> QED BY <1>1, <2>1, <2>2, <3>1 DEF One
  <2> QED BY <1>10, <2>3, <2>4
<1>11. CASE Acquire(p, w)
  <2>1. e = c
    BY <1>11, MemoryAcquire DEF c, e
  <2> QED BY <1>1, <1>11, <2>1 DEF Acquire, lists, c, e
<1>12. CASE Filter(p, w) \/ RejectPush(p, w) \/ ReturnPush(p, w)
  BY <1>9, <1>12 DEF Filter, RejectPush, ReturnPush, lists, e
<1>13. CASE RelayPublish(p, w) \/ RelayPublishError(p, w)
  <2>1. Moves(p, w, Advanced(p, w)) /\ UNCHANGED <<fetched, chan, held, unacked>>
    BY <1>13, WorkerMoves DEF RelayPublish, RelayPublishError, lists
  <2>2. Advanced(p, w).msg = o.msg
    BY <1>2 DEF Advanced, At, WorkerShapes, WorkerStates
  <2> QED BY <1>8, <2>1, <2>2 DEF e
<1>14. CASE Ack(p, w) \/ RejectRem(p, w)
  BY <1>10, <1>14 DEF Ack, RejectRem, Moves, e
<1>15. CASE AckError(p, w)
  <2>1. UNCHANGED <<fetched, chan, held, unacked>>
    BY <1>15 DEF AckError, lists
  <2>2. CASE work' = [work EXCEPT ![p][w] = Idle]
    BY <1>10, <2>1, <2>2 DEF Moves, e
  <2>3. CASE Goto(p, w, "rejecting")
    BY <1>9, <2>1, <2>3 DEF e
  <2> QED BY <1>15, <2>2, <2>3 DEF AckError
<1>16. CASE ReturnRem(p, w)
  <2>1. e + One(o.msg, m) <= c
    BY <1>4, <1>5, <1>16 DEF ReturnRem
  <2>2. Count(unacked, m) >= c
    BY DEF c
  <2>3. Count(unacked, m)' = IF o.msg = m /\ Count(unacked, m) > 0 THEN Count(unacked, m) - 1
                             ELSE Count(unacked, m)
    BY <1>7, <1>16 DEF ReturnRem
  <2>4. Count(unacked, m)' >= e
    BY <1>1, <2>1, <2>2, <2>3 DEF One
  <2> QED BY <2>4 DEF e
<1>17. CASE ReturnError(p, w)
  <2>1. UNCHANGED unacked
    BY <1>17 DEF ReturnError, lists
  <2>2. CASE ProcessEnds(p)
    <3>1. e <= c
      BY <1>1, <1>4, <1>5, <2>2
    <3>2. Count(unacked, m)' = Count(unacked, m) /\ Count(unacked, m) >= c
      BY <2>1 DEF c
    <3> QED BY <1>1, <3>1, <3>2 DEF e
  <2>3. CASE Goto(p, w, "returning") /\ UNCHANGED <<loop, fetched, chan, held, stop>>
    BY <1>9, <2>1, <2>3 DEF e
  <2> QED BY <1>17, <2>2, <2>3 DEF ReturnError
<1> QED BY <1>11, <1>12, <1>13, <1>14, <1>15, <1>16, <1>17 DEF Work

\* No step leaves a delivery in memory without its copy.
LEMMA BackedNext == ASSUME Shapes, InFlightBacked, [Next]_vars PROVE InFlightBacked'
<1> SUFFICES ASSUME admin' = 0, NEW m \in Msgs
             PROVE  Count(unacked, m)' >= Cardinality(InMemory(m)')
  BY DEF InFlightBacked
<1>1. admin = 0 /\ ~SweepStart /\ ~PurgeStart /\ ~SweepMove
  <2>1. admin \in Nat /\ sweep \in Nat /\ (sweep > 0 => admin > 0)
    BY DEF Shapes, ListShapes
  <2>2. ~SweepStart /\ ~PurgeStart
    BY <2>1 DEF SweepStart, PurgeStart
  <2>3. UNCHANGED admin
    <3> USE DEF tools
    <3>1. CASE Environment
      BY <2>2, <3>1 DEF Environment, Publish, FetchError, Crash, StopConsuming, Shutdown,
         RelayPublishError, AckError, ReturnPush, ReturnError, SweepMove, PurgeTrim
    <3>2. ASSUME NEW p \in Procs, Loop(p) PROVE UNCHANGED admin
      BY <3>2 DEF Loop, Fetch, Send, FetchTimeout, Dispatch, Restart
    <3>3. ASSUME NEW p \in Procs, NEW w \in Workers, Work(p, w) PROVE UNCHANGED admin
      BY <3>3 DEF Work, Acquire, Filter, RelayPublish, Ack, RejectPush, RejectRem, ReturnRem
    <3> QED BY <3>1, <3>2, <3>3 DEF Next, vars
  <2> QED BY <2>1, <2>2, <2>3 DEF SweepMove
<1>2. Count(unacked, m) >= Cardinality(InMemory(m))
  BY <1>1 DEF InFlightBacked
<1>3. ASSUME UNCHANGED <<fetched, chan, held, work, unacked>>
      PROVE  Count(unacked, m)' >= Cardinality(InMemory(m)')
  <2>1. InMemory(m)' = InMemory(m)
    BY <1>3 DEF InMemory, DeliveryAt, Places
  <2> QED BY <1>2, <1>3, <2>1
<1>4. CASE (\E x \in Msgs : Publish(x)) \/ PurgeTrim \/ UNCHANGED vars
  BY <1>3, <1>4 DEF Publish, PurgeTrim, vars, local, lists
<1>5. ASSUME NEW p \in Procs, StopConsuming(p) PROVE Count(unacked, m)' >= Cardinality(InMemory(m)')
  BY <1>3, <1>5 DEF StopConsuming, lists
<1>6. ASSUME NEW p \in Procs, Crash(p) \/ Shutdown(p)
      PROVE  Count(unacked, m)' >= Cardinality(InMemory(m)')
  <2>1. ProcessEnds(p) /\ UNCHANGED unacked /\ 1 \in Workers
    BY <1>6 DEF Crash, Shutdown, lists, Workers
  <2>2. Cardinality(InMemory(m)') + Bit(work[p][1].msg = m) <= Cardinality(InMemory(m))
    BY <2>1, MemoryEnd
  <2>3. /\ Cardinality(InMemory(m)) \in Nat /\ Cardinality(InMemory(m)') \in Nat
        /\ Count(unacked, m) \in Nat
    BY FiniteMemory, CountNat DEF Shapes, ListShapes
  <2>4. Count(unacked, m)' = Count(unacked, m) /\ Bit(work[p][1].msg = m) \in Nat
    BY <2>1 DEF Bit
  <2> QED BY <1>2, <2>2, <2>3, <2>4
<1>7. ASSUME NEW p \in Procs, Loop(p) \/ FetchError(p)
      PROVE  Count(unacked, m)' >= Cardinality(InMemory(m)')
  BY <1>2, <1>7, BackedLoop
<1>8. ASSUME NEW p \in Procs, NEW w \in Workers,
             Work(p, w) \/ RelayPublishError(p, w) \/ AckError(p, w) \/ ReturnPush(p, w) \/ ReturnError(p, w)
      PROVE  Count(unacked, m)' >= Cardinality(InMemory(m)')
  BY <1>2, <1>8, BackedWork
<1> QED BY <1>1, <1>4, <1>5, <1>6, <1>7, <1>8 DEF Next, Environment

-----------------------------------------------------------------------------
(* The theorems.                                                           *)

\* IInv is an inductive invariant.
LEMMA Inductive == Spec => []IInv
<1>1. ASSUME IInv, [Next]_vars PROVE IInv'
  <2>1. Shapes /\ InFlightBacked /\ StrictlyKept
    BY <1>1 DEF IInv
  <2>2. Shapes'
    <3>1. CASE Next
      BY <2>1, <3>1, ShapesEnvironment, ShapesProcess DEF Next
    <3>2. CASE UNCHANGED vars
      BY <2>1, <3>2 DEF vars, Shapes, ListShapes, ProcShapes, WorkShapes, lists, local, tools
    <3> QED BY <1>1, <3>1, <3>2
  <2>3. InFlightBacked'
    BY <1>1, <2>1, BackedNext
  <2>4. StrictlyKept'
    BY <1>1, <2>1, <2>2, KeptNext
  <2> QED BY <2>2, <2>3, <2>4 DEF IInv
<1> QED BY <1>1, InitIInv, PTL DEF Spec

\* The lists, the goroutines and their deliveries are well typed, and
\* deliveryChan never exceeds its capacity (queue_consumer.go, relay.go).
THEOREM QueueTypes == Spec => []TypeOK
<1>1. IInv => TypeOK
  BY DEF IInv, Shapes, ListShapes, ProcShapes, WorkShapes, WorkerShapes, TypeOK
<1> QED BY <1>1, Inductive, PTL

\* No end of a process loses a message: each delivery in memory has its own
\* copy in the unacked list until ReturnAllUnacked is called, whatever the
\* numbers of processes, workers, equal payloads, crashes and Redis errors.
THEOREM DeliveriesBacked == Spec => []InFlightBacked
<1>1. IInv => InFlightBacked
  BY DEF IInv
<1> QED BY <1>1, Inductive, PTL

\* At-least-once delivery to every destination of a relay: a Redis error
\* that is taken for a success costs one copy, and nothing else does.
THEOREM DeliveredAtLeastOnce == Spec => []AtLeastOnce
<1>1. IInv => AtLeastOnce
  <2> SUFFICES ASSUME IInv, NEW m \in Passes, NEW d \in Dests
               PROVE  Count(sent, m) <= Count(ready, m) + Count(unacked, m) + Count(rejected, m)
                                        + Count(purged, m) + Count(dest[d], m) + errors
    BY DEF AtLeastOnce
  <2>1. Count(sent, m) + Cardinality(SettledWorkers(m, d)) <= Kept(m, d) + errors
    BY DEF IInv, StrictlyKept
  <2>2. Cardinality(SettledWorkers(m, d)) \in Nat
    BY Finite
  <2>3. /\ Count(sent, m) \in Nat /\ Count(ready, m) \in Nat /\ Count(unacked, m) \in Nat
        /\ Count(rejected, m) \in Nat /\ Count(purged, m) \in Nat /\ Count(dest[d], m) \in Nat
        /\ errors \in Nat
    BY Numbers DEF IInv, Shapes
  <2> QED BY <2>1, <2>2, <2>3 DEF Kept
<1> QED BY <1>1, Inductive, PTL

-----------------------------------------------------------------------------
(* Order: one process with one worker, as long as nothing goes wrong.      *)

\* One consumer with one worker that relays.
OneWorker == (\E p : Procs = {p}) /\ Concurrency = 1 /\ Ends = {"relay"}

\* No process has ended, no Redis command failed and no tool was run.
Undisturbed == exits = 0 /\ errors = 0 /\ admin = 0

\* Destination d has been offered the delivery of worker r.
Past(r, d) == r.at = "ack" \/ (r.at = "publish" /\ r.to > d)

\* The messages sent are, oldest first: c that are done with, up to a with the
\* worker, up to b before the semaphore, up to e in deliveryChan, up to g in
\* the hands of consume(), and the ready list.
Queued(p, c, a, b, e, g) ==
  LET r == work[p][1]
  IN  /\ a = c + Bit(r # Idle) /\ (r # Idle => r.msg = Nth(sent, a))
      /\ b = a + Bit(held[p] # None) /\ (held[p] # None => held[p] = Nth(sent, b))
      /\ e = b + Len(chan[p]) /\ \A i \in 1..Len(chan[p]) : chan[p][i] = Nth(sent, b + i)
      /\ g = e + Bit(fetched[p] # None) /\ (fetched[p] # None => fetched[p] = Nth(sent, g))
      /\ Len(sent) = g + Len(ready) /\ \A i \in 1..Len(ready) : ready[i] = sent[i]

\* Every destination has what passes of the first c, and of the worker's own
\* delivery once it is past the destination.
Handed(p, c) ==
  LET r == work[p][1]
  IN  /\ r.at \in {"idle", "filter", "publish", "ack"}
      /\ r.at = "publish" => r.msg \in Passes
      /\ \A d \in Dests : Relays(dest[d], c + Bit(Past(r, d)))

Line(p) ==
  /\ ~stop[p] /\ loop[p] \in {"fetch", "send"}
  /\ \E c, a, b, e, g \in Nat : Queued(p, c, a, b, e, g) /\ Handed(p, c)

OrderInv == Undisturbed => \A p \in Procs : Line(p)

\* Counting from the oldest, a push adds one and moves none.
LEMMA NthPush ==
  ASSUME NEW S, NEW s \in Seq(S), NEW x \in S
  PROVE  /\ <<x>> \o s \in Seq(S) /\ Len(<<x>> \o s) = Len(s) + 1 /\ Len(s) \in Nat
         /\ Nth(<<x>> \o s, Len(s) + 1) = x
         /\ \A i \in 1..Len(s) : Nth(<<x>> \o s, i) = Nth(s, i)
         /\ (<<x>> \o s)[1] = x /\ \A i \in 1..Len(s) : (<<x>> \o s)[i + 1] = s[i]
<1> DEFINE t == <<x>> \o s
<1>1. t \in Seq(S) /\ Len(t) = Len(s) + 1 /\ Len(s) \in Nat
  OBVIOUS
<1>2. t[1] = x /\ \A i \in 1..Len(s) : t[i + 1] = s[i]
  OBVIOUS
<1> HIDE DEF t
<1>3. Nth(t, Len(s) + 1) = x
  BY <1>1, <1>2 DEF Nth
<1>4. ASSUME NEW i \in 1..Len(s) PROVE Nth(t, i) = Nth(s, i)
  <2>1. Len(s) + 1 - i \in 1..Len(s) /\ Len(t) + 1 - i = (Len(s) + 1 - i) + 1
    BY <1>1
  <2> QED BY <1>2, <2>1 DEF Nth
<1> QED BY <1>1, <1>2, <1>3, <1>4 DEF t

\* A message that does not pass changes nothing.
LEMMA RelaysSkip ==
  ASSUME NEW list, NEW n \in Nat, Relays(list, n), Nth(sent, n + 1) \notin Passes
  PROVE  Relays(list, n + 1)
<1>1. {k \in 1..n+1 : Nth(sent, k) \in Passes} = {k \in 1..n : Nth(sent, k) \in Passes}
  <2>1. \A k \in 1..n+1 : k \in 1..n \/ k = n + 1
    OBVIOUS
  <2>2. \A k \in 1..n : k \in 1..n+1
    OBVIOUS
  <2> QED BY <2>1, <2>2
<1> QED BY <1>1 DEF Relays

\* A message that passes is pushed.
LEMMA RelaysPush ==
  ASSUME NEW S, NEW list \in Seq(S), NEW n \in Nat, Relays(list, n),
         NEW m \in S, m \in Passes, Nth(sent, n + 1) = m
  PROVE  Relays(<<m>> \o list, n + 1)
<1> DEFINE passing(k) == {i \in 1..k : Nth(sent, i) \in Passes}
           N == Len(list)
           t == <<m>> \o list
<1>1. PICK f \in [1..N -> passing(n)] :
        /\ \A i, j \in 1..N : i < j => f[i] < f[j]
        /\ \A k \in passing(n) : \E i \in 1..N : f[i] = k
        /\ \A i \in 1..N : Nth(list, i) = Nth(sent, f[i])
  BY DEF Relays
<1>2. /\ N \in Nat /\ Len(t) = N + 1 /\ Nth(t, N + 1) = m
      /\ \A i \in 1..N : Nth(t, i) = Nth(list, i)
  BY NthPush
<1> DEFINE h == [i \in 1..N+1 |-> IF i = N + 1 THEN n + 1 ELSE f[i]]
<1>3. \A i \in 1..N+1 : i \in 1..N \/ i = N + 1
  BY <1>2
<1>4. \A i \in 1..N : i \in 1..N+1 /\ i # N + 1
  BY <1>2
<1>5. N + 1 \in 1..N+1 /\ n + 1 \in passing(n + 1)
  BY <1>2
<1>6. \A k \in passing(n) : k \in passing(n + 1) /\ k < n + 1 /\ k \in Nat
  OBVIOUS
<1>7. \A k \in passing(n + 1) : k \in passing(n) \/ k = n + 1
  OBVIOUS
<1> HIDE DEF passing, t
<1>8. h[N+1] = n + 1 /\ \A i \in 1..N : h[i] = f[i] /\ h[i] \in passing(n)
  BY <1>1, <1>4, <1>5
<1>9. h \in [1..N+1 -> passing(n + 1)]
  BY <1>1, <1>3, <1>5, <1>6
<1> HIDE DEF h
<1>10. ASSUME NEW i \in 1..N+1, NEW j \in 1..N+1, i < j PROVE h[i] < h[j]
  <2>1. i \in 1..N
    BY <1>2, <1>3, <1>10
  <2>2. CASE j \in 1..N
    BY <1>1, <1>8, <1>10, <2>1, <2>2
  <2>3. CASE j = N + 1
    BY <1>6, <1>8, <2>1, <2>3
  <2> QED BY <1>3, <2>2, <2>3
<1>11. ASSUME NEW k \in passing(n + 1) PROVE \E i \in 1..N+1 : h[i] = k
  <2>1. CASE k = n + 1
    BY <1>5, <1>8, <2>1
  <2>2. CASE k \in passing(n)
    <3>1. PICK i \in 1..N : f[i] = k
      BY <1>1, <2>2
    <3> QED BY <1>4, <1>8, <3>1
  <2> QED BY <1>7, <2>1, <2>2
<1>12. ASSUME NEW i \in 1..N+1 PROVE Nth(t, i) = Nth(sent, h[i])
  <2>1. CASE i = N + 1
    BY <1>2, <1>8, <2>1
  <2>2. CASE i \in 1..N
    BY <1>1, <1>2, <1>8, <2>2
  <2> QED BY <1>3, <2>1, <2>2
<1> HIDE DEF N
<1>13. \E q \in [1..Len(t) -> passing(n + 1)] :
         /\ \A i, j \in 1..Len(t) : i < j => q[i] < q[j]
         /\ \A k \in passing(n + 1) : \E i \in 1..Len(t) : q[i] = k
         /\ \A i \in 1..Len(t) : Nth(t, i) = Nth(sent, q[i])
  BY <1>2, <1>9, <1>10, <1>11, <1>12
<1>14. Relays(t, n + 1)
  BY <1>13 DEF Relays, passing
<1> QED BY <1>14 DEF t

\* What is sent later does not matter.
LEMMA RelaysSent ==
  ASSUME NEW list, NEW n \in Nat, Relays(list, n), \A i \in 1..n : Nth(sent', i) = Nth(sent, i)
  PROVE  Relays(list, n)'
<1> DEFINE P == {k \in 1..n : Nth(sent', k) \in Passes}
<1>1. P = {k \in 1..n : Nth(sent, k) \in Passes}
  OBVIOUS
<1>2. \A k \in P : Nth(sent', k) = Nth(sent, k)
  OBVIOUS
<1> HIDE DEF P
<1>3. PICK f \in [1..Len(list) -> P] :
        /\ \A i, j \in 1..Len(list) : i < j => f[i] < f[j]
        /\ \A k \in P : \E i \in 1..Len(list) : f[i] = k
        /\ \A i \in 1..Len(list) : Nth(list, i) = Nth(sent, f[i])
  BY <1>1 DEF Relays
<1>4. \A i \in 1..Len(list) : Nth(list, i) = Nth(sent', f[i])
  BY <1>2, <1>3
<1>5. \E q \in [1..Len(list) -> P] :
        /\ \A i, j \in 1..Len(list) : i < j => q[i] < q[j]
        /\ \A k \in P : \E i \in 1..Len(list) : q[i] = k
        /\ \A i \in 1..Len(list) : Nth(list, i) = Nth(sent', q[i])
  BY <1>3, <1>4
<1> QED BY <1>5 DEF P, Relays, Nth

\* The marks of the line are in order.
Marks(p, c, a, b, e, g) ==
  /\ Len(sent) \in Nat /\ Len(ready) \in Nat /\ Len(chan[p]) \in Nat
  /\ c <= a /\ a <= b /\ e = b + Len(chan[p]) /\ e <= g /\ Len(sent) = g + Len(ready)
  /\ (work[p][1] # Idle => a = c + 1) /\ (work[p][1] = Idle => a = c)
  /\ (held[p] # None => b = a + 1) /\ (held[p] = None => b = a)
  /\ (fetched[p] # None => g = e + 1) /\ (fetched[p] = None => g = e)

\* A line has its marks.
LEMMA LineMarks ==
  ASSUME Shapes, NEW p \in Procs, NEW c \in Nat, NEW a \in Nat, NEW b \in Nat, NEW e \in Nat,
         NEW g \in Nat, Queued(p, c, a, b, e, g)
  PROVE  Marks(p, c, a, b, e, g)
<1>1. Len(sent) \in Nat /\ Len(ready) \in Nat /\ Len(chan[p]) \in Nat
  BY DEF Shapes, ListShapes, ProcShapes
<1>2. e = b + Len(chan[p]) /\ Len(sent) = g + Len(ready)
  BY DEF Queued
<1>3. (work[p][1] # Idle => a = c + 1) /\ (work[p][1] = Idle => a = c)
  <2>1. a = c + Bit(work[p][1] # Idle)
    BY DEF Queued
  <2> QED BY <2>1 DEF Bit
<1>4. (held[p] # None => b = a + 1) /\ (held[p] = None => b = a)
  <2>1. b = a + Bit(held[p] # None)
    BY DEF Queued
  <2> QED BY <2>1 DEF Bit
<1>5. (fetched[p] # None => g = e + 1) /\ (fetched[p] = None => g = e)
  <2>1. g = e + Bit(fetched[p] # None)
    BY DEF Queued
  <2> QED BY <2>1 DEF Bit
<1>6. c <= a
  BY <1>3
<1>7. a <= b
  BY <1>4
<1>8. e <= g
  BY <1>5
<1> QED BY <1>1, <1>2, <1>3, <1>4, <1>5, <1>6, <1>7, <1>8 DEF Marks

\* All that is in line was sent.
Below(p, c, a, b, g) ==
  /\ c <= Len(sent) /\ Len(sent) = g + Len(ready)
  /\ work[p][1] # Idle => a = c + 1 /\ a \in 1..Len(sent)
  /\ held[p] # None => b \in 1..Len(sent)
  /\ fetched[p] # None => g \in 1..Len(sent)
  /\ \A i \in 1..Len(chan[p]) : b + i \in 1..Len(sent)

\* The marks are below the number of messages sent.
LEMMA MarksBelow ==
  ASSUME NEW p \in Procs, NEW c \in Nat, NEW a \in Nat, NEW b \in Nat, NEW e \in Nat, NEW g \in Nat,
         Marks(p, c, a, b, e, g)
  PROVE  Below(p, c, a, b, g)
<1>1. /\ Len(sent) \in Nat /\ Len(ready) \in Nat /\ Len(chan[p]) \in Nat
      /\ c <= a /\ a <= b /\ e = b + Len(chan[p]) /\ e <= g /\ Len(sent) = g + Len(ready)
  BY DEF Marks
<1>2. c <= Len(sent) /\ a <= Len(sent) /\ b <= Len(sent) /\ e <= Len(sent) /\ g <= Len(sent)
  BY <1>1
<1>3. work[p][1] # Idle => a = c + 1
  BY DEF Marks
<1>4. held[p] # None => b = a + 1
  BY DEF Marks
<1>5. fetched[p] # None => g = e + 1
  BY DEF Marks
<1>6. work[p][1] # Idle => a \in 1..Len(sent)
  BY <1>1, <1>2, <1>3
<1>7. held[p] # None => b \in 1..Len(sent)
  BY <1>1, <1>2, <1>4
<1>8. fetched[p] # None => g \in 1..Len(sent)
  BY <1>1, <1>2, <1>5
<1>9. \A i \in 1..Len(chan[p]) : b + i \in 1..Len(sent)
  BY <1>1, <1>2
<1> QED BY <1>1, <1>2, <1>3, <1>6, <1>7, <1>8, <1>9 DEF Below

\* The line does not depend on the other lists.
LEMMA SameRelays ==
  ASSUME sent' = sent
  PROVE  /\ \A list, n : Relays(list, n)' <=> Relays(list, n)
         /\ \A i : Nth(sent, i)' = Nth(sent, i)
BY DEF Relays, Nth

\* Publishing puts a message at the end of the line.
LEMMA PublishInLine ==
  ASSUME Shapes, NEW p \in Procs, Line(p), NEW m \in Msgs, Publish(m) PROVE Line(p)'
<1>1. PICK c, a, b, e, g \in Nat : Queued(p, c, a, b, e, g) /\ Handed(p, c)
  BY DEF Line
<1>2. /\ sent \in Seq(Msgs) /\ ready \in Seq(Deliveries) /\ m \in Deliveries
      /\ chan[p] \in Seq(Deliveries)
  BY DEF Shapes, ListShapes, ProcShapes, Deliveries
<1>3. UNCHANGED <<dest, loop, fetched, chan, held, work, stop>>
  BY DEF Publish, local
<1>4. /\ Len(sent') = Len(sent) + 1 /\ Len(sent) \in Nat
      /\ \A i \in 1..Len(sent) : Nth(sent', i) = Nth(sent, i)
      /\ sent'[1] = m /\ \A i \in 1..Len(sent) : sent'[i + 1] = sent[i]
  BY <1>2, NthPush DEF Publish
<1>5. /\ Len(ready') = Len(ready) + 1 /\ Len(ready) \in Nat
      /\ ready'[1] = m /\ \A i \in 1..Len(ready) : ready'[i + 1] = ready[i]
  BY <1>2, NthPush DEF Publish
<1>6. Below(p, c, a, b, g)
  <2>1. Marks(p, c, a, b, e, g)
    BY <1>1, LineMarks
  <2> QED BY <2>1, MarksBelow
<1>7. Queued(p, c, a, b, e, g)'
  <2>1. Len(sent') = g + Len(ready')
    BY <1>4, <1>5, <1>6 DEF Below
  <2>2. ASSUME NEW i \in 1..Len(ready') PROVE ready'[i] = sent'[i]
    <3>1. CASE i = 1
      BY <1>4, <1>5, <3>1
    <3>2. CASE i # 1
      <4>1. i - 1 \in 1..Len(ready) /\ i - 1 \in 1..Len(sent) /\ (i - 1) + 1 = i
        BY <1>5, <1>6, <3>2 DEF Below
      <4>2. ready[i - 1] = sent[i - 1]
        BY <1>1, <4>1 DEF Queued
      <4> QED BY <1>4, <1>5, <4>1, <4>2
    <3> QED BY <3>1, <3>2
  <2>3. /\ a = c + Bit(work'[p][1] # Idle) /\ b = a + Bit(held'[p] # None)
        /\ e = b + Len(chan'[p]) /\ g = e + Bit(fetched'[p] # None)
    BY <1>1, <1>3 DEF Queued
  <2>4. /\ work'[p][1] # Idle => work'[p][1].msg = Nth(sent', a)
        /\ held'[p] # None => held'[p] = Nth(sent', b)
        /\ fetched'[p] # None => fetched'[p] = Nth(sent', g)
    <3>1. work[p][1] # Idle => work[p][1].msg = Nth(sent, a) /\ a \in 1..Len(sent)
      BY <1>1, <1>6 DEF Queued, Below
    <3>2. held[p] # None => held[p] = Nth(sent, b) /\ b \in 1..Len(sent)
      BY <1>1, <1>6 DEF Queued, Below
    <3>3. fetched[p] # None => fetched[p] = Nth(sent, g) /\ g \in 1..Len(sent)
      BY <1>1, <1>6 DEF Queued, Below
    <3> QED BY <1>3, <1>4, <3>1, <3>2, <3>3
  <2>5. \A i \in 1..Len(chan'[p]) : chan'[p][i] = Nth(sent', b + i)
    <3>1. \A i \in 1..Len(chan[p]) : chan[p][i] = Nth(sent, b + i) /\ b + i \in 1..Len(sent)
      BY <1>1, <1>6 DEF Queued, Below
    <3> QED BY <1>3, <1>4, <3>1
  <2> QED BY <2>1, <2>2, <2>3, <2>4, <2>5 DEF Queued
<1>8. Handed(p, c)'
  <2>1. ASSUME NEW d \in Dests PROVE Relays(dest[d], c + Bit(Past(work[p][1], d)))'
    <3> DEFINE n == c + Bit(Past(work[p][1], d))
    <3>1. PICK k \in Nat : k = n
      BY DEF Bit
    <3>2. k <= Len(sent)
      <4>1. Past(work[p][1], d) => work[p][1] # Idle
        BY DEF Past, Idle
      <4>2. (Past(work[p][1], d) => k = c + 1 /\ a = c + 1) /\ (~Past(work[p][1], d) => k = c)
        <5>1. work[p][1] # Idle => a = c + 1
          BY <1>6 DEF Below
        <5>2. Past(work[p][1], d) => k = c + 1
          BY <3>1 DEF Bit
        <5>3. ~Past(work[p][1], d) => k = c
          BY <3>1 DEF Bit
        <5> QED BY <4>1, <5>1, <5>2, <5>3
      <4>3. c <= Len(sent) /\ (work[p][1] # Idle => a \in 1..Len(sent))
        BY <1>6 DEF Below
      <4> QED BY <1>4, <4>1, <4>2, <4>3
    <3>3. Relays(dest[d], k)
      BY <1>1, <3>1 DEF Handed
    <3>4. \A i \in 1..k : Nth(sent', i) = Nth(sent, i)
      BY <1>4, <3>2
    <3>5. PICK list : list = dest[d]
      OBVIOUS
    <3>6. Relays(list, k)'
      <4>1. Relays(list, k)
        BY <3>3, <3>5
      <4> QED BY <3>4, <4>1, RelaysSent
    <3>7. (c + Bit(Past(work[p][1], d)))' = k
      BY <1>3, <3>1 DEF Past, Bit
    <3> QED BY <1>3, <3>5, <3>6, <3>7
  <2> QED BY <1>1, <1>3, <2>1 DEF Handed
<1> QED BY <1>3, <1>7, <1>8 DEF Line

\* BRPOPLPUSH takes the oldest message that is ready.
LEMMA FetchInLine ==
  ASSUME Shapes, NEW p \in Procs, Line(p), Fetch(p) PROVE Line(p)'
<1>1. PICK c, a, b, e, g \in Nat : Queued(p, c, a, b, e, g) /\ Handed(p, c)
  BY DEF Line
<1>2. /\ sent \in Seq(Msgs) /\ ready \in Seq(Deliveries) /\ ready # <<>>
      /\ loop[p] = "fetch" /\ fetched[p] = None
      /\ UNCHANGED <<dest, chan, held, work, stop, sent>>
      /\ ready' = Front(ready) /\ fetched'[p] = Last(ready) /\ loop'[p] = "send"
  BY DEF Shapes, ListShapes, ProcShapes, Fetch, BRPopLPush
<1>3. /\ Len(ready) \in Nat \ {0} /\ Len(ready') = Len(ready) - 1
      /\ \A i \in 1..Len(ready') : ready'[i] = ready[i]
      /\ Last(ready) = ready[Len(ready)] /\ Last(ready) \in Deliveries
  <2>1. Len(ready) \in Nat \ {0}
    BY <1>2
  <2>2. Last(ready) = ready[Len(ready)] /\ Last(ready) \in Deliveries
    BY <1>2, <2>1 DEF Last
  <2>3. Len(ready') = Len(ready) - 1 /\ \A i \in 1..Len(ready') : ready'[i] = ready[i]
    <3> DEFINE t == SubSeq(ready, 1, Len(ready) - 1)
    <3>1. \A i \in 1..Len(ready) - 1 : ready[i] \in Deliveries
      BY <1>2, <2>1
    <3>2. Len(t) = (IF 1 <= Len(ready) - 1 THEN Len(ready) - 1 - 1 + 1 ELSE 0)
          /\ \A i \in 1..Len(ready) - 1 - 1 + 1 : t[i] = ready[1 + i - 1]
      BY <2>1, <3>1, SubSeqProperties
    <3>3. ready' = t
      BY <1>2 DEF Front
    <3> HIDE DEF t
    <3>4. \A i \in 1..Len(ready) - 1 : 1 + i - 1 = i
      OBVIOUS
    <3> QED BY <2>1, <3>2, <3>3, <3>4
  <2> QED BY <2>1, <2>2, <2>3
<1>4. Last(ready) # None
  BY <1>3 DEF Deliveries
<1>5. g = e /\ Len(sent) = g + Len(ready) /\ Len(sent) \in Nat
  <2>1. Marks(p, c, a, b, e, g)
    BY <1>1, LineMarks
  <2> QED BY <1>2, <2>1 DEF Marks
<1>6. Last(ready) = Nth(sent, g + 1)
  <2>1. Len(ready) \in 1..Len(ready) /\ Len(sent) + 1 - (g + 1) = Len(ready)
    BY <1>3, <1>5
  <2>2. ready[Len(ready)] = sent[Len(ready)]
    BY <1>1, <2>1 DEF Queued
  <2> QED BY <1>3, <2>1, <2>2 DEF Nth
<1>7. Queued(p, c, a, b, e, g + 1)'
  <2>1. /\ a = c + Bit(work[p][1] # Idle) /\ (work[p][1] # Idle => work[p][1].msg = Nth(sent, a))
        /\ b = a + Bit(held[p] # None) /\ (held[p] # None => held[p] = Nth(sent, b))
        /\ e = b + Len(chan[p]) /\ \A i \in 1..Len(chan[p]) : chan[p][i] = Nth(sent, b + i)
    BY <1>1 DEF Queued
  <2>2. g + 1 = e + Bit(fetched'[p] # None)
    BY <1>2, <1>4, <1>5 DEF Bit
  <2>3. fetched'[p] = Nth(sent, g + 1)
    BY <1>2, <1>6
  <2>4. Len(sent) = (g + 1) + Len(ready')
    BY <1>3, <1>5
  <2>5. \A i \in 1..Len(ready') : ready'[i] = sent[i]
    <3>1. \A i \in 1..Len(ready') : i \in 1..Len(ready)
      BY <1>3
    <3> QED BY <1>1, <1>3, <3>1 DEF Queued
  <2> QED BY <1>2, <2>1, <2>2, <2>3, <2>4, <2>5 DEF Queued, Nth, Bit, Idle
<1>8. Handed(p, c)'
  BY <1>1, <1>2, SameRelays DEF Handed, Past, Bit
<1>9. ~stop'[p] /\ loop'[p] = "send" /\ g + 1 \in Nat
  BY <1>2 DEF Line
<1> QED BY <1>7, <1>8, <1>9 DEF Line

\* consume() puts its delivery at the end of deliveryChan.
LEMMA SendInLine ==
  ASSUME Shapes, NEW p \in Procs, Line(p), Send(p) PROVE Line(p)'
<1>1. PICK c, a, b, e, g \in Nat : Queued(p, c, a, b, e, g) /\ Handed(p, c)
  BY DEF Line
<1>2. /\ chan[p] \in Seq(Deliveries) /\ fetched[p] \in Deliveries /\ fetched[p] # None
      /\ UNCHANGED <<dest, ready, held, work, stop, sent>>
      /\ chan'[p] = Append(chan[p], fetched[p]) /\ fetched'[p] = None /\ loop'[p] = NextLoop(p)
  BY DEF Shapes, ProcShapes, Send, lists
<1>3. loop'[p] = "fetch"
  BY <1>2 DEF Line, NextLoop
<1>4. /\ Len(chan'[p]) = Len(chan[p]) + 1 /\ Len(chan[p]) \in Nat
      /\ chan'[p][Len(chan[p]) + 1] = fetched[p]
      /\ \A i \in 1..Len(chan[p]) : chan'[p][i] = chan[p][i]
  BY <1>2
<1>5. g = e + 1 /\ e = b + Len(chan[p]) /\ Len(sent) = g + Len(ready)
  <2>1. Marks(p, c, a, b, e, g)
    BY <1>1, LineMarks
  <2> QED BY <1>2, <2>1 DEF Marks
<1>6. Queued(p, c, a, b, g, g)'
  <2>1. /\ a = c + Bit(work[p][1] # Idle) /\ (work[p][1] # Idle => work[p][1].msg = Nth(sent, a))
        /\ b = a + Bit(held[p] # None) /\ (held[p] # None => held[p] = Nth(sent, b))
        /\ \A i \in 1..Len(ready) : ready[i] = sent[i]
    BY <1>1 DEF Queued
  <2>2. g = b + Len(chan'[p]) /\ g = g + Bit(fetched'[p] # None)
    <3>1. g = b + Len(chan'[p])
      BY <1>4, <1>5
    <3>2. Bit(fetched'[p] # None) = 0
      BY <1>2 DEF Bit
    <3> QED BY <3>1, <3>2
  <2>3. ASSUME NEW i \in 1..Len(chan'[p]) PROVE chan'[p][i] = Nth(sent, b + i)
    <3>1. CASE i = Len(chan[p]) + 1
      <4>1. b + i = g
        BY <1>4, <1>5, <3>1
      <4> QED BY <1>1, <1>2, <1>4, <3>1, <4>1 DEF Queued
    <3>2. CASE i \in 1..Len(chan[p])
      BY <1>1, <1>4, <3>2 DEF Queued
    <3> QED BY <1>4, <3>1, <3>2
  <2> QED BY <1>2, <1>5, <2>1, <2>2, <2>3 DEF Queued, Nth, Bit, Idle
<1>7. Handed(p, c)'
  BY <1>1, <1>2, SameRelays DEF Handed, Past, Bit
<1> QED BY <1>2, <1>3, <1>6, <1>7 DEF Line

\* The oldest delivery leaves deliveryChan.
LEMMA DispatchInLine ==
  ASSUME Shapes, NEW p \in Procs, Line(p), Dispatch(p) PROVE Line(p)'
<1>1. PICK c, a, b, e, g \in Nat : Queued(p, c, a, b, e, g) /\ Handed(p, c)
  BY DEF Line
<1>2. /\ chan[p] \in Seq(Deliveries) /\ chan[p] # <<>> /\ held[p] = None
      /\ UNCHANGED <<dest, ready, loop, fetched, work, stop, sent>>
      /\ chan'[p] = Tail(chan[p]) /\ held'[p] = Head(chan[p])
  BY DEF Shapes, ProcShapes, Dispatch, lists
<1>3. /\ Len(chan[p]) \in Nat \ {0} /\ Len(chan'[p]) = Len(chan[p]) - 1
      /\ Head(chan[p]) = chan[p][1] /\ Head(chan[p]) \in Deliveries
      /\ \A i \in 1..Len(chan'[p]) : chan'[p][i] = chan[p][i + 1]
  BY <1>2
<1>4. Head(chan[p]) # None
  BY <1>3 DEF Deliveries
<1>5. b = a /\ e = b + Len(chan[p])
  <2>1. Marks(p, c, a, b, e, g)
    BY <1>1, LineMarks
  <2> QED BY <1>2, <2>1 DEF Marks
<1>6. Queued(p, c, a, b + 1, e, g)'
  <2>1. /\ a = c + Bit(work[p][1] # Idle) /\ (work[p][1] # Idle => work[p][1].msg = Nth(sent, a))
        /\ g = e + Bit(fetched[p] # None) /\ (fetched[p] # None => fetched[p] = Nth(sent, g))
        /\ Len(sent) = g + Len(ready) /\ \A i \in 1..Len(ready) : ready[i] = sent[i]
    BY <1>1 DEF Queued
  <2>2. b + 1 = a + Bit(held'[p] # None) /\ e = (b + 1) + Len(chan'[p])
    BY <1>2, <1>3, <1>4, <1>5 DEF Bit
  <2>3. held'[p] = Nth(sent, b + 1)
    <3>1. 1 \in 1..Len(chan[p])
      BY <1>3
    <3> QED BY <1>1, <1>2, <1>3, <3>1 DEF Queued
  <2>4. ASSUME NEW i \in 1..Len(chan'[p]) PROVE chan'[p][i] = Nth(sent, (b + 1) + i)
    <3>1. i + 1 \in 1..Len(chan[p]) /\ b + (i + 1) = (b + 1) + i
      BY <1>3
    <3>2. chan[p][i + 1] = Nth(sent, b + (i + 1))
      BY <1>1, <3>1 DEF Queued
    <3> QED BY <1>3, <3>1, <3>2
  <2> QED BY <1>2, <2>1, <2>2, <2>3, <2>4 DEF Queued, Nth, Bit, Idle
<1>7. Handed(p, c)'
  BY <1>1, <1>2, SameRelays DEF Handed, Past, Bit
<1>8. ~stop'[p] /\ loop'[p] \in {"fetch", "send"} /\ b + 1 \in Nat
  BY <1>2 DEF Line
<1> QED BY <1>6, <1>7, <1>8 DEF Line

\* The worker takes the delivery that waits for the semaphore.
LEMMA AcquireInLine ==
  ASSUME OneWorker, Shapes, NEW p \in Procs, Line(p), Acquire(p, 1) PROVE Line(p)'
<1>1. PICK c, a, b, e, g \in Nat : Queued(p, c, a, b, e, g) /\ Handed(p, c)
  BY DEF Line
<1> DEFINE r == [at |-> "filter", msg |-> held[p], to |-> 1]
<1>2. /\ held[p] # None /\ work[p][1] = Idle
      /\ UNCHANGED <<dest, ready, loop, fetched, chan, stop, sent>>
      /\ work'[p][1] = r /\ held'[p] = None
  BY DEF Shapes, ProcShapes, WorkShapes, Acquire, lists, OneWorker, Workers
<1>3. r # Idle
  BY DEF Idle
<1>4. a = c /\ b = a + 1
  <2>1. Marks(p, c, a, b, e, g)
    BY <1>1, LineMarks
  <2> QED BY <1>2, <2>1 DEF Marks
<1>5. Queued(p, c, b, b, e, g)'
  <2>1. /\ e = b + Len(chan[p]) /\ \A i \in 1..Len(chan[p]) : chan[p][i] = Nth(sent, b + i)
        /\ g = e + Bit(fetched[p] # None) /\ (fetched[p] # None => fetched[p] = Nth(sent, g))
        /\ Len(sent) = g + Len(ready) /\ \A i \in 1..Len(ready) : ready[i] = sent[i]
        /\ held[p] = Nth(sent, b)
    BY <1>1, <1>2 DEF Queued
  <2>2. b = c + Bit(work'[p][1] # Idle) /\ b = b + Bit(held'[p] # None)
    BY <1>2, <1>3, <1>4 DEF Bit
  <2>3. work'[p][1].msg = Nth(sent, b)
    BY <1>2, <2>1
  <2> QED BY <1>2, <2>1, <2>2, <2>3 DEF Queued, Nth, Bit, Idle
<1>6. Handed(p, c)'
  <2>1. \A d \in Dests : Relays(dest[d], c)
    <3>1. \A d : ~Past(work[p][1], d)
      BY <1>2 DEF Past, Idle
    <3> QED BY <1>1, <3>1 DEF Handed, Bit
  <2>2. work'[p][1].at = "filter"
    BY <1>2
  <2>3. \A d : (c + Bit(Past(work[p][1], d)))' = c
    BY <2>2 DEF Past, Bit
  <2>4. \A d \in Dests : Relays(dest[d], c + Bit(Past(work[p][1], d)))'
    BY <1>2, <2>1, <2>3, SameRelays
  <2> QED BY <2>2, <2>4 DEF Handed
<1>7. ~stop'[p] /\ loop'[p] \in {"fetch", "send"}
  BY <1>2 DEF Line
<1> QED BY <1>5, <1>6, <1>7 DEF Line

\* What the worker has, if anything, is the oldest message not done with.
LEMMA WorkerInLine ==
  ASSUME OneWorker, Shapes, NEW p \in Procs, NEW c \in Nat, NEW a \in Nat, NEW b \in Nat,
         NEW e \in Nat, NEW g \in Nat, Queued(p, c, a, b, e, g), work[p][1].at # "idle"
  PROVE  /\ 1 \in Workers /\ work[p][1] \in WorkerShapes /\ work[p][1] # Idle
         /\ a = c + 1 /\ work[p][1].msg = Nth(sent, c + 1)
         /\ work[p][1].msg \in Msgs /\ work[p][1].msg # Empty
<1>1. 1 \in Workers
  BY DEF OneWorker, Workers
<1>2. work[p][1] \in WorkerShapes
  BY <1>1 DEF Shapes, WorkShapes
<1>3. work[p][1] # Idle
  BY DEF Idle
<1>4. Marks(p, c, a, b, e, g)
  BY LineMarks
<1>5. a = c + 1 /\ a <= Len(sent) /\ Len(sent) \in Nat
  BY <1>3, <1>4 DEF Marks
<1>6. work[p][1].msg = Nth(sent, c + 1)
  BY <1>3, <1>5 DEF Queued
<1>7. Len(sent) + 1 - (c + 1) \in 1..Len(sent)
  BY <1>5
<1>8. Nth(sent, c + 1) \in Msgs
  BY <1>7 DEF Nth, Shapes, ListShapes
<1> QED BY <1>1, <1>2, <1>3, <1>5, <1>6, <1>8

\* A worker that goes on with its delivery.
LEMMA WorkerGoesOn ==
  ASSUME NEW p \in Procs, NEW c \in Nat, NEW a \in Nat, NEW b \in Nat,
         NEW e \in Nat, NEW g \in Nat, Queued(p, c, a, b, e, g),
         UNCHANGED <<ready, fetched, chan, held, sent>>,
         work[p][1] # Idle, work'[p][1] # Idle, work'[p][1].msg = work[p][1].msg
  PROVE  Queued(p, c, a, b, e, g)'
<1>1. /\ a = c + Bit(work'[p][1] # Idle) /\ (work'[p][1] # Idle => work'[p][1].msg = Nth(sent, a))
  BY DEF Queued, Bit
<1>2. /\ b = a + Bit(held[p] # None) /\ (held[p] # None => held[p] = Nth(sent, b))
      /\ e = b + Len(chan[p]) /\ \A i \in 1..Len(chan[p]) : chan[p][i] = Nth(sent, b + i)
      /\ g = e + Bit(fetched[p] # None) /\ (fetched[p] # None => fetched[p] = Nth(sent, g))
      /\ Len(sent) = g + Len(ready) /\ \A i \in 1..Len(ready) : ready[i] = sent[i]
  BY DEF Queued
<1> QED BY <1>1, <1>2 DEF Queued, Nth, Bit, Idle

\* The filter lets the delivery through, or sends it to its Ack.
LEMMA FilterInLine ==
  ASSUME OneWorker, Shapes, NEW p \in Procs, Line(p), Filter(p, 1) PROVE Line(p)'
<1>1. PICK c, a, b, e, g \in Nat : Queued(p, c, a, b, e, g) /\ Handed(p, c)
  BY DEF Line
<1> DEFINE r == work[p][1]
           at == IF r.msg \in Passes \cup {Empty} THEN "publish" ELSE "ack"
<1>2. r.at = "filter" /\ UNCHANGED <<ready, dest, loop, fetched, chan, held, stop, sent>>
  BY DEF Filter, lists
<1>3. /\ 1 \in Workers /\ r \in WorkerShapes /\ r # Idle /\ r.msg = Nth(sent, c + 1)
      /\ r.msg \in Msgs /\ r.msg # Empty
  BY <1>1, <1>2, WorkerInLine
<1>4. r.to = 1
  BY <1>2, <1>3 DEF WorkerShapes, Idle
<1>5. work'[p][1] = [r EXCEPT !.at = at]
  BY <1>3 DEF Filter, Goto, Shapes, WorkShapes
<1>6. work'[p][1].at = at /\ work'[p][1].msg = r.msg /\ work'[p][1].to = 1
  BY <1>3, <1>4, <1>5 DEF WorkerShapes, WorkerStates
<1>7. work'[p][1] # Idle
  BY <1>6 DEF Idle
<1>8. Queued(p, c, a, b, e, g)'
  BY <1>1, <1>2, <1>3, <1>6, <1>7, WorkerGoesOn
<1>9. Handed(p, c)'
  <2>1. \A d \in Dests : Relays(dest[d], c)
    <3>1. \A d : ~Past(r, d)
      BY <1>2 DEF Past
    <3> QED BY <1>1, <3>1 DEF Handed, Bit
  <2>2. CASE r.msg \in Passes
    <3>1. work'[p][1].at = "publish"
      BY <1>6, <2>2
    <3>2. \A d \in Dests : (c + Bit(Past(work[p][1], d)))' = c
      BY <1>6, <3>1 DEF Past, Bit, Dests
    <3>3. \A d \in Dests : Relays(dest[d], c + Bit(Past(work[p][1], d)))'
      BY <1>2, <2>1, <3>2, SameRelays
    <3> QED BY <1>6, <2>2, <3>1, <3>3 DEF Handed
  <2>3. CASE r.msg \notin Passes
    <3>1. work'[p][1].at = "ack"
      BY <1>3, <1>6, <2>3
    <3>2. \A d \in Dests : (c + Bit(Past(work[p][1], d)))' = c + 1
      BY <3>1 DEF Past, Bit
    <3>3. \A d \in Dests : Relays(dest[d], c + 1)
      BY <1>3, <2>1, <2>3, RelaysSkip
    <3>4. \A d \in Dests : Relays(dest[d], c + Bit(Past(work[p][1], d)))'
      BY <1>2, <3>2, <3>3, SameRelays
    <3> QED BY <3>1, <3>4 DEF Handed
  <2> QED BY <2>2, <2>3
<1>10. ~stop'[p] /\ loop'[p] \in {"fetch", "send"}
  BY <1>2 DEF Line
<1> QED BY <1>8, <1>9, <1>10 DEF Line

\* The delivery goes to the destinations one by one.
LEMMA RelayInLine ==
  ASSUME OneWorker, Shapes, NEW p \in Procs, Line(p), RelayPublish(p, 1) PROVE Line(p)'
<1>1. PICK c, a, b, e, g \in Nat : Queued(p, c, a, b, e, g) /\ Handed(p, c)
  BY DEF Line
<1> DEFINE r == work[p][1]
<1>2. r.at = "publish" /\ UNCHANGED <<ready, loop, fetched, chan, held, stop, sent>>
  BY DEF RelayPublish, lists
<1>3. /\ 1 \in Workers /\ r \in WorkerShapes /\ r # Idle /\ r.msg = Nth(sent, c + 1)
      /\ r.msg \in Msgs /\ r.msg # Empty
  BY <1>1, <1>2, WorkerInLine
<1>4. r.to \in Dests /\ r.msg \in Passes
  <2>1. r.to \in 0..NDest /\ r.to # 0
    BY <1>2, <1>3 DEF WorkerShapes, WorkerStates, Idle
  <2>2. r.msg \in Passes
    BY <1>1, <1>2 DEF Handed
  <2> QED BY <2>1, <2>2 DEF Dests
<1>5. work'[p][1] = IF r.to = NDest THEN [r EXCEPT !.at = "ack"] ELSE [r EXCEPT !.to = r.to + 1]
  BY <1>3 DEF RelayPublish, Advance, Shapes, WorkShapes
<1>6. /\ work'[p][1].msg = r.msg
      /\ r.to = NDest => work'[p][1].at = "ack"
      /\ r.to # NDest => work'[p][1].at = "publish" /\ work'[p][1].to = r.to + 1
  BY <1>2, <1>3, <1>5 DEF WorkerShapes, WorkerStates
<1>7. work'[p][1] # Idle
  BY <1>6 DEF Idle
<1>8. Queued(p, c, a, b, e, g)'
  BY <1>1, <1>2, <1>3, <1>6, <1>7, WorkerGoesOn
<1>9. ASSUME NEW d \in Dests PROVE Relays(dest[d], c + Bit(Past(work[p][1], d)))'
  <2>1. dest \in [Dests -> Seq(Msgs)]
    BY DEF Shapes, ListShapes
  <2>2. dest' = [dest EXCEPT ![r.to] = <<r.msg>> \o @]
    BY <1>3 DEF RelayPublish
  <2>3. d \in Nat /\ d <= NDest /\ r.to \in Nat /\ NDest \in Nat
    BY <1>4 DEF Dests
  <2>4. CASE d < r.to
    <3>1. Past(r, d) /\ Past(work'[p][1], d)
      BY <1>2, <1>6, <2>3, <2>4 DEF Past
    <3>2. (c + Bit(Past(work[p][1], d)))' = c + 1 /\ c + Bit(Past(r, d)) = c + 1
      BY <3>1 DEF Past, Bit
    <3>3. dest'[d] = dest[d] /\ Relays(dest[d], c + 1)
      BY <1>1, <2>1, <2>2, <2>3, <2>4, <3>2 DEF Handed
    <3> QED BY <1>2, <3>2, <3>3, SameRelays
  <2>5. CASE d = r.to
    <3>1. ~Past(r, d) /\ Past(work'[p][1], d)
      BY <1>2, <1>6, <2>3, <2>5 DEF Past
    <3>2. (c + Bit(Past(work[p][1], d)))' = c + 1 /\ c + Bit(Past(r, d)) = c
      BY <3>1 DEF Past, Bit
    <3>3. dest'[d] = <<r.msg>> \o dest[d] /\ Relays(dest[d], c) /\ dest[d] \in Seq(Msgs)
      BY <1>1, <2>1, <2>2, <2>5, <3>2 DEF Handed
    <3>4. Relays(<<r.msg>> \o dest[d], c + 1)
      BY <1>3, <1>4, <3>3, RelaysPush
    <3> QED BY <1>2, <3>2, <3>3, <3>4, SameRelays
  <2>6. CASE d > r.to
    <3>1. ~Past(r, d) /\ ~Past(work'[p][1], d)
      BY <1>2, <1>6, <2>3, <2>6 DEF Past
    <3>2. (c + Bit(Past(work[p][1], d)))' = c /\ c + Bit(Past(r, d)) = c
      BY <3>1 DEF Past, Bit
    <3>3. dest'[d] = dest[d] /\ Relays(dest[d], c)
      BY <1>1, <2>1, <2>2, <2>3, <2>6, <3>2 DEF Handed
    <3> QED BY <1>2, <3>2, <3>3, SameRelays
  <2> QED BY <2>3, <2>4, <2>5, <2>6
<1>10. Handed(p, c)'
  <2>1. work'[p][1].at \in {"publish", "ack"} /\ work'[p][1].msg \in Passes
    BY <1>4, <1>6
  <2> QED BY <1>9, <2>1 DEF Handed
<1>11. ~stop'[p] /\ loop'[p] \in {"fetch", "send"}
  BY <1>2 DEF Line
<1> QED BY <1>8, <1>10, <1>11 DEF Line

\* The worker is done with its delivery.
LEMMA AckInLine ==
  ASSUME OneWorker, Shapes, NEW p \in Procs, Line(p), Ack(p, 1) PROVE Line(p)'
<1>1. PICK c, a, b, e, g \in Nat : Queued(p, c, a, b, e, g) /\ Handed(p, c)
  BY DEF Line
<1>2. work[p][1].at = "ack" /\ UNCHANGED <<ready, dest, loop, fetched, chan, held, stop, sent>>
  BY DEF Ack
<1>3. 1 \in Workers /\ a = c + 1
  BY <1>1, <1>2, WorkerInLine
<1>4. work'[p][1] = Idle
  BY <1>3 DEF Ack, Shapes, WorkShapes
<1>5. Queued(p, a, a, b, e, g)'
  <2>1. /\ b = a + Bit(held[p] # None) /\ (held[p] # None => held[p] = Nth(sent, b))
        /\ e = b + Len(chan[p]) /\ \A i \in 1..Len(chan[p]) : chan[p][i] = Nth(sent, b + i)
        /\ g = e + Bit(fetched[p] # None) /\ (fetched[p] # None => fetched[p] = Nth(sent, g))
        /\ Len(sent) = g + Len(ready) /\ \A i \in 1..Len(ready) : ready[i] = sent[i]
    BY <1>1 DEF Queued
  <2>2. a = a + Bit(work'[p][1] # Idle)
    BY <1>4 DEF Bit
  <2> QED BY <1>2, <1>4, <2>1, <2>2 DEF Queued, Nth, Bit, Idle
<1>6. Handed(p, a)'
  <2>1. \A d \in Dests : Relays(dest[d], a)
    <3>1. \A d : c + Bit(Past(work[p][1], d)) = a
      BY <1>2, <1>3 DEF Past, Bit
    <3> QED BY <1>1, <3>1 DEF Handed
  <2>2. work'[p][1].at = "idle"
    BY <1>4 DEF Idle
  <2>3. \A d : (a + Bit(Past(work[p][1], d)))' = a
    BY <2>2 DEF Past, Bit
  <2>4. \A d \in Dests : Relays(dest[d], a + Bit(Past(work[p][1], d)))'
    BY <1>2, <2>1, <2>3, SameRelays
  <2> QED BY <2>2, <2>4 DEF Handed
<1>7. ~stop'[p] /\ loop'[p] \in {"fetch", "send"}
  BY <1>2 DEF Line
<1> QED BY <1>5, <1>6, <1>7 DEF Line

\* Nothing is in line at first.
LEMMA InitInLine == ASSUME OneWorker, Init, NEW p \in Procs PROVE Line(p)
<1>1. /\ work[p][1] = Idle /\ held[p] = None /\ chan[p] = <<>> /\ fetched[p] = None
      /\ ready = <<>> /\ sent = <<>> /\ loop[p] = "fetch" /\ ~stop[p]
      /\ \A d \in Dests : dest[d] = <<>>
  BY DEF Init, OneWorker, Workers
<1>2. Queued(p, 0, 0, 0, 0, 0)
  BY <1>1 DEF Queued, Bit
<1>3. Relays(<<>>, 0)
  <2> DEFINE passing == {k \in 1..0 : Nth(sent, k) \in Passes}
             f == [i \in 1..0 |-> 0]
  <2>1. passing = {} /\ Len(<<>>) = 0 /\ \A i \in 1..0 : FALSE
    OBVIOUS
  <2>2. f \in [1..0 -> passing]
    BY <2>1
  <2> HIDE DEF f
  <2> QED BY <2>1, <2>2 DEF Relays
<1>4. Handed(p, 0)
  <2>1. \A d : 0 + Bit(Past(work[p][1], d)) = 0
    BY <1>1 DEF Past, Bit, Idle
  <2> QED BY <1>1, <1>3, <2>1 DEF Handed, Idle
<1> QED BY <1>1, <1>2, <1>4 DEF Line

\* A step that touches neither the line nor the destinations.
LEMMA OtherInLine ==
  ASSUME NEW p \in Procs, Line(p), UNCHANGED <<ready, dest, local, sent>> PROVE Line(p)'
<1>1. \A c, a, b, e, g : Queued(p, c, a, b, e, g)' <=> Queued(p, c, a, b, e, g)
  BY DEF Queued, local, Nth, Bit, Idle
<1>2. \A c : Handed(p, c) => Handed(p, c)'
  <2>1. \A c, d : (c + Bit(Past(work[p][1], d)))' = c + Bit(Past(work[p][1], d))
    BY DEF local, Past, Bit
  <2> QED BY <2>1, SameRelays DEF Handed, local
<1> QED BY <1>1, <1>2 DEF Line, local

\* The line is kept as long as nothing goes wrong.
LEMMA NextInLine ==
  ASSUME OneWorker, Shapes, Shapes', OrderInv, [Next]_vars PROVE OrderInv'
<1> SUFFICES ASSUME Undisturbed', NEW p \in Procs PROVE Line(p)'
  BY DEF OrderInv
<1>1. exits \in Nat /\ errors \in Nat /\ admin \in Nat /\ (sweep > 0 => admin > 0)
  BY DEF Shapes, ListShapes
<1>2. exits' = 0 /\ errors' = 0 /\ admin' = 0
  BY DEF Undisturbed
<1>3. ~RedisError /\ ~MayEnd
  BY <1>1, <1>2 DEF RedisError, MayEnd
<1>4. \A q \in Procs : q = p
  BY DEF OneWorker
<1>5. \A w \in Workers : w = 1
  BY DEF OneWorker, Workers
<1>6. ~SweepStart /\ ~PurgeStart
  BY <1>1, <1>2 DEF SweepStart, PurgeStart
<1>7. exits = 0 /\ errors = 0 /\ admin = 0
  <2>1. CASE Environment
    <3>1. exits' = exits /\ errors' = errors
      BY <1>3, <2>1 DEF Environment, Publish, FetchError, Crash, StopConsuming, Shutdown,
         RelayPublishError, AckError, ReturnPush, ReturnError, SweepStart, SweepMove, PurgeStart, PurgeTrim
    <3>2. admin' = admin
      BY <1>6, <2>1 DEF Environment, Publish, FetchError, Crash, StopConsuming, Shutdown,
         RelayPublishError, AckError, ReturnPush, ReturnError, SweepMove, PurgeTrim, tools
    <3> QED BY <1>2, <3>1, <3>2
  <2>2. CASE \E q \in Procs : Loop(q)
    BY <1>2, <2>2 DEF Loop, Fetch, Send, FetchTimeout, Dispatch, Restart, tools
  <2>3. CASE \E q \in Procs, w \in Workers : Work(q, w)
    BY <1>2, <2>3 DEF Work, Acquire, Filter, RelayPublish, Ack, RejectPush, RejectRem, ReturnRem, tools
  <2>4. CASE UNCHANGED vars
    BY <1>2, <2>4 DEF vars, tools
  <2> QED BY <2>1, <2>2, <2>3, <2>4 DEF Next
<1>8. Line(p)
  BY <1>7 DEF OrderInv, Undisturbed
<1>9. /\ ~stop[p] /\ loop[p] \in {"fetch", "send"}
      /\ work[p][1].at \in {"idle", "filter", "publish", "ack"}
  BY <1>8 DEF Line, Handed
<1>10. CASE \E m \in Msgs : Publish(m)
  BY <1>8, <1>10, PublishInLine
<1>11. CASE PurgeTrim \/ SweepMove
  <2>1. ~SweepMove
    BY <1>1, <1>7 DEF SweepMove
  <2> QED BY <1>8, <1>11, <2>1, OtherInLine DEF PurgeTrim
<1>12. CASE \E q \in Procs : FetchError(q) \/ Crash(q) \/ StopConsuming(q) \/ Shutdown(q)
  BY <1>3, <1>4, <1>9, <1>12 DEF FetchError, Crash, StopConsuming, Shutdown
<1>13. CASE \E q \in Procs, w \in Workers :
              RelayPublishError(q, w) \/ AckError(q, w) \/ ReturnPush(q, w) \/ ReturnError(q, w)
  BY <1>3, <1>13 DEF RelayPublishError, AckError, ReturnPush, ReturnError
<1>14. CASE \E q \in Procs : Loop(q)
  <2>1. Loop(p)
    BY <1>4, <1>14
  <2>2. ~FetchTimeout(p) /\ ~Restart(p)
    BY <1>9 DEF FetchTimeout, Restart
  <2>3. Fetch(p) \/ Send(p) \/ Dispatch(p)
    BY <2>1, <2>2 DEF Loop
  <2> QED BY <1>8, <2>3, FetchInLine, SendInLine, DispatchInLine
<1>15. CASE \E q \in Procs, w \in Workers : Work(q, w)
  <2>1. Work(p, 1)
    BY <1>4, <1>5, <1>15
  <2>2. ~RejectPush(p, 1) /\ ~RejectRem(p, 1) /\ ~ReturnRem(p, 1)
    BY <1>9 DEF RejectPush, RejectRem, ReturnRem, OneWorker
  <2>3. Acquire(p, 1) \/ Filter(p, 1) \/ RelayPublish(p, 1) \/ Ack(p, 1)
    BY <2>1, <2>2 DEF Work
  <2> QED BY <1>8, <2>3, AcquireInLine, FilterInLine, RelayInLine, AckInLine
<1>16. CASE UNCHANGED vars
  BY <1>8, <1>16, OtherInLine DEF vars, lists
<1> QED BY <1>6, <1>10, <1>11, <1>12, <1>13, <1>14, <1>15, <1>16 DEF Next, Environment

\* A consumer with one worker keeps the order of publication, whatever the
\* payloads, the filter and the numbers of messages, destinations and
\* prefetched deliveries, up to the first end of the process, Redis error or
\* call of a tool: no destination has a message before an older one that
\* passes, nor twice.
THEOREM RelayedInOrder == OneWorker => (Spec => [](Undisturbed => InOrder))
<1> SUFFICES ASSUME OneWorker PROVE Spec => [](Undisturbed => InOrder)
  OBVIOUS
<1>1. Init => OrderInv
  BY InitInLine DEF OrderInv
<1>2. IInv /\ IInv' /\ OrderInv /\ [Next]_vars => OrderInv'
  BY NextInLine DEF IInv
<1>3. IInv /\ OrderInv /\ Undisturbed => InOrder
  <2> SUFFICES ASSUME IInv, OrderInv, Undisturbed, NEW d \in Dests
               PROVE  \E n \in 0..Len(sent) : Relays(dest[d], n)
    BY DEF InOrder
  <2>1. PICK p \in Procs : Line(p)
    BY DEF OrderInv, OneWorker
  <2>2. PICK c, a, b, e, g \in Nat : Queued(p, c, a, b, e, g) /\ Handed(p, c)
    BY <2>1 DEF Line
  <2>3. Marks(p, c, a, b, e, g)
    BY <2>2, LineMarks DEF IInv
  <2> DEFINE r == work[p][1]
             n == c + Bit(Past(r, d))
  <2>4. (Past(r, d) => n = c + 1 /\ a = c + 1) /\ (~Past(r, d) => n = c)
    <3>1. Past(r, d) => r # Idle
      BY DEF Past, Idle
    <3> QED BY <2>3, <3>1 DEF Marks, Bit
  <2>5. Relays(dest[d], n)
    BY <2>2 DEF Handed
  <2> HIDE DEF n
  <2>6. n \in 0..Len(sent)
    BY <2>3, <2>4 DEF Marks
  <2> QED BY <2>5, <2>6
<1> QED BY <1>1, <1>2, <1>3, Inductive, PTL DEF Spec

=============================================================================
