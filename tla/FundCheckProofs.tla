-------------------------- MODULE FundCheckProofs --------------------------
(***************************************************************************)
(* FundCheck for every set of orders and keys, any number of concurrent    *)
(* calls, blocks and faults: its state is well typed, the cache is fresh   *)
(* but for late lookups, and every verdict is justified.                   *)
(***************************************************************************)
EXTENDS FundCheck, TLAPS

\* What the node reports now, it has reported since the cache was emptied.
NodeKnown == \A k \in Keys \ NoCode : funds[k] \in since[k] /\ since[k] \subseteq past[k]

\* An entry is an amount the node has reported.
CacheKnown == \A k \in Keys : cache[k].there => k \notin NoCode /\ cache[k].val \in past[k]

\* What a lookup of check c of order o is about to store, or to answer.
LookJustified(l, o, c) ==
  /\ l.at = "store" => /\ o.key[c] \notin NoCode
                       /\ l.val \in past[o.key[c]]
                       /\ l.val \in since[o.key[c]] \/ l.late
  /\ l.at = "send" /\ l.err = "none" => IF l.ok THEN Met(o, c) ELSE Unmet(o, c)

LooksJustified ==
  \A n \in Calls, c \in Checks : LookJustified(look[n][c], call[n].order, c)

\* A call that has not begun has no lookups.
NotBegun == \A n \in Calls : n > begun => \A c \in Checks : look[n][c].at = "idle"

\* The answers a waiting call has received so far.
SoFar ==
  \A n \in Calls : call[n].at = "wait" =>
    IF call[n].result THEN \A c \in Checks : c < call[n].next => Met(call[n].order, c)
                      ELSE \E c \in Checks : Unmet(call[n].order, c)

\* The inductive invariant.  VerdictJustified speaks of decided calls only: a
\* verdict is made of answers (SoFar), an answer of an amount in memory
\* (LooksJustified), and that of the cache or the node (CacheKnown, NodeKnown).
IInv == /\ TypeOK /\ NodeKnown /\ CacheKnown /\ CacheFresh
        /\ LooksJustified /\ NotBegun /\ SoFar /\ VerdictJustified

USE OrderAssumption, BoundAssumption

\* A required amount is a number, also for an overfilled order
\* (order_validate.go:64-76).
LEMMA RequiredNat == ASSUME NEW o \in Orders, NEW c \in Checks PROVE Required(o, c) \in Nat
<1> DEFINE target == IF c \in {1, 3} THEN o.maker ELSE o.fee
<1>1. o.filled \in Nat /\ o.taker \in Nat /\ target \in Nat
  OBVIOUS
<1> HIDE DEF target
<1>2. o.filled * target \in Nat
  BY <1>1
<1>3. o.taker # 0 => (o.filled * target) \div o.taker \in Int
  BY <1>1, <1>2
<1>4. RemainingAmount(o.filled, o.taker, target) \in Nat
  BY <1>1, <1>3 DEF RemainingAmount
<1> QED BY <1>4 DEF Required, target

\* The records the process starts from are well typed.
LEMMA InitialRecords ==
  NoCall \in CallRecords /\ Idle \in Lookups /\ EmptyCache \in [Keys -> Entries]
<1>1. NoCall \in CallRecords
  BY DEF NoCall, CallRecords, Checks
<1>2. Idle \in Lookups
  BY DEF Idle, Lookups
<1>3. EmptyCache \in [Keys -> Entries]
  BY DEF EmptyCache, NoEntry, Entries
<1> QED BY <1>1, <1>2, <1>3

\* What the node reports is a function to the naturals.
LEMMA ReportsNat == \A f \in Reports : f \in [Keys \ NoCode -> Nat]
BY DEF Reports

\* The process starts with nothing cached and nothing decided.
LEMMA InitIInv == Init => IInv
<1> SUFFICES ASSUME Init PROVE IInv
  OBVIOUS
<1>1. TypeOK
  <2>1. past \in [Keys \ NoCode -> SUBSET Nat] /\ since \in [Keys \ NoCode -> SUBSET Nat]
    BY ReportsNat DEF Init
  <2>2. cache \in [Keys -> Entries] /\ call \in [Calls -> CallRecords]
    BY InitialRecords DEF Init
  <2>3. look \in [Calls -> [Checks -> Lookups]]
    BY InitialRecords DEF Init
  <2>4. block \in 0..MaxBlocks /\ begun \in 0..MaxCalls /\ faults \in Nat /\ notices \in Nat
    BY DEF Init
  <2> QED BY <2>1, <2>2, <2>3, <2>4 DEF Init, TypeOK
<1>2. NodeKnown /\ CacheKnown /\ CacheFresh
  BY DEF Init, NodeKnown, CacheKnown, CacheFresh, EmptyCache, NoEntry
<1>3. LooksJustified /\ NotBegun /\ SoFar /\ VerdictJustified
  BY DEF Init, LooksJustified, LookJustified, NotBegun, SoFar, VerdictJustified, Idle, NoCall
<1> QED BY <1>1, <1>2, <1>3 DEF IInv

\* Reports are never forgotten, so what was met or not met stays so.
LEMMA JustifiedStays ==
  ASSUME NEW o \in Orders, NEW c \in Checks,
         \A k \in Keys \ NoCode : past[k] \subseteq past'[k]
  PROVE  (Met(o, c) => Met(o, c)') /\ (Unmet(o, c) => Unmet(o, c)')
<1>1. o.key[c] \in Keys
  OBVIOUS
<1>2. Reported(o.key[c]) \subseteq Reported(o.key[c])'
  BY <1>1 DEF Reported
<1> QED BY <1>2 DEF Met, Unmet

\* A new block adds to what the node has reported, and changes nothing else
\* the process knows.
LEMMA NewBlockIInv == ASSUME IInv, NewBlock PROVE IInv'
<1>1. TypeOK'
  BY ReportsNat DEF IInv, TypeOK, NewBlock
<1>p. \A k \in Keys \ NoCode : past[k] \subseteq past'[k] /\ since[k] \subseteq since'[k]
  BY DEF NewBlock
<1>2. NodeKnown'
  BY DEF IInv, NodeKnown, NewBlock
<1>3. CacheKnown' /\ CacheFresh'
  BY <1>p DEF IInv, CacheKnown, CacheFresh, NewBlock
<1>o. \A n \in Calls : call[n].order \in Orders
  BY DEF IInv, TypeOK, CallRecords
<1>m. \A n \in Calls, c \in Checks :
        /\ Met(call[n].order, c) => Met(call[n].order, c)'
        /\ Unmet(call[n].order, c) => Unmet(call[n].order, c)'
  <2> SUFFICES ASSUME NEW n \in Calls, NEW c \in Checks
               PROVE  /\ Met(call[n].order, c) => Met(call[n].order, c)'
                      /\ Unmet(call[n].order, c) => Unmet(call[n].order, c)'
    OBVIOUS
  <2>1. call'[n] = call[n]
    BY DEF NewBlock
  <2> QED BY <2>1, <1>o, <1>p, JustifiedStays DEF Met, Unmet, Reported
<1>4. LooksJustified'
  <2> SUFFICES ASSUME NEW n \in Calls, NEW c \in Checks
               PROVE  LookJustified(look[n][c], call[n].order, c)'
    BY DEF LooksJustified
  <2>1. LookJustified(look[n][c], call[n].order, c)
    BY DEF IInv, LooksJustified
  <2>2. call[n].order.key[c] \in Keys
    BY <1>o
  <2> QED BY <2>1, <2>2, <1>p, <1>m DEF LookJustified, NewBlock
<1>5. NotBegun'
  BY DEF IInv, NotBegun, NewBlock
<1>6. SoFar' /\ VerdictJustified'
  BY <1>m DEF IInv, SoFar, VerdictJustified, NewBlock
<1> QED BY <1>1, <1>2, <1>3, <1>4, <1>5, <1>6 DEF IInv

\* A block message empties the cache; the lookups under way are late from now
\* on.
LEMMA ConsumeIInv == ASSUME IInv, Consume PROVE IInv'
<1>l. \A n \in Calls, c \in Checks :
        /\ look'[n][c] \in Lookups
        /\ look'[n][c].at = look[n][c].at /\ look'[n][c].ok = look[n][c].ok
        /\ look'[n][c].err = look[n][c].err /\ look'[n][c].val = look[n][c].val
        /\ look[n][c].at = "store" => look'[n][c].late
  <2> SUFFICES ASSUME NEW n \in Calls, NEW c \in Checks
               PROVE  /\ look'[n][c] \in Lookups
                      /\ look'[n][c].at = look[n][c].at /\ look'[n][c].ok = look[n][c].ok
                      /\ look'[n][c].err = look[n][c].err /\ look'[n][c].val = look[n][c].val
                      /\ look[n][c].at = "store" => look'[n][c].late
                  OBVIOUS
  <2>1. look[n][c] \in Lookups
    BY DEF IInv, TypeOK
  <2> DEFINE late == look[n][c].late \/ look[n][c].at \in {"ask", "store"}
  <2>2. look'[n][c] = [look[n][c] EXCEPT !.late = late]
    BY DEF Consume, Emptied
  <2>3. late \in BOOLEAN /\ (look[n][c].at = "store" => late)
    OBVIOUS
  <2> HIDE DEF late
  <2>5. look'[n][c] \in Lookups
    BY <2>1, <2>2, <2>3 DEF Lookups
  <2> QED BY <2>1, <2>2, <2>3, <2>5 DEF Lookups
<1>1. TypeOK'
  <2>1. look' \in [Calls -> [Checks -> Lookups]]
    BY <1>l DEF Consume, Emptied
  <2>2. since' \in [Keys \ NoCode -> SUBSET Nat]
    BY ReportsNat DEF IInv, TypeOK, Consume, Emptied
  <2> QED BY <2>1, <2>2, InitialRecords DEF IInv, TypeOK, Consume
<1>2. NodeKnown'
  BY DEF IInv, NodeKnown, Consume, Emptied
<1>3. CacheKnown' /\ CacheFresh'
  BY DEF CacheKnown, CacheFresh, Consume, EmptyCache, NoEntry
<1>4. LooksJustified'
  <2> SUFFICES ASSUME NEW n \in Calls, NEW c \in Checks
               PROVE  LookJustified(look[n][c], call[n].order, c)'
    BY DEF LooksJustified
  <2>1. LookJustified(look[n][c], call[n].order, c)
    BY DEF IInv, LooksJustified
  <2> QED BY <2>1, <1>l DEF LookJustified, Consume, Met, Unmet, Reported
<1>5. NotBegun'
  BY <1>l DEF IInv, NotBegun, Consume
<1>6. SoFar' /\ VerdictJustified'
  BY DEF IInv, SoFar, VerdictJustified, Consume, Met, Unmet, Reported
<1> QED BY <1>1, <1>2, <1>3, <1>4, <1>5, <1>6 DEF IInv

\* A step of one lookup of a call that has begun: it is enough that its new
\* record is justified and that the cache is.
LEMMA StepIInv ==
  ASSUME IInv, NEW n \in Calls, NEW c \in Checks, NEW l \in Lookups,
         look[n][c].at # "idle", Step(n, c, l), LookJustified(l, call[n].order, c),
         UNCHANGED <<node, notices, cached, call, begun>>, faults' \in Nat,
         cache' \in [Keys -> Entries], CacheKnown', CacheFresh'
  PROVE  IInv'
<1> USE DEF node
<1>s. /\ look'[n][c] = l
      /\ \A m \in Calls, d \in Checks : <<m, d>> # <<n, c>> => look'[m][d] = look[m][d]
      /\ look' \in [Calls -> [Checks -> Lookups]]
  BY DEF IInv, TypeOK, Step
<1>1. TypeOK'
  BY <1>s DEF IInv, TypeOK
<1>2. NodeKnown'
  BY DEF IInv, NodeKnown
<1>m. \A o, d : (Met(o, d)' <=> Met(o, d)) /\ (Unmet(o, d)' <=> Unmet(o, d))
  BY DEF Met, Unmet, Reported
<1>4. LooksJustified'
  <2> SUFFICES ASSUME NEW m \in Calls, NEW d \in Checks
               PROVE  LookJustified(look[m][d], call[m].order, d)'
    BY DEF LooksJustified
  <2>1. CASE <<m, d>> = <<n, c>>
    BY <2>1, <1>s, <1>m DEF LookJustified
  <2>2. CASE <<m, d>> # <<n, c>>
    BY <2>2, <1>s, <1>m DEF IInv, LooksJustified, LookJustified
  <2> QED BY <2>1, <2>2
<1>5. NotBegun'
  BY <1>s DEF IInv, NotBegun
<1>6. SoFar' /\ VerdictJustified'
  BY <1>m DEF IInv, SoFar, VerdictJustified
<1> QED BY <1>1, <1>2, <1>4, <1>5, <1>6 DEF IInv

\* What a goroutine answers follows from the amount it has looked up
\* (order_validate.go:44, 61).
LEMMA AnswerJustified ==
  ASSUME TypeOK, NEW n \in Calls, NEW c \in Checks, Key(n, c) \notin NoCode,
         NEW val \in past[Key(n, c)]
  PROVE  Answer(n, c, val) \in Lookups /\ LookJustified(Answer(n, c, val), call[n].order, c)
<1>1. call[n].order \in Orders /\ Key(n, c) \in Keys
  BY DEF TypeOK, CallRecords, Key
<1>2. Need(n, c) \in Nat /\ val \in Nat
  BY <1>1, RequiredNat DEF Need, TypeOK
<1> DEFINE ok == Need(n, c) <= val
<1>3. Answer(n, c, val) = [Idle EXCEPT !.at = "send", !.ok = ok]
  BY DEF Answer
<1>4. ok \in BOOLEAN /\ IF ok THEN Met(call[n].order, c) ELSE Unmet(call[n].order, c)
  BY <1>2 DEF Met, Unmet, Reported, Need, Key
<1> HIDE DEF ok
<1>5. ASSUME NEW b \in BOOLEAN, NEW l, l = [Idle EXCEPT !.at = "send", !.ok = b]
      PROVE  l \in Lookups /\ l.at = "send" /\ l.ok = b
  BY <1>5 DEF Lookups, Idle
<1>6. Answer(n, c, val) \in Lookups /\ Answer(n, c, val).at = "send" /\ Answer(n, c, val).ok = ok
  BY <1>3, <1>4, <1>5, Zenon
<1> QED BY <1>4, <1>6 DEF LookJustified

\* The steps of a lookup: the cache, the node, an error, and storing.
LEMMA LookIInv ==
  ASSUME IInv, NEW n \in Calls, NEW c \in Checks, LookStep(n, c) \/ AskError(n, c)
  PROVE  IInv'
<1>t. /\ TypeOK /\ look[n][c] \in Lookups /\ call[n].order \in Orders /\ Key(n, c) \in Keys
      /\ CacheKnown /\ CacheFresh
  BY DEF IInv, TypeOK, CallRecords, Key
<1>1. CASE CheckCache(n, c)
  <2>u. cache' = cache /\ CacheKnown' /\ CacheFresh' /\ faults' = faults
    BY <1>1, <1>t DEF CheckCache, node, CacheKnown, CacheFresh
  <2>1. CASE cached /\ cache[Key(n, c)].there
    <3>1. Step(n, c, Answer(n, c, cache[Key(n, c)].val))
      BY <1>1, <2>1 DEF CheckCache
    <3>2. Key(n, c) \notin NoCode /\ cache[Key(n, c)].val \in past[Key(n, c)]
      BY <2>1, <1>t DEF CacheKnown
    <3> QED BY <1>1, <1>t, <2>u, <3>1, <3>2, AnswerJustified, StepIInv
               DEF CheckCache, Lookup, TypeOK
  <2>2. CASE ~(cached /\ cache[Key(n, c)].there)
    <3> DEFINE l == [Idle EXCEPT !.at = "ask"]
    <3>1. Step(n, c, l)
      BY <1>1, <2>2 DEF CheckCache
    <3>2. l \in Lookups /\ LookJustified(l, call[n].order, c)
      BY DEF Idle, Lookups, LookJustified
    <3> HIDE DEF l
    <3> QED BY <1>1, <1>t, <2>u, <3>1, <3>2, StepIInv DEF CheckCache, Lookup, TypeOK
  <2> QED BY <2>1, <2>2
<1>2. CASE Ask(n, c)
  <2>u. cache' = cache /\ CacheKnown' /\ CacheFresh' /\ faults' = faults
    BY <1>2, <1>t DEF Ask, node, CacheKnown, CacheFresh
  <2>1. CASE Key(n, c) \in NoCode
    <3>1. Step(n, c, Failure("nocode"))
      BY <1>2, <2>1 DEF Ask
    <3>2. Failure("nocode") \in Lookups /\ LookJustified(Failure("nocode"), call[n].order, c)
      BY DEF Failure, Idle, Lookups, LookJustified
    <3> QED BY <1>2, <1>t, <2>u, <3>1, <3>2, StepIInv DEF Ask, Lookup, TypeOK
  <2>2. CASE Key(n, c) \notin NoCode
    <3> DEFINE l == [look[n][c] EXCEPT !.at = "store", !.val = funds[Key(n, c)]]
    <3>1. Step(n, c, l)
      BY <1>2, <2>2 DEF Ask
    <3>2. funds[Key(n, c)] \in Nat /\ funds[Key(n, c)] \in since[Key(n, c)]
          /\ funds[Key(n, c)] \in past[Key(n, c)]
      BY <2>2, <1>t, ReportsNat DEF IInv, TypeOK, NodeKnown
    <3>3. l \in Lookups /\ l.at = "store" /\ l.val = funds[Key(n, c)]
      BY <1>t, <3>2 DEF Lookups
    <3> HIDE DEF l
    <3>4. LookJustified(l, call[n].order, c)
      BY <2>2, <3>2, <3>3 DEF LookJustified, Key
    <3> QED BY <1>2, <1>t, <2>u, <3>1, <3>3, <3>4, StepIInv DEF Ask, Lookup, TypeOK
  <2> QED BY <2>1, <2>2
<1>3. CASE AskError(n, c)
  <2>1. cache' = cache /\ CacheKnown' /\ CacheFresh' /\ faults' \in Nat
    BY <1>3, <1>t DEF AskError, node, CacheKnown, CacheFresh, TypeOK
  <2>2. Failure("rpc") \in Lookups /\ LookJustified(Failure("rpc"), call[n].order, c)
    BY DEF Failure, Idle, Lookups, LookJustified
  <2> QED BY <1>3, <1>t, <2>1, <2>2, StepIInv DEF AskError, Lookup, TypeOK
<1>4. CASE Store(n, c)
  <2>1. /\ Key(n, c) \notin NoCode
        /\ look[n][c].val \in past[Key(n, c)]
        /\ look[n][c].val \in since[Key(n, c)] \/ look[n][c].late
    BY <1>4 DEF Store, Lookup, IInv, LooksJustified, LookJustified, Key
  <2> DEFINE e == [there |-> TRUE, val |-> look[n][c].val, late |-> look[n][c].late]
  <2>2. cache' = cache \/ cache' = [cache EXCEPT ![Key(n, c)] = e]
    BY <1>4 DEF Store
  <2>3. e \in Entries /\ e.val = look[n][c].val /\ e.late = look[n][c].late
    BY <1>t DEF Lookups, Entries
  <2> HIDE DEF e
  <2>4. cache' \in [Keys -> Entries]
    BY <2>2, <2>3, <1>t DEF TypeOK
  <2>5. past' = past /\ since' = since
    BY <1>4 DEF Store, node
  <2>6. \A k \in Keys : cache'[k] = cache[k] \/ (k = Key(n, c) /\ cache'[k] = e)
    BY <2>2, <1>t DEF TypeOK
  <2>7. CacheKnown' /\ CacheFresh'
    BY <2>1, <2>3, <2>5, <2>6, <1>t DEF CacheKnown, CacheFresh
  <2> QED BY <1>4, <1>t, <2>1, <2>4, <2>7, AnswerJustified, StepIInv DEF Store, Lookup, TypeOK
<1> QED BY <1>1, <1>2, <1>3, <1>4 DEF LookStep

\* What the invariant says of one call with record r.
CallJustified(r) ==
  /\ r.at = "wait" => IF r.result THEN \A c \in Checks : c < r.next => Met(r.order, c)
                                  ELSE \E c \in Checks : Unmet(r.order, c)
  /\ r.at = "done" /\ ~r.err => IF r.result THEN \A c \in Checks : Met(r.order, c)
                                            ELSE \E c \in Checks : Unmet(r.order, c)

\* A step of one call: it is enough that its new record and the new records of
\* its lookups are justified.
LEMMA CallIInv ==
  ASSUME IInv, NEW n \in Calls, NEW r \in CallRecords, NEW ls \in [Checks -> Lookups],
         call' = [call EXCEPT ![n] = r], look' = [look EXCEPT ![n] = ls],
         UNCHANGED <<node, notices, cached, cache>>,
         begun' \in begun..MaxCalls, n \in 1..begun', faults' \in Nat,
         \A c \in Checks : LookJustified(ls[c], r.order, c), CallJustified(r)
  PROVE  IInv'
<1> USE DEF node
<1>s. /\ call'[n] = r /\ look'[n] = ls
      /\ \A m \in Calls : m # n => call'[m] = call[m] /\ look'[m] = look[m]
      /\ call' \in [Calls -> CallRecords] /\ look' \in [Calls -> [Checks -> Lookups]]
  BY DEF IInv, TypeOK
<1>b. begun \in Nat /\ begun' \in Nat /\ begun <= begun' /\ begun' <= MaxCalls
  BY DEF IInv, TypeOK
<1>1. TypeOK'
  BY <1>s, <1>b DEF IInv, TypeOK
<1>2. NodeKnown' /\ CacheKnown' /\ CacheFresh'
  BY DEF IInv, NodeKnown, CacheKnown, CacheFresh
<1>m. \A o, d : (Met(o, d)' <=> Met(o, d)) /\ (Unmet(o, d)' <=> Unmet(o, d))
  BY DEF Met, Unmet, Reported
<1>3. LooksJustified'
  <2> SUFFICES ASSUME NEW m \in Calls, NEW d \in Checks
               PROVE  LookJustified(look[m][d], call[m].order, d)'
    BY DEF LooksJustified
  <2>1. CASE m = n
    BY <2>1, <1>s, <1>m DEF LookJustified
  <2>2. CASE m # n
    BY <2>2, <1>s, <1>m DEF IInv, LooksJustified, LookJustified
  <2> QED BY <2>1, <2>2
<1>4. NotBegun'
  BY <1>s, <1>b DEF IInv, NotBegun, Calls
<1>5. SoFar' /\ VerdictJustified'
  <2> SUFFICES ASSUME NEW m \in Calls PROVE CallJustified(call[m])'
    BY DEF SoFar, VerdictJustified, CallJustified
  <2>1. CASE m = n
    BY <2>1, <1>s, <1>m DEF CallJustified
  <2>2. CASE m # n
    BY <2>2, <1>s, <1>m DEF IInv, SoFar, VerdictJustified, CallJustified
  <2> QED BY <2>1, <2>2
<1> QED BY <1>1, <1>2, <1>3, <1>4, <1>5 DEF IInv

\* A call begins: a check of nothing is met, the others have nothing to say.
LEMMA BeginIInv == ASSUME IInv, NEW o \in Orders, Begin(o) \/ BeginError(o) PROVE IInv'
<1> DEFINE n == begun + 1
<1>t. /\ TypeOK /\ n \in Calls /\ begun' = begun + 1 /\ begun' \in begun..MaxCalls
      /\ n \in 1..begun'
  <2>1. TypeOK /\ begun \in 0..MaxCalls
    BY DEF IInv, TypeOK
  <2>2. begun < MaxCalls /\ begun' = begun + 1
    BY DEF Begin, BeginError, MayBegin
  <2>3. MaxCalls \in Nat
    BY BoundAssumption
  <2> QED BY <2>1, <2>2, <2>3 DEF Calls
<1>1. CASE Begin(o)
  <2> DEFINE r == [NoCall EXCEPT !.at = "wait", !.order = o]
             ls == [c \in Checks |-> NewLookup(o, c)]
  <2>1. r \in CallRecords /\ r.at = "wait" /\ r.order = o /\ r.result = TRUE /\ r.next = 1
    BY InitialRecords DEF NoCall, CallRecords
  <2>2. CallJustified(r)
    BY <2>1 DEF CallJustified, Checks
  <2>3. \A c \in Checks : NewLookup(o, c) \in Lookups /\ LookJustified(NewLookup(o, c), o, c)
    BY DEF NewLookup, Idle, Lookups, LookJustified, Met
  <2>4. call' = [call EXCEPT ![n] = r] /\ look' = [look EXCEPT ![n] = ls] /\ faults' = faults
    BY <1>1 DEF Begin
  <2>5. UNCHANGED <<node, notices, cached, cache>>
    BY <1>1 DEF Begin
  <2>6. ls \in [Checks -> Lookups] /\ \A c \in Checks : LookJustified(ls[c], r.order, c)
    BY <2>1, <2>3
  <2>7. faults' \in Nat
    BY <2>4, <1>t DEF TypeOK
  <2> HIDE DEF r, ls, n
  <2> QED BY <1>t, <2>1, <2>2, <2>4, <2>5, <2>6, <2>7, CallIInv
<1>2. CASE BeginError(o)
  <2> DEFINE r == [NoCall EXCEPT !.at = "done", !.order = o, !.result = FALSE, !.err = TRUE]
             ls == look[n]
  <2>1. r \in CallRecords /\ r.at = "done" /\ r.order = o /\ r.err = TRUE
    BY InitialRecords DEF NoCall, CallRecords
  <2>2. CallJustified(r)
    BY <2>1 DEF CallJustified
  <2>3. ls \in [Checks -> Lookups] /\ \A c \in Checks : ls[c].at = "idle"
    BY <1>t DEF IInv, TypeOK, NotBegun
  <2>4. call' = [call EXCEPT ![n] = r] /\ look' = [look EXCEPT ![n] = ls] /\ faults' \in Nat
    BY <1>2, <1>t DEF BeginError, TypeOK
  <2>5. UNCHANGED <<node, notices, cached, cache>>
    BY <1>2 DEF BeginError
  <2>6. \A c \in Checks : LookJustified(ls[c], r.order, c)
    BY <2>3 DEF LookJustified
  <2> HIDE DEF r, ls, n
  <2> QED BY <1>t, <2>1, <2>2, <2>3, <2>4, <2>5, <2>6, CallIInv
<1> QED BY <1>1, <1>2

\* An answer is received: the call knows of one check more, and the fourth
\* makes the verdict.
LEMMA ReceiveIInv == ASSUME IInv, NEW n \in Calls, Receive(n) \/ ReceiveNoCode(n) PROVE IInv'
<1> DEFINE c == call[n].next
           l == look[n][c]
           ls == [look[n] EXCEPT ![c] = Idle]
<1>t. /\ TypeOK /\ call[n] \in CallRecords /\ c \in Checks /\ l \in Lookups
      /\ call[n].at = "wait" /\ l.at = "send"
  BY DEF IInv, TypeOK, CallRecords, Receive, ReceiveNoCode, Sending, Lookup
<1>1. ls \in [Checks -> Lookups] /\ look' = [look EXCEPT ![n] = ls]
  BY <1>t, InitialRecords DEF TypeOK, Receive, ReceiveNoCode, Received
<1>2. \A d \in Checks : LookJustified(ls[d], call[n].order, d)
  <2>1. \A d \in Checks : LookJustified(look[n][d], call[n].order, d)
    BY DEF IInv, LooksJustified
  <2>2. \A d \in Checks : ls[d] = look[n][d] \/ ls[d] = Idle
    BY <1>t DEF TypeOK
  <2>3. \A o, d : LookJustified(Idle, o, d)
    BY DEF LookJustified, Idle
  <2> QED BY <2>1, <2>2, <2>3
<1>3. /\ UNCHANGED <<node, notices, cached, cache>> /\ faults' \in Nat
      /\ begun' \in begun..MaxCalls
  BY <1>t DEF TypeOK, Receive, ReceiveNoCode
<1>4. n \in 1..begun'
  <2>1. n \in 1..MaxCalls /\ begun \in Nat /\ begun' = begun /\ ~(n > begun)
    BY <1>t DEF IInv, NotBegun, TypeOK, Calls, Receive, ReceiveNoCode
  <2> QED BY <2>1
<1>s. CallJustified(call[n])
  BY DEF IInv, SoFar, VerdictJustified, CallJustified
<1>j. LookJustified(l, call[n].order, c)
  BY <1>t DEF IInv, LooksJustified
<1> HIDE DEF ls, l
<1>5. CASE Receive(n)
  <2>1. l.err = "none"
    BY <1>5 DEF Receive, l
  <2> DEFINE r == [call[n] EXCEPT !.at = IF c = 4 THEN "done" ELSE "wait",
                                  !.next = IF c = 4 THEN 1 ELSE c + 1,
                                  !.result = @ /\ l.ok]
  <2>2. call' = [call EXCEPT ![n] = r]
    BY <1>5 DEF Receive, l
  <2> DEFINE res == call[n].result /\ l.ok
  <2>3. res \in BOOLEAN
    OBVIOUS
  <2>4. IF l.ok THEN Met(call[n].order, c) ELSE Unmet(call[n].order, c)
    BY <1>t, <1>j, <2>1 DEF LookJustified
  <2>5. IF res THEN \A d \in Checks : d <= c => Met(call[n].order, d)
               ELSE \E d \in Checks : Unmet(call[n].order, d)
    BY <1>t, <1>s, <2>4 DEF CallJustified, Checks
  <2>6. r = [call[n] EXCEPT !.at = IF c = 4 THEN "done" ELSE "wait",
                            !.next = IF c = 4 THEN 1 ELSE c + 1, !.result = res]
    OBVIOUS
  <2> HIDE DEF res, r
  <2>7. r \in CallRecords /\ r.order = call[n].order /\ r.result = res
        /\ r.at = (IF c = 4 THEN "done" ELSE "wait") /\ (c # 4 => r.next = c + 1)
    <3>1. (IF c = 4 THEN "done" ELSE "wait") \in {"wait", "done"}
          /\ (IF c = 4 THEN 1 ELSE c + 1) \in Checks
      BY <1>t DEF Checks
    <3> HIDE DEF c
    <3> QED BY <1>t, <2>3, <2>6, <3>1 DEF CallRecords
  <2>8. CallJustified(r)
    BY <1>t, <2>5, <2>7 DEF CallJustified, Checks
  <2>9. \A d \in Checks : LookJustified(ls[d], r.order, d)
    BY <1>2, <2>7
  <2> QED BY <1>1, <1>3, <1>4, <2>2, <2>7, <2>8, <2>9, CallIInv
<1>6. CASE ReceiveNoCode(n)
  <2> DEFINE r == [call[n] EXCEPT !.at = "done", !.next = 1, !.result = FALSE, !.err = TRUE]
  <2>1. call' = [call EXCEPT ![n] = r]
    BY <1>6 DEF ReceiveNoCode
  <2>2. r \in CallRecords /\ r.order = call[n].order /\ r.at = "done" /\ r.err = TRUE
    <3>1. 1 \in Checks
      BY DEF Checks
    <3> QED BY <1>t, <3>1 DEF CallRecords
  <2> HIDE DEF r
  <2>3. CallJustified(r) /\ \A d \in Checks : LookJustified(ls[d], r.order, d)
    BY <1>2, <2>2 DEF CallJustified
  <2> QED BY <1>1, <1>3, <1>4, <2>1, <2>2, <2>3, CallIInv
<1> QED BY <1>5, <1>6

\* The process ends: nothing is cached, nobody waits, no lookup runs.
LEMMA EndsIInv == ASSUME IInv, Ends, faults' \in Nat PROVE IInv'
<1> USE DEF node
<1>c. \A n \in Calls : /\ call'[n] \in CallRecords /\ call'[n].at # "wait"
                       /\ call'[n] = call[n] \/ call'[n].at = "lost"
  <2>1. [NoCall EXCEPT !.at = "lost"] \in CallRecords /\ [NoCall EXCEPT !.at = "lost"].at = "lost"
    BY InitialRecords DEF CallRecords, NoCall
  <2> QED BY <2>1 DEF Ends, IInv, TypeOK
<1>1. TypeOK'
  <2>1. call' \in [Calls -> CallRecords] /\ look' \in [Calls -> [Checks -> Lookups]]
    BY <1>c, InitialRecords DEF Ends
  <2> QED BY <2>1, InitialRecords DEF IInv, TypeOK, Ends
<1>2. NodeKnown' /\ CacheKnown' /\ CacheFresh'
  BY DEF IInv, NodeKnown, CacheKnown, CacheFresh, Ends, EmptyCache, NoEntry
<1>3. LooksJustified' /\ NotBegun'
  BY DEF Ends, LooksJustified, LookJustified, NotBegun, Idle
<1>m. \A o, d : (Met(o, d)' <=> Met(o, d)) /\ (Unmet(o, d)' <=> Unmet(o, d))
  BY DEF Met, Unmet, Reported, Ends
<1>4. SoFar' /\ VerdictJustified'
  BY <1>c, <1>m DEF IInv, SoFar, VerdictJustified
<1> QED BY <1>1, <1>2, <1>3, <1>4 DEF IInv

\* Every step preserves the invariant.
LEMMA NextIInv == ASSUME IInv, [Next]_vars PROVE IInv'
<1>1. ASSUME NEW n \in Calls, NEW c \in Checks, LookStep(n, c) \/ AskError(n, c) PROVE IInv'
  BY <1>1, LookIInv
<1>2. ASSUME NEW n \in Calls, ReceivePanic(n) PROVE IInv'
  BY <1>2, EndsIInv DEF ReceivePanic, IInv, TypeOK
<1>3. ASSUME NEW n \in Calls, CallStep(n) PROVE IInv'
  BY <1>2, <1>3, ReceiveIInv DEF CallStep
<1>4. CASE Crash
  BY <1>4, EndsIInv DEF Crash, IInv, TypeOK
<1>5. ASSUME NEW o \in Orders, Begin(o) \/ BeginError(o) PROVE IInv'
  BY <1>5, BeginIInv
<1>6. CASE UNCHANGED vars
  BY <1>6 DEF vars, node, IInv, TypeOK, NodeKnown, CacheKnown, CacheFresh, LooksJustified,
              LookJustified, NotBegun, SoFar, VerdictJustified, Met, Unmet, Reported
<1> QED BY <1>1, <1>3, <1>4, <1>5, <1>6, NewBlockIInv, ConsumeIInv DEF Next

\* The invariant holds throughout.
LEMMA Invariance == Spec => []IInv
BY InitIInv, NextIInv, PTL DEF Spec

\* Type correctness of the fund validation, for every set of orders, any
\* number of concurrent calls, blocks and faults.
THEOREM TypeCorrect == Spec => []TypeOK
<1>1. IInv => TypeOK
  BY DEF IInv
<1> QED BY <1>1, Invariance, PTL

\* routing.go:84-92: nothing from before the block that last emptied the cache
\* stays in it or comes back, except by a lookup that was already under way.
THEOREM CacheStaysFresh == Spec => []CacheFresh
<1>1. IInv => CacheFresh
  BY DEF IInv
<1> QED BY <1>1, Invariance, PTL

\* order_validate.go:128-169: whatever the cache, the blocks, the faults and
\* the other calls do, a verdict follows from amounts the node has reported.
THEOREM VerdictsJustified == Spec => []VerdictJustified
<1>1. IInv => VerdictJustified
  BY DEF IInv
<1> QED BY <1>1, Invariance, PTL

=============================================================================
