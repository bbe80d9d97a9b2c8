----------------------------- MODULE TermsProofs ----------------------------
(***************************************************************************)
(* The terms of use, for any number of requests, signers, updates, rows    *)
(* and faults and for a clock that runs as far as one likes.               *)
(*                                                                         *)
(* None of the properties is inductive.  A mask is good because it had     *)
(* half an hour left when the page was made and the CDN keeps a page for   *)
(* less than that; one row is current because an update that read it and   *)
(* that nobody overlapped still holds the only current row when it         *)
(* commits; and a signature fits because the payload was stamped in the    *)
(* past.                                                                   *)
(***************************************************************************)
EXTENDS Terms, FiniteSetTheorems, SequenceTheorems, WellFoundedInduction, TLAPS

\* The types, with the functions' domains, and no payload from the future.
Shapes ==
  /\ now \in 0..MaxTime
  /\ current \in Seq(BOOLEAN) /\ Len(current) <= MaxTerms
  /\ masks \in Seq(Nat) /\ Len(masks) <= MaxMasks
  /\ maskCache \in [TermsIds -> MaskIds \cup {0}]
  /\ get \in [Gets -> ({"terms", "create"} \X Rows) \cup {<<>>}]
  /\ copy \in (Rows \X MaskIds \X (0..MaxTime)) \cup {<<>>}
  /\ payload \in [Clients -> (Rows \X (0..now)) \cup {<<>>}]
  /\ sigs \subseteq Clients \X Rows \X Rows \X (0..MaxTime)
  /\ update \in [Updaters -> {<<t>> : t \in Rows \cup {0}} \cup {<<>>}]
  /\ disturbed \in BOOLEAN /\ faults \in 0..MaxFaults

\* The page at the CDN had a mask for more than half an hour when it was made.
MaskInv == copy # <<>> => masks[copy[2]] > copy[3] + HalfHour

\* Updates that read the old terms and never overlapped: at most one is under
\* way, and it holds the row that is current.
CurrentInv ==
  /\ Rows # {} => IsCurrent # {}
  /\ ~disturbed => /\ \A u, v \in Updaters : update[u] # <<>> /\ update[v] # <<>> => u = v
                   /\ Rows # {} => \E t \in Rows : IsCurrent = {t}
                   /\ \A u \in Updaters : update[u] # <<>> => IsCurrent \subseteq {update[u][1]}

TInv == Shapes /\ MaskInv /\ CurrentInv /\ SignedAsShown

-----------------------------------------------------------------------------
\* A set of numbers has a least one: the intervals up to its members are
\* finite, and inclusion is well founded on finite sets.
LEMMA LeastRow == ASSUME NEW T \in SUBSET Nat, T # {} PROVE \E n \in T : \A k \in T : n <= k
<1> DEFINE U == {0..n : n \in T}
<1>1. U \subseteq FiniteSubsetsOf(Nat) /\ U # {}
  <2>1. \A n \in T : IsFiniteSet(0..n)
    BY FS_Interval
  <2>2. \A n \in T : 0..n \in SUBSET Nat
    OBVIOUS
  <2> QED BY <2>1, <2>2 DEF FiniteSubsetsOf
<1>2. PICK x \in U : \A y \in U : <<y, x>> \notin StrictSubsetOrdering(Nat)
  <2> HIDE DEF U
  <2> QED BY <1>1, FS_StrictSubsetOrderingWellFounded, WFMin
<1>3. PICK n \in T : x = 0..n
  BY <1>2
<1>4. ASSUME NEW k \in T, k < n PROVE FALSE
  <2>1. 0..k \in U /\ 0..k \subseteq 0..n /\ n \in 0..n /\ n \notin 0..k /\ 0..n \subseteq Nat
    BY <1>4
  <2>2. <<0..k, 0..n>> \in StrictSubsetOrdering(Nat)
    BY <2>1 DEF StrictSubsetOrdering
  <2> QED BY <1>2, <1>3, <2>1, <2>2
<1> QED BY <1>4

\* First finds a row of a set that has one.
LEMMA FirstIsRow == ASSUME NEW S \in SUBSET Nat, S # {} PROVE First(S) \in S
BY LeastRow DEF First, Min

\* The first of all rows is row 1.
LEMMA FirstOfAll == ASSUME Shapes, Rows # {} PROVE First(Rows) = 1 /\ 1 \in Rows
<1>1. Len(current) \in Nat /\ 1 \in Rows /\ \A t \in Rows : 1 <= t /\ t \in Nat
  BY DEF Shapes, Rows
<1> QED BY <1>1 DEF First, Min

\* At first nothing is under way, stored or copied by the CDN.
LEMMA InitTerms == Init => TInv
<1> SUFFICES ASSUME Init PROVE TInv
  OBVIOUS
<1>1. Shapes
  <2>1. disturbed \in BOOLEAN
    BY Zenon DEF Init
  <2> QED BY <2>1, TermsAssumption DEF Init, Shapes, Rows, MaskIds, TermsIds
<1>2. Rows = {} /\ IsCurrent = {} /\ \A u \in Updaters : update[u] = <<>>
  BY DEF Init, Rows, IsCurrent
<1> QED BY <1>1, <1>2 DEF Init, TInv, MaskInv, CurrentInv, SignedAsShown

\* A step that leaves the terms, their updates, the masks and the page alone.
LEMMA SameTables ==
  ASSUME TInv
  PROVE  /\ UNCHANGED <<current, update, disturbed>> => CurrentInv'
         /\ UNCHANGED <<masks, copy>> => MaskInv'
         /\ UNCHANGED sigs => SignedAsShown'
BY DEF TInv, CurrentInv, Rows, IsCurrent, MaskInv, SignedAsShown

\* Time passes: masks, and what clients were shown, only grow older.
LEMMA TickKeeps == ASSUME TInv, Tick PROVE TInv'
<1>1. now' = now + 1 /\ now < MaxTime /\ UNCHANGED <<tables, server, payload, updates, faults>>
  BY DEF Tick
<1>2. payload \in [Clients -> (Rows \X (0..now')) \cup {<<>>}]
  <2>1. 0..now \subseteq 0..now'
    BY <1>1, TermsAssumption DEF TInv, Shapes
  <2> QED BY <2>1 DEF TInv, Shapes
<1>3. now' \in 0..MaxTime
  BY <1>1, TermsAssumption DEF TInv, Shapes
<1>4. disturbed' \in BOOLEAN
  BY <1>1, Zenon DEF TInv, Shapes, updates
<1>5. Shapes'
  BY <1>1, <1>2, <1>3, <1>4 DEF TInv, Shapes, Rows, MaskIds, TermsIds, tables, server, updates
<1> QED BY <1>1, <1>5, SameTables DEF TInv, tables, server, updates

\* UpdateTerms reads the current row.
LEMMA ReadOldKeeps == ASSUME TInv, NEW u \in Updaters, ReadOld(u) PROVE TInv'
<1> DEFINE t == IF IsCurrent = {} THEN 0 ELSE First(IsCurrent)
<1>1. /\ update[u] = <<>> /\ update' = [update EXCEPT ![u] = <<t>>]
      /\ disturbed' = (disturbed \/ \E v \in Updaters : update[v] # <<>>)
      /\ UNCHANGED <<now, tables, server, payload, faults>>
  BY DEF ReadOld
<1>2. IsCurrent \in SUBSET Nat /\ IsCurrent \subseteq Rows /\ Rows \subseteq Nat
  BY DEF IsCurrent, Rows, TInv, Shapes
<1>3. t \in Rows \cup {0} /\ (IsCurrent # {} => t \in IsCurrent)
  BY <1>2, FirstIsRow
<1> HIDE DEF t
<1>4. disturbed' \in BOOLEAN
  BY <1>1, Zenon
<1>5. update' \in [Updaters -> {<<x>> : x \in Rows \cup {0}} \cup {<<>>}]
  BY <1>1, <1>3 DEF TInv, Shapes
<1>6. Shapes'
  BY <1>1, <1>4, <1>5 DEF TInv, Shapes, Rows, MaskIds, TermsIds, tables, server
<1>7. CurrentInv'
  <2>1. Rows' = Rows /\ IsCurrent' = IsCurrent
    BY <1>1 DEF Rows, IsCurrent, tables
  <2>2. ASSUME ~disturbed'
        PROVE  ~disturbed /\ (\A v \in Updaters : update[v] = <<>>)
    BY <1>1, <2>2, Zenon
  <2>3. ~disturbed => (Rows # {} => \E x \in Rows : IsCurrent = {x})
    BY DEF TInv, CurrentInv
  <2>4. ASSUME ~disturbed'
        PROVE  /\ \A v \in Updaters : update'[v] # <<>> => v = u
               /\ Rows # {} => \E x \in Rows : IsCurrent = {x}
               /\ IsCurrent \subseteq {update'[u][1]}
    <3>1. /\ \A v \in Updaters : update'[v] # <<>> => v = u
          /\ update'[u][1] = t
      BY <1>1, <2>2, <2>4 DEF TInv, Shapes
    <3>2. Rows = {} => IsCurrent = {}
      BY <1>2
    <3>3. IsCurrent \subseteq {t}
      BY <1>2, <1>3, <2>2, <2>3, <2>4, <3>2
    <3> QED BY <2>2, <2>3, <2>4, <3>1, <3>3
  <2>5. Rows # {} => IsCurrent # {}
    BY DEF TInv, CurrentInv
  <2> QED BY <2>1, <2>4, <2>5 DEF CurrentInv
<1> QED BY <1>1, <1>6, <1>7, SameTables DEF TInv, tables, server

\* UpdateTerms cannot read the current row and takes it that there is none.
LEMMA ReadOldFailsKeeps == ASSUME TInv, NEW u \in Updaters, ReadOldFails(u) PROVE TInv'
<1>1. /\ update' = [update EXCEPT ![u] = <<0>>] /\ disturbed' = TRUE
      /\ faults < MaxFaults /\ faults' = faults + 1
      /\ UNCHANGED <<now, tables, server, payload>>
  BY DEF ReadOldFails, Fault
<1>2. Shapes'
  <2>1. disturbed' \in BOOLEAN
    BY <1>1, Zenon
  <2>2. update' \in [Updaters -> {<<x>> : x \in Rows \cup {0}} \cup {<<>>}]
    BY <1>1 DEF TInv, Shapes
  <2>3. faults' \in 0..MaxFaults
    BY <1>1, TermsAssumption DEF TInv, Shapes
  <2> QED BY <1>1, <2>1, <2>2, <2>3 DEF TInv, Shapes, Rows, MaskIds, TermsIds, tables, server
<1>3. CurrentInv'
  BY <1>1 DEF TInv, CurrentInv, Rows, IsCurrent, tables
<1> QED BY <1>1, <1>2, <1>3, SameTables DEF TInv, tables, server

\* The transaction of UpdateTerms, on the row it has read.
LEMMA Deprecated ==
  ASSUME Shapes, NEW old \in Rows \cup {0}
  PROVE  /\ Deprecate(current, old) \in Seq(BOOLEAN)
         /\ Len(Deprecate(current, old)) = Len(current)
         /\ \A t \in Rows : Deprecate(current, old)[t] = (t # old /\ current[t])
<1>1. CASE old = 0
  <2>1. Deprecate(current, old) = current /\ \A t \in Rows : t # old
    BY <1>1 DEF Deprecate, Rows
  <2>2. \A t \in Rows : current[t] \in BOOLEAN
    BY DEF Shapes, Rows
  <2> QED BY <2>1, <2>2 DEF Shapes
<1>2. CASE old # 0
  <2>1. Deprecate(current, old) = [current EXCEPT ![old] = FALSE] /\ old \in 1..Len(current)
    BY <1>2 DEF Deprecate, Rows
  <2>2. /\ Deprecate(current, old) \in Seq(BOOLEAN)
        /\ Len(Deprecate(current, old)) = Len(current)
    BY <2>1, ExceptSeq DEF Shapes
  <2>3. ASSUME NEW t \in Rows PROVE Deprecate(current, old)[t] = (t # old /\ current[t])
    <3>1. Deprecate(current, old)[t] = IF t = old THEN FALSE ELSE current[t]
      <4> DEFINE f == FALSE
      <4>1. f \in BOOLEAN /\ Deprecate(current, old) = [current EXCEPT ![old] = f]
        BY <2>1
      <4> HIDE DEF f
      <4>2. [current EXCEPT ![old] = f][t] = IF t = old THEN f ELSE current[t]
        BY <2>1, <4>1 DEF Shapes, Rows
      <4> QED BY <4>1, <4>2, Zenon DEF f
    <3>2. current[t] \in BOOLEAN
      BY DEF Shapes, Rows
    <3> QED BY <3>1, <3>2
  <2> QED BY <2>2, <2>3
<1> QED BY <1>1, <1>2

\* UpdateTerms commits: the version it read is no longer current, the new one is;
\* two are current only if another update began before it committed, or it could
\* not read the current one.
LEMMA CommitKeeps == ASSUME TInv, NEW u \in Updaters, Commit(u) PROVE TInv'
<1> DEFINE old == update[u][1]
           d == Deprecate(current, old)
           n == Len(current)
<1>1. /\ update[u] # <<>> /\ n < MaxTerms /\ current' = Append(d, TRUE)
      /\ update' = [update EXCEPT ![u] = <<>>]
      /\ UNCHANGED <<now, masks, sigs, server, payload, disturbed, faults>>
  BY DEF Commit
<1>2. old \in Rows \cup {0} /\ n \in Nat
  BY <1>1 DEF TInv, Shapes
<1>3. /\ d \in Seq(BOOLEAN) /\ Len(d) = n
      /\ \A t \in Rows : d[t] = (t # old /\ current[t])
  BY <1>2, Deprecated DEF TInv
<1> HIDE DEF d, old
<1>4. /\ current' \in Seq(BOOLEAN) /\ Len(current') = n + 1 /\ current'[n + 1] = TRUE
      /\ \A t \in 1..n : current'[t] = d[t]
  <2> DEFINE e == TRUE
  <2>1. e \in BOOLEAN /\ current' = Append(d, e)
    BY <1>1
  <2> HIDE DEF e
  <2>2. /\ current' \in Seq(BOOLEAN) /\ Len(current') = n + 1 /\ current'[n + 1] = e
        /\ \A t \in 1..n : current'[t] = d[t]
    BY <1>3, <2>1, AppendProperties
  <2> QED BY <2>2, Zenon DEF e
<1>5. Rows' = Rows \cup {n + 1} /\ Rows = 1..n /\ n + 1 \notin Rows
  BY <1>2, <1>4 DEF Rows
<1>6. IsCurrent' = {t \in IsCurrent : t # old} \cup {n + 1}
  <2>1. IsCurrent' = {t \in Rows' : current'[t]}
    BY DEF IsCurrent
  <2>2. \A t \in Rows : current'[t] = (t # old /\ current[t])
    BY <1>3, <1>4, <1>5
  <2> QED BY <1>4, <1>5, <2>1, <2>2 DEF IsCurrent
<1>7. Shapes'
  <2>1. update' \in [Updaters -> {<<x>> : x \in Rows' \cup {0}} \cup {<<>>}]
    BY <1>1, <1>5 DEF TInv, Shapes
  <2>2. get' \in [Gets -> ({"terms", "create"} \X Rows') \cup {<<>>}]
    BY <1>1, <1>5 DEF TInv, Shapes, server
  <2>3. copy' \in (Rows' \X MaskIds \X (0..MaxTime)) \cup {<<>>}
    BY <1>1, <1>5 DEF TInv, Shapes, server
  <2>4. payload' \in [Clients -> (Rows' \X (0..now)) \cup {<<>>}]
    BY <1>1, <1>5 DEF TInv, Shapes
  <2>5. sigs' \subseteq Clients \X Rows' \X Rows' \X (0..MaxTime)
    BY <1>1, <1>5 DEF TInv, Shapes
  <2>6. Len(current') <= MaxTerms
    BY <1>1, <1>2, <1>4, TermsAssumption
  <2>7. disturbed' \in BOOLEAN
    BY <1>1, Zenon DEF TInv, Shapes
  <2> QED BY <1>1, <1>4, <2>1, <2>2, <2>3, <2>4, <2>5, <2>6, <2>7
          DEF TInv, Shapes, MaskIds, TermsIds, server
<1>8. CurrentInv'
  <2>1. ASSUME ~disturbed'
        PROVE  /\ \A v \in Updaters : update'[v] = <<>>
               /\ IsCurrent' = {n + 1}
    <3>1. ~disturbed /\ \A v \in Updaters : update[v] # <<>> => v = u
      BY <1>1, <2>1 DEF TInv, CurrentInv
    <3>2. IsCurrent \subseteq {old}
      BY <1>1, <2>1 DEF TInv, CurrentInv, old
    <3> QED BY <1>1, <1>6, <3>1, <3>2 DEF TInv, Shapes
  <2>2. IsCurrent' # {} /\ n + 1 \in Rows'
    BY <1>5, <1>6
  <2> QED BY <2>1, <2>2 DEF CurrentInv
<1> QED BY <1>1, <1>7, <1>8, SameTables DEF TInv, server

\* The transaction is rolled back: the old row stays current.
LEMMA RollbackKeeps == ASSUME TInv, NEW u \in Updaters, Rollback(u) PROVE TInv'
<1>1. /\ UNCHANGED <<now, tables, server, payload, disturbed>> /\ faults' = faults + 1
      /\ faults < MaxFaults /\ update' = [update EXCEPT ![u] = <<>>]
  BY DEF Rollback, RolledBack, Fault, tables
<1>2. Shapes'
  <2>1. disturbed' \in BOOLEAN
    BY <1>1, Zenon DEF TInv, Shapes
  <2>2. update' \in [Updaters -> {<<x>> : x \in Rows \cup {0}} \cup {<<>>}]
    BY <1>1 DEF TInv, Shapes
  <2>3. faults' \in 0..MaxFaults
    BY <1>1, TermsAssumption DEF TInv, Shapes
  <2> QED BY <1>1, <2>1, <2>2, <2>3 DEF TInv, Shapes, Rows, MaskIds, TermsIds, tables, server
<1>3. CurrentInv'
  <2>1. \A v \in Updaters : update'[v] # <<>> => update'[v] = update[v]
    BY <1>1 DEF TInv, Shapes
  <2>2. Rows' = Rows /\ IsCurrent' = IsCurrent
    BY <1>1 DEF Rows, IsCurrent, tables
  <2> QED BY <1>1, <2>1, <2>2 DEF TInv, CurrentInv
<1> QED BY <1>1, <1>2, <1>3, SameTables DEF TInv, tables, server

\* GETs that do not answer yet, or never.
LEMMA GetKeeps ==
  ASSUME TInv,
         \/ \E g \in Gets : GetTerms(g) \/ NoMask(g) \/ CreateMaskFails(g)
         \/ MapRace
  PROVE  TInv'
<1>1. /\ UNCHANGED <<now, current, masks, sigs, copy, payload, update, disturbed>>
      /\ \/ UNCHANGED faults
         \/ faults < MaxFaults /\ faults' = faults + 1
  <2>1. ASSUME NEW g \in Gets, GetTerms(g)
        PROVE  UNCHANGED <<now, current, masks, sigs, copy, payload, update, disturbed, faults>>
    BY <2>1 DEF GetTerms, tables, updates
  <2>2. ASSUME NEW g \in Gets, NoMask(g)
        PROVE  UNCHANGED <<now, current, masks, sigs, copy, payload, update, disturbed, faults>>
    BY <2>2 DEF NoMask, tables, updates
  <2>3. ASSUME NEW g \in Gets, CreateMaskFails(g)
        PROVE  /\ UNCHANGED <<now, current, masks, sigs, copy, payload, update, disturbed>>
               /\ faults < MaxFaults /\ faults' = faults + 1
    BY <2>3 DEF CreateMaskFails, tables, updates, Fault
  <2>4. ASSUME MapRace
        PROVE  UNCHANGED <<now, current, masks, sigs, copy, payload, update, disturbed, faults>>
    BY <2>4 DEF MapRace, tables, updates
  <2> QED BY <2>1, <2>2, <2>3, <2>4
<1>2. faults' \in 0..MaxFaults
  BY <1>1, TermsAssumption DEF TInv, Shapes
<1>3. maskCache' \in [TermsIds -> MaskIds \cup {0}]
  BY DEF TInv, Shapes, GetTerms, NoMask, CreateMaskFails, AfterError, MapRace, TermsIds
<1>4. get' \in [Gets -> ({"terms", "create"} \X Rows) \cup {<<>>}]
  <2>1. ASSUME NEW g \in Gets, GetTerms(g)
        PROVE  get' \in [Gets -> ({"terms", "create"} \X Rows) \cup {<<>>}]
    <3>1. IsCurrent \in SUBSET Nat /\ IsCurrent \subseteq Rows /\ IsCurrent # {}
      BY <2>1 DEF GetTerms, IsCurrent, Rows, TInv, Shapes
    <3>2. First(IsCurrent) \in Rows
      BY <3>1, FirstIsRow
    <3> QED BY <2>1, <3>2 DEF GetTerms, TInv, Shapes
  <2>2. ASSUME NEW g \in Gets, NoMask(g)
        PROVE  get' \in [Gets -> ({"terms", "create"} \X Rows) \cup {<<>>}]
    BY <2>2 DEF NoMask, TInv, Shapes
  <2>3. ASSUME NEW g \in Gets, CreateMaskFails(g)
        PROVE  get' \in [Gets -> ({"terms", "create"} \X Rows) \cup {<<>>}]
    BY <2>3 DEF CreateMaskFails, TInv, Shapes
  <2>4. CASE MapRace
    BY <2>4 DEF MapRace
  <2> QED BY <2>1, <2>2, <2>3, <2>4
<1>5. disturbed' \in BOOLEAN
  BY <1>1, Zenon DEF TInv, Shapes
<1>6. Shapes'
  BY <1>1, <1>2, <1>3, <1>4, <1>5 DEF TInv, Shapes, Rows, MaskIds, TermsIds
<1> QED BY <1>1, <1>6, SameTables DEF TInv

\* The page, with a mask of the cache or a new one.
LEMMA RespondKeeps ==
  ASSUME TInv, NEW g \in Gets, NEW m \in MaskIds', Respond(g, m), UNCHANGED faults,
         get[g] # <<>>, masks' \in Seq(Nat), Len(masks') <= MaxMasks, Len(masks) <= Len(masks'),
         maskCache' \in [TermsIds -> MaskIds' \cup {0}], masks'[m] > now + HalfHour
  PROVE  TInv'
<1> DEFINE t == get[g][2]
<1>1. /\ copy' = <<t, m, now>> /\ get' = [get EXCEPT ![g] = <<>>]
      /\ UNCHANGED <<now, current, sigs, payload, update, disturbed>>
  BY DEF Respond, updates
<1>2. t \in Rows
  BY DEF TInv, Shapes
<1> HIDE DEF t
<1>3. Shapes'
  <2>1. get' \in [Gets -> ({"terms", "create"} \X Rows) \cup {<<>>}]
    BY <1>1 DEF TInv, Shapes
  <2>2. copy' \in Rows \X MaskIds' \X (0..MaxTime)
    BY <1>1, <1>2 DEF TInv, Shapes
  <2>3. disturbed' \in BOOLEAN
    BY <1>1, Zenon DEF TInv, Shapes
  <2> QED BY <1>1, <2>1, <2>2, <2>3 DEF TInv, Shapes, Rows, TermsIds
<1>4. MaskInv'
  BY <1>1 DEF MaskInv
<1> QED BY <1>1, <1>3, <1>4, SameTables DEF TInv

\* A GET is answered with the mask the process has cached.
LEMMA CachedMaskKeeps == ASSUME TInv, NEW g \in Gets, CachedMask(g) PROVE TInv'
<1> DEFINE t == get[g][2]
<1>1. t \in TermsIds
  BY TermsAssumption DEF CachedMask, TInv, Shapes, Rows, TermsIds
<1>2. PICK m \in MaskIds : m = maskCache[t] /\ masks[m] > now + HalfHour
  BY <1>1 DEF CachedMask, FreshMask, TInv, Shapes
<1>3. UNCHANGED <<masks, maskCache, faults>> /\ Respond(g, m) /\ get[g] # <<>>
  BY <1>2 DEF CachedMask
<1>4. MaskIds' = MaskIds
  BY <1>3 DEF MaskIds
<1>5. masks' \in Seq(Nat) /\ Len(masks') <= MaxMasks /\ Len(masks) <= Len(masks')
      /\ maskCache' \in [TermsIds -> MaskIds' \cup {0}] /\ masks'[m] > now + HalfHour
  BY <1>2, <1>3, <1>4 DEF TInv, Shapes
<1> QED BY <1>3, <1>4, <1>5, RespondKeeps

\* A GET makes a new mask, which has an hour to go.
LEMMA CreateMaskKeeps == ASSUME TInv, NEW g \in Gets, CreateMask(g) PROVE TInv'
<1> DEFINE t == get[g][2]
<1>1. t \in TermsIds
  BY TermsAssumption DEF CreateMask, TInv, Shapes, Rows, TermsIds
<1> HIDE DEF t
<1>2. /\ masks \in Seq(Nat) /\ Len(masks) \in Nat /\ now \in Nat /\ Len(masks) < MaxMasks
      /\ maskCache \in [TermsIds -> MaskIds \cup {0}]
  BY DEF TInv, Shapes, CreateMask
<1>3. PICK m \in Nat : m = Len(masks) + 1
  BY <1>2
<1>4. /\ masks' = Append(masks, now + Hour) /\ maskCache' = [maskCache EXCEPT ![t] = m]
      /\ Respond(g, m) /\ UNCHANGED faults /\ get[g] # <<>>
  BY <1>3 DEF CreateMask, t
<1>5. masks' \in Seq(Nat) /\ Len(masks') = m /\ masks'[m] = now + Hour
  BY <1>2, <1>3, <1>4 DEF Hour
<1>6. MaskIds \subseteq MaskIds' /\ m \in MaskIds'
  BY <1>2, <1>3, <1>5 DEF MaskIds
<1>7. maskCache' \in [TermsIds -> MaskIds' \cup {0}]
  BY <1>1, <1>2, <1>4, <1>6
<1>8. masks'[m] > now + HalfHour /\ Len(masks') <= MaxMasks /\ Len(masks) <= Len(masks')
  BY <1>2, <1>3, <1>5, TermsAssumption DEF Hour, HalfHour
<1> QED BY <1>4, <1>5, <1>6, <1>7, <1>8, RespondKeeps

\* A client signs.
LEMMA SignKeeps == ASSUME TInv, NEW c \in Clients, Sign(c) PROVE TInv'
<1>1. /\ copy # <<>> /\ payload' = [payload EXCEPT ![c] = <<copy[1], now>>]
      /\ UNCHANGED <<now, current, masks, sigs, maskCache, get, copy, update, disturbed, faults>>
  BY DEF Sign, tables, server, updates
<1>2. copy[1] \in Rows /\ now \in 0..now
  BY <1>1 DEF TInv, Shapes
<1>3. payload' \in [Clients -> (Rows \X (0..now)) \cup {<<>>}]
  BY <1>1, <1>2 DEF TInv, Shapes
<1>4. disturbed' \in BOOLEAN
  BY <1>1, Zenon DEF TInv, Shapes
<1>5. Shapes'
  BY <1>1, <1>3, <1>4 DEF TInv, Shapes, Rows, MaskIds, TermsIds
<1> QED BY <1>1, <1>5, SameTables DEF TInv

\* The row of terms_sigs.
LEMMA Signed == ASSUME NEW a, NEW b, NEW d, NEW e PROVE <<a>> \o <<b, d, e>> = <<a, b, d, e>>
<1> DEFINE S == {a, b, d, e}
           s == <<a>>
           t == <<b, d, e>>
           r == <<a, b, d, e>>
<1>1. /\ s \in Seq(S) /\ t \in Seq(S) /\ r \in Seq(S)
      /\ Len(s) = 1 /\ Len(t) = 3 /\ Len(r) = 4
      /\ s[1] = a /\ t[1] = b /\ t[2] = d /\ t[3] = e
      /\ r[1] = a /\ r[2] = b /\ r[3] = d /\ r[4] = e
  OBVIOUS
<1> HIDE DEF S, s, t, r
<1>2. /\ s \o t \in Seq(S) /\ Len(s \o t) = 4
      /\ \A i \in 1..4 : (s \o t)[i] = IF i <= 1 THEN s[i] ELSE t[i - 1]
  <2>1. /\ s \o t \in Seq(S) /\ Len(s \o t) = Len(s) + Len(t)
        /\ \A i \in 1..Len(s) + Len(t) : (s \o t)[i] = IF i <= Len(s) THEN s[i] ELSE t[i - Len(s)]
    BY <1>1, ConcatProperties, Zenon
  <2>2. Len(s) + Len(t) = 4
    BY <1>1
  <2> QED BY <1>1, <2>1, <2>2
<1>3. \A i \in 1..4 : (s \o t)[i] = r[i]
  BY <1>1, <1>2
<1>4. s \o t = r
  BY <1>1, <1>2, <1>3, SeqEqual
<1> QED BY <1>4 DEF s, t, r

\* A signature is checked and saved.
LEMMA PostKeeps == ASSUME TInv, NEW c \in Clients, Post(c) PROVE TInv'
<1> DEFINE p == payload[c]
           s == <<c, 1, p[1], now - p[2]>>
<1>1. /\ p # <<>> /\ payload' = [payload EXCEPT ![c] = <<>>]
      /\ sigs' = IF p[2] + Stale < now THEN sigs ELSE sigs \cup {<<c>> \o x : x \in SaveSig(p)}
      /\ UNCHANGED <<now, current, masks, maskCache, get, copy, update, disturbed, faults>>
  BY DEF Post, server, updates
<1>2. p[1] \in Rows /\ p[2] \in 0..now /\ now \in 0..MaxTime
  BY <1>1 DEF TInv, Shapes
<1>3. First(Rows) = 1 /\ 1 \in Rows
  BY <1>2, FirstOfAll DEF TInv
<1>4. sigs' = sigs \/ (sigs' = sigs \cup {s} /\ p[1] = 1 /\ ~(p[2] + Stale < now))
  <2>1. CASE p[1] # 1
    BY <1>1, <1>3, <2>1 DEF SaveSig
  <2>2. CASE p[1] = 1
    <3>1. SaveSig(p) = {<<1, p[1], now - p[2]>>}
      BY <1>3, <2>2 DEF SaveSig
    <3>2. <<c>> \o <<1, p[1], now - p[2]>> = s
      BY Signed
    <3>3. {<<c>> \o x : x \in SaveSig(p)} = {s}
      BY <3>1, <3>2
    <3> QED BY <1>1, <2>2, <3>3
  <2> QED BY <2>1, <2>2
<1>5. now - p[2] \in 0..MaxTime /\ (~(p[2] + Stale < now) => now - p[2] <= Stale)
  BY <1>2, TermsAssumption DEF Stale
<1>6. s \in Clients \X Rows \X Rows \X (0..MaxTime) /\ s[2] = 1 /\ s[3] = p[1] /\ s[4] = now - p[2]
  BY <1>2, <1>3, <1>5
<1> HIDE DEF s
<1>7. sigs' \subseteq Clients \X Rows \X Rows \X (0..MaxTime)
  BY <1>4, <1>6 DEF TInv, Shapes
<1>8. SignedAsShown'
  BY <1>4, <1>5, <1>6 DEF TInv, SignedAsShown
<1> HIDE DEF p
<1>9. payload' \in [Clients -> (Rows \X (0..now)) \cup {<<>>}]
  BY <1>1 DEF TInv, Shapes
<1>10. disturbed' \in BOOLEAN
  BY <1>1, Zenon DEF TInv, Shapes
<1>11. Shapes'
  BY <1>1, <1>7, <1>9, <1>10 DEF TInv, Shapes, Rows, MaskIds, TermsIds
<1> QED BY <1>1, <1>8, <1>11, SameTables DEF TInv

-----------------------------------------------------------------------------
(* The theorems.                                                           *)

\* The four parts of TInv hold throughout.
LEMMA TermsInductive == Spec => []TInv
<1>1. ASSUME TInv, [Next]_vars PROVE TInv'
  <2>1. CASE UNCHANGED vars
    <3>1. UNCHANGED <<now, current, masks, sigs, maskCache, get, copy, payload, update, disturbed, faults>>
      BY <2>1 DEF vars, tables, server, updates
    <3>2. disturbed' \in BOOLEAN
      BY <1>1, <3>1, Zenon DEF TInv, Shapes
    <3>3. Shapes'
      BY <1>1, <3>1, <3>2 DEF TInv, Shapes, Rows, MaskIds, TermsIds
    <3> QED BY <1>1, <3>1, <3>3, SameTables DEF TInv
  <2>2. CASE Tick \/ MapRace
    BY <1>1, <2>2, TickKeeps, GetKeeps
  <2>3. ASSUME NEW u \in Updaters, \/ ReadOld(u) \/ ReadOldFails(u)
                                   \/ Commit(u) \/ Rollback(u)
        PROVE  TInv'
    BY <1>1, <2>3, ReadOldKeeps, ReadOldFailsKeeps, CommitKeeps, RollbackKeeps
  <2>4. ASSUME NEW g \in Gets, \/ GetTerms(g) \/ CachedMask(g) \/ NoMask(g)
                               \/ CreateMask(g) \/ CreateMaskFails(g)
        PROVE  TInv'
    BY <1>1, <2>4, GetKeeps, CachedMaskKeeps, CreateMaskKeeps
  <2>5. ASSUME NEW c \in Clients, Sign(c) \/ Post(c) PROVE TInv'
    BY <1>1, <2>5, SignKeeps, PostKeeps
  <2> QED BY <1>1, <2>1, <2>2, <2>3, <2>4, <2>5 DEF Next
<1> QED BY <1>1, InitTerms, PTL DEF Spec

\* Tables, cache, page and payloads are well typed: no mask is cached or
\* served that is not a row of hash_masks, failed inserts and ends of the
\* process included (db/terms.go, terms/handler.go).
THEOREM TermsTypes == Spec => []TypeOK
<1>1. TInv => TypeOK
  <2> SUFFICES ASSUME TInv PROVE TypeOK
    OBVIOUS
  <2>1. now \in 0..MaxTime /\ 0..now \subseteq 0..MaxTime
    BY TermsAssumption DEF TInv, Shapes
  <2>2. \A c \in Clients : payload[c] = <<>> \/ payload[c] \in Rows \X (0..MaxTime)
    BY <2>1 DEF TInv, Shapes
  <2>3. \A u \in Updaters : update[u] = <<>> \/ update[u][1] \in Rows \cup {0}
    BY DEF TInv, Shapes
  <2>4. \A g \in Gets : get[g] = <<>> \/ get[g] \in {"terms", "create"} \X Rows
    BY DEF TInv, Shapes
  <2>5. disturbed \in BOOLEAN
    BY Zenon DEF TInv, Shapes
  <2> QED BY <2>2, <2>3, <2>4, <2>5 DEF TInv, Shapes, TypeOK
<1> QED BY <1>1, TermsInductive, PTL

\* Whatever the CDN still serves has a mask that is good for longer than a
\* payload may be old (terms/handler.go, GetNewHashMask).
THEOREM ServedMasksGood == Spec => []ServedMaskGood
<1>1. TInv => ServedMaskGood
  <2> SUFFICES ASSUME TInv, Served PROVE masks[copy[2]] > now + 1
    BY DEF ServedMaskGood
  <2>1. copy # <<>> /\ now <= copy[3] + MaxAge
    BY DEF Served
  <2>2. copy \in Rows \X MaskIds \X (0..MaxTime)
    BY <2>1 DEF TInv, Shapes
  <2>3. copy[2] \in MaskIds /\ copy[3] \in Nat /\ now \in Nat
    BY <2>2 DEF TInv, Shapes
  <2>4. masks[copy[2]] \in Nat
    BY <2>3 DEF TInv, Shapes, MaskIds
  <2>5. masks[copy[2]] > copy[3] + HalfHour
    BY <2>1 DEF TInv, MaskInv
  <2> QED BY <2>1, <2>3, <2>4, <2>5 DEF MaxAge, HalfHour
<1> QED BY <1>1, TermsInductive, PTL

\* Updates that fail or overlap, or could not read what they replace, never
\* leave the page without current terms, and the others leave one version
\* current (UpdateTerms).
THEOREM TermsStayCurrent == Spec => []OneCurrent
<1>1. TInv => OneCurrent
  BY FS_Singleton DEF TInv, CurrentInv, OneCurrent
<1> QED BY <1>1, TermsInductive, PTL

\* Every saved signature is of the terms it names and was made at most five
\* minutes before it was posted (SaveSig, TermsHandler).
THEOREM SignaturesAsShown == Spec => []SignedAsShown
<1>1. TInv => SignedAsShown
  BY DEF TInv
<1> QED BY <1>1, TermsInductive, PTL

=============================================================================
