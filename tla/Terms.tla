------------------------------- MODULE Terms --------------------------------
(***************************************************************************)
(* The terms of use: the rows of the terms, hash_masks and terms_sigs      *)
(* tables, cmd/terms, which shows the current terms with a hash mask and   *)
(* takes signatures, the CDN in front of it, and whoever updates the terms *)
(* (cmd/automigrate on an empty table, or a caller of UpdateTerms).        *)
(*                                                                         *)
(* One language; every row has a text of its own, so a row's number stands *)
(* for its text.  A client's nonce matches the mask it was given and its   *)
(* signature is good for the text it was shown.  Time is counted in units  *)
(* of five minutes and a GET takes less than one.  TermsCheckHandler and   *)
(* CheckAddress answer yes whatever the tables hold.                       *)
(***************************************************************************)
EXTENDS Integers, Sequences, FiniteSets, FiniteSetsExt

CONSTANTS Gets,      \* bound: GET requests in cmd/terms at a time
          Clients,   \* signers
          Updaters,  \* bound: calls of UpdateTerms at a time
          MaxTerms, MaxMasks, MaxSigs, MaxTime, MaxFaults \* bounds

ASSUME TermsAssumption ==
  MaxTerms \in Nat /\ MaxMasks \in Nat /\ MaxSigs \in Nat /\ MaxTime \in Nat /\ MaxFaults \in Nat

HalfHour == 6
Hour     == 12
MaxAge   == 5       \* Cache-Control: max-age=1500
Stale    == 1       \* unixTime.Add(5 * time.Minute)

VARIABLES
  now,        \* the clock
  current,    \* the terms table: if each row is Current
  masks,      \* the hash_masks table: each row's Expiration
  sigs,       \* the terms_sigs table: <<signer, terms, what was signed, its age then>>
  maskCache,  \* TermsManager.hashMaskCache of cmd/terms: terms -> mask
  get,        \* the GETs in TermsHandler: <<stage, terms>>
  copy,       \* what the CDN holds: <<terms, mask, since>>
  payload,    \* what each client signed: <<terms, timestamp>>
  update,     \* the calls of UpdateTerms: <<row it found current>>, 0 if none
  disturbed,  \* calls of UpdateTerms overlapped, or one failed to read the current row
  faults      \* bound

tables == <<current, masks, sigs>>
server == <<maskCache, get, copy>>
updates == <<update, disturbed>>
vars == <<now, tables, server, payload, updates, faults>>

Rows == 1..Len(current)
IsCurrent == {t \in Rows : current[t]}
\* First orders by primary key.
First(S) == Min(S)

Init ==
  /\ now = 0
  /\ current = <<>> /\ masks = <<>> /\ sigs = {}
  /\ maskCache = [t \in 1..MaxTerms |-> 0]
  /\ get = [g \in Gets |-> <<>>]
  /\ copy = <<>>
  /\ payload = [c \in Clients |-> <<>>]
  /\ update = [u \in Updaters |-> <<>>] /\ disturbed = FALSE
  /\ faults = 0

Fault == faults < MaxFaults /\ faults' = faults + 1

Tick ==
  /\ now < MaxTime
  /\ \A g \in Gets : get[g] = <<>>
  /\ now' = now + 1
  /\ UNCHANGED <<tables, server, payload, updates, faults>>

-----------------------------------------------------------------------------
(* UpdateTerms: the current row is read outside of the transaction.        *)

ReadOld(u) ==
  /\ update[u] = <<>>
  /\ Len(current) < MaxTerms
  /\ update' = [update EXCEPT ![u] = IF IsCurrent = {} THEN <<0>> ELSE <<First(IsCurrent)>>]
  /\ disturbed' = (disturbed \/ \E v \in Updaters : update[v] # <<>>)
  /\ UNCHANGED <<now, tables, server, payload, faults>>

\* Any error of the read, not only that of an empty result, is taken for
\* "there are no old terms".
ReadOldFails(u) ==
  /\ update[u] = <<>>
  /\ Len(current) < MaxTerms /\ IsCurrent # {}
  /\ Fault
  /\ update' = [update EXCEPT ![u] = <<0>>]
  /\ disturbed' = TRUE
  /\ UNCHANGED <<now, tables, server, payload>>

Deprecate(rows, old) == IF old = 0 THEN rows ELSE [rows EXCEPT ![old] = FALSE]

\* The transaction: the old row is saved, the new one created.
Commit(u) ==
  /\ update[u] # <<>>
  /\ Len(current) < MaxTerms
  /\ current' = Append(Deprecate(current, update[u][1]), TRUE)
  /\ update' = [update EXCEPT ![u] = <<>>]
  /\ UNCHANGED <<now, masks, sigs, server, payload, disturbed, faults>>

\* Mutant of RolledBack: the old row was saved outside of the transaction.
NotRolledBack(u) == Deprecate(current, update[u][1])
RolledBack(u) == current

Rollback(u) ==
  /\ update[u] # <<>>
  /\ Fault
  /\ current' = RolledBack(u)
  /\ update' = [update EXCEPT ![u] = <<>>]
  /\ UNCHANGED <<now, masks, sigs, server, payload, disturbed>>

-----------------------------------------------------------------------------
(* GET in TermsHandler.                                                    *)

GetTerms(g) ==
  /\ get[g] = <<>>
  /\ IsCurrent # {}
  /\ get' = [get EXCEPT ![g] = <<"terms", First(IsCurrent)>>]
  /\ UNCHANGED <<now, tables, maskCache, copy, payload, updates, faults>>

\* The response goes to the CDN and, through it, to clients.
Respond(g, m) ==
  /\ copy' = <<get[g][2], m, now>>
  /\ get' = [get EXCEPT ![g] = <<>>]
  /\ UNCHANGED <<now, current, sigs, payload, updates>>

\* Mutant of FreshMask: half an hour is not added.
LiveMask(t) == maskCache[t] # 0 /\ masks[maskCache[t]] > now
FreshMask(t) == maskCache[t] # 0 /\ masks[maskCache[t]] > now + HalfHour

\* GetNewHashMask, with a mask from the cache.
CachedMask(g) ==
  /\ get[g] # <<>> /\ get[g][1] = "terms"
  /\ FreshMask(get[g][2])
  /\ Respond(g, maskCache[get[g][2]])
  /\ UNCHANGED <<masks, maskCache, faults>>

NoMask(g) ==
  /\ get[g] # <<>> /\ get[g][1] = "terms"
  /\ ~FreshMask(get[g][2])
  /\ get' = [get EXCEPT ![g] = <<"create", get[g][2]>>]
  /\ UNCHANGED <<now, tables, maskCache, copy, payload, updates, faults>>

CreateMask(g) ==
  /\ get[g] # <<>> /\ get[g][1] = "create"
  /\ Len(masks) < MaxMasks
  /\ masks' = Append(masks, now + Hour)
  /\ maskCache' = [maskCache EXCEPT ![get[g][2]] = Len(masks) + 1]
  /\ Respond(g, Len(masks) + 1)
  /\ UNCHANGED faults

\* Mutant of AfterError: the mask is cached before it is saved.
AfterErrorKept(g) == [maskCache EXCEPT ![get[g][2]] = Len(masks) + 1]
AfterError(g) == maskCache

CreateMaskFails(g) ==
  /\ get[g] # <<>> /\ get[g][1] = "create"
  /\ Fault
  /\ maskCache' = AfterError(g)
  /\ get' = [get EXCEPT ![g] = <<>>]
  /\ UNCHANGED <<now, tables, copy, payload, updates>>

\* Two goroutines use the cache's map and one writes it: the runtime may end
\* the process.
MapRace ==
  /\ Cardinality({g \in Gets : get[g] # <<>>}) > 1
  /\ \E g \in Gets : get[g] # <<>> /\ get[g][1] = "create"
  /\ get' = [g \in Gets |-> <<>>]
  /\ maskCache' = [t \in 1..MaxTerms |-> 0]
  /\ UNCHANGED <<now, tables, copy, payload, updates, faults>>

-----------------------------------------------------------------------------
(* The CDN and the clients.                                                *)

Served == copy # <<>> /\ now <= copy[3] + MaxAge

\* A client signs what it was shown, which may have left the CDN by then.
Sign(c) ==
  /\ copy # <<>> /\ payload[c] = <<>>
  /\ Cardinality(sigs) < MaxSigs
  /\ payload' = [payload EXCEPT ![c] = <<copy[1], now>>]
  /\ UNCHANGED <<now, tables, server, updates, faults>>

\* Mutant of SaveSig: the signature is not checked against the text.
SaveSigUnchecked(p) == {<<First(Rows), p[1], now - p[2]>>}

\* SaveSig checks the signature against the first row, whatever the payload's
\* terms_id is; a mask's expiration is not looked at and no mask is deleted.
SaveSig(p) ==
  IF p[1] = First(Rows) THEN {<<First(Rows), p[1], now - p[2]>>} ELSE {}

\* POST in TermsHandler.
Post(c) ==
  /\ payload[c] # <<>>
  /\ sigs' = IF payload[c][2] + Stale < now THEN sigs
             ELSE sigs \cup {<<c>> \o s : s \in SaveSig(payload[c])}
  /\ payload' = [payload EXCEPT ![c] = <<>>]
  /\ UNCHANGED <<now, current, masks, server, updates, faults>>

Next ==
  \/ Tick \/ MapRace
  \/ \E u \in Updaters : ReadOld(u) \/ ReadOldFails(u) \/ Commit(u) \/ Rollback(u)
  \/ \E g \in Gets : GetTerms(g) \/ CachedMask(g) \/ NoMask(g) \/ CreateMask(g) \/ CreateMaskFails(g)
  \/ \E c \in Clients : Sign(c) \/ Post(c)

Spec == Init /\ [][Next]_vars

-----------------------------------------------------------------------------
(* Properties.                                                             *)

TermsIds == 1..MaxTerms
MaskIds == 1..Len(masks)

\* The tables, the process's cache, and what its clients hold; a mask that
\* the cache or the CDN knows is a row of the table.
TypeOK ==
  /\ now \in 0..MaxTime
  /\ current \in Seq(BOOLEAN) /\ Len(current) <= MaxTerms
  /\ masks \in Seq(Nat) /\ Len(masks) <= MaxMasks
  /\ maskCache \in [TermsIds -> MaskIds \cup {0}]
  /\ \A g \in Gets : get[g] = <<>> \/ get[g] \in {"terms", "create"} \X Rows
  /\ copy = <<>> \/ copy \in Rows \X MaskIds \X (0..MaxTime)
  /\ \A c \in Clients : payload[c] = <<>> \/ payload[c] \in Rows \X (0..MaxTime)
  /\ sigs \subseteq Clients \X Rows \X Rows \X (0..MaxTime)
  /\ \A u \in Updaters : update[u] = <<>> \/ update[u][1] \in Rows \cup {0}
  /\ disturbed \in BOOLEAN /\ faults \in 0..MaxFaults

\* What TermsHandler serves, from its cache or through the CDN's copy, has a
\* mask that is good for more than five minutes.
ServedMaskGood == Served => masks[copy[2]] > now + 1

\* Once there are terms, one version of them is current, also after an update
\* that failed half way (db/terms.go:231-248): the page is never lost.  Only
\* updates that overlapped, or one whose read of the old terms failed
\* (db/terms.go:222), leave more than one, against the comment at
\* db/terms.go:13-14, and they never leave none.
OneCurrent == Rows # {} => IsCurrent # {} /\ (disturbed \/ Cardinality(IsCurrent) = 1)

\* A saved signature names the terms that its signer was shown, and was
\* made at most five minutes before.
SignedAsShown == \A s \in sigs : s[2] = s[3] /\ s[4] <= Stale
=============================================================================
