------------------------------- MODULE Intake -------------------------------
(***************************************************************************)
(* The HTTP services that take orders: cmd/ingest (ingest.Handler and      *)
(* FeeHandler) and cmd/api (PostOrder and PostOrderConfig), with the       *)
(* services they ask: accounts, affiliates, base fee, pools, exchanges.    *)
(*                                                                         *)
(* Every request is a goroutine.  It decodes and validates its body,       *)
(* starts a goroutine per lookup, and takes their results from unbuffered  *)
(* channels one after the other; the four handlers do so in four orders.   *)
(* A step of the model ends where the code reads or writes what another    *)
(* goroutine or process may touch.                                         *)
(*                                                                         *)
(* NetworkAddressMap.Scan decodes into a slice that it does not pass by    *)
(* reference and drops the error, so the SenderAddresses of a pool read    *)
(* from the database are empty and the sender check never applies.  The    *)
(* terms check answers true (TermsManager.CheckAddress).                   *)
(***************************************************************************)
EXTENDS Integers, FiniteSets

CONSTANTS Requests,    \* bound: HTTP requests
          Inputs,      \* what a request may carry
          NoInput,     \* no request yet
          Exchanges,   \* rows of the exchanges table
          Recipients,  \* affiliates in Redis
          DefaultRecipient, \* the services' fee recipient, a program argument
          Zero,        \* the zero address
          Pools,       \* rows of the pools table: name -> [share, expired]
          DefaultPool, \* the pool of a path without a name
          Unit,        \* feeBaseUnits, scaled down
          Accounts,    \* accounts in Redis at the start: maker -> [bl, dp, ends]
          BaseFee,     \* the base fee in Redis at the start
          BaseFees,    \* what it may be set to
          MaxEvents    \* bound: errors of Redis and the database, changes that an
                       \* operator makes, discounts that end

Servers == {"ingest", "api"}
OrderKinds == {"order", "postOrder"}
QuoteKinds == {"fees", "postConfig"}
Kinds == OrderKinds \cup QuoteKinds
\* "short": asset data of less than four bytes, or an empty signature.
OrderFlaws == {"makerAsset", "takerAsset", "signatureType", "signature", "expired",
               "distantFuture", "makerAmount", "takerAmount", "short"}
AddressFlaws == {"maker", "recipient", "exchange"}
Makers == DOMAIN Accounts
Input == [kind : Kinds, type : {"json", "octet", "unknown"},
          body : {"json", "octet", "null", "split", "junk"}, flaws : SUBSET (OrderFlaws \cup AddressFlaws),
          maker : Makers, exchange : Exchanges \cup {Zero}, recipient : Recipients \cup {Zero},
          fee : Nat, pool : STRING]
Account == [bl : BOOLEAN, dp : 0..100, ends : BOOLEAN]
Pool == [share : Nat, expired : BOOLEAN]

ASSUME IntakeAssumption ==
  /\ Inputs \subseteq Input /\ NoInput \notin Inputs
  /\ \A i \in Inputs : i.kind \in OrderKinds => i.flaws \subseteq OrderFlaws
  /\ Zero \in Makers /\ Zero \notin Exchanges /\ Zero \notin Recipients
  /\ Accounts \in [Makers -> Account]
  /\ \A p \in DOMAIN Pools : Pools[p] \in Pool
  /\ Unit \in Nat \ {0} /\ BaseFee \in Nat /\ BaseFees \subseteq Nat
  /\ MaxEvents \in Nat

VARIABLES
  pc,          \* where each request's goroutine is
  input,       \* what it carries
  pool,        \* the pool the decorator found
  contentType, \* ingest.Handler's variable, shared by its requests
  network,     \* ExchangeIsKnown's goroutine and what it sends
  affiliate,   \* affiliates.Get's
  account,     \* accounts.Get's
  found,       \* the account it sends, with the base fee it read
  minFee,      \* poolFee, then minFee
  answer,      \* the status sent to the client
  enqueued,    \* requests whose order is on the queue of new orders
  cache,       \* ExchangeLookup.byAddressCache of each server
  accounts,    \* Redis: account::<maker>
  baseFee,     \* Redis: baseFee
  late,        \* the discounts that end have ended
  stable,      \* requests that began after the last change and met no fault
  overlapped,  \* requests to ingest.Handler that met another one there
  events       \* bound on faults and changes

lookups == <<network, affiliate, account, found>>
redis   == <<accounts, baseFee, late>>
vars == <<pc, input, pool, contentType, lookups, minFee, answer, enqueued, cache, redis,
          stable, overlapped, events>>

-----------------------------------------------------------------------------
(* The handlers: what each decodes, which flaws it refuses and the order   *)
(* in which it takes its lookups' results, answers and publishes.          *)

ServerOf(i) == IF i.kind \in {"order", "fees"} THEN "ingest" ELSE "api"

\* A single Read of at most 1024 bytes: a body that arrives in two parts is cut.
OrderDecodes(i, type) == type \in {"json", "octet"} /\ i.body = type
PostOrderDecodes(i) == i.type = "json" /\ i.body \in {"json", "split"}
FeesDecodes(i) == i.body \in {"json", "null"}
\* The body is decoded into the variable of type error that has Read's io.EOF:
\* an object passes and, like null, leaves the request empty.
PostConfigDecodes(i) == i.type = "json" /\ i.body \in {"json", "null"}

\* Mutant of OrderChecks: the maker amount may be zero.
OrderChecksShort == {"makerAsset", "takerAsset", "signatureType", "signature", "expired",
                     "distantFuture", "takerAmount"}
OrderChecks == {"makerAsset", "takerAsset", "signatureType", "signature", "expired",
                "distantFuture", "takerAmount", "makerAmount"}
PostOrderChecks == {"makerAsset", "takerAsset", "signatureType", "signature", "expired",
                    "distantFuture", "makerAmount", "takerAmount"}
\* The exchange's check looks at the fee recipient.
FeesChecks(i) == {"maker", "recipient"} \cup (IF i.recipient # Zero THEN {"exchange"} ELSE {})

Refuses(i) ==
  i.flaws \cap (CASE i.kind = "order" -> OrderChecks
                  [] i.kind = "postOrder" -> PostOrderChecks
                  [] i.kind = "fees" -> FeesChecks(i)
                  [] i.kind = "postConfig" -> {}) # {}

\* Mutant of OrderStages: the handler returns once it has answered.
OrderStagesShort == [decode |-> "network", network |-> "affiliate", affiliate |-> "poolFee",
                     poolFee |-> "account", account |-> "answer", answer |-> "done"]
OrderStages == [decode |-> "network", network |-> "affiliate", affiliate |-> "poolFee",
                poolFee |-> "account", account |-> "answer", answer |-> "publish",
                publish |-> "done"]
PostOrderStages == [decode |-> "network", network |-> "affiliate", affiliate |-> "poolFee",
                    poolFee |-> "account", account |-> "publish", publish |-> "answer",
                    answer |-> "done"]
FeesStages == [decode |-> "affiliate", affiliate |-> "poolFee", poolFee |-> "account",
               account |-> "network", network |-> "answer", answer |-> "done"]
PostConfigStages == [decode |-> "network", network |-> "affiliate", affiliate |-> "poolFee",
                     poolFee |-> "account", account |-> "answer", answer |-> "done"]

After(r) == (CASE input[r].kind = "order" -> OrderStages
               [] input[r].kind = "postOrder" -> PostOrderStages
               [] input[r].kind = "fees" -> FeesStages
               [] input[r].kind = "postConfig" -> PostConfigStages)[pc[r]]

Maker(r) == IF input[r].kind = "postConfig" THEN Zero ELSE input[r].maker
Exchange(r) == IF input[r].kind = "postConfig" \/ "exchange" \in input[r].flaws
               THEN Zero ELSE input[r].exchange
Recipient(r) ==
  IF input[r].kind = "postConfig" \/ (input[r].kind = "fees" /\ input[r].recipient = Zero)
  THEN DefaultRecipient ELSE input[r].recipient

IsOrder(r) == input[r].kind \in OrderKinds

-----------------------------------------------------------------------------
Init ==
  /\ pc = [r \in Requests |-> "idle"]
  /\ input = [r \in Requests |-> NoInput]
  /\ pool = [r \in Requests |-> [share |-> Unit, expired |-> FALSE]]
  /\ contentType = "none"
  /\ network = [r \in Requests |-> "off"]
  /\ affiliate = [r \in Requests |-> "off"]
  /\ account = [r \in Requests |-> "off"]
  /\ found = [r \in Requests |-> [bl |-> FALSE, dp |-> 0, ends |-> FALSE, base |-> 0]]
  /\ minFee = [r \in Requests |-> 0]
  /\ answer = [r \in Requests |-> "none"]
  /\ enqueued = {}
  /\ cache = [s \in Servers |-> {}]
  /\ accounts = Accounts
  /\ baseFee = BaseFee
  /\ late = FALSE
  /\ stable = {} /\ overlapped = {}
  /\ events = 0

\* Redis or the database fails request r.
Fault(r) == /\ events < MaxEvents /\ events' = events + 1
            /\ stable' = stable \ {r}
NoFault == UNCHANGED <<stable, events>>

Goto(r, stage) == pc' = [pc EXCEPT ![r] = stage]
Proceed(r) == Goto(r, After(r)) /\ UNCHANGED answer
Finish(r, a) == Goto(r, "done") /\ answer' = [answer EXCEPT ![r] = a]

-----------------------------------------------------------------------------
(* The request's goroutine.                                                *)

Arrive(r) ==
  /\ pc[r] = "idle"
  /\ \E i \in Inputs : input' = [input EXCEPT ![r] = i]
  /\ Goto(r, "pool")
  /\ stable' = stable \cup {r}
  /\ UNCHANGED <<pool, contentType, lookups, minFee, answer, enqueued, cache, redis,
                 overlapped, events>>

InHandler(r) == pc[r] \in {"header", "decode"} /\ input[r].kind = "order"

\* The decorator calls the handler.
Enter(r) ==
  LET others == {q \in Requests \ {r} : InHandler(q)}
  IN  /\ Goto(r, IF input[r].kind = "order" THEN "header" ELSE "decode")
      /\ overlapped' = IF input[r].kind = "order" /\ others # {}
                       THEN overlapped \cup others \cup {r} ELSE overlapped
      /\ UNCHANGED answer

\* The pool decorator: a name without a row is refused, but for the default
\* pool's, whose row an empty pool stands in for.
Decorate(r) ==
  /\ pc[r] = "pool"
  /\ IF input[r].pool \in DOMAIN Pools \cup {DefaultPool}
     THEN Enter(r)
     ELSE Finish(r, "refused") /\ UNCHANGED overlapped
  /\ pool' = IF input[r].pool \in DOMAIN Pools
             THEN [pool EXCEPT ![r] = Pools[input[r].pool]] ELSE pool
  /\ NoFault
  /\ UNCHANGED <<input, contentType, lookups, minFee, enqueued, cache, redis>>

\* The same when the query fails.
DecorateFails(r) ==
  /\ pc[r] = "pool"
  /\ Fault(r)
  /\ IF input[r].pool = DefaultPool
     THEN Enter(r)
     ELSE Finish(r, "refused") /\ UNCHANGED overlapped
  /\ UNCHANGED <<input, pool, contentType, lookups, minFee, enqueued, cache, redis>>

\* Mutant of OwnType: the variable is set once.
OwnTypeKept(r) == IF contentType = "none" THEN input[r].type ELSE contentType
OwnType(r) == input[r].type

\* ingest.Handler keeps the content type in a variable of its closure.
Header(r) ==
  /\ pc[r] = "header"
  /\ contentType' = OwnType(r)
  /\ Goto(r, "decode")
  /\ NoFault
  /\ UNCHANGED <<input, pool, lookups, minFee, answer, enqueued, cache, redis, overlapped>>

\* What a request reads there: the variable is read twice, without a lock,
\* and a string that is being written may be read in part.
Read(r) == {contentType} \cup
           (IF \E q \in Requests \ {r} : pc[q] = "header" THEN {"torn"} ELSE {})

Decodes(r, type) == CASE input[r].kind = "order" -> OrderDecodes(input[r], type)
                      [] input[r].kind = "postOrder" -> PostOrderDecodes(input[r])
                      [] input[r].kind = "fees" -> FeesDecodes(input[r])
                      [] input[r].kind = "postConfig" -> PostConfigDecodes(input[r])

\* The content type by which a request's body may be decoded.
TypesRead(r) == IF input[r].kind = "order" THEN Read(r) ELSE {input[r].type}

\* FeeHandler decodes into the address of a pointer: null makes it nil, and
\* the handler panics when it reads the maker.  Those of orders panic when
\* they look at bytes that are not there.
Panics(r) == \/ input[r].kind = "fees" /\ input[r].body = "null"
             \/ IsOrder(r) /\ "short" \in input[r].flaws

\* net/http closes the connection; a lookup that was started goes on.
DecodePanics(r) ==
  /\ pc[r] = "decode" /\ Panics(r)
  /\ \E type \in TypesRead(r) : Decodes(r, type)
  /\ Goto(r, "aborted")
  /\ network' = [network EXCEPT ![r] = IF IsOrder(r) THEN "pending" ELSE "off"]
  /\ NoFault
  /\ UNCHANGED <<input, pool, contentType, affiliate, account, found, minFee, answer, enqueued,
                 cache, redis, overlapped>>

\* An order's exchange is looked up before the order is validated.
Decode(r) ==
  /\ pc[r] = "decode"
  /\ \E type \in TypesRead(r) :
       IF ~Decodes(r, type)
       THEN Finish(r, "malformed") /\ UNCHANGED <<network, affiliate, account>>
       ELSE /\ ~Panics(r)
            /\ network' = [network EXCEPT ![r] = IF IsOrder(r) \/ ~Refuses(input[r])
                                                 THEN "pending" ELSE "off"]
            /\ IF Refuses(input[r])
               THEN Finish(r, "refused") /\ UNCHANGED <<affiliate, account>>
               ELSE /\ Proceed(r)
                    /\ affiliate' = [affiliate EXCEPT ![r] = "pending"]
                    /\ account' = [account EXCEPT ![r] = "pending"]
  /\ NoFault
  /\ UNCHANGED <<input, pool, contentType, found, minFee, enqueued, cache, redis, overlapped>>

\* networkID := <-networkIDChan, and for an order the pool's expiration.
\* FeeHandler takes an unknown exchange for network 1.
TakeNetwork(r) ==
  /\ pc[r] = "network"
  /\ network[r] \in {"known", "unknown"}
  /\ IF \/ (network[r] = "unknown" /\ input[r].kind # "fees")
        \/ (IsOrder(r) /\ pool[r].expired)
     THEN Finish(r, "refused")
     ELSE Proceed(r)
  /\ NoFault
  /\ UNCHANGED <<input, pool, contentType, lookups, minFee, enqueued, cache, redis, overlapped>>

\* feeRecipient := <-affiliateChan
TakeAffiliate(r) ==
  /\ pc[r] = "affiliate"
  /\ affiliate[r] \in {"known", "unknown"}
  /\ IF affiliate[r] = "unknown" THEN Finish(r, "refused") ELSE Proceed(r)
  /\ NoFault
  /\ UNCHANGED <<input, pool, contentType, lookups, minFee, enqueued, cache, redis, overlapped>>

\* Pool.Fee: the pool's share of the base fee, rounded down.
PoolFee(r) ==
  /\ pc[r] = "poolFee"
  /\ minFee' = [minFee EXCEPT ![r] = (baseFee * pool[r].share) \div Unit]
  /\ Proceed(r)
  /\ NoFault
  /\ UNCHANGED <<input, pool, contentType, lookups, enqueued, cache, redis, overlapped>>

PoolFeeFails(r) ==
  /\ pc[r] = "poolFee"
  /\ Fault(r)
  /\ Finish(r, "refused")
  /\ UNCHANGED <<input, pool, contentType, lookups, minFee, enqueued, cache, redis, overlapped>>

Discount(a) == IF a.ends /\ late THEN 0 ELSE (a.base * a.dp) \div 100

\* Mutant of Due: orders get no discount.
DueInFull(r) == IF IsOrder(r) THEN minFee[r] ELSE minFee[r] - Discount(found[r])
Due(r) == minFee[r] - Discount(found[r])

\* Mutant of Blacklisted: nobody is.
BlacklistedNever(a) == FALSE
Blacklisted(a) == a.bl

\* account := <-makerChan; an order that pays too little is refused, one of
\* a blacklisted maker is accepted and goes no further.
TakeAccount(r) ==
  /\ pc[r] = "account"
  /\ account[r] = "found"
  /\ minFee' = [minFee EXCEPT ![r] = Due(r)]
  /\ IF IsOrder(r) /\ input[r].fee < Due(r) THEN Finish(r, "fee")
     ELSE IF IsOrder(r) /\ Blacklisted(found[r]) THEN Finish(r, "accepted")
     ELSE Proceed(r)
  /\ NoFault
  /\ UNCHANGED <<input, pool, contentType, lookups, enqueued, cache, redis, overlapped>>

\* The handler writes its answer; ingest.Handler does so before it publishes.
Answer(r) ==
  /\ pc[r] = "answer"
  /\ Goto(r, After(r))
  /\ answer' = [answer EXCEPT ![r] = IF IsOrder(r) THEN "accepted" ELSE "quoted"]
  /\ NoFault
  /\ UNCHANGED <<input, pool, contentType, lookups, minFee, enqueued, cache, redis, overlapped>>

Publish(r) ==
  /\ pc[r] = "publish"
  /\ enqueued' = enqueued \cup {r}
  /\ Proceed(r)
  /\ NoFault
  /\ UNCHANGED <<input, pool, contentType, lookups, minFee, cache, redis, overlapped>>

\* LPUSH fails or its reply is lost.  ingest.Handler has answered already.
\* PostOrder answers 500 to a timeout; every other error is success for
\* redisErrIsNil, and it answers 201 whether or not the order was queued.
PublishFails(r) ==
  /\ pc[r] = "publish"
  /\ Fault(r)
  /\ enqueued' \in {enqueued, enqueued \cup {r}}
  /\ Proceed(r) \/ (input[r].kind = "postOrder" /\ Finish(r, "unknown"))
  /\ UNCHANGED <<input, pool, contentType, lookups, minFee, cache, redis, overlapped>>

-----------------------------------------------------------------------------
(* The lookups' goroutines.  One that nobody receives from stays blocked.  *)

Handler == <<pc, input, pool, contentType, minFee, answer, enqueued, overlapped>>

\* GetNetworkByExchange: the cache, a plain map, then the database.
ReadCache(r) ==
  /\ network[r] = "pending"
  /\ network' = [network EXCEPT ![r] =
       IF Exchange(r) \in cache[ServerOf(input[r])] THEN "known" ELSE "missed"]
  /\ NoFault
  /\ UNCHANGED <<Handler, affiliate, account, found, cache, redis>>

\* Mutant of Remember: an exchange is cached before it is found.
RememberAll(r) == {Exchange(r)}
Remember(r) == {Exchange(r)} \cap Exchanges

QueryExchange(r) ==
  /\ network[r] = "missed"
  /\ network' = [network EXCEPT ![r] = IF Exchange(r) \in Exchanges THEN "known" ELSE "unknown"]
  /\ cache' = [cache EXCEPT ![ServerOf(input[r])] = @ \cup Remember(r)]
  /\ NoFault
  /\ UNCHANGED <<Handler, affiliate, account, found, redis>>

QueryExchangeFails(r) ==
  /\ network[r] = "missed"
  /\ Fault(r)
  /\ network' = [network EXCEPT ![r] = "unknown"]
  /\ UNCHANGED <<Handler, affiliate, account, found, cache, redis>>

GetAffiliate(r) ==
  /\ affiliate[r] = "pending"
  /\ affiliate' = [affiliate EXCEPT ![r] =
                     IF Recipient(r) \in Recipients THEN "known" ELSE "unknown"]
  /\ NoFault
  /\ UNCHANGED <<Handler, network, account, found, cache, redis>>

\* Mutant of NilOnError: the goroutine ends without sending.
NothingOnError == "off"
NilOnError == "unknown"

GetAffiliateFails(r) ==
  /\ affiliate[r] = "pending"
  /\ Fault(r)
  /\ affiliate' = [affiliate EXCEPT ![r] = NilOnError]
  /\ UNCHANGED <<Handler, network, account, found, cache, redis>>

SendAccount(r, a, base) ==
  /\ account[r] = "pending"
  /\ account' = [account EXCEPT ![r] = "found"]
  /\ found' = [found EXCEPT ![r] = [bl |-> a.bl, dp |-> a.dp, ends |-> a.ends, base |-> base]]
  /\ UNCHANGED <<Handler, network, affiliate, cache, redis>>

\* The account and then the base fee: a change between the two reads is one
\* that takes the request out of stable, like any other.
GetAccount(r) == SendAccount(r, accounts[Maker(r)], baseFee) /\ NoFault

\* An account that cannot be read is an account without discount, not blacklisted.
GetAccountFails(r) ==
  SendAccount(r, [bl |-> FALSE, dp |-> 0, ends |-> FALSE], 0) /\ Fault(r)

-----------------------------------------------------------------------------
(* Around the handlers.                                                    *)

OnServer(s) == {r \in Requests : pc[r] # "idle" /\ ServerOf(input[r]) = s}

\* Two goroutines use the cache's map and one of them writes it: the runtime
\* may end the process, and with it all its requests.
MapRace(s) ==
  /\ \E r, q \in OnServer(s) :
       /\ r # q
       /\ network[r] = "missed" /\ Exchange(r) \in Exchanges
       /\ network[q] \in {"pending", "missed"}
  /\ pc' = [r \in Requests |-> IF r \in OnServer(s) /\ pc[r] # "done" THEN "aborted" ELSE pc[r]]
  /\ network' = [r \in Requests |-> IF r \in OnServer(s) THEN "off" ELSE network[r]]
  /\ affiliate' = [r \in Requests |-> IF r \in OnServer(s) THEN "off" ELSE affiliate[r]]
  /\ account' = [r \in Requests |-> IF r \in OnServer(s) THEN "off" ELSE account[r]]
  /\ cache' = [cache EXCEPT ![s] = {}]
  /\ contentType' = IF s = "ingest" THEN "none" ELSE contentType
  /\ NoFault
  /\ UNCHANGED <<input, pool, found, minFee, answer, enqueued, redis, overlapped>>

Change == /\ events < MaxEvents /\ events' = events + 1
          /\ stable' = {}
          /\ UNCHANGED <<Handler, lookups, cache>>

\* cmd/initialize
SetBaseFee(b) == Change /\ baseFee' = b /\ UNCHANGED <<accounts, late>>

\* cmd/setdiscount writes a whole account: full discount, not blacklisted.
SetDiscount(m) ==
  /\ Change
  /\ accounts' = [accounts EXCEPT ![m] = [bl |-> FALSE, dp |-> 100, ends |-> TRUE]]
  /\ UNCHANGED <<baseFee, late>>

Expire == Change /\ ~late /\ late' = TRUE /\ UNCHANGED <<accounts, baseFee>>

Handle(r) == \/ Decorate(r) \/ Header(r) \/ Decode(r) \/ DecodePanics(r) \/ TakeNetwork(r)
             \/ TakeAffiliate(r) \/ PoolFee(r) \/ TakeAccount(r) \/ Answer(r) \/ Publish(r)
LookUp(r) == ReadCache(r) \/ QueryExchange(r) \/ GetAffiliate(r) \/ GetAccount(r)

Next ==
  \/ \E r \in Requests :
       \/ Arrive(r) \/ DecorateFails(r) \/ PoolFeeFails(r) \/ PublishFails(r)
       \/ QueryExchangeFails(r) \/ GetAffiliateFails(r) \/ GetAccountFails(r)
       \/ Handle(r) \/ LookUp(r)
  \/ \E s \in Servers : MapRace(s)
  \/ \E b \in BaseFees : SetBaseFee(b)
  \/ \E m \in Makers : SetDiscount(m)
  \/ Expire

Spec == Init /\ [][Next]_vars

\* The Go scheduler does not leave a request's goroutines waiting for ever.
FairSpec == Spec /\ \A r \in Requests : WF_vars(Handle(r) \/ LookUp(r))

-----------------------------------------------------------------------------
(* Properties.                                                             *)

Stages == {"idle", "pool", "header", "decode", "network", "affiliate", "poolFee", "account",
           "answer", "publish", "done", "aborted"}
Refusals == {"malformed", "refused", "fee"}

RequestTypes ==
  /\ pc \in [Requests -> Stages]
  /\ input \in [Requests -> Inputs \cup {NoInput}]
  /\ \A r \in Requests : pc[r] = "idle" <=> input[r] = NoInput
  /\ pool \in [Requests -> Pool]
  /\ contentType \in {"none", "json", "octet", "unknown"}
  /\ minFee \in [Requests -> Int]
  /\ answer \in [Requests -> Refusals \cup {"none", "accepted", "quoted", "unknown"}]
  /\ enqueued \subseteq Requests /\ stable \subseteq Requests /\ overlapped \subseteq Requests
LookupTypes ==
  /\ network \in [Requests -> {"off", "pending", "missed", "known", "unknown"}]
  /\ affiliate \in [Requests -> {"off", "pending", "known", "unknown"}]
  /\ account \in [Requests -> {"off", "pending", "found"}]
  /\ found \in [Requests -> [bl : BOOLEAN, dp : 0..100, ends : BOOLEAN, base : Nat]]
  /\ cache \in [Servers -> SUBSET Exchanges]
ServiceTypes ==
  /\ accounts \in [Makers -> Account]
  /\ baseFee \in Nat
  /\ late \in BOOLEAN
  /\ events \in 0..MaxEvents

\* The state of the handlers, of their lookups and of the services they ask.
TypeOK == RequestTypes /\ LookupTypes /\ ServiceTypes

CarriesOrder(r) == input[r] # NoInput /\ input[r].kind \in OrderKinds
MayRelay(i) == i.flaws = {} /\ i.exchange \in Exchanges /\ i.recipient \in Recipients
Told(r) == IF ~CarriesOrder(r) THEN "none"
           ELSE IF answer[r] \in Refusals THEN "refused" ELSE answer[r]

A == INSTANCE Admission WITH
       Orders <- {i \in Inputs : i.kind \in OrderKinds},
       Sound <- {i \in Inputs : i.kind \in OrderKinds /\ MayRelay(i)},
       NoOrder <- NoInput,
       order <- [r \in Requests |-> IF CarriesOrder(r) THEN input[r] ELSE NoInput],
       answer <- [r \in Requests |-> Told(r)]

\* The four handlers, racing with each other, with the errors of Redis and
\* the database and with the end of a server, keep what Admission promises:
\* no refused order is queued, none is queued twice or answered twice, and
\* no order with a flaw, an unknown exchange or recipient gets through
\* (ingest.Handler and PostOrder refuse before they publish).
Admits == A!Spec

\* ingest.Handler takes a request for what its own header says, unless
\* another request was in the handler at the same time: the content type is
\* kept in one variable for all of them.
DecodedAsSent ==
  \A r \in Requests \ overlapped :
    (CarriesOrder(r) /\ input[r].kind = "order") =>
      /\ answer[r] = "malformed" => ~OrderDecodes(input[r], input[r].type)
      /\ answer[r] \in {"accepted", "fee"} => OrderDecodes(input[r], input[r].type)

\* An order that pays what FeeHandler quoted to its maker for the same pool
\* is not refused for its fee, if nothing was changed and nothing failed
\* since the quote was asked for: quote and order compute the fee alike.
QuoteHonoured ==
  \A q, r \in stable :
    /\ answer[q] = "quoted" /\ CarriesOrder(r)
    /\ Maker(q) = Maker(r) /\ input[q].pool = input[r].pool
    /\ input[r].fee >= minFee[q]
    => answer[r] # "fee"

\* If no fault has met a request and no operator has changed anything since it
\* arrived, its order is not queued while its maker is blacklisted (an account
\* that cannot be read would be taken for one that is not); and an order that
\* was answered with 201 or 202 is on the queue once its handler is through
\* with it, unless its maker is blacklisted.  PostOrder is through when it
\* answers (post_order.go:320-336), ingest.Handler answers first
\* (ingest.go:351-356).
QueuedUnlessBlacklisted ==
  \A r \in stable :
    /\ r \in enqueued => ~accounts[Maker(r)].bl
    /\ (CarriesOrder(r) /\ answer[r] = "accepted" /\ pc[r] = "done")
         => r \in enqueued \/ accounts[Maker(r)].bl

\* In the end every request that arrived has been answered, unless its server
\* ended or its handler panicked: whatever order a handler takes its lookups
\* in, each sends its result, errors included.
Answered ==
  <>[](\A r \in Requests : pc[r] = "idle" \/ answer[r] # "none" \/ pc[r] = "aborted")
=============================================================================
